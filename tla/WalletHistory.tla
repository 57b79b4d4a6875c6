---------------------------- MODULE WalletHistory ----------------------------
(***************************************************************************)
(* A wallet's fills downloaded page by page while the wallet goes on       *)
(* trading, saved in batches, merged from the batches, and cut into        *)
(* trading episodes.  One coin; the exchange's list of fills is external.  *)
(***************************************************************************)
EXTENDS Integers, Sequences, FiniteSets, Sorting, SequencesExt

CONSTANTS MaxFillsPerRequest, MaxAvailableFills,
          Starts, Ends,  \* dates a download may be asked for
          Sizes,         \* signed quantities of fills
          Profit,        \* of each fill, should it reduce the position
          MaxTime,       \* bound: the last millisecond
          MaxLedger,     \* bound: fills of the wallet
          MaxBatches     \* bound: saved downloads

ASSUME WalletAssumption ==
    /\ MaxFillsPerRequest \in Nat \ {0} /\ MaxAvailableFills \in Nat \ {0}
    /\ Sizes \subseteq Int \ {0}
    /\ Starts \subseteq 1..MaxTime /\ Ends \subseteq 1..MaxTime
    /\ MaxTime \in Nat /\ MaxLedger \in Nat /\ MaxBatches \in Nat
    /\ Profit \in [1..MaxLedger -> Int]

VARIABLES ledger,     \* the exchange: the wallet's fills in order
          phase,      \* of HyperliquidWalletLoader.download
          request,    \* start_time_ms, end_time_ms and current_start
          fills,      \* the pages so far
          known,      \* history: the ledger's length at the last request
          cuts,       \* history: the last time of each full page
          batches     \* the files under processed/wallets

walletVars == <<ledger, phase, request, fills, known, cuts, batches>>

NoEnd == MaxTime + 1   \* end_time_ms is None

Milliseconds == 1..MaxTime

NoRequest == [start |-> 1, end |-> NoEnd, current |-> 1]

WalletInit ==
    /\ ledger = <<>>
    /\ phase = "idle"
    /\ request = NoRequest
    /\ fills = <<>>
    /\ known = 0
    /\ cuts = {}
    /\ batches = <<>>

-----------------------------------------------------------------------------
(* The exchange                                                            *)

Position(i) == IF i = 0 THEN 0 ELSE ledger[i].start + ledger[i].size

Now == IF ledger = <<>> THEN 1 ELSE Last(ledger).time

Trade(size, time) ==
    LET start == Position(Len(ledger))
        n == Len(ledger) + 1
    IN /\ Len(ledger) < MaxLedger
       /\ time >= Now
       /\ ledger' = Append(ledger, [id |-> n, time |-> time, start |-> start, size |-> size,
                                    pnl |-> IF start * size < 0 THEN Profit[n] ELSE 0])
       /\ UNCHANGED <<phase, request, fills, known, cuts, batches>>

FillsUntil(time) == Max({0} \cup {i \in DOMAIN ledger : ledger[i].time <= time})

(* userFillsByTime: the oldest fills of the interval, a page of them       *)
UserFillsByTime(start, end) ==
    LET before == FillsUntil(start - 1)
    IN SubSeq(ledger, before + 1, Min({FillsUntil(end), before + MaxFillsPerRequest}))

-----------------------------------------------------------------------------
(* HyperliquidWalletLoader                                                 *)

Download(start, end) ==
    /\ phase = "idle"
    /\ Len(batches) < MaxBatches
    /\ phase' = "paging"
    /\ request' = [start |-> start, end |-> end, current |-> start]
    /\ UNCHANGED <<ledger, fills, known, cuts, batches>>

NextStart(page) == Last(page).time + 1

(* One turn of the loop of _download_raw.                                  *)
RequestPage ==
    LET page == UserFillsByTime(request.current, request.end)
        more == Len(fills) + Len(page) < MaxAvailableFills
        next == NextStart(page)
    IN /\ phase = "paging"
       /\ known' = Len(ledger)
       /\ fills' = fills \o page
       /\ \/ /\ Len(page) < MaxFillsPerRequest
             /\ phase' = "saving"
             /\ UNCHANGED <<request, cuts>>
          \/ /\ Len(page) = MaxFillsPerRequest
             /\ request' = [request EXCEPT !.current = next]
             /\ cuts' = cuts \cup {Last(page).time}
             /\ phase' = IF next <= request.end /\ more THEN "paging" ELSE "saving"
       /\ UNCHANGED <<ledger, batches>>

(* The variables of the call are gone.                                     *)
Return ==
    /\ phase' = "idle"
    /\ request' = NoRequest
    /\ fills' = <<>> /\ known' = 0 /\ cuts' = {}

(* requests.post or raise_for_status raises: nothing is saved              *)
RequestFails ==
    /\ phase = "paging"
    /\ Return
    /\ UNCHANGED <<ledger, batches>>

(* Faulty variant: only more fills than there can be count as incomplete.  *)
MayBeIncompleteAbove(raw) == Len(raw) > MaxAvailableFills

MayBeIncomplete(raw) == Len(raw) >= MaxAvailableFills

(* The fills at some positions, by time; the sort is stable.              *)
SortedByTime(s, kept) ==
    LET order == InOrder(kept, {p \in kept \X kept :
                                   \/ s[p[1]].time < s[p[2]].time
                                   \/ s[p[1]].time = s[p[2]].time /\ p[1] < p[2]})
    IN [n \in DOMAIN order |-> s[order[n]]]

(* Faulty variant: the last of equal fills is kept.                        *)
DeduplicateKeepLast(s) ==
    SortedByTime(s, {i \in DOMAIN s : \A j \in DOMAIN s : j > i => s[j].id # s[i].id})

(* The first of equal fills is kept.                                       *)
Deduplicate(s) ==
    SortedByTime(s, {i \in DOMAIN s : \A j \in DOMAIN s : j < i => s[j].id # s[i].id})

(* The file name {wallet}_{start}_{end}_{downloaded}; a later download has *)
(* a later name.                                                           *)
BatchName == <<request.start, request.end, Len(batches) + 1>>

(* return fills[:MAX_AVAILABLE_FILLS]; _save_raw, _save_processed          *)
Save ==
    LET raw == SubSeq(fills, 1, Min({Len(fills), MaxAvailableFills}))
    IN /\ phase = "saving"
       /\ batches' = Append(batches,
              [name |-> BatchName, start |-> request.start, end |-> request.end,
               fills |-> Deduplicate(raw), incomplete |-> MayBeIncomplete(raw), known |-> known, cuts |-> cuts])
       /\ Return
       /\ UNCHANGED ledger

(* load_saved, the batches in some order of their file names               *)
LoadSaved(order) ==
    Deduplicate(FoldLeft(LAMBDA all, n : all \o batches[n].fills, <<>>, order))

-----------------------------------------------------------------------------
(* EpisodeBuilder                                                          *)

End(f) == f.start + f.size

Flipped(f) == f.start * End(f) < 0

NoEpisodes == [episodes |-> <<>>, current |-> <<>>, pnl |-> 0, synchronized |-> FALSE]

MakeEpisode(b) == [b EXCEPT !.episodes = Append(@, [fills |-> b.current, pnl |-> b.pnl])]

(* Before the builder knows a moment at which the wallet was flat.         *)
Synchronize(b, f) ==
    IF End(f) = 0 THEN [b EXCEPT !.synchronized = TRUE]
    ELSE IF Flipped(f) THEN [b EXCEPT !.synchronized = TRUE, !.current = <<f>>, !.pnl = 0]
    ELSE b

(* No episode is open.                                                     *)
Open(b, f) ==
    IF f.start # 0 THEN [b EXCEPT !.synchronized = FALSE]
    ELSE IF End(f) # 0 THEN [b EXCEPT !.synchronized = TRUE, !.current = <<f>>, !.pnl = f.pnl]
    ELSE [b EXCEPT !.synchronized = TRUE]

(* Faulty variant: the profit of a flip counts for both episodes.          *)
ContinueCountsFlipTwice(b, f) ==
    LET grown == [b EXCEPT !.current = Append(@, f), !.pnl = @ + f.pnl]
    IN IF End(f) = 0 THEN [MakeEpisode(grown) EXCEPT !.current = <<>>, !.pnl = 0]
       ELSE IF Flipped(f) THEN [MakeEpisode(grown) EXCEPT !.current = <<f>>, !.pnl = f.pnl]
       ELSE grown

Continue(b, f) ==
    LET grown == [b EXCEPT !.current = Append(@, f), !.pnl = @ + f.pnl]
    IN IF End(f) = 0 THEN [MakeEpisode(grown) EXCEPT !.current = <<>>, !.pnl = 0]
       ELSE IF Flipped(f) THEN [MakeEpisode(grown) EXCEPT !.current = <<f>>, !.pnl = 0]
       ELSE grown

TakeFill(b, f) ==
    IF ~b.synchronized /\ f.start # 0 THEN Synchronize(b, f)
    ELSE IF b.current = <<>> THEN Open(b, f)
    ELSE Continue(b, f)

BuildCoin(s) == FoldLeft(TakeFill, NoEpisodes, s).episodes

(* What build returns of fills that all have a start_position: those at the*)
(* positions `perpetual`, whose direction is one of PERP_DIRECTIONS, reach *)
(* _build_coin.  Which label the exchange gives a flip or a liquidation is *)
(* external.                                                               *)
Build(s, perpetual) == BuildCoin(SortedByTime(s, perpetual))

-----------------------------------------------------------------------------

WalletNext ==
    \/ \E size \in Sizes, time \in Milliseconds : Trade(size, time)
    \/ \E start \in Starts, end \in Ends \cup {NoEnd} : Download(start, end)
    \/ RequestPage \/ RequestFails \/ Save

WalletSpec == WalletInit /\ [][WalletNext]_walletVars

-----------------------------------------------------------------------------

(* What a download that is not flagged as possibly incomplete misses of the*)
(* fills that existed when it asked last: only fills of the very           *)
(* millisecond at which a page was cut off.                                *)
OnlyTiesAreLost ==
    \A b \in ToSet(batches) : ~b.incomplete =>
        \A i \in 1..b.known :
            b.start <= ledger[i].time /\ ledger[i].time <= b.end =>
                ledger[i] \in ToSet(b.fills) \/ ledger[i].time \in b.cuts

(* The merged history has no fill twice, and the fills in the exchange's   *)
(* own order, those of one millisecond too, whichever batches overlap and  *)
(* in whichever order their files are read.                                *)
MergedInOrder ==
    \A order \in SetToSeqs(DOMAIN batches) :
        LET merged == LoadSaved(order)
        IN \A i, j \in DOMAIN merged : i < j => merged[i].id < merged[j].id

(* What a reader of the saved batches may rely on, together: all that was  *)
(* there except fills tied with a page's last, and nothing twice or out of *)
(* order.                                                                  *)
(* Hazard: pages are cut by time, batches overlap, and the wallet trades   *)
(* on between two requests.                                                *)
MergedHistory == OnlyTiesAreLost /\ MergedInOrder

(* A trip goes from flat, or a flip, to the next flat or flip.             *)
IsTrip(s, i, j) ==
    /\ s[i].start = 0 \/ Flipped(s[i])
    /\ End(s[j]) = 0 \/ Flipped(s[j])
    /\ \A k \in i..(j - 1) : End(s[k]) # 0
    /\ \A k \in (i + 1)..(j - 1) : ~Flipped(s[k])

(* Of fills that tell of no gap between them.                              *)
Connected(s) == \A i \in 2..Len(s) : s[i].start = End(s[i - 1])

Trips(s) == {t \in (DOMAIN s) \X (DOMAIN s) : t[1] < t[2] /\ IsTrip(s, t[1], t[2])}

TripEpisode(s, t) ==
    [fills |-> SubSeq(s, t[1], t[2]),
     pnl |-> FoldFunctionOnSet(+, 0, [k \in DOMAIN s |-> s[k].pnl], (t[1] + 1)..t[2])]

(* From wherever the history starts, even inside a trip, and whichever     *)
(* fills the direction filter drops, every episode is a trip of the fills  *)
(* that are kept, with all of them in it and the profit of its own closing *)
(* fills; the profit of a flip belongs to the trip it ends.  When the kept *)
(* fills are connected, no complete trip is missing.                       *)
(* Hazard: the builder tells flat from unknown by one flag, through fills  *)
(* it never sees.                                                          *)
EpisodesAreTrips ==
    \A from \in DOMAIN ledger :
        LET s == SubSeq(ledger, from, Len(ledger))
        IN \A perpetual \in SUBSET DOMAIN s :
              LET kept == SortedByTime(s, perpetual)
                  episodes == ToSet(Build(s, perpetual))
                  all == {TripEpisode(kept, t) : t \in Trips(kept)}
              IN episodes \subseteq all /\ (Connected(kept) => episodes = all)
=============================================================================
