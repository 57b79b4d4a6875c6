------------------------------ MODULE Watchdog ------------------------------
(***************************************************************************)
(* deployment/hummingbot/watchdog.py: a oneshot service, started by a      *)
(* timer, that inspects the container of the Hummingbot recorder and the   *)
(* newest snapshot file of every market and restarts the container, at     *)
(* most once in a cooldown whose stamp lies in a file.  Around it: the     *)
(* recorder, whose files begin empty every day, crashes, hangs, a failing  *)
(* docker and kills of the watchdog itself.                                *)
(*                                                                         *)
(* Time is kept as ages: "how long ago", in units of the timer's period    *)
(* and up to a limit beyond which no comparison of the program changes.    *)
(***************************************************************************)
EXTENDS Integers

CONSTANTS Markets,     \* HB_MARKETS
          MaxAge,      \* HB_MAX_AGE_SECONDS
          Cooldown,    \* HB_RESTART_COOLDOWN_SECONDS
          Period,      \* OnUnitInactiveSec of the timer
          RunTime,     \* the longest run: both subprocess timeouts
          MaxFaults    \* bound: kills of the watchdog, full disks

ASSUME WatchdogAssumption ==
    /\ Markets # {}
    /\ MaxAge \in Nat \ {0}
    /\ {Cooldown, Period, RunTime, MaxFaults} \subseteq Nat

OldFile == MaxAge + RunTime + 1
OldCall == Cooldown + RunTime + 1
Older(age, limit) == IF age < limit THEN age + 1 ELSE limit

VARIABLES container,   \* up, hung (running, nothing written) or down
          newest,      \* [Markets -> the newest snapshot file]
          rowAge,      \* history: age of the last row written, per market
          dry,         \* HB_DRY_RUN
          pc,          \* where main is
          now,         \* how long ago this run called time.time()
          running,     \* what docker inspect said
          idle,        \* how long the unit has been inactive
          stamp,       \* state_dir/last_restart
          healthy,     \* history: the run just ended with status 0, healthy
          called,      \* history: age of the last call of docker restart
          faults

outside == <<container, newest, rowAge>>
history == <<healthy, called>>
run     == <<pc, now, running, idle>>
vars    == <<outside, dry, run, stamp, history, faults>>

Files  == [kind : {"none", "empty", "rows"}, age : 0 .. OldFile]
Stamps == [kind : {"absent", "torn", "time"}, age : 0 .. OldCall]

WatchdogTypeOK ==
    /\ container \in {"up", "hung", "down"}
    /\ newest \in [Markets -> Files]
    /\ rowAge \in [Markets -> 0 .. OldFile]
    /\ dry \in BOOLEAN
    /\ pc \in {"inactive", "inspect", "check", "decide", "stamp", "call"}
    /\ now \in 0 .. RunTime
    /\ running \in BOOLEAN
    /\ idle \in 0 .. Period
    /\ stamp \in Stamps
    /\ healthy \in BOOLEAN
    /\ called \in 0 .. OldCall
    /\ faults \in 0 .. MaxFaults

(* The container was never started, or it was and its files lie there.     *)
Init ==
    /\ container \in {"up", "down"}
    /\ newest = [m \in Markets |->
                    [kind |-> IF container = "up" THEN "empty" ELSE "none", age |-> 0]]
    /\ rowAge = [m \in Markets |-> OldFile]
    /\ dry \in BOOLEAN
    /\ pc = "inactive"
    /\ now = 0
    /\ running = FALSE
    /\ idle = 0
    /\ stamp = [kind |-> "absent", age |-> 0]
    /\ healthy = FALSE
    /\ called = OldCall
    /\ faults = 0

-----------------------------------------------------------------------------
(* The container and its recorder.                                         *)

(* Opening for append creates a file that is missing and leaves one that   *)
(* is there as it was; after midnight the file of the day is a new one.    *)
Opened(files, midnight) ==
    [m \in Markets |-> IF midnight \/ files[m].kind = "none"
                       THEN [kind |-> "empty", age |-> 0]
                       ELSE files[m]]

(* dump_and_clean_temp_storage flushes what was held of one market.        *)
WriteRows(m) ==
    /\ container = "up"
    /\ newest' = [newest EXCEPT ![m] = [kind |-> "rows", age |-> 0]]
    /\ rowAge' = [rowAge EXCEPT ![m] = 0]
    /\ healthy' = FALSE
    /\ UNCHANGED <<container, dry, run, stamp, called, faults>>

(* check_and_replace_files in the first tick of a day.                     *)
Midnight ==
    /\ container = "up"
    /\ newest' = Opened(newest, TRUE)
    /\ healthy' = FALSE
    /\ UNCHANGED <<container, rowAge, dry, run, stamp, called, faults>>

RecorderFails ==
    /\ container = "up"
    /\ container' \in {"hung", "down"}
    /\ healthy' = FALSE
    /\ UNCHANGED <<newest, rowAge, dry, run, stamp, called, faults>>

-----------------------------------------------------------------------------
(* One run of main.                                                        *)

(* A step of the run that leaves the container, the files and the call     *)
(* alone.                                                                  *)
Inside == UNCHANGED <<outside, dry, called>>

Goto(place) ==
    /\ pc' = place
    /\ UNCHANGED <<now, idle, healthy>>

(* The unit becomes inactive and its timer begins to count.                *)
Return(isHealthy) ==
    /\ pc' = "inactive"
    /\ now' = 0
    /\ running' = FALSE
    /\ idle' = 0
    /\ healthy' = isHealthy

Start ==
    /\ pc = "inactive"
    /\ idle >= Period
    /\ Goto("inspect")
    /\ Inside
    /\ UNCHANGED <<running, stamp, faults>>

(* "docker inspect", which may fail or time out while the container runs.  *)
Inspect ==
    /\ pc = "inspect"
    /\ running' \in {container # "down", FALSE}
    /\ Goto("check")
    /\ Inside
    /\ UNCHANGED <<stamp, faults>>

(* A modification after "now" counts as age 0.                             *)
AgeAtNow(age) == IF age > now THEN age - now ELSE 0

(* Faulty variant: a file counts from the moment it is created.            *)
MarketYoung(m) == newest[m].kind # "none" /\ AgeAtNow(newest[m].age) <= MaxAge

(* Faulty variant: a file counts as long as there is something in it.      *)
MarketFilled(m) == newest[m].kind = "rows"

(* check_health on the newest snapshot file of a market.                   *)
MarketOK(m) ==
    /\ newest[m].kind = "rows"
    /\ AgeAtNow(newest[m].age) <= MaxAge

CheckHealthy ==
    /\ pc = "check"
    /\ running
    /\ \A m \in Markets : MarketOK(m)
    /\ Return(TRUE)
    /\ Inside
    /\ UNCHANGED <<stamp, faults>>

CheckUnhealthy ==
    /\ pc = "check"
    /\ ~(running /\ \A m \in Markets : MarketOK(m))
    /\ IF dry THEN Return(FALSE) ELSE Goto("decide") /\ UNCHANGED running
    /\ Inside
    /\ UNCHANGED <<stamp, faults>>

CoolingDown == stamp.kind = "time" /\ stamp.age - now < Cooldown

(* float("") raises ValueError; a restart within the cooldown is           *)
(* suppressed: status 2 and 1.                                             *)
Suppress ==
    /\ pc = "decide"
    /\ stamp.kind = "torn" \/ CoolingDown
    /\ Return(FALSE)
    /\ Inside
    /\ UNCHANGED <<stamp, faults>>

(* write_text opens the stamp, which truncates it ...                      *)
OpenStamp ==
    /\ pc = "decide"
    /\ stamp.kind # "torn" /\ ~CoolingDown
    /\ stamp' = [kind |-> "torn", age |-> 0]
    /\ Goto("stamp")
    /\ Inside
    /\ UNCHANGED <<running, faults>>

(* ... and writes the time this run began.                                 *)
WriteStamp ==
    /\ pc = "stamp"
    /\ stamp' = [kind |-> "time", age |-> now]
    /\ Goto("call")
    /\ Inside
    /\ UNCHANGED <<running, faults>>

(* Either OSError (the disk is full) ends the run, or a kill does; both    *)
(* leave the stamp as it is.                                               *)
RunBreaks ==
    /\ pc # "inactive"
    /\ faults < MaxFaults
    /\ faults' = faults + 1
    /\ Return(FALSE)
    /\ Inside
    /\ UNCHANGED stamp

(* Faulty variant: "docker start" leaves a hung container as it is.        *)
StartWorks ==
    /\ pc = "call"
    /\ container' = IF container = "down" THEN "up" ELSE container
    /\ \E midnight \in BOOLEAN :
          newest' = IF container = "down" THEN Opened(newest, midnight) ELSE newest
    /\ called' = 0
    /\ Return(FALSE)
    /\ UNCHANGED <<rowAge, dry, stamp, faults>>

(* "docker restart": the container stops and starts, or does only half of  *)
(* it or nothing (a status that is not 0, or no answer in 90 seconds).     *)
RestartWorks ==
    /\ pc = "call"
    /\ container' = "up"
    /\ \E midnight \in BOOLEAN : newest' = Opened(newest, midnight)
    /\ called' = 0
    /\ Return(FALSE)
    /\ UNCHANGED <<rowAge, dry, stamp, faults>>

(* Faulty variant: a restart that failed takes its stamp back.             *)
RestartFailsUnstamped ==
    /\ pc = "call"
    /\ container' \in {container, "down"}
    /\ called' = 0
    /\ stamp' = [kind |-> "absent", age |-> 0]
    /\ Return(FALSE)
    /\ UNCHANGED <<newest, rowAge, dry, faults>>

RestartFails ==
    /\ pc = "call"
    /\ container' \in {container, "down"}
    /\ called' = 0
    /\ Return(FALSE)
    /\ UNCHANGED <<newest, rowAge, dry, stamp, faults>>

-----------------------------------------------------------------------------

(* Time passes, but the timer starts a run that is due and no run is       *)
(* longer than the timeouts of its subprocesses allow.                     *)
Tick ==
    /\ IF pc = "inactive" THEN idle < Period ELSE now < RunTime
    /\ idle' = IF pc = "inactive" THEN idle + 1 ELSE idle
    /\ now' = IF pc = "inactive" THEN now ELSE now + 1
    /\ newest' = [m \in Markets |-> IF newest[m].kind = "none" THEN newest[m]
                                    ELSE [newest[m] EXCEPT !.age = Older(@, OldFile)]]
    /\ rowAge' = [m \in Markets |-> Older(rowAge[m], OldFile)]
    /\ stamp' = IF stamp.kind = "time" THEN [stamp EXCEPT !.age = Older(@, OldCall)] ELSE stamp
    /\ called' = Older(called, OldCall)
    /\ healthy' = FALSE
    /\ UNCHANGED <<container, dry, pc, running, faults>>

Step ==
    \/ Start \/ Inspect \/ CheckHealthy \/ CheckUnhealthy
    \/ Suppress \/ OpenStamp \/ WriteStamp \/ RestartWorks \/ RestartFails

Next ==
    \/ \E m \in Markets : WriteRows(m)
    \/ Midnight
    \/ RecorderFails
    \/ Step
    \/ RunBreaks
    \/ Tick

(* systemd starts the unit when its timer elapses, a started run goes on,  *)
(* time passes; and docker restart works if it is tried again and again.   *)
Fairness == WF_vars(Step) /\ WF_vars(Tick) /\ SF_vars(RestartWorks)

Spec == Init /\ [][Next]_vars /\ Fairness

-----------------------------------------------------------------------------

(* Between two calls of docker restart lies the cooldown, up to the time a *)
(* run takes from time.time() to its call: across kills, failed restarts   *)
(* and whatever the container does in between.                             *)
RestartsSpaced ==
    [][pc = "call" /\ called' = 0 => called >= Cooldown - RunTime]_vars

(* "Collector healthy" is only said when rows of every market were written *)
(* within the allowed age before the run began: the file that a recorder   *)
(* opens at midnight or after a restart does not count, however young.     *)
HealthyMeansRecorded ==
    healthy => \A m \in Markets : rowAge[m] <= MaxAge + RunTime

(* An outage, also one without an exit, ends with a container that is up   *)
(* again: restarts that fail are tried again after the cooldown.  Unless   *)
(* the watchdog only reports, or a kill or a full disk ended a run between *)
(* the two halves of the write of its stamp, which stops it for good.      *)
OutageEnds ==
    container # "up" ~>
        (container = "up" \/ dry \/ (stamp.kind = "torn" /\ pc = "inactive"))
=============================================================================
