------------------------------- MODULE Supervisor -------------------------------
(* The supervisor of the live collector: one loop that notices a dead         *)
(* collector, waits longer and longer before it starts the next one, and, on  *)
(* its way out, stops the collector and audits the raw files that have no     *)
(* sidecar. Supervisors come one after the other; a killed one leaves its     *)
(* collector behind.                                                          *)
(*                                                                            *)
(* A collector is its process and one raw file (files rotate in BookRecorder, *)
(* tasks end in LiveCollector). Times are ages and remaining times in ticks.  *)
(* The loop's own statements take no time.                                    *)
EXTENDS Integers, FiniteSets, FiniteSetsExt

CONSTANTS
    Collectors,    \* bound: processes with their files; a sealed one is reused
    Interval,      \* health_interval_seconds
    MaxBackoff,    \* restart_max_backoff_seconds
    StormWindow,   \* restart_storm_window_seconds
    Grace,         \* skip_newer_than_seconds of the sweep at the start
    DurationWait, StopWait, TermWait,  \* the three timeouts of the finally block
    Durations,     \* values of --duration-minutes
    WriteEvery,    \* assumption: a running collector writes at least that often
    None

ASSUME SupervisorAssumption ==
    /\ {Interval, MaxBackoff, StormWindow, DurationWait, StopWait, TermWait, WriteEvery} \subseteq Nat \ {0}
    /\ Grace \in Nat /\ WriteEvery < Grace
    /\ Durations \subseteq Nat \cup {None}
    /\ None \notin Collectors

VARIABLES
    pc,            \* where the supervisor is
    timer,         \* what is left of the sleep or the timeout it is in
    stop,          \* a signal arrived
    left,          \* what is left until the deadline, or None
    child,         \* the collector it started, or None
    ran,           \* how long ago
    delay,         \* how long until next_child_start
    short,         \* consecutive_short_failures
    storm,         \* ages of the RestartStormDetector's timestamps
    down,          \* for how long there has been no collector
    outcome,       \* how the last supervisor ended
    coll,          \* collector -> "running", "stopping" or "over"
    own,           \* collectors of the present or the last supervisor
    quiet,         \* collector -> age of its file's mtime
    sidecar        \* its file's sidecar: "none", "true" or, when rows came after, "stale"

watch == <<child, ran, delay, short, storm, down>>
files == <<quiet, sidecar>>
vars == <<pc, timer, stop, left, watch, outcome, coll, own, files>>

Least(a, b) == IF a < b THEN a ELSE b
Alive(c) == coll[c] # "over"
ChildAlive == child # None /\ Alive(child)
ChildDead == child # None /\ ~Alive(child)
Free == {c \in Collectors : ~Alive(c) /\ sidecar[c] = "true" /\ c # child}
Looping == {"loop", "serve", "asleep"}

Init ==
    /\ pc = "off" /\ timer = 0 /\ stop = FALSE /\ left = None
    /\ child = None /\ ran = 0 /\ delay = 0 /\ short = 0 /\ storm = {} /\ down = 0
    /\ outcome = "closed" /\ own = {}
    /\ coll = [c \in Collectors |-> "over"]
    /\ quiet = [c \in Collectors |-> 0] /\ sidecar = [c \in Collectors |-> "true"]

Go(p, time) == pc' = p /\ timer' = time

(* finalize_orphan_sidecars *)
Sweep(grace) ==
    /\ sidecar' = [c \in Collectors |->
                      IF sidecar[c] = "none" /\ quiet[c] >= grace THEN "true" ELSE sidecar[c]]
    /\ UNCHANGED quiet

--------------------------------------------------------------------------------
(* main, up to the loop *)

StartUp ==
    /\ pc = "off" /\ Free # {}
    /\ Sweep(Grace)
    /\ Go("loop", 0) /\ left' \in Durations /\ own' = {} /\ outcome' = "none"
    /\ UNCHANGED <<stop, watch, coll>>

(* The loop *)
Doubled[n \in Nat] == IF n < 2 THEN 1 ELSE 2 * Doubled[n - 1]
Backoff(n) == Least(Doubled[n], MaxBackoff)

(* Once the backoff is at its maximum, further failures change nothing.       *)
Shorts == {n \in 0..MaxBackoff + 1 : n < 2 \/ Backoff(n - 1) < MaxBackoff}

\* Fault: any run as long as the backoff counts as a recovery.
ShortAfterAnyRun == IF ran >= Backoff(short) THEN 0 ELSE Least(short + 1, Max(Shorts))
ShortAfter == IF ran >= StormWindow THEN 0 ELSE Least(short + 1, Max(Shorts))

Notice ==
    /\ pc = "loop" /\ ~stop /\ left # 0
    /\ ChildDead
    /\ storm' = storm \cup {0}
    /\ short' = ShortAfter /\ delay' = Backoff(ShortAfter)
    /\ child' = None /\ ran' = 0
    /\ Go("serve", 0)
    /\ UNCHANGED <<stop, left, down, outcome, coll, own, files>>

\* Fault: the next start is put off again by every round of the loop.
WatchRestartsDelay ==
    /\ pc = "loop" /\ ~stop /\ left # 0
    /\ ~ChildDead
    /\ IF child = None /\ delay = 0
       THEN \E c \in Free :
              /\ child' = c /\ ran' = 0 /\ down' = 0
              /\ coll' = [coll EXCEPT ![c] = "running"] /\ own' = own \cup {c}
              /\ quiet' = [quiet EXCEPT ![c] = 0] /\ sidecar' = [sidecar EXCEPT ![c] = "none"]
              /\ UNCHANGED delay
       ELSE delay' = (IF child = None THEN Backoff(short) ELSE delay)
            /\ UNCHANGED <<child, ran, down, coll, own, files>>
    /\ Go("serve", 0)
    /\ UNCHANGED <<stop, left, short, storm, outcome>>
Watch ==
    /\ pc = "loop" /\ ~stop /\ left # 0
    /\ ~ChildDead
    /\ IF child = None /\ delay = 0
       THEN \E c \in Free :
              /\ child' = c /\ ran' = 0 /\ down' = 0
              /\ coll' = [coll EXCEPT ![c] = "running"] /\ own' = own \cup {c}
              /\ quiet' = [quiet EXCEPT ![c] = 0] /\ sidecar' = [sidecar EXCEPT ![c] = "none"]
       ELSE UNCHANGED <<child, ran, down, coll, own, files>>
    /\ Go("serve", 0)
    /\ UNCHANGED <<stop, left, delay, short, storm, outcome>>

(* Health, sync and rebuild never wait and never touch the collector.         *)
Serve ==
    /\ pc = "serve"
    /\ Go("asleep", IF left = None THEN Interval ELSE 1)
    /\ UNCHANGED <<stop, left, watch, outcome, coll, own, files>>

Wake ==
    /\ pc = "asleep" /\ timer = 0
    /\ Go("loop", 0)
    /\ UNCHANGED <<stop, left, watch, outcome, coll, own, files>>

(* A signal, the deadline, a disk that is full, or a process or a journal     *)
(* line that cannot be made.                                                  *)
Leave ==
    /\ \/ pc = "loop" /\ (stop \/ left = 0)
       \/ pc \in {"loop", "serve"}
    /\ Go("ending", 0)
    /\ UNCHANGED <<stop, left, watch, outcome, coll, own, files>>

--------------------------------------------------------------------------------
(* The finally block *)

Interrupt == coll' = [coll EXCEPT ![child] = "stopping"] /\ Go("interrupted", StopWait)

Ending ==
    /\ pc = "ending"
    /\ IF ~ChildAlive THEN Go("sweep", 0) /\ UNCHANGED coll
       ELSE IF left # None THEN Go("waiting", DurationWait) /\ UNCHANGED coll
       ELSE Interrupt
    /\ UNCHANGED <<stop, left, watch, outcome, own, files>>

ChildEnded ==
    /\ pc \in {"waiting", "interrupted", "terminated"} /\ ~Alive(child)
    /\ Go("sweep", 0)
    /\ UNCHANGED <<stop, left, watch, outcome, coll, own, files>>

WaitedLong ==
    /\ pc = "waiting" /\ timer = 0 /\ Alive(child)
    /\ Interrupt
    /\ UNCHANGED <<stop, left, watch, outcome, own, files>>

(* SIGTERM is one more request_stop for the collector.                        *)
Terminate ==
    /\ pc = "interrupted" /\ timer = 0 /\ Alive(child)
    /\ Go("terminated", TermWait)
    /\ UNCHANGED <<stop, left, watch, outcome, coll, own, files>>

(* The supervisor's process is over.                                          *)
Gone(how) ==
    /\ outcome' = how
    /\ Go("off", 0) /\ stop' = FALSE /\ left' = None
    /\ child' = None /\ ran' = 0 /\ delay' = 0 /\ short' = 0 /\ storm' = {} /\ down' = 0

(* TimeoutExpired ends the finally block: no sweep, no manifest, no status.   *)
\* Fault: the last timeout is swallowed like the first.
GiveUpQuietly ==
    /\ pc = "terminated" /\ timer = 0 /\ Alive(child)
    /\ Go("sweep", 0)
    /\ UNCHANGED <<stop, left, watch, outcome, coll, own, files>>
GiveUp ==
    /\ pc = "terminated" /\ timer = 0 /\ Alive(child)
    /\ Gone("aborted") /\ own' = {}
    /\ UNCHANGED <<coll, files>>

FinalSweep ==
    /\ pc = "sweep"
    /\ Sweep(0) /\ Go("close", 0)
    /\ UNCHANGED <<stop, left, watch, outcome, coll, own>>

(* Manifest, journal and status *)
Close ==
    /\ pc = "close"
    /\ Gone("closed")
    /\ UNCHANGED <<coll, own, files>>

--------------------------------------------------------------------------------
(* Signals, deaths and time *)

(* A signal to the supervisor, or to the terminal and so to both.             *)
RequestStop ==
    /\ pc \in Looping /\ ~stop
    /\ stop' = TRUE
    /\ \/ UNCHANGED coll
       \/ ChildAlive /\ coll' = [coll EXCEPT ![child] = "stopping"]
    /\ UNCHANGED <<pc, timer, left, watch, outcome, own, files>>

Kill ==
    /\ pc # "off" /\ Free # {}
    /\ Gone("killed") /\ own' = {}
    /\ UNCHANGED <<coll, files>>

MachineStops ==
    /\ pc # "off" /\ Free # {}
    /\ Gone("killed") /\ own' = {}
    /\ coll' = [c \in Collectors |-> "over"]
    /\ UNCHANGED files

Write(c) ==
    /\ Alive(c) /\ (quiet[c] > 0 \/ sidecar[c] = "true")
    /\ quiet' = [quiet EXCEPT ![c] = 0]
    /\ sidecar' = [sidecar EXCEPT ![c] = IF @ = "true" THEN "stale" ELSE @]
    /\ UNCHANGED <<pc, timer, stop, left, watch, outcome, coll, own>>

(* It ends and seals its file, or it dies.                                    *)
CollectorEnds(c) ==
    /\ Alive(c)
    /\ coll' = [coll EXCEPT ![c] = "over"]
    /\ quiet' = [quiet EXCEPT ![c] = 0] /\ sidecar' = [sidecar EXCEPT ![c] = "true"]
    /\ UNCHANGED <<pc, timer, stop, left, watch, outcome, own>>

CollectorDies(c) ==
    /\ Alive(c) /\ Free # {}
    /\ coll' = [coll EXCEPT ![c] = "over"]
    /\ UNCHANGED <<pc, timer, stop, left, watch, outcome, own, files>>

MostDown == MaxBackoff + 2 * Interval

(* At the deadline the collectors that were given it stop by themselves.      *)
Tick ==
    /\ \/ pc = "off"
       \/ pc = "asleep" /\ timer > 0
       \/ pc \in {"waiting", "interrupted", "terminated"} /\ timer > 0 /\ Alive(child)
    /\ \A c \in Collectors : coll[c] = "running" => quiet[c] < WriteEvery
    /\ timer' = IF pc = "off" THEN 0 ELSE timer - 1
    /\ left' = IF left \in {None, 0} THEN left ELSE left - 1
    /\ coll' = IF left' = 0 /\ ChildAlive THEN [coll EXCEPT ![child] = "stopping"] ELSE coll
    /\ ran' = IF child = None THEN 0 ELSE Least(ran + 1, StormWindow)
    /\ delay' = IF delay = 0 THEN 0 ELSE delay - 1
    /\ storm' = {a + 1 : a \in storm} \cap 0..StormWindow
    /\ down' = IF pc = "off" \/ ChildAlive THEN 0 ELSE Least(down + 1, MostDown + 1)
    /\ quiet' = [c \in Collectors |->
                    IF ~Alive(c) /\ sidecar[c] # "none" THEN 0 ELSE Least(quiet[c] + 1, Grace)]
    /\ UNCHANGED <<pc, stop, child, short, outcome, own, sidecar>>

Next ==
    \/ StartUp \/ Notice \/ Watch \/ Serve \/ Wake \/ Leave
    \/ Ending \/ ChildEnded \/ WaitedLong \/ Terminate \/ GiveUp \/ FinalSweep \/ Close
    \/ RequestStop \/ Kill \/ MachineStops \/ Tick
    \/ \E c \in Collectors : Write(c) \/ CollectorEnds(c) \/ CollectorDies(c)

Spec == Init /\ [][Next]_vars /\ WF_vars(Next)

--------------------------------------------------------------------------------

(* A collector that is gone is replaced before long, however often it dies    *)
(* and whatever the rest of the loop is busy with (run_live_supervisor.py     *)
(* 70-88): damping never becomes giving up.                                   *)
ReplacedInTime == pc \in Looping /\ ~stop /\ left # 0 => down <= MostDown

(* In any storm window the collector dies only as often as the growing        *)
(* backoff leaves room for (compute_backoff_seconds, the reset of the count): *)
(* no pattern of deaths makes the supervisor forget that it was too fast.     *)
Spacing[n \in Nat] == IF n = 0 THEN 0 ELSE Spacing[n - 1] + Backoff(n - 1) + 1
RestartsDamped == \A n \in 1..Cardinality(storm) - 1 : Spacing[n] <= StormWindow

(* A session that wrote its manifest left nothing behind: its collectors are  *)
(* over, and every file whose writer is over has a sidecar (finally block).   *)
ManifestMeansDone ==
    outcome = "closed" =>
        /\ \A c \in own : ~Alive(c)
        /\ \A c \in own : sidecar[c] = "true"
================================================================================
