----------------------------- MODULE LiveCollector -----------------------------
(* The live collector: one task follows the five-minute markets (it discovers *)
(* the next one before the current one ends, records both over the boundary   *)
(* and has a report written on the closed one), one records ticks, and run()  *)
(* waits for the first to end and takes the others down.                      *)
(*                                                                            *)
(* Market k has the window [k * Window, (k + 1) * Window). A recorder is what *)
(* BookRecorder says: asked to stop it ends, or fails, or takes too long.     *)
(* Timers fire on time; calls that wait for others take time or never end.    *)
EXTENDS Integers, FiniteSets

CONSTANTS
    Window, Prediscovery, Overlap, Grace,  \* seconds of the settings, in ticks
    Poll,          \* poll_seconds
    Patience,      \* the timeout of the two wait_for
    AskTime,       \* bound: the longest discovery call
    ReportTime,    \* bound: the longest report, if it ends
    Starts,        \* when in the first window the collector may start
    Duration,      \* duration_minutes
    MaxMishaps,    \* bound: failures of calls, recorders, reports
    Unset

ASSUME TimesAssumption ==
    /\ {Window, Prediscovery, Overlap, Grace, Poll, Patience, AskTime, ReportTime, Duration,
        MaxMishaps} \subseteq Nat
    /\ Starts \subseteq 0..Window - 1
    /\ Overlap <= Prediscovery /\ Prediscovery <= Window /\ Poll > 0
    /\ Grace + Patience + ReportTime <= Window - Prediscovery
    /\ Unset \notin Int

VARIABLES
    now,
    stopSet,       \* _stop is set
    at,            \* where run_book_forever is
    cur, nxt,      \* markets of its current and its next recorder, or Unset
    due,           \* when the call or the sleep it is in ends at the latest
    target, applied, \* of the GammaDiscoveryWorker
    recorder,      \* market -> its recorder's task
    begun, ended,  \* market not yet left -> when its recorder was started, and
                   \* when it was asked to stop or failed, or Unset
    journals,      \* markets whose session journal is open
    ticks,         \* the tick recorder's task
    run,           \* run(): "running", "ending", "clean" or "failed"
    pending,       \* tasks it has yet to wait for
    until,         \* when it gives up on the task it waits for
    mishaps

book == <<at, cur, nxt, due, target, applied>>
records == <<recorder, begun, ended, journals>>
main == <<ticks, run, pending, until>>
collectorVars == <<now, stopSet, book, records, main, mishaps>>

Markets == 0 .. (Duration \div Window) + 1
EndOf(k) == (k + 1) * Window
Mishap == mishaps < MaxMishaps /\ mishaps' = mishaps + 1
BookEnded == at \in {"over", "raised", "cut"}

CollectorInit ==
    /\ now \in Starts
    /\ stopSet = FALSE
    /\ at = "find" /\ cur = Unset /\ nxt = Unset /\ due = 0
    /\ target = Unset /\ applied = {}
    /\ recorder = [k \in Markets |-> "none"]
    /\ begun = [k \in Markets |-> Unset] /\ ended = [k \in Markets |-> Unset]
    /\ journals = {}
    /\ ticks = "running" /\ run = "running" /\ pending = {} /\ until = 0
    /\ mishaps = 0

At(s) == at = s
Go(s, time) == at' = s /\ due' = time

(* request_stop reaches the recorders that exist, not those started later.    *)
Stopping == [k \in Markets |-> IF recorder[k] = "running" THEN "stopping" ELSE recorder[k]]
Asked == [k \in Markets |-> IF recorder[k] = "running" THEN now ELSE ended[k]]

--------------------------------------------------------------------------------
(* GammaDiscoveryWorker.discover, called by one task only: a target is        *)
(* applied once while it is the target.                                       *)

Applied(t) == IF t = target THEN applied ELSE applied \cap {t}
Ask(t, asking, idle) ==
    /\ target' = t /\ applied' = Applied(t)
    /\ IF t \in applied' THEN Go(idle, now + Poll) ELSE Go(asking, now + AskTime)

\* Fault: a target counts as applied whatever the call returned.
NotAppliedMarks == applied' = applied \cup {target}
NotApplied == UNCHANGED applied

--------------------------------------------------------------------------------
(* run_book_forever                                                           *)

(* _start_book: the file and the journal are opened, the task is created.     *)
Start(k) ==
    /\ recorder' = [recorder EXCEPT ![k] = "running"]
    /\ begun' = [begun EXCEPT ![k] = now]
    /\ journals' = journals \cup {k}
    /\ UNCHANGED ended

FindMarket ==
    /\ At("find")
    /\ IF stopSet THEN Go("over", now) /\ UNCHANGED <<target, applied>>
       ELSE Ask(now \div Window, "finding", "waiting")
    /\ UNCHANGED <<now, stopSet, cur, nxt, records, main, mishaps>>

Found ==
    /\ At("finding")
    /\ applied' = applied \cup {target}
    /\ cur' = target /\ Start(target) /\ Go("watch", now)
    /\ UNCHANGED <<now, stopSet, nxt, target, main, mishaps>>

NotFound ==
    /\ At("finding") /\ NotApplied
    /\ Go("waiting", now + Poll)
    /\ Mishap
    /\ UNCHANGED <<now, stopSet, cur, nxt, target, records, main>>

FindAgain ==
    /\ At("waiting") /\ (stopSet \/ now >= due)
    /\ Go("find", now)
    /\ UNCHANGED <<now, stopSet, cur, nxt, target, applied, records, main, mishaps>>

Watched ==
    /\ At("watch") /\ (stopSet \/ now >= EndOf(cur) - Prediscovery)
    /\ Go(IF stopSet THEN "grace" ELSE "next", now)
    /\ UNCHANGED <<now, stopSet, cur, nxt, target, applied, records, main, mishaps>>

(* wait_for_next_market                                                       *)
FindNext ==
    /\ At("next")
    /\ IF stopSet \/ now >= EndOf(cur) THEN Go("grace", now) /\ UNCHANGED <<target, applied>>
       ELSE Ask(cur + 1, "asking", "sleeping")
    /\ UNCHANGED <<now, stopSet, cur, nxt, records, main, mishaps>>

FoundNext ==
    /\ At("asking")
    /\ applied' = applied \cup {target}
    /\ nxt' = target /\ Go("overlap", now)
    /\ UNCHANGED <<now, stopSet, cur, target, records, main, mishaps>>

Earlier(a, b) == IF a < b THEN a ELSE b
NextNotFound ==
    /\ At("asking") /\ NotApplied
    /\ IF now >= EndOf(cur) THEN Go("grace", now) ELSE Go("sleeping", Earlier(now + Poll, EndOf(cur)))
    /\ Mishap
    /\ UNCHANGED <<now, stopSet, cur, nxt, target, records, main>>

FindNextAgain ==
    /\ At("sleeping") /\ (stopSet \/ now >= due)
    /\ Go("next", now)
    /\ UNCHANGED <<now, stopSet, cur, nxt, target, applied, records, main, mishaps>>

(* The next recorder is started, also after a stop.                           *)
StartNext ==
    /\ At("overlap") /\ (stopSet \/ now >= EndOf(cur) - Overlap)
    /\ Start(nxt) /\ Go("grace", now)
    /\ UNCHANGED <<now, stopSet, cur, nxt, target, applied, main, mishaps>>

(* The file or the journal of a recorder cannot be opened.                    *)
StartFails ==
    /\ \/ At("finding")
       \/ At("overlap") /\ (stopSet \/ now >= EndOf(cur) - Overlap)
    /\ Go("raised", now)
    /\ Mishap
    /\ UNCHANGED <<now, stopSet, cur, nxt, target, applied, records, main>>

StopRecorder ==
    /\ At("grace") /\ (stopSet \/ now >= EndOf(cur) + Grace)
    /\ IF recorder[cur] = "running"
       THEN /\ recorder' = [recorder EXCEPT ![cur] = "stopping"]
            /\ ended' = [ended EXCEPT ![cur] = now]
       ELSE UNCHANGED <<recorder, ended>>
    /\ Go("await", now + Patience)
    /\ UNCHANGED <<now, stopSet, cur, nxt, target, applied, begun, journals, main, mishaps>>

(* The task is awaited, or cancelled after Patience.                          *)
Await ==
    /\ At("await")
    /\ \/ recorder[cur] = "ended" /\ UNCHANGED recorder
       \/ recorder[cur] = "stopping" /\ now >= due /\ recorder' = [recorder EXCEPT ![cur] = "cut"]
    /\ journals' = journals \ {cur}
    /\ Go("report", now + ReportTime)
    /\ UNCHANGED <<now, stopSet, cur, nxt, target, applied, begun, ended, main, mishaps>>

AwaitRaises ==
    /\ At("await") /\ recorder[cur] = "failed"
    /\ Go("raised", now)
    /\ UNCHANGED <<now, stopSet, cur, nxt, target, applied, records, main, mishaps>>

(* run_market_coverage_report waits for its process without a timeout.        *)
ReportHangs ==
    /\ At("report")
    /\ Go("hung", now)
    /\ Mishap
    /\ UNCHANGED <<now, stopSet, cur, nxt, target, applied, records, main>>

Reported ==
    /\ At("report")
    /\ cur' = nxt /\ nxt' = Unset
    /\ Go(IF stopSet THEN "over" ELSE IF nxt = Unset THEN "find" ELSE "watch", now)
    /\ begun' = [begun EXCEPT ![cur] = Unset] /\ ended' = [ended EXCEPT ![cur] = Unset]
    /\ UNCHANGED <<now, stopSet, target, applied, recorder, journals, main, mishaps>>

BookStep ==
    \/ FindMarket \/ Found \/ NotFound \/ FindAgain \/ Watched
    \/ FindNext \/ FoundNext \/ NextNotFound \/ FindNextAgain
    \/ StartNext \/ StartFails \/ StopRecorder \/ Await \/ AwaitRaises
    \/ ReportHangs \/ Reported

--------------------------------------------------------------------------------
(* The recorders' tasks.                                                      *)

RecorderEnds(k) ==
    /\ recorder[k] = "stopping"
    /\ recorder' = [recorder EXCEPT ![k] = "ended"]
    /\ UNCHANGED <<now, stopSet, book, begun, ended, journals, main, mishaps>>

RecorderFails(k) ==
    /\ recorder[k] \in {"running", "stopping"}
    /\ recorder' = [recorder EXCEPT ![k] = "failed"]
    /\ ended' = [ended EXCEPT ![k] = IF @ = Unset THEN now ELSE @]
    /\ Mishap
    /\ UNCHANGED <<now, stopSet, book, begun, journals, main>>

TicksEnd ==
    /\ ticks = "running" /\ stopSet
    /\ ticks' = "ended"
    /\ UNCHANGED <<now, stopSet, book, records, run, pending, until, mishaps>>

TicksFail ==
    /\ ticks = "running"
    /\ ticks' = "failed"
    /\ Mishap
    /\ UNCHANGED <<now, stopSet, book, records, run, pending, until>>

--------------------------------------------------------------------------------
(* run() and the signal handler.                                              *)

RequestStop ==
    /\ ~stopSet /\ run = "running"
    /\ stopSet' = TRUE
    /\ recorder' = Stopping /\ ended' = Asked
    /\ UNCHANGED <<now, book, begun, journals, main, mishaps>>

(* Steps of the book task that need nothing and nobody.                       *)
BookReady ==
    \/ at \in {"find", "next"}
    \/ at \in {"watch", "waiting", "sleeping", "overlap", "grace"} /\ stopSet
    \/ at = "watch" /\ now >= EndOf(cur) - Prediscovery
    \/ at = "overlap" /\ now >= EndOf(cur) - Overlap
    \/ at = "grace" /\ now >= EndOf(cur) + Grace
    \/ at \in {"waiting", "sleeping"} /\ now >= due
    \/ at = "await" /\ recorder[cur] \in {"ended", "failed"}

TasksLeft ==
    {t \in {"book", "ticks"} : IF t = "book" THEN ~BookEnded ELSE ticks = "running"}

(* The first task has ended: a recorder's, or after a stop the lag tracker's, *)
(* which is woken together with the others.                                   *)
FirstEnds ==
    /\ run = "running" /\ ~BookReady
    /\ stopSet \/ TasksLeft # {"book", "ticks"}
    /\ run' = "ending" /\ pending' = TasksLeft /\ until' = now + Patience
    /\ stopSet' = TRUE
    /\ recorder' = Stopping /\ ended' = Asked
    /\ UNCHANGED <<now, book, begun, journals, ticks, mishaps>>

(* wait_for of one pending task after the other.                              *)
\* Fault: without a timeout.
WaitsForever(t) ==
    /\ run = "ending" /\ t \in pending \ TasksLeft
    /\ (IF t = "book" THEN at # "raised" ELSE ticks # "failed")
    /\ pending' = pending \ {t} /\ until' = now + Patience
    /\ UNCHANGED <<now, stopSet, book, records, ticks, run, mishaps>>
WaitFor(t) ==
    /\ run = "ending" /\ t \in pending
    /\ \/ t \notin TasksLeft /\ UNCHANGED <<at, ticks, recorder>>
       \/ /\ t \in TasksLeft /\ now >= until
          /\ at' = IF t = "book" THEN "cut" ELSE at
          /\ ticks' = IF t = "ticks" THEN "cut" ELSE ticks
          /\ recorder' = IF t = "book" /\ at = "await"
                         THEN [recorder EXCEPT ![cur] = IF @ = "stopping" THEN "cut" ELSE @]
                         ELSE recorder
    /\ (IF t = "book" THEN at # "raised" ELSE ticks # "failed")
    /\ pending' = pending \ {t} /\ until' = now + Patience
    /\ UNCHANGED <<now, stopSet, cur, nxt, due, target, applied, begun, ended, journals, run, mishaps>>

(* A pending task that raised ends run() at once.                             *)
WaitRaises(t) ==
    /\ run = "ending" /\ t \in pending
    /\ IF t = "book" THEN at = "raised" ELSE ticks = "failed"
    /\ run' = "failed"
    /\ UNCHANGED <<now, stopSet, book, records, ticks, pending, until, mishaps>>

Exit ==
    /\ run = "ending" /\ pending = {}
    /\ run' = IF at = "raised" \/ ticks = "failed" THEN "failed" ELSE "clean"
    /\ UNCHANGED <<now, stopSet, book, records, ticks, pending, until, mishaps>>

(* Time passes while everybody waits.                                         *)
Exited == run \in {"clean", "failed"}
Tick ==
    /\ ~Exited /\ ~BookReady
    /\ now < Duration \/ stopSet
    /\ at \in {"finding", "asking", "report", "await"} => now < due
    /\ ~(run = "running" /\ (stopSet \/ TasksLeft # {"book", "ticks"}))
    /\ run = "ending" => now < until
    /\ now' = now + 1
    /\ UNCHANGED <<stopSet, book, records, main, mishaps>>

CollectorNext ==
    \/ ~Exited /\ (BookStep \/ TicksEnd \/ TicksFail)
    \/ ~Exited /\ \E k \in Markets : RecorderEnds(k) \/ RecorderFails(k)
    \/ RequestStop \/ FirstEnds \/ Exit \/ Tick
    \/ \E t \in {"book", "ticks"} : WaitFor(t) \/ WaitRaises(t)

(* Everything here is bounded: the event loop runs whatever can run, and time *)
(* passes. No task is forced to end.                                          *)
CollectorSpec == CollectorInit /\ [][CollectorNext]_collectorVars /\ WF_collectorVars(CollectorNext)

--------------------------------------------------------------------------------

(* Discovery has the time it needs before the boundary, though it fails every *)
(* time it may and though the report before it was late by a call.            *)
Lateness == IF AskTime > Grace THEN AskTime - Grace ELSE 0
DiscoveryInTime ==
    Overlap > 0 /\ Lateness + MaxMishaps * (AskTime + Poll) + AskTime < Prediscovery

(* A market that was recorded when the prediscovery of its successor began is *)
(* followed without a gap: its successor's recorder has been started before   *)
(* the boundary, and its own goes on until the grace period is over, however  *)
(* long the report on its predecessor took (within ReportTime), and though    *)
(* discovery fails and is repeated (run_book_forever, wait_for_next_market).  *)
NoGap ==
    \A k \in Markets :
        /\ begun[k] # Unset /\ now >= EndOf(k)
        /\ ~stopSet /\ at \notin {"hung", "raised"}
        => /\ begun[k] <= EndOf(k) - Prediscovery => begun[k + 1] # Unset /\ begun[k + 1] <= EndOf(k)
           /\ \/ recorder[k] = "failed"
              \/ ended[k] = Unset
              \/ ended[k] >= EndOf(k) + Grace

(* A stop ends the collector, though a report hangs or a recorder does not    *)
(* end (the timeouts of run).                                                 *)
CollectorEnds == stopSet ~> Exited

================================================================================
