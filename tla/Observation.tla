--------------------------------- MODULE Observation ---------------------------------
(***************************************************************************)
(* How what the runtime does reaches the user.  The executor's one worker  *)
(* runs an operation, whose recorder emits events; back on the event loop, *)
(* its completion (_async_submit_runtime) signals one shared drain task    *)
(* that composes the new events into activities and tells the new          *)
(* revisions to the recipients; a third thread assesses heating episodes   *)
(* and emits events that nobody signals.                                   *)
(* (custom_components/controlel/host.py, notifications.py; the recorder,   *)
(* the composer, the planner and the monitor are modules of their own)     *)
(*                                                                         *)
(* What the control runtime decides is an input here: the evaluations of   *)
(* each scenario are the results it can give, in the orders it can give    *)
(* them (module ControlRuntime).  A scenario is one part of its behaviour. *)
(***************************************************************************)
EXTENDS OperationalEvents, UserActivities, Notifications, HeatingPerformance

CONSTANTS
    EventCapacity,   \* DEFAULT_OPERATIONAL_EVENT_CAPACITY (200)
    Scenarios,       \* the parts of the behaviour that are explored
    Temperatures,    \* bound: readings
    LateReadings,    \* scenarios where a reading may be older than the notice of its loss
    MaxTime,         \* bound: the clock, by scenario
    MaxEvents,       \* bound: events emitted, by scenario
    MaxReturns,      \* bound: operations finished, not yet back on the loop, by scenario
    MaxGenerations   \* bound: runtime generations

ASSUME ObservationConstants ==
    /\ EventCapacity \in Nat \ {0}
    /\ LateReadings \subseteq Scenarios
    /\ Temperatures \subseteq Int
    /\ Scenarios \subseteq {"measurement", "demand", "resilience", "supervision", "performance"}
    /\ MaxTime \in [Scenarios -> Nat]
    /\ MaxEvents \in [Scenarios -> Nat]
    /\ MaxReturns \in [Scenarios -> Nat]
    /\ MaxGenerations \in Nat

VARIABLES
    scenario,   \* the part of the behaviour explored
    now,
    source,     \* the last command the source executed, and when; or None
    reading,    \* the latest reading of the zone; or None
    rec,        \* the recorder
    stream,     \* the retained events and how many were emitted
    returns,    \* operations that finished on the worker, not yet on the loop
    accepting,  \* _accepting
    pending,    \* _notification_drain_pending
    drain,      \* _notification_task: None, or what it has left of a snapshot
    acts,       \* the composer and its activities
    notices,    \* the planner and the processor's cursor
    perf,       \* the observer of episodes and the monitor
    assessing,  \* an assessment task is scheduled or running
    streak,     \* distinct normal assessments since the last that was not
    signalled,  \* events emitted before the last signal
    stumbles    \* some event could not be composed

runtime == <<scenario, now, source, reading, rec>>
told == <<acts, notices>>
watched == <<perf, assessing, streak>>
marks == <<signalled, stumbles>>
vars == <<runtime, stream, returns, accepting, pending, drain, told, watched, marks>>

Init ==
    /\ scenario \in Scenarios
    /\ now = 1
    /\ source = None
    /\ reading = None
    /\ rec = [NoRecord EXCEPT !.supervision =
                [phase |-> "normal", authority |-> "normal", generation |-> 1, exhausted |-> FALSE]]
    /\ stream = [retained |-> <<>>, total |-> 0]
    /\ returns = 0
    /\ accepting = TRUE
    /\ pending = FALSE
    /\ drain = None
    /\ acts = NoActivities
    /\ notices = NoNotices
    /\ perf = NotObserved
    /\ assessing = FALSE
    /\ streak = {}
    /\ signalled = 0
    /\ stumbles = FALSE

(* OperationalEventStream.emit: the oldest event makes room.               *)
LastOf(events, n) == IF Len(events) > n THEN SubSeq(events, Len(events) - n + 1, Len(events)) ELSE events
Streamed(events) ==
    [retained |-> LastOf(stream.retained \o events, EventCapacity), total |-> stream.total + Len(events)]

Tick ==
    /\ accepting
    /\ now < MaxTime[scenario]
    /\ now' = now + 1
    /\ UNCHANGED <<scenario, source, reading, rec, stream, returns, accepting, pending, drain,
                   told, watched, marks>>

(***************************************************************************)
(* The executor's worker                                                   *)
(***************************************************************************)
Result(demand, phase, safety, reconciliation, by, command, fate) ==
    [at |-> now, demand |-> demand, phase |-> phase, safety |-> safety,
     reconciliation |-> reconciliation, by |-> by, command |-> command, fate |-> fate,
     until |-> IF fate = "deferred" THEN now + 1 ELSE None]

LastAction == IF source = None THEN None ELSE source.action
Fate(command) ==
    IF LastAction = command THEN {"suppressed"}
    ELSE IF scenario = "performance" THEN {"dispatched"} ELSE {"dispatched", "deferred"}

(* With a valid reading the demand is confirmed, pending or absent.        *)
Wanted(phase) == IF phase = "confirmed" THEN "enable" ELSE "disable"
PhasesNext ==
    IF scenario = "measurement" THEN {"no_heat"}
    ELSE IF scenario = "performance" THEN {"no_heat", "confirmed"}
    ELSE IF rec.phase = "confirmed" THEN {"no_heat", "confirmed"}
    ELSE {"no_heat", "pending", "confirmed"}
ValidResults ==
    UNION {{Result(IF phase = "confirmed" THEN "heat" ELSE "no_heat", phase, "determinate", None,
                   "demand", Wanted(phase), fate) : fate \in Fate(Wanted(phase))} : phase \in PhasesNext}

(* Without one it is unknown, and after the grace heating goes off.        *)
LostResults ==
    {Result("unknown", "indeterminate", "timed_out", None, "safety", "disable", fate) :
        fate \in Fate("disable") \ {"deferred"}}
    \cup (IF rec.safety = "timed_out" THEN {}
          ELSE {Result("unknown", "indeterminate", "grace", None, "demand", None, None)})

(* The source reports what it was not told; the demand stands.             *)
Desired == IF LastAction = None THEN "disable" ELSE LastAction
ResilienceResults ==
    {Result("no_heat", "no_heat", "determinate", "agreed", "demand", Desired, "suppressed"),
     Result("no_heat", "no_heat", "determinate", "holding", "resilience", None, "held"),
     Result("no_heat", "no_heat", "determinate", "correction_required", "resilience", Desired, "dispatched")}
    \cup (IF rec.reconciliation \in {"correction_required", "correction_pending"}
          THEN {Result("no_heat", "no_heat", "determinate", "correction_pending", "resilience", None, None)}
          ELSE {})

Applied(e) ==
    IF e.fate = "dispatched" THEN [action |-> e.command, at |-> now] ELSE source

(* _observe_heating_episodes: what the monitor is handed by an evaluation. *)
Watching == scenario = "performance"
Seen(e, r) ==
    IF ~Watching THEN perf
    ELSE Observe(perf, e.demand,
                 Sample(now, r, IF Applied(e) # None /\ Applied(e).action = "enable"
                                THEN Applied(e).at ELSE None))

(* An operation ends on the worker: its events are in the stream.          *)
Finishes(r, p) ==
    /\ accepting
    /\ returns < MaxReturns[scenario]
    /\ stream.total + Len(r.out) <= MaxEvents[scenario]
    /\ rec' = [r EXCEPT !.out = <<>>]
    /\ stream' = Streamed(r.out)
    /\ perf' = p
    /\ returns' = returns + 1
    /\ UNCHANGED <<scenario, now, accepting, pending, drain, told, assessing, streak, marks>>

Evaluates(r, e, latest) ==
    /\ Finishes(Evaluated(r, e), Seen(e, latest))
    /\ source' = Applied(e)
    /\ reading' = latest

(* process_temperature: the event of a valid measurement carries the time  *)
(* of the measurement, everything else that of the evaluation.             *)
Readings ==
    IF Watching THEN [value : Temperatures, at : {now}]
    ELSE IF scenario \notin LateReadings THEN [value : {Target}, at : {now}]
    ELSE {r \in [value : {Target}, at : {now - 1, now} \ {0}] : reading = None \/ r.at > reading.at}
Reading ==
    /\ scenario \in {"measurement", "demand", "performance"}
    /\ \E r \in Readings, e \in ValidResults :
          /\ Watching => (e.demand = "heat" \/ rec.demand = "heat")
          /\ Evaluates(Measured(rec, "valid", r.at), e, r)

(* mark_measurement_indeterminate *)
Loss ==
    /\ scenario \in {"measurement", "demand"}
    /\ \E condition \in {"stale", "unavailable"}, e \in LostResults :
          Evaluates(Measured(rec, condition, now), e, reading)

(* A scheduled or manual evaluation of what is known.                      *)
Reevaluation ==
    /\ scenario \in {"measurement", "demand", "performance"}
    /\ rec.measurement # None
    /\ \E e \in IF rec.measurement = "valid" THEN ValidResults ELSE LostResults :
          /\ Watching => rec.demand = "heat"
          /\ Evaluates(rec, e, reading)

(* ingest_reported_source_state *)
Report ==
    /\ scenario = "resilience"
    /\ \E state \in {"enabled", "disabled"}, e \in ResilienceResults :
          /\ e.reconciliation = "agreed" <=> (state = "disabled") = (Desired = "disable")
          /\ Evaluates(ReportedSource(rec, state, now), e, reading)

(* The service call of a command fails: no evaluation is recorded.         *)
CommandFails ==
    /\ scenario \in {"demand", "resilience"}
    /\ Finishes(CommandFailed(rec, "disable", now,
                              scenario = "resilience" /\ rec.reconciliation = "correction_required"), perf)
    /\ UNCHANGED <<source, reading>>

(* report_fatal: the failed runtime is quarantined, the failsafe takes     *)
(* over and sends what it needs.                                           *)
Supervise(phase, authority, generation, exhausted) ==
    [phase |-> phase, authority |-> authority, generation |-> generation, exhausted |-> exhausted]
Fatal ==
    /\ scenario = "supervision"
    /\ rec.supervision.generation < MaxGenerations
    /\ LET generation == rec.supervision.generation + 1
           activity == <<"supervision", generation>>
           fatal == RuntimeFatal(rec, now, activity)
           stopped == IF rec.supervision.authority = "normal" THEN RuntimeStopped(fatal, now) ELSE fatal
           failsafe == Supervision(stopped, Supervise("failsafe", "failsafe", generation, FALSE), now)
       IN  \E off \in BOOLEAN :
              Finishes(IF off THEN Commanded(failsafe, "disable", now, activity) ELSE failsafe, perf)
    /\ UNCHANGED <<source, reading>>

(* request_restart *)
Restart ==
    /\ scenario = "supervision"
    /\ rec.supervision.phase \in {"failsafe", "restart_wait"}
    /\ LET generation == rec.supervision.generation
           started == RestartAttemptStarted(rec, now, generation)
           failed == RestartAttemptFailed(started, now, generation)
       IN  \/ Finishes(Supervision(RuntimeStarted(started, now), Supervise("normal", "normal", generation, FALSE), now), perf)
           \/ Finishes(Supervision(failed, Supervise("restart_wait", "failsafe", generation, FALSE), now), perf)
           \/ Finishes(Supervision(failed, Supervise("restart_exhausted", "failsafe", generation, TRUE), now), perf)
    /\ UNCHANGED <<source, reading>>

Operation == Reading \/ Loss \/ Reevaluation \/ Report \/ CommandFails \/ Fatal \/ Restart

(***************************************************************************)
(* The event loop                                                          *)
(***************************************************************************)
NoWork == [left |-> {}, intents |-> <<>>, gap |-> FALSE, total |-> 0, fresh |-> TRUE]

(* The finally of _async_submit_runtime: an assessment is scheduled when   *)
(* an episode waits, the drain is marked pending and started if none runs. *)
(* Episodes are followed in a host without a coordinator of notifications. *)
Signals == accepting /\ ~Watching
Return_KeepsQuiet ==
    /\ returns > 0
    /\ returns' = returns - 1
    /\ signalled' = IF Signals THEN stream.total ELSE signalled
    /\ assessing' = (assessing \/ perf.pending # None)
    /\ pending' = (pending \/ (Signals /\ drain = None))
    /\ drain' = IF Signals /\ drain = None THEN NoWork ELSE drain
    /\ UNCHANGED <<runtime, stream, accepting, told, perf, streak, stumbles>>

Return ==
    /\ returns > 0
    /\ returns' = returns - 1
    /\ signalled' = IF Signals THEN stream.total ELSE signalled
    /\ assessing' = (assessing \/ perf.pending # None)
    /\ pending' = (pending \/ Signals)
    /\ drain' = IF Signals /\ drain = None THEN NoWork ELSE drain
    /\ UNCHANGED <<runtime, stream, accepting, told, perf, streak, stumbles>>

(* async_process_new_events: compose everything, and take a snapshot of    *)
(* the revisions to process, unless some event could not be composed.      *)
Compose ==
    /\ drain # None /\ drain.fresh
    /\ pending
    /\ pending' = FALSE
    /\ acts' = ProcessAvailable(acts, stream.retained, stream.total)
    /\ stumbles' = (stumbles \/ acts'.stumbled)
    /\ drain' = IF acts'.stumbled THEN NoWork
                ELSE [NoWork EXCEPT !.fresh = FALSE, !.total = acts'.revisions,
                                    !.left = Unread(notices, acts'.activities)]
    /\ UNCHANGED <<runtime, stream, returns, accepting, notices, watched, signalled>>

(* One revision: what is missing before it, then the intents it makes.     *)
Judge ==
    /\ drain # None /\ ~drain.fresh /\ drain.intents = <<>> /\ drain.left # {}
    /\ LET revision == NextIn(drain.left)
           gap == revision.seq > notices.cursor + 1
           planned == Plan(IF gap THEN Skip(notices, revision.seq) ELSE notices, revision)
           done == [planned.plan EXCEPT !.cursor = revision.seq, !.judged = @ + 1]
       IN  IF planned.intents = <<>>
           THEN /\ notices' = done
                /\ drain' = [drain EXCEPT !.left = @ \ {revision}, !.gap = @ \/ gap]
           ELSE /\ notices' = planned.plan
                /\ drain' = [drain EXCEPT !.intents = planned.intents, !.gap = @ \/ gap]
    /\ UNCHANGED <<runtime, stream, returns, accepting, pending, acts, watched, marks>>

(* The notify service answers - delivered or failed, it is told once - and *)
(* after the last recipient the cursor moves.                              *)
Answer ==
    /\ drain # None /\ drain.intents # <<>>
    /\ LET last == Len(drain.intents) = 1
           revision == NextIn(drain.left)
       IN  /\ drain' = [drain EXCEPT !.intents = Tail(@), !.left = IF last THEN @ \ {revision} ELSE @]
           /\ notices' = IF last THEN [notices EXCEPT !.cursor = revision.seq, !.judged = @ + 1]
                         ELSE notices
    /\ UNCHANGED <<runtime, stream, returns, accepting, pending, acts, watched, marks>>

(* The end of a pass; the task goes round while work is pending.           *)
Finish ==
    /\ drain # None
    /\ IF drain.fresh THEN ~pending /\ notices' = notices
       ELSE /\ drain.left = {}
            /\ notices' = EndPass(notices, drain.total, drain.gap)
    /\ drain' = IF pending THEN NoWork ELSE None
    /\ UNCHANGED <<runtime, stream, returns, accepting, pending, acts, watched, marks>>

Drain == Compose \/ Judge \/ Answer \/ Finish

(* async_stop: nothing more is accepted, the drain task is cancelled; the  *)
(* runtime's stop ends the episodes, which are assessed before the end.    *)
Stop ==
    /\ accepting
    /\ accepting' = FALSE
    /\ drain' = None
    /\ perf' = Terminate(perf)
    /\ stream' = Streamed(RuntimeStopped([rec EXCEPT !.out = <<>>], now).out)
    /\ returns' = returns + 1
    /\ UNCHANGED <<runtime, pending, told, assessing, streak, marks>>

(***************************************************************************)
(* The assessment thread                                                   *)
(***************************************************************************)
Assess ==
    /\ assessing
    /\ perf.pending # None
    /\ LET done == Assessed([perf EXCEPT !.pending = None], perf.pending)
           r == [rec EXCEPT !.out = [i \in DOMAIN done.out |->
                                        HeatingAnomaly(NoRecord, done.out[i]).out[1]]]
       IN  /\ perf' = done.perf
           /\ streak' = IF done.raw # "normal" THEN {}
                        ELSE {id \in streak : id[1] = done.id[1]} \cup {done.id}
           /\ stream' = Streamed(r.out)
    /\ UNCHANGED <<runtime, returns, accepting, pending, drain, told, assessing, marks>>

AssessEnds ==
    /\ assessing
    /\ perf.pending = None
    /\ assessing' = FALSE
    /\ UNCHANGED <<runtime, stream, returns, accepting, pending, drain, told, perf, streak, marks>>

Next == Tick \/ Operation \/ Return \/ Drain \/ Stop \/ Assess \/ AssessEnds

Spec == Init /\ [][Next]_vars

(* The loop runs what is ready, and the notify service answers in the end: *)
(* weak fairness, with the guards of the actions written out, under which  *)
(* each of them can always take a step.                                    *)
FairSpec ==
    /\ Spec
    /\ []<>(returns = 0) \/ []<><<Return>>_vars
    /\ []<>(drain = None) \/ []<><<Drain>>_vars

(***************************************************************************)
(* Properties                                                              *)
(***************************************************************************)
(* Every event and every revision before a cursor was composed (processed) *)
(* or counted as missed, once, however the bounded buffers overran; what   *)
(* lies before neither cursor was emitted.                                 *)
AccountingIsExact ==
    /\ acts.cursor = acts.composed + acts.missed
    /\ acts.cursor <= stream.total
    /\ notices.cursor = notices.judged + notices.missed
    /\ notices.cursor <= acts.revisions

(* Once the composer has caught up, an activity that is shown as open is   *)
(* about an incident that still lasts: a recovery is never lost, not even  *)
(* with the events that were pushed out before they were read.  The one    *)
(* exception is a batch the composer could not finish, because a recovery  *)
(* stamped with a late reading lies before the beginning of its activity.  *)
OpenNoticeIsCurrent ==
    (acts.cursor = stream.total /\ ~stumbles) =>
        \A a \in acts.activities :
            (a.type = "measurement_degraded" /\ a.status = "open") => a.of = rec.incident

(* Again and again everything is read that had been emitted when the last  *)
(* operation returned, unless the host stops or an event cannot be         *)
(* composed: no signal is lost to a drain that is about to end.            *)
SignalIsAnswered == []<>(acts.cursor >= signalled \/ ~accepting \/ stumbles)

(* An anomaly is declared over only by that many distinct assessments in a *)
(* row that found nothing wrong.                                           *)
Cleared(events) == \E i \in DOMAIN events : events[i].code = "heating_anomaly" /\ events[i].detail = "cleared"
RecoveryIsConfirmed ==
    [][(stream'.total > stream.total /\ Cleared(LastOf(stream'.retained, stream'.total - stream.total)))
        => Cardinality(streak') >= Confirmations]_vars

(* When nothing waits to be assessed, an anomaly that is shown as active   *)
(* is one of the episode that is being observed.                           *)
AnomalyIsOfThisEpisode ==
    (perf.pending = None /\ perf.anomaly # None) =>
        perf.episode # None /\ perf.episode.started = perf.anomaly
==============================================================================
