---------------------------------- MODULE HeatingHost ----------------------------------
(***************************************************************************)
(* What surrounds the control runtime in Home Assistant:                   *)
(* HomeAssistantControlelHost with its executor, scheduler, failure sink   *)
(* and event loop bridge (host.py, runtime_executor.py, scheduler.py,      *)
(* failure_sink.py, event_loop_bridge.py of custom_components/controlel),  *)
(* as async_setup_entry of __init__.py composes them.                      *)
(*                                                                         *)
(* Coroutines of the host run on the event loop; each submits the          *)
(* operations of the runtime and its supervisor one at a time to a queue   *)
(* that one worker thread empties.  A coroutine is at rest only while its  *)
(* operation is in that queue, so a queue entry is also the program        *)
(* counter of the coroutine that waits for it, and an entry's completion   *)
(* takes the coroutine to its next submission.                             *)
(*                                                                         *)
(* The runtime and the supervisor are what the host needs of them: which   *)
(* runtime is alive, who has the authority, and the timer each has armed.  *)
(* ControlRuntime and RuntimeSupervisor have the rest.  Left out: the      *)
(* notifications, assessments and projections after an operation (see      *)
(* Observation), the diagnostics' read, the fatal shutdown of a host       *)
(* without a supervisor, and the manual recovery timer.                    *)
(***************************************************************************)
EXTENDS ZoneHeatDelivery, SequencesExt

CONSTANTS
    AttemptLimit,   \* restart_policy.attempt_limit
    Fittings,       \* the sets of actuators a host may have
    MaxEvents       \* bound, by fitting: states of the two entities, timers armed,
                    \* and operations that fail, together (and one actuator set by hand)

ASSUME HostBounds ==
    /\ AttemptLimit \in Nat \ {0}
    /\ MaxEvents \in [Fittings -> Nat]

VARIABLES
    host,     \* the host's own state and its coroutines, see HostType
    arrived,  \* history: the temperature states the host took in, in order
    rt,       \* the runtime and its supervisor, see RuntimeType
    worker,   \* the timer the running operation is installing, or None
    timers,   \* timers of Home Assistant still to come
    source,   \* the version of the source entity's state
    lost,     \* history: timers that came before the scheduler had their handle
    unheard,  \* history: a fatal failure was reported and not yet acted upon
    used      \* how much of each bound is used

vars == <<host, arrived, rt, worker, timers, source, lost, unheard, used, delivery>>
environment == <<arrived, source>>

Fitted == DOMAIN actuators
Room == Len(arrived) + source + used.timers + used.failures < MaxEvents[Fitted]

(* A state of the temperature entity; one that does not map to a           *)
(* measurement is not usable.                                              *)
Reading == [version : Nat, usable : BOOLEAN]

(* An operation in the queue: by whose coroutine, and for the runtime that *)
(* was the host's at the time.                                             *)
Entry == [by : {"init", "reader", "callback", "stop"},
          op : {"begin", "report_supervisor", "report_runtime", "trust", "process", "mark",
                "mark_again", "timer", "fatal", "stop", "cancel_all"},
          of : Maybe(Nat) \cup Reading, runtime : Nat]

HostType ==
    [init : {"new", "begin", "reading", "done", "failed"},
     stop : {"no", "asked", "gather", "runtime", "timers", "close", "stopped"},
     accepting : BOOLEAN, buffering : BOOLEAN,
     buffer : Seq(Reading), live : Seq(Reading),
     version : Nat,               \* _last_state_version
     reported : Nat,              \* the version of _reported_source_evidence
     snapshot : Nat,              \* the source state read when subscribing, 0 for none
     queue : Seq(Entry)]

RuntimeType ==
    [latest : Nat, stopped : BOOLEAN,            \* the host's runtime
     authority : {"normal", "failsafe"}, attempts : Nat,
     deadline : Maybe(Nat), restart : Maybe(Nat), \* the timers armed
     report : Nat]                               \* reported_source_evidence

Init ==
    /\ host = [init |-> "new", stop |-> "no", accepting |-> TRUE, buffering |-> TRUE,
               buffer |-> <<>>, live |-> <<>>, version |-> 0, reported |-> 0, snapshot |-> 0,
               queue |-> <<>>]
    /\ arrived = <<>> /\ source = 0
    /\ rt = [latest |-> 1, stopped |-> FALSE, authority |-> "normal", attempts |-> 0,
             deadline |-> None, restart |-> None, report |-> 0]
    /\ worker = None /\ timers = {} /\ lost = {} /\ unheard = FALSE
    /\ used = [timers |-> 0, failures |-> 0, hands |-> 0]
    /\ \E fitted \in Fittings : DeliveryInit(fitted)

------------------------------------------------------------------------------
(* The queue: the executor's submission lock is fair, and its only worker  *)
(* runs what holds the lock.                                               *)

Submit(h, by, op, of) ==
    [h EXCEPT !.queue = Append(@, [by |-> by, op |-> op, of |-> of, runtime |-> rt.latest])]

Waits(h, by) == \E i \in DOMAIN h.queue : h.queue[i].by = by

Stopping(h) == h.stop \notin {"no", "asked"}

------------------------------------------------------------------------------
(* Failures *)

(* Mutant of RequestFatalShutdown: a host still in setup has nothing to hand over. *)
RequestFatalShutdown_OnlyInitialized(h) ==
    IF Stopping(h) \/ h.init # "done" THEN h ELSE Submit(h, "callback", "fatal", None)

(* request_fatal_shutdown, with a supervisor. *)
RequestFatalShutdown(h) ==
    IF Stopping(h) THEN h ELSE Submit(h, "callback", "fatal", None)

(* async_initialize raises, and async_setup_entry stops the host.          *)
InitFails(h) == [h EXCEPT !.init = "failed", !.stop = "asked"]

(* An exception ends async_initialize, or the task that drains the queue.  *)
ReaderDies(h) == IF h.init = "reading" THEN InitFails(h) ELSE h

------------------------------------------------------------------------------
(* The temperature states: _async_drain_setup_buffer and                   *)
(* _async_drain_live_queue over _async_process_state_now.                  *)

(* The exact duplicates of the state processed last are discarded. *)
Fresh(readings, version) ==
    LET duplicates == {k \in 0 .. Len(readings) : \A i \in 1 .. k : readings[i].version = version}
    IN  SubSeq(readings, 1 + CHOOSE k \in duplicates : \A j \in duplicates : j <= k, Len(readings))

(* Setup is done when the buffer is empty; only then do states go live.    *)
NextReading(h) ==
    LET list == IF h.init = "reading" THEN "buffer" ELSE "live"
        fresh == Fresh(h[list], h.version)
        rest == [h EXCEPT ![list] = IF fresh = <<>> THEN <<>> ELSE Tail(fresh)]
    IN  IF fresh # <<>>
        THEN Submit([rest EXCEPT !.version = Head(fresh).version], "reader", "trust", Head(fresh))
        ELSE IF h.init = "reading" THEN [rest EXCEPT !.buffering = FALSE, !.init = "done"]
        ELSE rest

(* Mutant of StartReading: events go live as soon as the buffer is drained. *)
StartReading_Live(h) == NextReading([h EXCEPT !.init = "reading", !.buffering = FALSE])

(* async_initialize after the runtime began: the snapshot, then the buffer *)
(* - the snapshot is the head of the buffer here.                          *)
StartReading(h) == NextReading([h EXCEPT !.init = "reading"])

Take(h, reading) ==
    IF h.buffering THEN [h EXCEPT !.buffer = Append(@, reading)]
    ELSE LET queued == [h EXCEPT !.live = Append(@, reading)]
         IN  IF Waits(h, "reader") THEN queued ELSE NextReading(queued)

------------------------------------------------------------------------------
(* The coroutine that waited for the entry e goes on with its result: "ok",*)
(* "no_decision", "service" for a failed service call, "stopped" for       *)
(* RuntimeStoppedError, "fatal" for any other exception.                   *)

(* async_initialize; a failed service call does not end it.                *)
ResumeInit(h, e, result) ==
    IF result = "fatal" THEN InitFails(RequestFatalShutdown(h))
    ELSE IF e.op = "begin" /\ h.snapshot > 0
         THEN Submit([h EXCEPT !.reported = h.snapshot], "init", "report_supervisor", h.snapshot)
    ELSE IF e.op = "report_supervisor" THEN Submit(h, "init", "report_runtime", e.of)
    ELSE StartReading(h)

(* _async_process_state_now: only the failures of process_temperature are  *)
(* reported; those of mark_measurement_indeterminate just end the task.    *)
ResumeReader(h, e, result) ==
    CASE e.op = "trust" ->
             IF rt.authority = "failsafe" THEN NextReading(h)
             ELSE Submit(h, "reader", IF e.of.usable THEN "process" ELSE "mark", e.of)
      [] e.op = "process" ->
             CASE result = "no_decision" -> Submit(h, "reader", "mark_again", e.of)
               [] result \in {"ok", "service"} \/ (result = "stopped" /\ Stopping(h)) -> NextReading(h)
               [] OTHER -> ReaderDies(RequestFatalShutdown(h))
      [] OTHER -> IF result = "ok" THEN NextReading(h) ELSE ReaderDies(h)

(* A timer's callback reports its own failures; the failure of a reported  *)
(* source state ends its task unseen.                                      *)
ResumeCallback(h, e, result) ==
    CASE e.op = "report_supervisor" -> Submit(h, "callback", "report_runtime", e.of)
      [] e.op = "timer" /\ result = "fatal" -> RequestFatalShutdown(h)
      [] OTHER -> h

(* async_stop after the runtime's stop, which may fail, and after the      *)
(* scheduler's.                                                            *)
ResumeStop(h, e, result) ==
    IF e.op = "stop" THEN Submit([h EXCEPT !.stop = "timers"], "stop", "cancel_all", None)
    ELSE [h EXCEPT !.stop = "close"]

Resume(e, result) ==
    LET h == [host EXCEPT !.queue = Tail(@)]
    IN  CASE e.by = "init" -> ResumeInit(h, e, result)
          [] e.by = "reader" -> ResumeReader(h, e, result)
          [] e.by = "callback" -> ResumeCallback(h, e, result)
          [] e.by = "stop" -> ResumeStop(h, e, result)

(* Does this result reach the fatal handler?  Only while not stopping.     *)
Reports(e, result) ==
    /\ ~Stopping(host)
    /\ \/ result = "fatal" /\ (e.by = "init" \/ e.op \in {"process", "timer"})
       \/ result = "stopped" /\ e.op = "process"

Completed(e, result) ==
    /\ host' = Resume(e, result)
    /\ unheard' = IF e.op = "fatal" THEN FALSE ELSE unheard \/ Reports(e, result)
    /\ worker' = None
    /\ UNCHANGED environment

------------------------------------------------------------------------------
(* The operations, on the worker.  One that arms a timer has it installed  *)
(* on the event loop first, and holds its handle only when it goes on.     *)

Alive(e) == e.runtime = rt.latest /\ ~rt.stopped

(* _scheduled_callback and _restart_callback look whether the timer that   *)
(* called is still the one armed.                                          *)
IsDeadline(e) == e.op = "timer" /\ e.of = rt.deadline
IsRestart(e) == e.op = "timer" /\ e.of = rt.restart

Evaluates(e) ==
    \/ e.op \in {"process", "mark", "mark_again"} /\ Alive(e)
    \/ e.op = "report_runtime" /\ Alive(e) /\ e.of >= rt.report
    \/ IsDeadline(e)

(* These cannot do without their timer. *)
Schedules(e) == e.op \in {"begin", "fatal"} \/ IsRestart(e)

(* schedule_at: async_install, on the event loop.                          *)
Install(e) ==
    /\ worker = None
    /\ Schedules(e) \/ (Evaluates(e) /\ Room)
    /\ worker' = used.timers + 1
    /\ timers' = timers \cup {used.timers + 1}
    /\ used' = [used EXCEPT !.timers = @ + 1]
    /\ UNCHANGED <<host, environment, rt, lost, unheard, delivery>>

Fails(result) ==
    /\ result # "ok" => Room
    /\ used' = IF result = "ok" THEN used ELSE [used EXCEPT !.failures = @ + 1]

(* An evaluation keeps the deadline, replaces it or takes it away, before  *)
(* the command that may fail.                                              *)
Evaluate(e) ==
    /\ Evaluates(e)
    /\ \E result \in {"ok", "service", "fatal"} :
         /\ Fails(result)
         /\ Completed(e, result)
         /\ \/ result = "fatal" /\ UNCHANGED delivery
            \/ \E demand \in Demands : EvaluateZone(demand)
    /\ LET old == IF IsDeadline(e) THEN None ELSE rt.deadline
       IN  \E deadline \in (IF worker # None THEN {worker} ELSE {None, old}) :
             /\ rt' = [rt EXCEPT !.deadline = deadline,
                                 !.report = IF e.op = "report_runtime" THEN e.of ELSE @]
             /\ timers' = IF deadline = old THEN timers ELSE timers \ {old}
    /\ UNCHANGED lost

(* ControlRuntimeStartup.begin, which fails if the timer cannot be set.    *)
Begin(e) ==
    /\ e.op = "begin"
    /\ \/ /\ worker # None
          /\ rt' = [rt EXCEPT !.deadline = worker]
          /\ Completed(e, "ok") /\ UNCHANGED used
       \/ /\ worker = None
          /\ Fails("fatal") /\ Completed(e, "fatal") /\ UNCHANGED rt
    /\ UNCHANGED <<timers, lost, delivery>>

(* report_fatal: the runtime is stopped, the failsafe takes over, and a    *)
(* restart is scheduled - whatever the authority was.                      *)
ReportFatal(e) ==
    /\ e.op = "fatal"
    /\ worker # None
    /\ rt' = [rt EXCEPT !.stopped = TRUE, !.authority = "failsafe", !.deadline = None,
                        !.restart = worker]
    /\ timers' = timers \ {rt.deadline, rt.restart}
    /\ Completed(e, "ok")
    /\ UNCHANGED <<lost, used, delivery>>

(* request_restart: a new runtime begins and becomes the host's before the *)
(* authority returns to it; or the attempt fails.                          *)
Restart(e) ==
    /\ IsRestart(e)
    /\ LET tried == [rt EXCEPT !.attempts = @ + 1, !.restart = None]
       IN  \/ /\ worker # None
              /\ rt' = [tried EXCEPT !.latest = @ + 1, !.stopped = FALSE, !.authority = "normal",
                                     !.deadline = worker]
           \/ /\ worker # None /\ tried.attempts < AttemptLimit
              /\ rt' = [tried EXCEPT !.restart = worker]
           \/ /\ worker = None /\ tried.attempts >= AttemptLimit
              /\ rt' = tried
    /\ Completed(e, "ok")
    /\ UNCHANGED <<timers, lost, used, delivery>>

(* The admission of a measurement by its time, before any evaluation.      *)
Refuse(e) ==
    /\ e.op = "process" /\ Alive(e) /\ worker = None
    /\ Completed(e, "no_decision")
    /\ UNCHANGED <<rt, timers, lost, used, delivery>>

(* ControlRuntime.stop, or the scheduler's cancel_all. *)
Stop(e) ==
    /\ e.by = "stop"
    /\ IF e.op = "stop"
       THEN /\ rt' = [rt EXCEPT !.stopped = TRUE, !.deadline = None]
            /\ timers' = timers \ {rt.deadline}
       ELSE timers' = {} /\ UNCHANGED rt
    /\ Completed(e, "ok")
    /\ UNCHANGED <<lost, used, delivery>>

(* Everything that leaves the runtime as it is: the supervisor's evidence, *)
(* a runtime that has been stopped, a source state older than the last, a  *)
(* timer that is no longer armed.                                          *)
NoEffect(e) ==
    /\ \/ e.op \in {"trust", "report_supervisor"} /\ Completed(e, "ok")
       \/ e.op \in {"process", "mark", "mark_again", "report_runtime"} /\ ~Alive(e) /\ Completed(e, "stopped")
       \/ e.op = "report_runtime" /\ Alive(e) /\ e.of < rt.report /\ Completed(e, "fatal")
       \/ e.op = "timer" /\ ~IsDeadline(e) /\ ~IsRestart(e) /\ Completed(e, "ok")
    /\ UNCHANGED <<rt, timers, lost, used, delivery>>

Work ==
    /\ host.queue # <<>>
    /\ LET e == Head(host.queue)
       IN  \/ Install(e) \/ Evaluate(e) \/ Begin(e) \/ ReportFatal(e) \/ Restart(e)
           \/ Refuse(e) \/ Stop(e) \/ NoEffect(e)

------------------------------------------------------------------------------
(* The event loop *)

Outside == UNCHANGED <<rt, worker, lost, unheard, used, delivery>>

(* async_initialize: subscribes and reads both entities.                   *)
Initialize ==
    /\ host.init = "new"
    /\ \E snapshot \in {<<>>} \cup {<<[version |-> 1, usable |-> usable]>> : usable \in BOOLEAN},
          reported \in {0, 1} :
         /\ source' = reported
         /\ arrived' = snapshot
         /\ host' = Submit([host EXCEPT !.init = "begin", !.buffer = snapshot,
                                        !.snapshot = reported], "init", "begin", None)
    /\ UNCHANGED timers /\ Outside

(* _on_state_change: a new state, or the last one once more.               *)
ReadingArrives ==
    /\ host.init # "new" /\ host.accepting
    /\ Room
    /\ \E reading \in {Last(arrived) : x \in DOMAIN arrived}
                      \cup {[version |-> Len(arrived) + 1, usable |-> usable] : usable \in BOOLEAN} :
         /\ arrived' = Append(arrived, reading)
         /\ host' = Take(host, reading)
    /\ UNCHANGED <<source, timers>> /\ Outside

(* _on_source_state_change *)
SourceReports ==
    /\ host.init # "new" /\ host.accepting
    /\ Room
    /\ source' = source + 1
    /\ host' = Submit([host EXCEPT !.reported = source + 1], "callback", "report_supervisor", source + 1)
    /\ UNCHANGED <<arrived, timers>> /\ Outside

(* Mutant of Claimed: callbacks wait for the end of the setup. *)
Claimed_WhenInitialized(t) ==
    host' = IF host.accepting /\ host.init = "done" THEN Submit(host, "callback", "timer", t) ELSE host

(* claim_callback and submit_scheduled_callback *)
Claimed(t) ==
    host' = IF host.accepting THEN Submit(host, "callback", "timer", t) ELSE host

(* on_timer, which does nothing while its handle is not known.             *)
TimerFires(t) ==
    /\ t \in timers
    /\ timers' = timers \ {t}
    /\ IF t = worker THEN lost' = lost \cup {t} /\ UNCHANGED host
                     ELSE Claimed(t) /\ UNCHANGED lost
    /\ UNCHANGED <<environment, rt, worker, unheard, used, delivery>>

(* Home Assistant stops, or unloads the entry: async_stop waits for the    *)
(* lifecycle lock.                                                         *)
AskToStop ==
    /\ host.init # "new" /\ host.stop = "no"
    /\ host' = [host EXCEPT !.stop = "asked"]
    /\ UNCHANGED <<environment, timers>> /\ Outside

(* async_stop with the lock: nothing more is accepted or subscribed to.    *)
BeginStop ==
    /\ host.stop = "asked" /\ host.init \in {"done", "failed"}
    /\ host' = [host EXCEPT !.stop = "gather", !.accepting = FALSE]
    /\ UNCHANGED <<environment, timers>> /\ Outside

(* Mutant of Gathered: only the task that drains the states is awaited. *)
Gathered_DrainOnly == ~Waits(host, "reader")

(* The tasks accepted before are awaited, first the one that drains.       *)
Gathered == ~Waits(host, "reader") /\ ~Waits(host, "callback")

(* A failsafe's runtime has been stopped already.                          *)
StopRuntime ==
    /\ host.stop = "gather" /\ Gathered
    /\ host' = IF rt.authority = "normal"
               THEN Submit([host EXCEPT !.stop = "runtime"], "stop", "stop", None)
               ELSE Submit([host EXCEPT !.stop = "timers"], "stop", "cancel_all", None)
    /\ UNCHANGED <<environment, timers>> /\ Outside

(* async_close waits for the lock of the queue.                            *)
Close ==
    /\ host.stop = "close" /\ host.queue = <<>>
    /\ host' = [host EXCEPT !.stop = "stopped", !.buffering = FALSE, !.buffer = <<>>, !.live = <<>>]
    /\ UNCHANGED <<environment, timers>> /\ Outside

TouchActuator ==
    /\ used.hands = 0
    /\ used' = [used EXCEPT !.hands = @ + 1]
    /\ \E a \in Fitted : SetByHand(a)
    /\ UNCHANGED <<host, environment, rt, worker, timers, lost, unheard>>

Next ==
    \/ Work \/ Initialize \/ ReadingArrives \/ SourceReports \/ (\E t \in timers : TimerFires(t))
    \/ AskToStop \/ BeginStop \/ StopRuntime \/ Close \/ TouchActuator

Spec == Init /\ [][Next]_vars

(* The worker goes on - a service call of Home Assistant answers or fails  *)
(* in the end - and so does the event loop's own task.                     *)
Stops == BeginStop \/ StopRuntime \/ Close
MayStop == \/ host.stop = "asked" /\ host.init \in {"done", "failed"}
           \/ host.stop = "gather" /\ Gathered
           \/ host.stop = "close" /\ host.queue = <<>>

FairSpec ==
    /\ Spec
    /\ []<>(host.queue = <<>>) \/ []<><<Work>>_vars
    /\ []<>~MayStop \/ []<><<Stops>>_vars

------------------------------------------------------------------------------
(* Properties *)

(* The temperature states still to be processed are the latest the host    *)
(* took in, in the order they came, through setup, the switch to live      *)
(* processing and every failure: none is lost or overtaken (host.py,       *)
(* _on_state_change and async_initialize; Deployment.md:9-12).             *)
StatesStayInOrder == IsSuffix(host.buffer \o host.live, arrived)

(* While the host accepts callbacks, a timer the runtime or the supervisor *)
(* counts on will still come, or its callback is on its way: otherwise     *)
(* nothing evaluates again, or nothing restarts the runtime.  The          *)
(* exception is a timer that came before its handle was known (scheduler.py*)
(* on_timer), which is lost.                                               *)
ArmedTimerComes ==
    host.accepting =>
        \A t \in {rt.deadline, rt.restart} \ {None} :
            \/ t \in timers \cup lost
            \/ \E i \in DOMAIN host.queue : host.queue[i].op = "timer" /\ host.queue[i].of = t

(* Once the runtime of a stopping host has been stopped, nothing           *)
(* evaluates, arms, restarts or commands any more, whatever had been       *)
(* accepted before; and a stopped host leaves no timer and no operation    *)
(* (async_stop; Deployment.md:62-64).                                      *)
StopIsFinal ==
    [][ /\ host.stop \in {"timers", "close", "stopped"} =>
               rt' = rt /\ timers' \subseteq timers /\ asked' = asked
        /\ host'.stop = "stopped" => host'.queue = <<>> /\ timers' = {} ]_vars

(* A fatal failure that the failure sink was told of reaches the           *)
(* supervisor, unless the host has been stopped instead                    *)
(* (request_fatal_shutdown).                                               *)
FailureIsHeard == unheard ~> (~unheard \/ host.stop = "stopped")
======================================================================================
