------------------------------- MODULE WaterSafetyHost -------------------------------
(***************************************************************************)
(* One Water Safety host in Home Assistant: the sensor's events, a single  *)
(* worker thread that runs the runtime's operations, the one deadline, the *)
(* output requests, the saved snapshot, stop with its retries, and the     *)
(* death of the process (custom_components/controlel/water_safety_host.py, *)
(* water_safety_output.py, water_safety_persistence.py, scheduler.py,      *)
(* runtime_executor.py).                                                   *)
(*                                                                         *)
(* An operation is submitted under an asyncio lock that is held until the  *)
(* worker is done, so the operations form a queue.  While the worker waits *)
(* for Home Assistant - evidence, an output request, a timer, a save - the *)
(* event loop goes on: each such wait is a step of its own, and the        *)
(* runtime's snapshot changes between them, also after a stop.             *)
(*                                                                         *)
(* Times of observations are those of Home Assistant (last_updated), which *)
(* do not step back; a state without a timestamp is not modelled.          *)
(***************************************************************************)
EXTENDS WaterSafetyRuntime, FiniteSets

CONSTANTS
    MaxTime,       \* bound: the clock stops here
    MaxChanges,    \* bound: changes of the sensor
    MaxRequests,   \* bound: requests of the user
    MaxRestarts,   \* bound: crashes and new hosts
    MaxFailures,   \* bound: cleanup steps that fail or time out
    UserRequests   \* what the user may ask for

ASSUME UserRequestsAreServices == UserRequests \subseteq {"silence", "disable", "enable", "test"}
ASSUME HostBounds == {MaxTime, MaxChanges, MaxRequests, MaxRestarts, MaxFailures} \subseteq Nat

Time == 0 .. MaxTime
Observation == [cond : Conditions, at : Time]

VARIABLES
    now,        \* the clock
    sensor,     \* the state of the moisture entity in Home Assistant
    phase,      \* the life of the current host
    accepting,  \* _accepting
    ws,         \* _runtime.snapshot
    disk,       \* the saved snapshot
    startup,    \* _startup_observations, or None
    queue,      \* operations waiting for the worker
    worker,     \* the operation the worker executes and its waits to come, or None
    timer,      \* the installed Home Assistant timer, or None
    handle,     \* the handle of the last timer is known, to on_timer and the host
    cleanup,    \* what the stop has released, see CleanupType
    asked,      \* history: the last request sent to the siren
    told,       \* history: incidents whose wet notice was sent
    cut,        \* history: incidents whose wet notice a stop refused
    lost,       \* history: the last timer came before its handle was known
    used        \* how much of each bound is used

runtimeVars == <<ws, disk, asked, told, cut>>
timerVars == <<timer, handle, lost>>
vars == <<now, sensor, phase, accepting, runtimeVars, startup, queue, worker, timerVars,
          cleanup, used>>

Kinds == {"start", "observe", "tick", "silence", "disable", "enable", "test",
          "reschedule", "deadline", "cancel_deadline", "cancel_all"}
Op(kind, by, obs) == [kind |-> kind, by |-> by, obs |-> obs]

(* Operations that a retired host still executes: they go around            *)
(* _async_submit_logical.                                                  *)
Physical == {"cancel_deadline", "cancel_all"}

CleanupType ==
    [step : {"none", "unsubscribe", "deadline", "scheduler", "close"},
     subscribed : BOOLEAN, schedulerClosed : BOOLEAN, executorClosed : BOOLEAN]
Untouched ==
    [step |-> "none", subscribed |-> TRUE, schedulerClosed |-> FALSE, executorClosed |-> FALSE]

(* What an earlier process may have left: water was found, the module was  *)
(* disabled, and then Home Assistant was restarted.                        *)
Ended ==
    [Fresh EXCEPT !.state = "disabled", !.latest = [cond |-> "wet", at |-> 0],
                  !.incident = [id |-> 1, wetAt |-> 0, silenced |-> FALSE],
                  !.nextIncident = 2]

Init ==
    /\ now = 0
    /\ sensor \in [cond : Conditions, at : {0}]
    /\ phase = "down"
    /\ accepting = FALSE
    /\ ws = Fresh
    /\ disk \in {None, Ended}
    /\ startup = None
    /\ queue = <<>>
    /\ worker = None
    /\ timer = None
    /\ handle = FALSE
    /\ cleanup = Untouched
    /\ asked = "siren_off"
    /\ told = (IF disk = None THEN {} ELSE {disk.incident.id}) /\ cut = {}
    /\ lost = FALSE
    /\ used = [changes |-> 0, requests |-> 0, restarts |-> 0, failures |-> 0]

Uses(bound, max) == used[bound] < max /\ used' = [used EXCEPT ![bound] = @ + 1]

------------------------------------------------------------------------------
(* The life of a host.                                                     *)

(* async_start_from_active_reference and the head of async_initialize:     *)
(* restore, subscribe, read the sensor and submit start, without yielding. *)
StartHost(sameRevision) ==
    /\ phase \in {"down", "stopped"}
    /\ phase' = "starting"
    /\ accepting' = TRUE
    /\ ws' = Restored(disk, sameRevision)
    /\ startup' = <<>>
    /\ queue' = <<Op("start", "init", sensor)>>
    /\ worker' = None
    /\ handle' = FALSE /\ lost' = FALSE
    /\ cleanup' = Untouched
    /\ IF phase = "stopped" THEN Uses("restarts", MaxRestarts) ELSE UNCHANGED used
    /\ UNCHANGED <<now, sensor, disk, asked, told, cut, timer>>

InitWaits ==
    \/ \E i \in DOMAIN queue : queue[i].by = "init"
    \/ worker # None /\ worker.op.by = "init"

(* The drain of async_initialize: one buffered observation at a time.      *)
DrainStartup ==
    /\ phase = "starting" /\ accepting /\ ~InitWaits
    /\ startup # <<>>
    /\ queue' = Append(queue, Op("observe", "init", Head(startup)))
    /\ startup' = Tail(startup)
    /\ UNCHANGED <<now, sensor, phase, accepting, runtimeVars, worker, timerVars, cleanup, used>>

GoLive_WithoutDraining ==
    /\ phase = "starting" /\ accepting /\ ~InitWaits
    /\ phase' = "live"
    /\ startup' = None
    /\ UNCHANGED <<now, sensor, accepting, runtimeVars, queue, worker, timerVars, cleanup, used>>

GoLive ==
    /\ phase = "starting" /\ accepting /\ ~InitWaits
    /\ startup = <<>>
    /\ phase' = "live"
    /\ startup' = None
    /\ UNCHANGED <<now, sensor, accepting, runtimeVars, queue, worker, timerVars, cleanup, used>>

(* The process dies: what is in memory and every timer is lost.  An        *)
(* incident that was never saved is forgotten.                             *)
Crash ==
    LET saved == IF disk = None THEN 1 ELSE disk.nextIncident IN
    /\ phase # "down"
    /\ Uses("restarts", MaxRestarts)
    /\ phase' = "down"
    /\ accepting' = FALSE
    /\ ws' = Fresh
    /\ startup' = None
    /\ queue' = <<>>
    /\ worker' = None
    /\ timer' = None
    /\ handle' = FALSE /\ lost' = FALSE
    /\ cleanup' = Untouched
    /\ told' = {i \in told : i < saved}
    /\ cut' = {i \in cut : i < saved}
    /\ UNCHANGED <<now, sensor, disk, asked>>

------------------------------------------------------------------------------
(* Home Assistant: the clock, the sensor, the user and the timer.          *)

Advance ==
    /\ now < MaxTime
    /\ now' = now + 1
    /\ UNCHANGED <<sensor, phase, accepting, runtimeVars, startup, queue, worker, timerVars,
                   cleanup, used>>

(* _on_state_change: buffer while starting, else observe.                  *)
SensorChanges(raw) ==
    LET obs == [cond |-> Condition(raw), at |-> now] IN
    /\ obs.cond # sensor.cond
    /\ Uses("changes", MaxChanges)
    /\ sensor' = obs
    /\ IF ~accepting \/ ~cleanup.subscribed
       THEN UNCHANGED <<startup, queue>>
       ELSE IF startup # None
       THEN startup' = Append(startup, obs) /\ UNCHANGED queue
       ELSE queue' = Append(queue, Op("observe", "task", obs)) /\ UNCHANGED startup
    /\ UNCHANGED <<now, phase, accepting, runtimeVars, worker, timerVars, cleanup>>

(* silence, disable, enable, test_siren: enable reads the sensor and a     *)
(* test reads the state on the event loop, before the worker's turn.       *)
UserAsks(kind) ==
    /\ phase = "live" /\ accepting
    /\ kind = "test" => ws.state \notin {"wet", "disabled"}
    /\ Uses("requests", MaxRequests)
    /\ queue' = Append(queue, Op(kind, "task", IF kind = "enable" THEN sensor ELSE None))
    /\ UNCHANGED <<now, sensor, phase, accepting, runtimeVars, startup, worker, timerVars,
                   cleanup>>

(* on_timer and submit_scheduled_callback: the callback is dropped while   *)
(* the handle is not known, and by a host that no longer accepts.          *)
TimerFires ==
    /\ timer # None /\ now >= timer
    /\ timer' = None
    /\ lost' = ~handle
    /\ queue' = IF handle /\ accepting THEN Append(queue, Op("deadline", "task", None)) ELSE queue
    /\ UNCHANGED <<now, sensor, phase, accepting, runtimeVars, startup, worker, handle, cleanup,
                   used>>

------------------------------------------------------------------------------
(* The worker.                                                             *)

Outcome(op) ==
    CASE op.kind = "start"   -> StartRuntime(ws, op.obs)
      [] op.kind = "observe" -> Observe(ws, op.obs)
      [] op.kind = "tick"    -> TickAt(ws, now)
      [] op.kind = "silence" -> Silence(ws)
      [] op.kind = "disable" -> Disable(ws)
      [] op.kind = "enable"  -> Enable(ws, op.obs)
      [] op.kind = "test"    -> Result(ws, <<Wait("siren_on", ws)>>, FALSE)

BeginOperation_SavesFirst ==
    /\ worker = None /\ queue # <<>>
    /\ LET op == Head(queue) IN
       /\ op.kind \notin Physical \cup {"reschedule", "deadline"}
       /\ LET r == Outcome(op) IN
          /\ ws' = r.w
          /\ worker' = [op |-> op, out |-> r.out, saves |-> FALSE]
          /\ disk' = IF r.saves
                     THEN (IF r.out = <<>> THEN r.w ELSE r.out[Len(r.out)].w) ELSE disk
    /\ queue' = Tail(queue)
    /\ UNCHANGED <<now, sensor, phase, accepting, asked, told, cut, startup, timerVars,
                   cleanup, used>>

(* The worker takes an operation of the runtime and goes on to its first   *)
(* wait.                                                                   *)
BeginOperation ==
    /\ worker = None /\ queue # <<>>
    /\ LET op == Head(queue) IN
       /\ op.kind \notin Physical \cup {"reschedule", "deadline"}
       /\ LET r == Outcome(op) IN
          /\ ws' = r.w
          /\ worker' = [op |-> op, out |-> r.out, saves |-> r.saves]
    /\ queue' = Tail(queue)
    /\ UNCHANGED <<now, sensor, phase, accepting, disk, asked, told, cut, startup, timerVars,
                   cleanup, used>>

Dispatch_AfterStop ==
    /\ worker # None /\ worker.op.kind # "reschedule" /\ worker.out # <<>>
    /\ LET wait == Head(worker.out) IN
       /\ asked' = IF wait.ask \in {"siren_on", "siren_off"} THEN wait.ask ELSE asked
       /\ told' = IF wait.ask = "notify_wet" THEN told \cup {ws.incident.id} ELSE told
       /\ cut' = cut
       /\ ws' = wait.w
    /\ worker' = [worker EXCEPT !.out = Tail(@)]
    /\ UNCHANGED <<now, sensor, phase, accepting, disk, startup, queue, timerVars, cleanup,
                   used>>

(* One wait of an operation ends and the worker goes on to the next.       *)
(* request and _async_dispatch_ha_service: a quiesced port refuses, also   *)
(* when it was quiesced after the operation was admitted.                  *)
Dispatch ==
    /\ worker # None /\ worker.op.kind # "reschedule" /\ worker.out # <<>>
    /\ LET wait == Head(worker.out) IN
       /\ asked' = IF accepting /\ wait.ask \in {"siren_on", "siren_off"} THEN wait.ask ELSE asked
       /\ told' = IF accepting /\ wait.ask = "notify_wet" THEN told \cup {ws.incident.id} ELSE told
       /\ cut' = IF ~accepting /\ wait.ask = "notify_wet" THEN cut \cup {ws.incident.id} ELSE cut
       /\ ws' = wait.w
    /\ worker' = [worker EXCEPT !.out = Tail(@)]
    /\ UNCHANGED <<now, sensor, phase, accepting, disk, startup, queue, timerVars, cleanup,
                   used>>

FinishOperation_WithoutDeadline ==
    /\ worker # None /\ worker.out = <<>> /\ worker.op.kind # "reschedule"
    /\ worker.saves => disk' \in {ws, disk}
    /\ ~worker.saves => UNCHANGED disk
    /\ worker' = None
    /\ queue' = IF accepting /\ worker.op.kind \notin {"test", "tick"}
                THEN Append(queue, Op("reschedule", worker.op.by, None)) ELSE queue
    /\ UNCHANGED <<now, sensor, phase, accepting, ws, asked, told, cut, startup, timerVars,
                   cleanup, used>>

(* The end of an operation: _persist, which may fail unnoticed, and then   *)
(* _process submits _reschedule_deadline.                                  *)
FinishOperation ==
    /\ worker # None /\ worker.out = <<>> /\ worker.op.kind # "reschedule"
    /\ worker.saves => disk' \in {ws, disk}
    /\ ~worker.saves => UNCHANGED disk
    /\ worker' = None
    /\ queue' = IF accepting /\ worker.op.kind # "test"
                THEN Append(queue, Op("reschedule", worker.op.by, None)) ELSE queue
    /\ UNCHANGED <<now, sensor, phase, accepting, ws, asked, told, cut, startup, timerVars,
                   cleanup, used>>

RunDeadline_Lost ==
    /\ worker = None /\ queue # <<>>
    /\ Head(queue).kind = "deadline"
    /\ queue' = Tail(queue)
    /\ UNCHANGED <<now, sensor, phase, accepting, runtimeVars, startup, worker, timerVars,
                   cleanup, used>>

(* _on_deadline: hop back to the event loop, which submits a tick.         *)
RunDeadline ==
    /\ worker = None /\ queue # <<>>
    /\ Head(queue).kind = "deadline"
    /\ queue' = Append(Tail(queue), Op("tick", "task", None))
    /\ UNCHANGED <<now, sensor, phase, accepting, runtimeVars, startup, worker, timerVars,
                   cleanup, used>>

(* _reschedule_deadline: the old timer is cancelled; a new one is waited   *)
(* for if the host still accepts at a second look.                         *)
BeginReschedule ==
    /\ worker = None /\ queue # <<>>
    /\ Head(queue).kind = "reschedule"
    /\ timer' = None
    /\ handle' = FALSE /\ lost' = FALSE
    /\ worker' = [op |-> Head(queue), out |-> <<Wait("install", ws)>>, saves |-> FALSE]
    /\ queue' = Tail(queue)
    /\ UNCHANGED <<now, sensor, phase, accepting, runtimeVars, startup, cleanup, used>>

Rescheduling == worker # None /\ worker.op.kind = "reschedule"

(* schedule_at installs the timer on the event loop.  A stop may have come *)
(* after the second look.                                                  *)
InstallTimer ==
    /\ Rescheduling /\ worker.out # <<>>
    /\ NextDeadline(ws) # None
    /\ timer' = NextDeadline(ws)
    /\ worker' = [worker EXCEPT !.out = <<>>]
    /\ UNCHANGED <<now, sensor, phase, accepting, runtimeVars, startup, queue, handle, lost,
                   cleanup, used>>

SkipTimer ==
    /\ Rescheduling /\ worker.out # <<>>
    /\ ~accepting \/ NextDeadline(ws) = None
    /\ worker' = None
    /\ UNCHANGED <<now, sensor, phase, accepting, runtimeVars, startup, queue, timerVars, cleanup,
                   used>>

(* Back on the worker: only now does on_timer know the handle.             *)
KeepHandle ==
    /\ Rescheduling /\ worker.out = <<>>
    /\ handle' = TRUE
    /\ worker' = None
    /\ UNCHANGED <<now, sensor, phase, accepting, runtimeVars, startup, queue, timer, lost,
                   cleanup, used>>

(* _cancel_deadline and cancel_all, submitted by the stop.                 *)
RunPhysical ==
    /\ worker = None /\ queue # <<>>
    /\ LET kind == Head(queue).kind IN
       /\ kind \in Physical
       /\ handle' = IF kind = "cancel_deadline" THEN FALSE ELSE handle
       /\ cleanup' = IF kind = "cancel_all"
                     THEN [cleanup EXCEPT !.schedulerClosed = TRUE] ELSE cleanup
    /\ timer' = None
    /\ queue' = Tail(queue)
    /\ UNCHANGED <<now, sensor, phase, accepting, runtimeVars, startup, worker, lost, used>>

Work == \/ BeginOperation \/ Dispatch \/ FinishOperation \/ RunDeadline
        \/ BeginReschedule \/ InstallTimer \/ SkipTimer \/ KeepHandle \/ RunPhysical

------------------------------------------------------------------------------
(* Stop: admission is retired at once, the resources in a pass of bounded  *)
(* steps that a later stop may repeat.                                     *)


(* The synchronous head of async_stop.  Queued operations of the runtime   *)
(* end here: their tasks are cancelled, or execute_if_admitted refuses     *)
(* them when their turn comes.                                             *)
RequestStop ==
    /\ phase \in {"starting", "live", "incomplete"}
    /\ phase' = "stopping"
    /\ accepting' = FALSE
    /\ startup' = None
    /\ queue' = IF accepting THEN <<>> ELSE queue
    /\ cleanup' = [cleanup EXCEPT !.step = "unsubscribe"]
    /\ UNCHANGED <<now, sensor, runtimeVars, worker, timerVars, used>>

Fails == Uses("failures", MaxFailures)

(* The lifecycle lock is free: an initialisation has ended, by the refusal *)
(* of its next operation.                                                  *)
Unsubscribe ==
    /\ cleanup.step = "unsubscribe" /\ ~InitWaits
    /\ \/ /\ cleanup' = [cleanup EXCEPT !.step = "deadline", !.subscribed = FALSE]
          /\ UNCHANGED used
       \/ /\ cleanup.subscribed /\ Fails
          /\ cleanup' = [cleanup EXCEPT !.step = "deadline"]
    /\ UNCHANGED <<now, sensor, phase, accepting, runtimeVars, startup, queue, worker, timerVars>>

Pending(kind) == \E i \in DOMAIN queue : queue[i].kind = kind

(* _async_supervise_cleanup of a step that runs on the worker: submit it   *)
(* unless it is already supervised, and wait until it is done or the time  *)
(* is over.  "needed" is what the pass sees before it submits.             *)
Supervise(step, next, kind, needed) ==
    /\ cleanup.step = step
    /\ \/ /\ needed /\ ~Pending(kind)
          /\ queue' = Append(queue, Op(kind, "stop", None))
          /\ UNCHANGED <<cleanup, used>>
       \/ /\ ~needed
          /\ cleanup' = [cleanup EXCEPT !.step = next]
          /\ UNCHANGED <<queue, used>>
       \/ /\ Pending(kind) /\ Fails
          /\ cleanup' = [cleanup EXCEPT !.step = next]
          /\ UNCHANGED queue
    /\ UNCHANGED <<now, sensor, phase, accepting, runtimeVars, startup, worker, timerVars>>

Released == cleanup.schedulerClosed /\ timer = None

CancelDeadline == Supervise("deadline", "scheduler", "cancel_deadline", handle)
CancelScheduler == Supervise("scheduler", "close", "cancel_all", ~Released)

DependenciesReleased ==
    ~handle /\ Released /\ ~Pending("cancel_deadline") /\ ~Pending("cancel_all")

(* The executor closes once the worker is idle; a pass that may not close  *)
(* it, or waits too long for it, leaves the host to a later stop.          *)
CloseExecutor ==
    /\ cleanup.step = "close"
    /\ \/ /\ DependenciesReleased /\ worker = None /\ queue = <<>>
          /\ cleanup' = [cleanup EXCEPT !.step = "none", !.executorClosed = TRUE]
          /\ phase' = IF cleanup.subscribed THEN "incomplete" ELSE "stopped"
          /\ UNCHANGED used
       \/ /\ \/ ~DependenciesReleased /\ UNCHANGED used
             \/ DependenciesReleased /\ ~cleanup.executorClosed /\ Fails
          /\ cleanup' = [cleanup EXCEPT !.step = "none"]
          /\ phase' = "incomplete"
    /\ UNCHANGED <<now, sensor, accepting, runtimeVars, startup, queue, worker, timerVars>>

CleanupStep == Unsubscribe \/ CancelDeadline \/ CancelScheduler \/ CloseExecutor

Next ==
    \/ \E same \in BOOLEAN : StartHost(same)
    \/ DrainStartup \/ GoLive \/ Crash
    \/ Advance
    \/ \E raw \in {"on", "off", "unavailable"} : SensorChanges(raw)
    \/ \E kind \in UserRequests : UserAsks(kind)
    \/ TimerFires
    \/ Work
    \/ RequestStop
    \/ CleanupStep

(* The event loop runs what is ready, the clock goes on, the worker works. *)
(* Whoever unloads the entry retries an incomplete stop.                   *)
Fairness ==
    /\ WF_vars(DrainStartup) /\ WF_vars(GoLive) /\ WF_vars(Advance) /\ WF_vars(TimerFires)
    /\ WF_vars(Work) /\ WF_vars(CleanupStep)
    /\ WF_vars(phase = "incomplete" /\ RequestStop)

Spec == Init /\ [][Next]_vars
FairSpec == Spec /\ Fairness

------------------------------------------------------------------------------
(* Properties.                                                             *)

IncidentType == [id : Nat \ {0}, wetAt : Time, silenced : BOOLEAN]
SnapshotType ==
    [state : {"ok", "wet", "fault", "disabled"}, latest : Maybe(Observation),
     incident : Maybe(IncidentType), deadline : Maybe(Nat), repeat : Maybe(Nat),
     nextIncident : Nat \ {0}]
OpType == [kind : Kinds, by : {"init", "task", "stop"}, obs : Maybe(Observation)]
Requests == {"siren_on", "siren_off", "valve_close", "notify_wet", "notify_recovery",
             "notify_fault"}

Waits == [ask : Requests \cup {"record", "install"}, w : SnapshotType]
Working == [op : OpType, out : Seq(Waits), saves : BOOLEAN]

ASSUME NoneIsNoData ==
    /\ None \notin Observation /\ None \notin IncidentType
    /\ None \notin Seq(Observation) /\ None \notin Working

(* Types, and every snapshot, in memory and saved, is one that             *)
(* WaterSafetySnapshot.__post_init__ accepts: no operation raises.         *)
TypeOK ==
    /\ now \in Time
    /\ sensor \in Observation
    /\ phase \in {"down", "starting", "live", "stopping", "incomplete", "stopped"}
    /\ {accepting, handle, lost} \subseteq BOOLEAN
    /\ ws \in SnapshotType /\ Coherent(ws)
    /\ disk \in Maybe(SnapshotType) /\ (disk # None => Coherent(disk))
    /\ startup \in Maybe(Seq(Observation))
    /\ queue \in Seq(OpType)
    /\ worker \in Maybe(Working)
    /\ timer \in Maybe(Nat)
    /\ cleanup \in CleanupType
    /\ asked \in {"siren_on", "siren_off"}
    /\ told \cup cut \subseteq Nat

Idle == phase = "live" /\ queue = <<>> /\ worker = None

(* No event of the sensor is lost between its two readers, the buffer of   *)
(* the start and the tasks of the live host, nor by a disable or a re-     *)
(* enable: a host with nothing left to do has judged the sensor's present  *)
(* state, and its alarm agrees with it.                                    *)
EvidenceIsCurrent ==
    (Idle /\ ws.state # "disabled") =>
        /\ ws.latest = sensor
        /\ sensor.cond = "wet" <=> ws.state = "wet" /\ ws.deadline = None
        /\ sensor.cond = "dry" => ws.incident = None

(* Two operations whose reschedules interleave, a timer that fired, a      *)
(* disable and an operation that took long leave the right deadline armed: *)
(* a host with nothing left to do will wake for the pending fault or its   *)
(* repetition.  The one exception is a deadline that was already due when  *)
(* its timer was installed: the timer may come before schedule_at has its  *)
(* handle, on_timer drops it (scheduler.py:110-121), and nothing is armed  *)
(* until a later operation arms it again.                                  *)
DeadlineIsArmed ==
    Idle => \/ timer = NextDeadline(ws)
            \/ lost /\ timer = None /\ NextDeadline(ws) # None /\ NextDeadline(ws) <= now

(* Requests precede the save, so a crash between them repeats an alarm and *)
(* never swallows it: the wet notice of a saved incident was sent, or      *)
(* refused by the stop that was under way.                                 *)
SavedMeansTold ==
    \A w \in {ws, disk} \ {None} :
        (w.incident # None /\ (w = disk \/ Idle)) => w.incident.id \in told \cup cut

(* An incident ends only by a dry reading no older than its last wet one,  *)
(* or with the process.                                                    *)
AlarmEndsByDryReading ==
    [][ (ws.incident # None /\ phase' = phase /\ ws'.incident # ws.incident) =>
            \/ ws'.incident = None /\ ws'.latest.cond = "dry"
               /\ ws'.latest.at >= ws.incident.wetAt
            \/ ws'.incident # None /\ ws'.incident.id = ws.incident.id
               /\ (ws.incident.silenced => ws'.incident.silenced) ]_vars

(* Once a stop is requested nothing reaches the outputs, however much was  *)
(* queued or half done.  The operation the worker is in may end, with its  *)
(* changes and its save; no other one begins, and from then on the         *)
(* runtime, what is saved and the timer do not change, but for the timer   *)
(* being cancelled.                                                        *)
StopIsFinal ==
    [][ (~accepting /\ ~accepting') =>
            /\ asked' = asked
            /\ phase' # "down" =>
                 /\ told' = told
                 /\ worker # None => worker' = None \/ worker'.op = worker.op
                 /\ worker = None => /\ UNCHANGED <<worker, ws, disk>>
                                     /\ timer' \in {timer, None} ]_vars

(* A sensor that stays silent is reported as faulty, by the one timer,     *)
(* unless that timer is lost as DeadlineIsArmed says.                      *)
SilenceBecomesFault ==
    (phase = "live" /\ sensor.cond = "unknown" /\ now + Grace <= MaxTime) ~>
        (ws.state = "fault" \/ sensor.cond # "unknown" \/ ws.state = "disabled"
         \/ phase # "live" \/ lost)

==============================================================================
