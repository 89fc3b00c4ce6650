----------------------------- MODULE RuntimeSupervisor -----------------------------
(***************************************************************************)
(* Who may command the heat source: RuntimeSupervisor and FailsafeRuntime  *)
(* (runtime_supervisor.py and failsafe_runtime.py of                       *)
(* src/src/controlel/application/runtime).  A failed normal runtime loses  *)
(* its authority to a small failsafe controller, which hands it to a new   *)
(* normal runtime after a bounded restart campaign.                        *)
(*                                                                         *)
(* The normal runtime is its command path, SourceControl, with requests    *)
(* left open.  The host submits every operation and every timer callback   *)
(* to one worker thread, so each is one action.                            *)
(*                                                                         *)
(* Left out: what only diagnostics read (failsafe_mode, failsafe_reason,   *)
(* manual_recovery_deadline, the fatal cause).                             *)
(***************************************************************************)
EXTENDS SourceControlPolicy, SourceModePolicies, FiniteSets

CONSTANTS
    RetryInterval,   \* restart_policy.retry_interval
    AttemptLimit,    \* restart_policy.attempt_limit
    Readings,        \* the trusted temperatures a sensor may send
    ReportStates,    \* what the source may report of itself
    Asked,           \* bound: the actions the normal runtime may request
    Early,           \* bound: how early a timer may call
    MaxTime,         \* bound: the clock stops here
    MaxGeneration,   \* bound: fatal failures + 1
    MaxResets,       \* bound: operator resets of the campaign
    MaxManual        \* bound: operator activations of the manual recovery

ASSUME SupervisorConstants ==
    /\ {RetryInterval, AttemptLimit, MaxGeneration} \subseteq Nat \ {0}
    /\ {Early, MaxTime, MaxResets, MaxManual} \subseteq Nat
    /\ SafeProfile # None
    /\ Asked \subseteq Actions

Time == 0 .. MaxTime

VARIABLES
    now,         \* the clock
    sc,          \* source_control_state of the latest normal runtime
    applied,     \* its HeatSourceStateStore
    status,      \* its lifecycle: "running" or "stopped"
    source,      \* history: the last command the port executed
    commander,   \* history: the rank of the controller that sent it
    uninformed,  \* history: the rank of the last controller that began without
                 \* a runtime to take the command history from
    late,        \* generations whose runtime could not be stopped
    runtimeReport, \* reported_source_evidence of the normal runtime
    reported,    \* _reported_evidence
    inbox,       \* a report the host has still to give to the normal runtime
    trusted,     \* _trusted_evidence
    failsafe,    \* _failsafe: None or [generation, mode, sc, report]
    authority,   \* _authority
    generation,  \* _generation
    normalActive,\* _normal_active
    attached,    \* _normal_runtime is set
    restart,     \* the restart campaign, see CampaignType
    manual,      \* the manual recovery timers, see ManualType
    expired      \* history: a manual recovery ended in this campaign

normal == <<sc, applied, status, runtimeReport>>
power == <<authority, generation, normalActive, attached, late, uninformed>>
reports == <<reported, inbox>>
vars == <<now, normal, source, commander, reports, trusted, failsafe, power, restart, manual, expired>>

Command == [action : Actions, at : Time, safety : BOOLEAN]

ASSUME NoneIsNoSnapshot == None \notin States(Time) /\ None \notin Command

(* A scheduled restart; the handle is the one the supervisor can cancel.   *)
RestartTask == [campaign : Nat, generation : Nat, at : Nat]
ManualTask == [token : Nat, at : Nat]

CampaignType ==
    [phase : {"normal", "failsafe", "restart_wait", "restart_exhausted"},
     campaign : Nat, attempts : Nat, exhausted : BOOLEAN, next : Maybe(Nat),
     tasks : SUBSET RestartTask, handle : Maybe(RestartTask),
     resets : Nat]
ManualType == [token : Nat, tasks : SUBSET ManualTask, handle : Maybe(ManualTask)]

Init ==
    /\ now = 0
    /\ sc = None /\ applied = None /\ status = "running"
    /\ source = None /\ commander = 0 /\ uninformed = 0
    /\ runtimeReport = None /\ reported = None /\ inbox = None
    /\ trusted = None
    /\ failsafe = None
    /\ authority = "normal" /\ generation = 1 /\ normalActive = TRUE /\ attached = TRUE
    /\ late = {}
    /\ restart = [phase |-> "normal", campaign |-> 1, attempts |-> 0, exhausted |-> FALSE,
                  next |-> None, tasks |-> {}, handle |-> None, resets |-> 0]
    /\ manual = [token |-> 0, tasks |-> {}, handle |-> None]
    /\ expired = FALSE

------------------------------------------------------------------------------
(* The authority.  A port carries the authority and the generation it was  *)
(* made for; _AuthorityPort.execute compares both with the current ones.   *)

(* Mutant of Owns: any generation of the right kind may command. *)
Owns_AnyGeneration(port, owner) == port[1] = owner[1]

Owns(port, owner) == port = owner

NormalPort(g) == <<"normal", g>>
FailsafePort(g) == <<"failsafe", g>>

(* The order in which controllers come to power.                           *)
Rank(port) == 2 * port[2] - (IF port[1] = "failsafe" THEN 1 ELSE 0)

Executed(port, action, safety) ==
    /\ source' = [action |-> action, at |-> now, safety |-> safety]
    /\ commander' = Rank(port)

------------------------------------------------------------------------------
(* The normal runtime: the command path of SourceControl.  Corrective      *)
(* requests are explored there and in ControlRuntime.                      *)
Normal == INSTANCE SourceControl

Requests == {r \in Normal!Requests : ~r.corrective /\ r.action \in Asked}

NormalRequest(r) ==
    /\ normalActive
    /\ Owns(NormalPort(generation), <<authority, generation>>)
    /\ \/ /\ Normal!Hold(r) \/ Normal!ExecuteFails(r)
          /\ UNCHANGED commander
       \/ /\ Normal!Execute(r)
          /\ commander' = IF Normal!DropsDuplicate(r) THEN commander
                          ELSE Rank(NormalPort(generation))
    /\ UNCHANGED <<runtimeReport, reports, trusted, failsafe, power, restart, manual, expired>>

(* A runtime whose stop failed still holds its port: its command is        *)
(* refused with CommandAuthorityError.                                     *)
LateCommand(g, action) ==
    /\ g \in late
    /\ IF Owns(NormalPort(g), <<authority, generation>>)
       THEN Executed(NormalPort(g), action, FALSE)
       ELSE UNCHANGED <<source, commander>>
    /\ UNCHANGED <<now, normal, reports, trusted, failsafe, power, restart, manual, expired>>

------------------------------------------------------------------------------
(* FailsafeRuntime.evaluate, for the failsafe f.                           *)

FailsafeMode(evidence, manualRecovery) ==
    IF manualRecovery THEN "manual_recovery_heat"
    ELSE IF evidence # None THEN "safe_heating" ELSE "emergency_off"

(* Mutant of HasSafetyAuthority: no disable of the failsafe is a safety one. *)
HasSafetyAuthority_Never(mode) == FALSE

HasSafetyAuthority(mode) == mode = "emergency_off"

FailsafeAssessment(f, evidence, mode) ==
    LET before == IF f.mode = None THEN InitialMode ELSE f.mode
        active == IF before.mode = mode THEN before ELSE ActivatedMode(before, mode, now)
    IN  AssessMode(active, None, evidence, None, now)

(* The port executes, or raises: the device fails, or the controller does  *)
(* not own the authority; _evaluate_failsafe catches the exception.        *)
EvaluateFailsafe(f, evidence, manualRecovery, owner) ==
    LET mode == FailsafeMode(evidence, manualRecovery)
        assessment == FailsafeAssessment(f, evidence, mode)
        action == IF assessment.action = None THEN "disable" ELSE assessment.action
        safety == HasSafetyAuthority(mode)
        current == IF f.sc = None THEN InitialState(now) ELSE f.sc
        verdict == Verdict(current, action, now, safety, FALSE, None)
        assessed == Assessed(current, action, now, safety, FALSE, None)
        After(snapshot) == [f EXCEPT !.mode = assessment.state, !.sc = snapshot]
    IN  \/ /\ ~Dispatches(verdict)
           /\ failsafe' = After(assessed)
           /\ UNCHANGED <<source, commander>>
        \/ /\ Dispatches(verdict)
           /\ Owns(FailsafePort(f.generation), owner)
           /\ failsafe' = After(RecordDispatched(assessed, verdict, now))
           /\ Executed(FailsafePort(f.generation), action, safety)
        \/ /\ Dispatches(verdict)
           /\ failsafe' = After(RecordFailed(assessed, now))
           /\ UNCHANGED <<source, commander>>

------------------------------------------------------------------------------
(* Timers.  A task may call once its time has come, and cancelling it is   *)
(* too late for a callback that already waits for the worker.              *)

Due(task) == now >= task.at - Early

Cancelled(tasks, handle) ==
    {tasks \ {handle}} \cup (IF handle # None /\ Due(handle) THEN {tasks} ELSE {})

(* _schedule_restart: c is the campaign, tokens taken from it.             *)
Scheduled(c, g) ==
    IF c.next = None THEN {c}
    ELSE LET task == [campaign |-> c.campaign, generation |-> g, at |-> c.next]
         IN  {[c EXCEPT !.tasks = rest \cup {task}, !.handle = task] :
                  rest \in Cancelled(c.tasks, c.handle)}

------------------------------------------------------------------------------
(* report_fatal *)

(* Mutant of Handover: the failsafe starts without the command history. *)
Handover_WithoutHistory ==
    [generation |-> generation + 1, mode |-> None, sc |-> None,
     report |-> IF attached /\ runtimeReport # None THEN runtimeReport ELSE reported]

(* _normal_handover_evidence and restore_handover: what a new failsafe     *)
(* knows; without an attached runtime only the supervisor's own report.    *)
Handover ==
    [generation |-> generation + 1, mode |-> None,
     sc |-> IF attached THEN sc ELSE None,
     report |-> IF attached /\ runtimeReport # None THEN runtimeReport ELSE reported]

(* The host submits a report for every failure it sees, also while the     *)
(* failsafe is in charge (host.py:382-391); no runtime is attached then.   *)
ReportFatal(stops) ==
    /\ generation < MaxGeneration
    /\ normalActive' = FALSE /\ attached' = FALSE
    /\ generation' = generation + 1
    /\ authority' = "failsafe"
    /\ late' = IF attached /\ ~stops THEN late \cup {generation} ELSE late
    /\ IF attached
       THEN status' = "stopped" /\ sc' = IF sc = None THEN None ELSE StoppedState(sc, sc.at)
       ELSE UNCHANGED <<status, sc>>
    /\ uninformed' = IF attached THEN uninformed ELSE Rank(FailsafePort(generation + 1))
    /\ EvaluateFailsafe(Handover, trusted, FALSE, <<"failsafe", generation + 1>>)
    /\ restart' \in Scheduled([restart EXCEPT !.phase = "failsafe", !.campaign = @ + 1,
                                              !.exhausted = FALSE, !.next = now + RetryInterval],
                              generation + 1)
    /\ expired' = FALSE
    /\ UNCHANGED <<now, applied, runtimeReport, reports, trusted, manual>>

------------------------------------------------------------------------------
(* request_restart *)

MayRestart(c) == ~c.exhausted /\ (c.next # None => now >= c.next)

(* The candidate takes over the failsafe's snapshot and report; its        *)
(* dispatcher starts empty.  _invalidate_callbacks forgets every timer.    *)
RestartSucceeds(c) ==
    /\ MayRestart(c)
    /\ authority' = "normal" /\ normalActive' = TRUE /\ attached' = TRUE
    /\ sc' = failsafe.sc /\ runtimeReport' = failsafe.report
    /\ applied' = None /\ status' = "running"
    /\ \E rest \in Cancelled(c.tasks, c.handle) :
         restart' = [c EXCEPT !.phase = "normal", !.campaign = @ + 1, !.attempts = @ + 1,
                              !.next = None, !.tasks = rest, !.handle = None]
    /\ \E rest \in Cancelled(manual.tasks, manual.handle) :
         manual' = [token |-> manual.token + 1, tasks |-> rest, handle |-> None]
    /\ expired' = FALSE
    /\ UNCHANGED <<now, source, commander, reports, trusted, failsafe, generation, late, uninformed>>

Exhausts(attempts) == attempts >= AttemptLimit

RestartFails(c) ==
    /\ MayRestart(c)
    /\ LET tried == [c EXCEPT !.attempts = @ + 1]
       IN  IF Exhausts(tried.attempts)
           THEN restart' = [tried EXCEPT !.phase = "restart_exhausted", !.exhausted = TRUE,
                                         !.next = None]
           ELSE restart' \in Scheduled([tried EXCEPT !.phase = "restart_wait",
                                                     !.next = now + RetryInterval], generation)
    /\ UNCHANGED <<now, normal, source, commander, reports, trusted, failsafe, power, manual, expired>>

RestartRefused(c) ==
    /\ ~MayRestart(c)
    /\ restart' = c
    /\ UNCHANGED <<now, normal, source, commander, reports, trusted, failsafe, power, manual, expired>>

(* An operator asks, while the normal runtime is quarantined.              *)
RequestRestart ==
    /\ ~normalActive
    /\ RestartSucceeds(restart) \/ RestartFails(restart)

(* Mutant of Rescheduled: a premature callback is simply consumed. *)
Rescheduled_Lost(c) == {c}

Rescheduled(c) == Scheduled(c, generation)

(* _restart_callback *)
RestartCallback(task) ==
    /\ task \in restart.tasks
    /\ Due(task)
    /\ LET consumed == [restart EXCEPT !.tasks = @ \ {task}]
           current == task.campaign = restart.campaign /\ task.generation = generation /\ ~normalActive
       IN  IF current /\ now >= task.at
           THEN LET c == [consumed EXCEPT !.handle = None]
                IN  RestartSucceeds(c) \/ RestartFails(c) \/ RestartRefused(c)
           ELSE /\ restart' \in (IF current THEN Rescheduled(consumed) ELSE {consumed})
                /\ UNCHANGED <<now, normal, source, commander, reports, trusted, failsafe,
                               power, manual, expired>>

(* reset_restart_campaign; the phase stays.                                *)
ResetCampaign ==
    /\ restart.resets < MaxResets
    /\ \E rest \in Cancelled(restart.tasks, restart.handle) :
         restart' \in Scheduled([restart EXCEPT !.campaign = @ + 1, !.attempts = 0,
                                                !.exhausted = FALSE, !.next = now + RetryInterval,
                                                !.tasks = rest, !.handle = None,
                                                !.resets = @ + 1], generation)
    /\ expired' = FALSE
    /\ UNCHANGED <<now, normal, source, commander, reports, trusted, failsafe, power, manual>>

------------------------------------------------------------------------------
(* Manual recovery.                                                        *)

(* activate_manual_recovery: in any phase; a failsafe left from an earlier *)
(* campaign is evaluated too, without owning the authority.                *)
ActivateManual ==
    /\ manual.token < MaxManual
    /\ IF failsafe = None
       THEN UNCHANGED <<source, commander, failsafe>>
       ELSE EvaluateFailsafe(failsafe, trusted, TRUE, <<authority, generation>>)
    /\ \E rest \in Cancelled(manual.tasks, manual.handle) :
         LET task == [token |-> manual.token + 1, at |-> now + ManualFor]
         IN  manual' = [token |-> manual.token + 1, tasks |-> rest \cup {task}, handle |-> task]
    /\ UNCHANGED <<now, normal, reports, trusted, power, restart, expired>>

(* _manual_expired: enters the failsafe again, with a new restart time but *)
(* no new restart callback.                                                *)
ManualCallback(task) ==
    /\ task \in manual.tasks
    /\ Due(task)
    /\ IF task.token # manual.token \/ normalActive \/ now < task.at
       THEN /\ manual' = [manual EXCEPT !.tasks = @ \ {task}]
            /\ UNCHANGED <<source, commander, failsafe, restart, expired>>
       ELSE /\ manual' = [manual EXCEPT !.tasks = @ \ {task}, !.handle = None]
            /\ restart' = [restart EXCEPT !.phase = "failsafe", !.exhausted = FALSE,
                                          !.next = now + RetryInterval]
            /\ EvaluateFailsafe(failsafe, trusted, FALSE, <<authority, generation>>)
            /\ expired' = TRUE
    /\ UNCHANGED <<now, normal, reports, trusted, power>>

------------------------------------------------------------------------------
(* Evidence.                                                               *)

(* update_trusted_evidence *)
UpdateTrusted(reading) ==
    /\ trusted' = reading
    /\ IF failsafe # None /\ ~normalActive
       THEN EvaluateFailsafe(failsafe, reading, FALSE, <<authority, generation>>)
       ELSE UNCHANGED <<source, commander, failsafe>>
    /\ UNCHANGED <<now, normal, reports, power, restart, manual, expired>>

(* The host submits a report to the supervisor, awaits it, and submits it  *)
(* to the normal runtime (host.py:753-762): two operations.  A stopped     *)
(* runtime refuses it.                                                     *)
ReportToSupervisor(state) ==
    /\ inbox = None
    /\ reported' = state /\ inbox' = state
    /\ failsafe' = IF failsafe = None THEN None ELSE [failsafe EXCEPT !.report = state]
    /\ UNCHANGED <<now, normal, source, commander, trusted, power, restart, manual, expired>>

ReportToRuntime ==
    /\ inbox # None
    /\ inbox' = None
    /\ runtimeReport' = IF status = "running" THEN inbox ELSE runtimeReport
    /\ UNCHANGED <<now, sc, applied, status, source, commander, reported, trusted, failsafe,
                   power, restart, manual, expired>>

(* Bound: the clock stops at MaxTime.                                      *)
Tick ==
    /\ now < MaxTime
    /\ now' = now + 1
    /\ UNCHANGED <<normal, source, commander, reports, trusted, failsafe, power, restart, manual, expired>>

Next ==
    \/ Tick
    \/ \E r \in Requests : NormalRequest(r)
    \/ \E g \in late, action \in Actions : LateCommand(g, action)
    \/ \E stops \in BOOLEAN : ReportFatal(stops)
    \/ RequestRestart
    \/ \E task \in restart.tasks : RestartCallback(task)
    \/ ResetCampaign
    \/ ActivateManual
    \/ \E task \in manual.tasks : ManualCallback(task)
    \/ \E reading \in Maybe(Readings) : UpdateTrusted(reading)
    \/ \E state \in ReportStates : ReportToSupervisor(state)
    \/ ReportToRuntime

Spec == Init /\ [][Next]_vars

------------------------------------------------------------------------------
(* Safety.                                                                 *)

TypeOK ==
    /\ now \in Time
    /\ sc \in Maybe(States(Time)) /\ applied \in Maybe(Actions)
    /\ source \in Maybe(Command)
    /\ generation \in 1 .. MaxGeneration /\ late \subseteq 1 .. MaxGeneration
    /\ authority = (IF normalActive THEN "normal" ELSE "failsafe")
    /\ attached = normalActive
    /\ failsafe # None => failsafe.sc \in Maybe(States(Time)) /\ failsafe.generation <= generation
    /\ restart \in CampaignType /\ manual \in ManualType

(* Controllers command in the order they came to power: every executed     *)
(* command is that of the controller in charge, and a controller that lost *)
(* its authority, a quarantined runtime or an old failsafe, never gets it  *)
(* back and never commands again (02_Architecture.md:151-157).             *)
InPower == Rank(<<authority, generation>>)

AuthorityNeverReturns ==
    [][ /\ InPower' >= InPower
        /\ source' # source => commander' = InPower' ]_vars

(* The controller in charge knows the last executed command, whoever sent  *)
(* it, and protects it: nothing is lost or invented in a handover, a       *)
(* failed restart, or a manual recovery (02_Architecture.md:167-173).  The *)
(* exception is a failure reported while no runtime is attached: the new   *)
(* failsafe is told nothing (runtime_supervisor.py:161-164), and until it  *)
(* or its successor commands, the controllers know of no command at all.   *)
InCharge == IF normalActive THEN sc ELSE failsafe.sc

Forgotten == commander < uninformed

ControllerKnowsSource ==
    IF source = None \/ Forgotten
    THEN InCharge = None \/ InCharge.last = None
    ELSE /\ InCharge # None /\ InCharge.last = source.action
         /\ IF source.action = "enable"
            THEN InCharge.disableFrom = (IF MinOn > 0 THEN source.at + MinOn ELSE None)
            ELSE InCharge.enableFrom = (IF MinOff > 0 THEN source.at + MinOff ELSE None)

(* The whole supervised system, across failures and restarts, implements   *)
(* the protection contract of the source, but for the first command after  *)
(* such a report, which is sent in ignorance of the one before.            *)
Protection == INSTANCE SourceProtection WITH controlled <- TRUE

SupervisedProtection ==
    /\ Protection!Init
    /\ [][Protection!Next \/ commander < uninformed']_(Protection!vars)

(* A failsafe without trusted evidence gets the source off, whatever was   *)
(* protected, or its command failed at the port.                           *)
FailsafeTurnsOff ==
    (~normalActive /\ failsafe.mode.mode = "emergency_off") =>
        \/ source # None /\ source.action = "disable"
        \/ failsafe.sc.outcome = "failed"

(* While the failsafe is in charge and the budget is not exhausted, a       *)
(* restart is on its way that will not be refused as stale: no attempt,    *)
(* reset or early callback loses the campaign.  The exception is a manual  *)
(* recovery that ended in this campaign (runtime_supervisor.py:404-409).   *)
RestartOnItsWay ==
    \E task \in restart.tasks :
        task.campaign = restart.campaign /\ task.generation = generation /\ task.at >= restart.next

RestartIsScheduled ==
    (~normalActive /\ ~expired /\ ~restart.exhausted) => RestartOnItsWay
==============================================================================
