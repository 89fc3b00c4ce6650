--------------------------- MODULE ConfigurationActivation ---------------------------
(***************************************************************************)
(* Which configuration a config entry runs.  Each module - heating, water  *)
(* safety - has an active reference in the config entry (the authority);   *)
(* an activation stages a candidate, reloads the entry, and moves the      *)
(* reference by compare and set once the candidate runs; a durable attempt *)
(* records how far it got.  A restart in between leaves an attempt that is *)
(* neither, which setup recovers.                                          *)
(* (application/setup/activation.py, infrastructure/home_assistant/        *)
(* setup_persistence.py, custom_components/controlel/activation_backend.py,*)
(* water_safety_activation.py, water_safety_lifecycle.py, __init__.py)     *)
(*                                                                         *)
(* Home Assistant (external) runs the setup and the unload of one entry    *)
(* one at a time, under the entry's setup lock, and calls the unload only  *)
(* of a loaded entry.  One reload is one step here; what follows it - a    *)
(* recovery, an activation's next write - are steps of their own.          *)
(***************************************************************************)
EXTENDS Values, Sequences, FiniteSets

CONSTANTS
    HeatingRevisions, WaterRevisions,  \* the persisted canonical revisions
    Conversions,     \* heating revisions converted from the legacy settings
    Unknown,         \* a revision nobody persisted
    Initial,         \* bound: the revisions an entry may start with
    MaxAttempts,     \* bound: activations
    MaxWaiting,      \* bound: requests waiting for the activation lock
    MaxCrashes,      \* bound: restarts of the process
    MaxReloads,      \* bound: reloads by the user or by the update listener
    MaxFaults        \* bound: starts, stops and writes that fail

ASSUME ConversionsAreHeating == Conversions \subseteq HeatingRevisions
ASSUME RevisionsAreNames ==
    /\ {None, "legacy", Unknown} \cap (HeatingRevisions \cup WaterRevisions) = {}
    /\ HeatingRevisions \cap WaterRevisions = {}
ASSUME NoneIsNotLegacy == None # "legacy"
ASSUME ActivationBounds ==
    {MaxAttempts, MaxWaiting, MaxCrashes, MaxReloads, MaxFaults} \subseteq Nat

VARIABLES
    legacy,    \* durable: the entry carries legacy heating settings
    active,    \* durable: the active reference of each module
    attempts,  \* durable: the activation attempts
    up,        \* the process runs
    rt,        \* what is loaded and running, see RuntimeType
    staged,    \* the candidate a reload selects, of each module
    setup,     \* recovery that a setup in progress still has to do, or None
    job,       \* the activation that holds the activation lock, or None
    waiting,   \* activations that wait for it
    swapped,   \* history: attempts that moved a reference
    skipped,   \* history: a setup, or an activation's end, left out a recovery
    used       \* how much of each bound is used

durable == <<legacy, active, attempts>>
history == <<swapped, skipped>>
vars == <<durable, history, up, rt, staged, setup, job, waiting, used>>

Modules == {"heating", "water"}
Revisions(m) == IF m = "heating" THEN HeatingRevisions ELSE WaterRevisions
Ids == 1 .. MaxAttempts

NoReference == [rev |-> None, gen |-> 0, op |-> 0]
Reference(m) == {NoReference} \cup [rev : Revisions(m), gen : 1 .. MaxAttempts + 1, op : {0} \cup Ids]
NothingStaged == [m \in Modules |-> None]

(* loaded_configuration and host of the entry's runtime data; the water    *)
(* host's object outlives its stop, and its lifecycle owner retains a host *)
(* whose cleanup is incomplete.  An orphan runs though no entry knows it.   *)
RuntimeType == [entry : {"not_loaded", "loaded", "failed", "failed_unload"},
                heating : {None, "legacy"} \cup HeatingRevisions,
                water : {None} \cup WaterRevisions, running : BOOLEAN,
                retained : BOOLEAN, orphans : SUBSET Modules]
NothingLoaded == [entry |-> "not_loaded", heating |-> None, water |-> None,
                  running |-> FALSE, retained |-> FALSE, orphans |-> {}]

AttemptType == [module : Modules, candidate : HeatingRevisions \cup WaterRevisions,
                previous : {None} \cup HeatingRevisions \cup WaterRevisions,
                generation : 0 .. MaxAttempts + 1, ready : BOOLEAN,
                state : {"prepared", "applying", "committed", "rolled_back", "failed"}]

Uses(kind, n) == used' = [used EXCEPT ![kind] = @ + n]
Allows(kind, n) == used[kind] + n <= CASE kind = "crashes" -> MaxCrashes
                                       [] kind = "reloads" -> MaxReloads
                                       [] kind = "faults" -> MaxFaults

------------------------------------------------------------------------------
(* Attempts and references *)

Terminal == {"committed", "rolled_back", "failed"}
Interrupted(m) == {i \in DOMAIN attempts : attempts[i].module = m
                                           /\ attempts[i].state \notin Terminal}

(* Written to the store, or the write fails. *)
Transition(i, state) == attempts' = [attempts EXCEPT ![i].state = state]

Durable(i) == LET a == attempts[i] IN
    active[a.module].rev = a.candidate /\ active[a.module].op = i

Recovered_ByReadiness(i, rolledBack) ==
    IF attempts[i].state \in Terminal THEN attempts[i].state
    ELSE IF attempts[i].ready THEN "committed"
    ELSE IF rolledBack THEN "rolled_back" ELSE "failed"

(* recover_interrupted: a reference the attempt moved is a commit whatever *)
(* the attempt says; anything else did not happen.                         *)
Recovered(i, rolledBack) ==
    IF attempts[i].state \in Terminal THEN attempts[i].state
    ELSE IF Durable(i) THEN "committed"
    ELSE IF rolledBack THEN "rolled_back" ELSE "failed"

------------------------------------------------------------------------------
(* Unload and setup of the entry *)

SelectedHeating ==
    IF staged["heating"] # None THEN staged["heating"]
    ELSE IF active["heating"].rev # None THEN active["heating"].rev
    ELSE IF legacy THEN "legacy" ELSE None
SelectedWater == IF staged["water"] # None THEN staged["water"] ELSE active["water"].rev

(* Water Safety alone when heating has no authority - legacy settings are  *)
(* none - and no candidate; nothing at all in an entry without data.       *)
Route ==
    IF /\ active["heating"].rev = None /\ staged["heating"] = None /\ SelectedWater # None
    THEN "water_only"
    ELSE IF SelectedHeating = None THEN "unconfigured" ELSE "full"

(* async_unload_entry: "refused" when the platforms do not unload, which   *)
(* leaves the hosts running; otherwise everything stops, and the entry is  *)
(* unloaded unless the water host could still act ("stuck").  An entry     *)
(* whose setup failed is set up again without an unload.                   *)
UnloadOutcomes ==
    {"complete"}
    \cup (IF rt.entry = "loaded" /\ rt.heating # None THEN {"refused"} ELSE {})
    \cup (IF rt.entry = "loaded" /\ (rt.running \/ rt.retained \/ "water" \in rt.orphans)
          THEN {"retained", "stuck"} ELSE {})
Unloaded(outcome) ==
    IF rt.entry # "loaded"
    THEN [NothingLoaded EXCEPT
            !.retained = rt.retained,
            !.orphans = rt.orphans \cup {m \in Modules : IF m = "water" THEN rt.running
                                                         ELSE rt.heating # None}]
    ELSE IF outcome = "refused" THEN [rt EXCEPT !.entry = "failed_unload"]
    ELSE [NothingLoaded EXCEPT
            !.entry = IF outcome = "stuck" THEN "failed_unload" ELSE "not_loaded",
            !.retained = outcome # "complete",
            !.orphans = rt.orphans \ {"water"}]

(* The water host starts unless its owner still has an earlier one; one    *)
(* that does not start leaves the entry loaded without it.                 *)
StartedWater(down, waters, retained) ==
    IF waters /\ ~retained /\ "water" \notin down.orphans THEN SelectedWater ELSE None

Loaded(down, heating, water, retained) ==
    [down EXCEPT !.entry = "loaded", !.heating = heating, !.water = water,
                 !.running = water # None, !.retained = retained]

(* A heating host that does not start fails the setup. *)
SetUpFull(down, heats, water, retained) ==
    IF heats THEN Loaded(down, SelectedHeating, water, retained)
    ELSE [down EXCEPT !.entry = "failed", !.retained = retained]
SetUpWaterOnly(down, water, retained) == Loaded(down, None, water, retained)
SetUpUnconfigured(down, retained) == Loaded(down, None, None, retained)

(* _async_setup_entry first retries the cleanup of a retained host. *)
Started(down, heats, waters, cleaned) ==
    LET retained == down.retained /\ ~cleaned
        water == StartedWater(down, waters, retained)
    IN CASE Route = "unconfigured" -> SetUpUnconfigured(down, retained)
         [] Route = "water_only" -> SetUpWaterOnly(down, water, retained)
         [] Route = "full" -> SetUpFull(down, heats, water, retained)

(* The starts and the stops among these that went wrong. *)
Failures(outcome, heats, waters) ==
    (IF outcome = "complete" THEN 0 ELSE 1) + (IF heats THEN 0 ELSE 1) + (IF waters THEN 0 ELSE 1)

(* hass.config_entries.async_reload, by an activation (alone = 0) or not:  *)
(* it succeeds when the entry is loaded again, and raises for an entry     *)
(* whose unload failed before.                                             *)
Reload(alone) ==
    \/ rt.entry = "failed_unload" /\ UNCHANGED <<rt, used>>
    \/ /\ rt.entry # "failed_unload"
       /\ \E outcome \in UnloadOutcomes, heats, waters, cleaned \in BOOLEAN :
            LET down == Unloaded(outcome)
                n == Failures(outcome, heats, waters)
            IN /\ Allows("faults", n)
               /\ used' = [used EXCEPT !["faults"] = @ + n, !["reloads"] = @ + alone]
               /\ rt' = IF down.entry = "failed_unload" THEN down
                        ELSE Started(down, heats, waters, cleaned)

ReloadSucceeded == rt.entry # "failed_unload" /\ rt'.entry = "loaded"

(* _running_water_stamp and _authority_is_running *)
WaterStamp(r) == IF r.running THEN r.water ELSE None
WaterAuthorityRuns(r) ==
    IF active["water"].rev = None THEN r.water = None
    ELSE WaterStamp(r) = active["water"].rev

(* The rollback of a heating activation counts when the prior authority,   *)
(* or the absence of one, is what the reload loaded.                       *)
HeatingRestored(a, r) ==
    IF a.previous = None THEN active["heating"].rev = None /\ r.heating \in {None, "legacy"}
    ELSE active["heating"].rev = a.previous /\ r.heating = a.previous

(* Mutant of Quiesced: the candidate keeps running. *)
Quiesced_Never(r) == r

(* _async_quiesce_non_authoritative_runtime *)
Quiesced(r) ==
    LET authority == IF active["heating"].rev = None THEN {None, "legacy"} ELSE {active["heating"].rev}
    IN IF r.heating \in authority THEN r ELSE [r EXCEPT !.heating = None]

(* The water host a failed restore leaves is stopped unless it is the      *)
(* authority's; when its cleanup is incomplete its owner retains it.       *)
WaterQuiesced(r, complete) ==
    IF WaterAuthorityRuns(r) \/ r.water = None THEN r
    ELSE [r EXCEPT !.running = FALSE, !.water = IF complete THEN None ELSE @,
                   !.retained = @ \/ ~complete]

------------------------------------------------------------------------------
(* Setup on its own: at the start of the process, or by a reload that no   *)
(* activation asked for.                                                   *)

Recovery(phase, todo) == [phase |-> phase, todo |-> todo]
Recoveries == [phase : {"heating", "each_heating", "water", "each_water", "hung"}, todo : SUBSET Nat]
ASSUME NoneIsNoRecovery == None \notin Recoveries
SetupHoldsLock == setup # None /\ setup.phase \in {"each_water", "hung"}
LockFree == job = None /\ ~SetupHoldsLock

AfterStart_WaterAlone(r, route) ==
    IF r.entry # "loaded" THEN None ELSE Recovery("water", {})

(* What is left of a setup that loaded the entry: only the full route      *)
(* recovers heating's attempts.                                            *)
AfterStart(r, route) ==
    IF r.entry # "loaded" THEN None
    ELSE Recovery(IF route = "full" THEN "heating" ELSE "water", {})

Start ==
    /\ ~up
    /\ up' = TRUE
    /\ \E heats, waters \in BOOLEAN :
        /\ Allows("faults", Failures("complete", heats, waters))
        /\ Uses("faults", Failures("complete", heats, waters))
        /\ rt' = Started(NothingLoaded, heats, waters, TRUE)
    /\ setup' = AfterStart(rt', Route)
    /\ skipped' = FALSE
    /\ UNCHANGED <<durable, swapped, staged, job, waiting>>

ReloadAlone ==
    /\ up /\ setup = None /\ rt.entry \in {"loaded", "failed"}
    /\ Allows("reloads", 1)
    /\ Reload(1)
    /\ setup' = AfterStart(rt', Route)
    /\ skipped' = FALSE
    /\ UNCHANGED <<durable, swapped, up, staged, job, waiting>>

(* async_recover_interrupted_activation, after the platforms are loaded:   *)
(* nothing while an activation holds the lock, otherwise the attempts of   *)
(* the loaded authority's scope - without an authority, those that had no  *)
(* predecessor.                                                            *)
ListHeatingAttempts ==
    /\ setup # None /\ setup.phase = "heating"
    /\ setup' = IF job # None \/ staged["heating"] # None THEN Recovery("water", {})
                ELSE Recovery("each_heating",
                        {i \in Interrupted("heating") \cup Interrupted("water") :
                            IF active["heating"].rev # None THEN attempts[i].module = "heating"
                            ELSE attempts[i].previous = None})
    /\ skipped' = (skipped \/ job # None)
    /\ UNCHANGED <<durable, swapped, up, rt, staged, job, waiting, used>>

NextOf(todo) == CHOOSE i \in todo : \A j \in todo : i <= j

(* The loaded runtime is the attempt's predecessor, or there is neither.   *)
LoadedPredecessor(i) ==
    IF attempts[i].previous = None
    THEN active["heating"].rev = None /\ rt.heating \in {None, "legacy"}
    ELSE rt.heating = attempts[i].previous

RecoverHeatingAttempt ==
    /\ setup # None /\ setup.phase = "each_heating" /\ setup.todo # {}
    /\ LET i == NextOf(setup.todo) IN
        \/ /\ Transition(i, Recovered(i, LoadedPredecessor(i)))
           /\ setup' = [setup EXCEPT !.todo = @ \ {i}]
           /\ UNCHANGED <<rt, used>>
        \/ /\ Allows("faults", 1) /\ attempts[i].state \notin Terminal
           /\ Uses("faults", 1)
           /\ setup' = None
           /\ rt' = [rt EXCEPT !.entry = "failed", !.heating = None, !.water = None,
                               !.running = FALSE]
           /\ UNCHANGED attempts
    /\ UNCHANGED <<legacy, active, history, up, staged, job, waiting>>

HeatingRecovered ==
    /\ setup # None /\ setup.phase = "each_heating" /\ setup.todo = {}
    /\ setup' = Recovery("water", {})
    /\ UNCHANGED <<durable, history, up, rt, staged, job, waiting, used>>

ListWaterAttempts_WaitsForLock ==
    /\ setup # None /\ setup.phase = "water" /\ job = None
    /\ setup' = IF Interrupted("water") = {} THEN None
                ELSE Recovery(IF WaterAuthorityRuns(rt) THEN "each_water" ELSE "hung",
                              Interrupted("water"))
    /\ UNCHANGED <<durable, history, up, rt, staged, job, waiting, used>>

(* async_recover_water_activation: it takes the lock unless an activation  *)
(* has it.  With the authority not running it reloads the entry - whose    *)
(* setup lock this very setup holds - and waits for itself.                *)
ListWaterAttempts ==
    /\ setup # None /\ setup.phase = "water"
    /\ setup' = IF job # None \/ Interrupted("water") = {} THEN None
                ELSE Recovery(IF WaterAuthorityRuns(rt) THEN "each_water" ELSE "hung",
                              Interrupted("water"))
    /\ skipped' = (skipped \/ job # None)
    /\ UNCHANGED <<durable, swapped, up, rt, staged, job, waiting, used>>

WaterPredecessor(i) ==
    \/ active["water"].rev = None /\ attempts[i].previous = None
    \/ WaterStamp(rt) # None /\ WaterStamp(rt) = attempts[i].previous

(* A failed write fails the setup; the hosts stay as they are.             *)
RecoverWaterAttempt ==
    /\ setup # None /\ setup.phase = "each_water" /\ setup.todo # {}
    /\ LET i == NextOf(setup.todo) IN
        \/ /\ Transition(i, Recovered(i, WaterPredecessor(i)))
           /\ setup' = IF setup.todo = {i} THEN None ELSE [setup EXCEPT !.todo = @ \ {i}]
           /\ UNCHANGED <<rt, used>>
        \/ /\ Allows("faults", 1) /\ attempts[i].state \notin Terminal
           /\ Uses("faults", 1)
           /\ setup' = None
           /\ rt' = [rt EXCEPT !.entry = "failed"]
           /\ UNCHANGED attempts
    /\ UNCHANGED <<legacy, active, history, up, staged, job, waiting>>

SetupStep ==
    \/ ListHeatingAttempts \/ RecoverHeatingAttempt \/ HeatingRecovered
    \/ ListWaterAttempts \/ RecoverWaterAttempt

------------------------------------------------------------------------------
(* Requests *)

ActivationRequest(m, r, expected) == [module |-> m, rev |-> r, expected |-> expected]

Room ==
    /\ Cardinality(waiting) < MaxWaiting
    /\ Cardinality(waiting) + Len(attempts) + (IF job # None /\ job.op = 0 THEN 1 ELSE 0)
         < MaxAttempts

(* A heating draft remembers the reference it started from. *)
RequestHeating(r) ==
    /\ up /\ rt.entry # "not_loaded"
    /\ Room
    /\ waiting' = waiting \cup {ActivationRequest("heating", r, active["heating"])}
    /\ UNCHANGED <<durable, history, up, rt, staged, setup, job, used>>

(* async_step_water_safety_activate: the flow of the config entry. *)
RequestWater(r) ==
    /\ up /\ rt.entry # "not_loaded"
    /\ Room
    /\ waiting' = waiting \cup {ActivationRequest("water", r, NoReference)}
    /\ UNCHANGED <<durable, history, up, rt, staged, setup, job, used>>

(* _activate_water_setup, the websocket command: it stops the host that    *)
(* runs before it asks for the activation, and refuses to go on when the   *)
(* host's cleanup is incomplete.                                           *)
RequestWaterByCommand(r) ==
    /\ up /\ rt.entry # "not_loaded"
    /\ Room
    /\ \E complete \in BOOLEAN :
        LET n == IF complete THEN 0 ELSE 1 IN
        /\ Allows("faults", n) /\ (~complete => rt.running \/ rt.retained)
        /\ Uses("faults", n)
        /\ rt' = [rt EXCEPT !.running = FALSE,
                            !.retained = ~complete]
        /\ waiting' = IF complete THEN waiting \cup {ActivationRequest("water", r, NoReference)} ELSE waiting
    /\ UNCHANGED <<durable, history, up, staged, setup, job>>

------------------------------------------------------------------------------
(* An activation, with the activation lock *)

Steps == {"unprepared", "prepared", "applying", "loaded", "ready", "swapped", "reconciling",
          "restoring", "reloaded", "restored"}
Activations == [module : Modules, rev : HeatingRevisions \cup WaterRevisions, op : Nat,
                pc : Steps, todo : SUBSET Nat, restored : BOOLEAN]
ASSUME NoneIsNoActivation == None \notin Activations

Job(q, op, pc, todo) == [module |-> q.module, rev |-> q.rev, op |-> op, pc |-> pc,
                         todo |-> todo, restored |-> FALSE]
At(pc) == job # None /\ job.pc = pc
Goto(pc) == job' = [job EXCEPT !.pc = pc]

(* What async_activate_canonical_revision refuses before it prepares: an   *)
(* unknown or active revision, legacy settings that are not converted, a   *)
(* reference that moved since the draft began.                             *)
HeatingRefused(q) ==
    \/ q.rev \notin HeatingRevisions
    \/ active["heating"].rev = None /\ legacy /\ q.rev \notin Conversions
    \/ q.expected # active["heating"]
    \/ active["heating"].rev = q.rev

(* prepare, and reserve_activation_attempt: one open attempt per scope. *)
Prepared(q) ==
    attempts' = Append(attempts,
        [module |-> q.module, candidate |-> q.rev, previous |-> active[q.module].rev,
         generation |-> active[q.module].gen, ready |-> FALSE, state |-> "prepared"])

BeginHeating ==
    /\ up /\ LockFree
    /\ \E q \in waiting :
        /\ q.module = "heating" /\ waiting' = waiting \ {q}
        /\ \/ /\ HeatingRefused(q) \/ Interrupted("heating") # {}
              /\ UNCHANGED <<attempts, job, used>>
           \/ /\ ~HeatingRefused(q) /\ Interrupted("heating") = {}
              /\ \/ /\ Prepared(q) /\ job' = Job(q, Len(attempts) + 1, "prepared", {})
                    /\ UNCHANGED used
                 \/ /\ Allows("faults", 1) /\ Uses("faults", 1)
                    /\ UNCHANGED <<attempts, job>>
    /\ UNCHANGED <<legacy, active, history, up, rt, staged, setup>>

(* activate_canonical_revision finds the revision, and has what earlier    *)
(* attempts left behind recovered first.                                   *)
BeginWater ==
    /\ up /\ LockFree
    /\ \E q \in waiting :
        /\ q.module = "water" /\ waiting' = waiting \ {q}
        /\ job' = IF q.rev \notin WaterRevisions THEN None
                  ELSE Job(q, 0, IF Interrupted("water") = {} THEN "unprepared" ELSE "restoring",
                           Interrupted("water"))
    /\ UNCHANGED <<durable, history, up, rt, staged, setup, used>>

PrepareWater ==
    /\ At("unprepared")
    /\ \/ /\ Prepared(job)
          /\ job' = [job EXCEPT !.op = Len(attempts) + 1, !.pc = "prepared"]
          /\ UNCHANGED used
       \/ /\ Allows("faults", 1) /\ Uses("faults", 1)
          /\ job' = None /\ UNCHANGED attempts
    /\ UNCHANGED <<legacy, active, history, up, rt, staged, setup, waiting>>

Attempt == attempts[job.op]
Unstaged == staged' = [staged EXCEPT ![job.module] = None]
Finish == job' = None /\ Unstaged
GiveUp == Goto("restoring") /\ Unstaged

(* Before the handover begins a heating activation that cannot go on       *)
(* simply raises; a water activation is rolled back.                       *)
NotApplied == IF job.module = "heating" THEN Finish ELSE GiveUp

BeginApplying ==
    /\ At("prepared")
    /\ \/ Attempt.state # "prepared" /\ NotApplied /\ UNCHANGED <<attempts, used>>
       \/ /\ Attempt.state = "prepared"
          /\ \/ /\ Transition(job.op, "applying")
                /\ staged' = [staged EXCEPT ![job.module] = job.rev]
                /\ Goto("applying") /\ UNCHANGED used
             \/ /\ NotApplied /\ UNCHANGED attempts
                /\ Allows("faults", 1) /\ Uses("faults", 1)
    /\ UNCHANGED <<legacy, active, history, up, rt, setup, waiting>>

(* The handover: the reload selects what is staged. *)
HandOver ==
    /\ At("applying") /\ setup = None
    /\ Reload(0)
    /\ IF ReloadSucceeded THEN Goto("loaded") /\ UNCHANGED staged ELSE GiveUp
    /\ UNCHANGED <<durable, history, up, setup, waiting>>

CandidateRuns ==
    IF job.module = "heating" THEN rt.entry = "loaded" /\ rt.heating = job.rev
    ELSE WaterStamp(rt) = job.rev

(* record_candidate_runtime_ready *)
RecordReady ==
    /\ At("loaded")
    /\ \/ /\ CandidateRuns /\ Attempt.state = "applying"
          /\ attempts' = [attempts EXCEPT ![job.op].ready = TRUE]
          /\ Goto("ready") /\ UNCHANGED <<staged, used>>
       \/ /\ ~(CandidateRuns /\ Attempt.state = "applying")
          /\ GiveUp /\ UNCHANGED <<attempts, used>>
       \/ /\ CandidateRuns /\ Allows("faults", 1) /\ Uses("faults", 1)
          /\ GiveUp /\ UNCHANGED attempts
    /\ UNCHANGED <<legacy, active, history, up, rt, setup, waiting>>

(* commit up to compare_and_swap_active_reference, which refuses to        *)
(* replace legacy settings by anything but their conversion.               *)
MaySwap ==
    /\ Attempt.state = "applying" /\ Attempt.ready
    /\ active[job.module].rev = Attempt.previous
    /\ active[job.module].gen = Attempt.generation
    /\ legacy => job.rev \in Conversions

Swap ==
    /\ At("ready")
    /\ IF MaySwap
       THEN /\ active' = [active EXCEPT ![job.module] =
                            [rev |-> job.rev, gen |-> Attempt.generation + 1, op |-> job.op]]
            /\ legacy' = FALSE /\ swapped' = swapped \cup {job.op}
            /\ Goto("swapped") /\ UNCHANGED staged
       ELSE GiveUp /\ UNCHANGED <<active, legacy, swapped>>
    /\ UNCHANGED <<skipped, attempts, up, rt, setup, waiting, used>>

RecordCommitted ==
    /\ At("swapped")
    /\ \/ /\ Transition(job.op, "committed") /\ Finish /\ UNCHANGED used
       \/ /\ Goto("reconciling") /\ UNCHANGED <<attempts, staged>>
          /\ Allows("faults", 1) /\ Uses("faults", 1)
    /\ UNCHANGED <<legacy, active, history, up, rt, setup, waiting>>

(* The reference moved but the attempt does not say so.  A heating         *)
(* activation whose second write fails too leaves the attempt open; a      *)
(* water activation goes through its rollback, which may find the commit.  *)
Reconcile ==
    /\ At("reconciling")
    /\ \/ /\ job.module = "heating" \/ WaterAuthorityRuns(rt)
          /\ Transition(job.op, Recovered(job.op, FALSE)) /\ Finish /\ UNCHANGED used
       \/ /\ job.module = "water" /\ ~WaterAuthorityRuns(rt)
          /\ GiveUp /\ UNCHANGED <<attempts, used>>
       \/ /\ Allows("faults", 1) /\ Uses("faults", 1)
          /\ UNCHANGED attempts
          /\ IF job.module = "heating" THEN Finish ELSE GiveUp
    /\ UNCHANGED <<legacy, active, history, up, rt, setup, waiting>>

(* _async_restore_authoritative_runtime and _async_restore_authority: one  *)
(* reloads in any case, the other unless the authority runs.               *)
Restore ==
    /\ At("restoring")
    /\ \/ /\ job.module = "water" /\ WaterAuthorityRuns(rt)
          /\ job' = [job EXCEPT !.pc = "restored", !.restored = TRUE]
          /\ UNCHANGED <<rt, used>>
       \/ /\ job.module = "heating" \/ ~WaterAuthorityRuns(rt)
          /\ setup = None /\ Reload(0)
          /\ job' = [job EXCEPT !.pc = "reloaded", !.restored = ReloadSucceeded]
    /\ UNCHANGED <<durable, history, up, staged, setup, waiting>>

(* What runs now is the authority, or is stopped. *)
Quiesce ==
    /\ At("reloaded")
    /\ IF job.module = "heating"
       THEN LET restored == job.restored /\ HeatingRestored(Attempt, rt) IN
            /\ job' = [job EXCEPT !.pc = "restored", !.restored = restored]
            /\ rt' = IF restored THEN rt ELSE Quiesced(rt)
            /\ UNCHANGED used
       ELSE \E complete \in BOOLEAN :
            LET n == IF complete THEN 0 ELSE 1 IN
            /\ (~complete => rt.running) /\ Allows("faults", n) /\ Uses("faults", n)
            /\ job' = [job EXCEPT !.pc = "restored", !.restored = WaterAuthorityRuns(rt)]
            /\ rt' = WaterQuiesced(rt, complete)
    /\ UNCHANGED <<durable, history, up, staged, setup, waiting>>

(* record_failed_application, or for a water attempt that is not applying  *)
(* or that moved the reference recover_interrupted.  The stamp of the      *)
(* water host is read again: it must still be the predecessor's.           *)
RecordedFailure ==
    IF Attempt.state = "applying" /\ ~(job.module = "water" /\ Durable(job.op))
    THEN IF job.restored THEN "rolled_back" ELSE "failed"
    ELSE IF job.module = "water" THEN Recovered(job.op, job.restored) ELSE Attempt.state
StampHolds ==
    (job.module = "water" /\ job.restored /\ Attempt.previous # None /\ ~Durable(job.op))
        => WaterStamp(rt) = Attempt.previous

(* A failure to write it is only logged.  The stamp fails to hold when a   *)
(* command stopped the restored host in the meantime: the attempt is left  *)
(* open for a later recovery.                                              *)
RecordFailure ==
    /\ At("restored") /\ job.op # 0
    /\ \/ StampHolds /\ Transition(job.op, RecordedFailure) /\ UNCHANGED <<used, skipped>>
       \/ ~StampHolds /\ skipped' = TRUE /\ UNCHANGED <<attempts, used>>
       \/ UNCHANGED <<attempts, skipped>> /\ Allows("faults", 1) /\ Uses("faults", 1)
    /\ Finish
    /\ UNCHANGED <<legacy, active, swapped, up, rt, setup, waiting>>

(* _async_recover_attempts, on the way to a water activation. *)
ClearAttempt ==
    /\ At("restored") /\ job.op = 0
    /\ LET i == NextOf(job.todo) IN
       \/ /\ Transition(i, Recovered(i, job.restored /\ WaterPredecessor(i)))
          /\ job' = [job EXCEPT !.todo = @ \ {i},
                                !.pc = IF job.todo = {i} THEN "unprepared" ELSE @]
          /\ UNCHANGED used
       \/ /\ Allows("faults", 1) /\ attempts[i].state \notin Terminal
          /\ Uses("faults", 1)
          /\ job' = None /\ UNCHANGED attempts
    /\ UNCHANGED <<legacy, active, history, up, rt, staged, setup, waiting>>

JobStep ==
    \/ PrepareWater \/ BeginApplying \/ HandOver \/ RecordReady \/ Swap \/ RecordCommitted
    \/ Reconcile \/ Restore \/ Quiesce \/ RecordFailure \/ ClearAttempt

------------------------------------------------------------------------------
(* The process ends: what is in memory is gone. *)
Crash ==
    /\ up /\ Allows("crashes", 1) /\ Uses("crashes", 1)
    /\ up' = FALSE /\ rt' = NothingLoaded /\ staged' = NothingStaged
    /\ setup' = None /\ job' = None /\ waiting' = {}
    /\ UNCHANGED <<durable, history>>

FirstReferences(m) == {NoReference} \cup [rev : Initial \cap Revisions(m), gen : {1}, op : {0}]

Init ==
    /\ legacy \in BOOLEAN
    /\ active \in [Modules -> UNION {FirstReferences(m) : m \in Modules}]
    /\ \A m \in Modules : active[m] \in (IF legacy THEN {NoReference} ELSE FirstReferences(m))
    /\ attempts = << >> /\ swapped = {} /\ skipped = FALSE
    /\ up = FALSE /\ rt = NothingLoaded /\ staged = NothingStaged
    /\ setup = None /\ job = None /\ waiting = {}
    /\ used = [crashes |-> 0, reloads |-> 0, faults |-> 0]

Next ==
    \/ Start \/ ReloadAlone \/ SetupStep
    \/ \E r \in HeatingRevisions \cup {Unknown} : RequestHeating(r)
    \/ \E r \in WaterRevisions \cup {Unknown} : RequestWater(r) \/ RequestWaterByCommand(r)
    \/ BeginHeating \/ BeginWater \/ JobStep
    \/ Crash

Spec == Init /\ [][Next]_vars

(* The process is started again, a setup and an activation go on, and the  *)
(* lock is given to those who wait.                                        *)
FairSpec ==
    /\ Spec
    /\ WF_vars(Start) /\ WF_vars(SetupStep) /\ WF_vars(JobStep)
    /\ WF_vars(BeginHeating \/ BeginWater)

------------------------------------------------------------------------------
(* Properties *)

AtRest == up /\ job = None /\ setup = None

(* When no activation and no setup is in progress, what an entry runs is   *)
(* the authority: no candidate survives an activation that did not move    *)
(* the reference, not even when the rollback's reload failed               *)
(* (_async_quiesce_non_authoritative_runtime).                             *)
OnlyAuthorityRuns ==
    AtRest =>
        /\ rt.heating \in (IF active["heating"].rev = None THEN {None, "legacy"}
                           ELSE {None, active["heating"].rev})
        /\ rt.running => rt.water = active["water"].rev

(* Restarts alone leave nothing open: when no start, stop or write ever    *)
(* failed, no activation kept the last setup from its recovery, and no     *)
(* command stopped a host that a rollback had just restored, a loaded      *)
(* entry at rest has no open water attempt, and none of heating either if  *)
(* its heating runs.  The unconfigured and the water-only route do not     *)
(* look at heating's attempts.                                             *)
RestartsAreRecovered ==
    (AtRest /\ rt.entry = "loaded" /\ used["faults"] = 0 /\ ~skipped) =>
        /\ Interrupted("water") = {}
        /\ rt.heating # None => Interrupted("heating") = {}

(* An activation as AtomicActivation sees it: decided by the reference     *)
(* alone until the attempt records how it ended.                           *)
Fate(state, moved) ==
    CASE state = "committed" -> "committed"
      [] state \in {"rolled_back", "failed"} -> "aborted"
      [] OTHER -> IF moved THEN "committed" ELSE "open"

Selected == [m \in Modules |-> [rev |-> active[m].rev, gen |-> active[m].gen]]
Fates ==
    [i \in DOMAIN attempts |->
        [module |-> attempts[i].module, candidate |-> attempts[i].candidate,
         fate |-> Fate(attempts[i].state, i \in swapped)]]

Atomic == INSTANCE AtomicActivation WITH
    Nowhere <- [rev |-> None, gen |-> 0], reference <- Selected, fates <- Fates

(* An activation is atomic: through crashes, failed writes and recoveries  *)
(* by several paths the reference moves once, one generation further, for  *)
(* the one open attempt of its module, and evidence written later never    *)
(* says otherwise (recover_interrupted, record_failed_application).        *)
ImplementsAtomicActivation == Atomic!Spec

Hung == setup # None /\ setup.phase = "hung"

(* Every request is answered, unless the process ends or the setup waits   *)
(* for itself (see ListWaterAttempts).                                     *)
RequestsAreAnswered == (waiting # {} \/ job # None) ~> ((waiting = {} /\ job = None) \/ ~up \/ Hung)
==============================================================================
