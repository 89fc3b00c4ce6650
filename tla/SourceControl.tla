-------------------------------- MODULE SourceControl --------------------------------
(***************************************************************************)
(* The command path of one runtime: SourceControlPolicy decides whether a  *)
(* desired command reaches the source, HeatSourceCommandDispatcher calls   *)
(* the port and remembers the applied action, and the runtime records the  *)
(* outcome in the snapshot (control_runtime.py:961-1052).  Where the       *)
(* desired command comes from is left open: any action, with or without    *)
(* safety authority, corrective or not, at any time the clock may show,    *)
(* so that what holds here holds for every arbitration above it.           *)
(*                                                                         *)
(* The clock may show any time of Time next, an earlier one too: the       *)
(* policy refuses an evaluation before the previous one.                   *)
(***************************************************************************)
EXTENDS SourceControlPolicy

CONSTANT Time     \* the times the clock may show
ASSUME TimeIsInteger == Time \subseteq Int

VARIABLES
    now,       \* the injected clock
    sc,        \* source_control_state: a snapshot, or None before the first evaluation
    applied,   \* HeatSourceStateStore: the applied action, or None
    status,    \* "running", "stopped" (stop), "fatal" (fatal_shutdown)
    source     \* history: the last command the port executed, or None

vars == <<now, sc, applied, status, source>>

Command == [action : Actions, at : Time, safety : BOOLEAN]

ASSUME NoneIsNoRecord == None \notin States(Time) /\ None \notin Command

TypeOK ==
    /\ now \in Time
    /\ sc \in Maybe(States(Time))
    /\ applied \in Maybe(Actions)
    /\ status \in {"running", "stopped", "fatal"}
    /\ source \in Maybe(Command)

Init ==
    /\ now \in Time
    /\ sc = None
    /\ applied = None
    /\ status = "running"
    /\ source = None

Current == IF sc = None THEN InitialState(now) ELSE sc

(* A request is corrective only against evidence that contradicts it       *)
(* (control_runtime.py:941-947, 972-973).                                  *)
Contradicting(action) ==
    [state : {IF action = "disable" THEN "enabled" ELSE "disabled"}, transitionAt : Maybe(Time)]

Requests ==
    [action : Actions, safety : BOOLEAN, corrective : {FALSE}, evidence : {None}]
    \cup UNION {[action : {action}, safety : BOOLEAN, corrective : {TRUE},
                 evidence : Contradicting(action)] : action \in Actions}

Admitted ==
    /\ status = "running"
    /\ sc # None => now >= sc.at

------------------------------------------------------------------------------
VerdictOn(r) == Verdict(Current, r.action, now, r.safety, r.corrective, r.evidence)

AssessedFor(r) == Assessed(Current, r.action, now, r.safety, r.corrective, r.evidence)

(* The evaluation ends without a command: a duplicate or a deferral.       *)
Hold(r) ==
    /\ Admitted
    /\ ~Dispatches(VerdictOn(r))
    /\ sc' = AssessedFor(r)
    /\ UNCHANGED <<now, applied, status, source>>

(* dispatch: the dispatcher drops a command equal to the applied action    *)
(* unless it is corrective; otherwise the port executes it.                *)
DropsDuplicate(r) == ~r.corrective /\ applied = r.action

Execute(r) ==
    /\ Admitted
    /\ Dispatches(VerdictOn(r))
    /\ IF DropsDuplicate(r)
       THEN /\ sc' = RecordSuppressedDuplicate(AssessedFor(r), now)
            /\ UNCHANGED <<applied, source>>
       ELSE /\ sc' = RecordDispatched(AssessedFor(r), VerdictOn(r), now)
            /\ applied' = r.action
            /\ source' = [action |-> r.action, at |-> now, safety |-> r.safety]
    /\ UNCHANGED <<now, status>>

(* The port raises: nothing is applied, the failure is recorded.           *)
ExecuteFails(r) ==
    /\ Admitted
    /\ Dispatches(VerdictOn(r))
    /\ ~DropsDuplicate(r)
    /\ sc' = RecordFailed(AssessedFor(r), now)
    /\ UNCHANGED <<now, applied, status, source>>

(* stop: no command, protections kept for a handover; a repeat does        *)
(* nothing.                                                                *)
Stop ==
    /\ status = "running"
    /\ status' = "stopped"
    /\ sc' = IF sc = None THEN None ELSE StoppedState(sc, sc.at)
    /\ UNCHANGED <<now, applied, source>>

(* fatal_shutdown: terminal, also after stop; at most one emergency        *)
(* disable, which bypasses the policy and leaves the applied action alone. *)
(* It is not attempted when the command that failed was itself a disable.  *)
FatalShutdown(failedAction, portOk) ==
    /\ status # "fatal"
    /\ status' = "fatal"
    /\ sc' = FatalState(Current, now)
    /\ source' = IF failedAction # "disable" /\ portOk
                 THEN [action |-> "disable", at |-> now, safety |-> TRUE]
                 ELSE source
    /\ UNCHANGED <<now, applied>>

ClockMoves ==
    /\ now' \in Time
    /\ UNCHANGED <<sc, applied, status, source>>

Next ==
    \/ ClockMoves
    \/ \E r \in Requests : Hold(r) \/ Execute(r) \/ ExecuteFails(r)
    \/ Stop
    \/ \E failedAction \in Maybe(Actions), portOk \in BOOLEAN : FatalShutdown(failedAction, portOk)

Spec == Init /\ [][Next]_vars

------------------------------------------------------------------------------
(* Safety.                                                                 *)

(* Every snapshot the evaluations build passes the checks of __post_init__ *)
(* (source_control_state.py:127-153): no path ends in its ValueError.      *)
SnapshotCoherent == sc # None => Coherent(sc)

(* The three memories of the last command agree while the runtime lives:   *)
(* the snapshot's last_dispatched_command, the dispatcher's applied action *)
(* and what the port really executed.  The policy protects a transition by *)
(* the first, the dispatcher drops duplicates by the second.               *)
MemoriesAgree ==
    status # "fatal" =>
        IF source = None
        THEN applied = None /\ (sc # None => sc.last = None)
        ELSE /\ applied = source.action
             /\ sc # None /\ sc.last = source.action
             /\ source.at = IF source.action = "enable" THEN sc.enabledAt ELSE sc.disabledAt

(* What the policy decides to send is sent: the dispatcher, which          *)
(* suppresses duplicates by a memory of its own, never swallows a command  *)
(* the policy let through.                                                 *)
VerdictIsCarriedOut ==
    \A r \in Requests : (Admitted /\ Dispatches(VerdictOn(r))) => ~DropsDuplicate(r)

(* The protection deadline kept for the opposite command is the time of    *)
(* the last executed command plus its minimum time, until fatal_shutdown   *)
(* erases it, and the deadline of the other direction is never set.        *)
ProtectionMatchesSource ==
    (status # "fatal" /\ source # None) =>
        IF source.action = "enable"
        THEN /\ sc.disableFrom = IF MinOn > 0 THEN source.at + MinOn ELSE None
             /\ sc.enableFrom = None
        ELSE /\ sc.enableFrom = IF MinOff > 0 THEN source.at + MinOff ELSE None
             /\ sc.disableFrom = None

(* A deferral ends strictly after the evaluation that left it, and began   *)
(* no later than it: the runtime arms its timer only for a deferred        *)
(* deadline in the future (control_runtime.py:979-982).                    *)
DeferralEndsLater ==
    (sc # None /\ sc.deferred # None) => sc.since <= sc.at /\ sc.at < sc.deferredUntil

(* Only a command the port executed moves the protection forward: a        *)
(* duplicate, a deferral, a failed command, a stop leave the command       *)
(* history and both protection deadlines as they were.                     *)
ProtectionOnlyFromExecution ==
    [][ (source' = source /\ status' # "fatal" /\ sc # None) =>
          /\ sc'.last = sc.last
          /\ sc'.enabledAt = sc.enabledAt /\ sc'.disabledAt = sc.disabledAt
          /\ sc'.enableFrom = sc.enableFrom /\ sc'.disableFrom = sc.disableFrom ]_vars

(* The command path implements the protection contract.                    *)
Protection == INSTANCE SourceProtection WITH controlled <- (status = "running")
ImplementsProtection == Protection!Spec
==============================================================================
