---------------------------- MODULE ControlRuntimeProofs ----------------------------
(***************************************************************************)
(* What one ControlRuntime guarantees for every number of zones, every     *)
(* duration, every reading and report, and every bound of the clock.       *)
(*                                                                         *)
(* Inv is about the command: both memories of the last command agree with  *)
(* the source, so that no duplicate suppression keeps an EMERGENCY_OFF     *)
(* from it.  WaitInv adds the times: a callback that is still current      *)
(* carries the armed deadline, the deadline is not before the last         *)
(* evaluation and covers every wait, and a reconciliation that awaits      *)
(* agreement or a retry is one of a drift.  Each lemma follows one stage   *)
(* of the evaluation; EvaluationSound and EvaluationWaits put them         *)
(* together, StepIsGood and StepWaits take the operations one by one.      *)
(***************************************************************************)
EXTENDS ControlRuntime, SourceControlPolicyProofs, WellFoundedInduction, TLAPS

------------------------------------------------------------------------------
(* The evaluation, stage by stage.                                         *)

LEMMA TimeIsInt == Time \subseteq Int /\ Time \subseteq Nat
BY RuntimeBounds DEF Time

IsMode(m) ==
    /\ m = ModeState(m.mode, m.manual, m.until, m.safeHeat)
    /\ m.mode \in Modes

(* An activated or cancelled mode is one of the modes.                     *)
LEMMA ActivatedIsMode ==
    ASSUME NEW m, IsMode(m), NEW requested \in Modes, NEW t
    PROVE  IsMode(ActivatedMode(m, requested, t)) /\ IsMode(CancelledMode(m))
BY DEF ActivatedMode, CancelledMode, IsMode, ModeState, Modes

(* What the mode's policy answers to the action asked for in normal mode.  *)
AssessedWell(a, normal, p, f, t) ==
    /\ IsMode(a.state)
    /\ a.action \in Maybe(Actions)
    /\ a.safety \in BOOLEAN
    /\ a.state.mode = "emergency_off" => a.action = "disable" /\ a.safety = TRUE
    /\ a.action = "enable" =>
         \/ a.state.mode = "manual_recovery_heat" /\ t < a.state.until
         \/ a.state.mode = "safe_heating" /\ SafeReading(p, f) # None
         \/ a.state.mode = "normal" /\ normal = "enable"

(* The four parts of an answer decide it.                                  *)
LEMMA AnswerIsWell ==
    ASSUME NEW s, NEW action, NEW safety, NEW next, NEW normal, NEW p, NEW f, NEW t,
           IsMode(s), action \in Maybe(Actions), safety \in BOOLEAN,
           s.mode = "emergency_off" => action = "disable" /\ safety = TRUE,
           action = "enable" =>
             \/ s.mode = "manual_recovery_heat" /\ t < s.until
             \/ s.mode = "safe_heating" /\ SafeReading(p, f) # None
             \/ s.mode = "normal" /\ normal = "enable"
    PROVE  AssessedWell(ModeAssessment(s, action, safety, next), normal, p, f, t)
<1> DEFINE a == ModeAssessment(s, action, safety, next)
<1>1. a.state = s /\ a.action = action /\ a.safety = safety
  BY DEF ModeAssessment
<1> HIDE DEF a
<1>2. AssessedWell(a, normal, p, f, t)
  BY <1>1 DEF AssessedWell
<1> QED BY <1>2 DEF a

LEMMA ModeIsAssessed ==
    ASSUME NEW m, IsMode(m), NEW normal \in Maybe(Actions), NEW p, NEW f, NEW t
    PROVE  AssessedWell(AssessMode(m, normal, p, f, t), normal, p, f, t)
<1>1. /\ \A x : IsMode([m EXCEPT !.manual = x]) /\ [m EXCEPT !.manual = x].mode = m.mode
                /\ [m EXCEPT !.manual = x].until = m.until
      /\ \A x : IsMode([m EXCEPT !.safeHeat = x]) /\ [m EXCEPT !.safeHeat = x].mode = m.mode
  BY DEF IsMode, ModeState
<1>2. "enable" # None /\ "disable" # None /\ "enable" \in Actions /\ "disable" \in Actions
  BY NoneIsNoAction DEF Actions
<1>3. CASE m.mode = "manual_recovery_heat"
  <2>1. AssessMode(m, normal, p, f, t) = AssessManual(m, normal, t)
    BY <1>3 DEF AssessMode
  <2>2. CASE t < m.until
    <3>1. AssessManual(m, normal, t) = ModeAssessment([m EXCEPT !.manual = TRUE], "enable", FALSE, m.until)
      BY <2>2 DEF AssessManual
    <3> DEFINE s == [m EXCEPT !.manual = TRUE]
    <3>2. IsMode(s) /\ s.mode = "manual_recovery_heat" /\ t < s.until
      BY <1>1, <1>3, <2>2
    <3> HIDE DEF s
    <3>3. AssessedWell(ModeAssessment(s, "enable", FALSE, m.until), normal, p, f, t)
      BY <1>2, <3>2, AnswerIsWell DEF Maybe
    <3> QED BY <2>1, <3>1, <3>3 DEF s
  <2>3. CASE ~(t < m.until)
    <3> DEFINE after == ModeState("normal", TRUE, None, None)
    <3>1. IsMode(after) /\ after.mode = "normal"
      BY DEF IsMode, ModeState, Modes
    <3>2. /\ normal = None => AssessManual(m, normal, t) = ModeAssessment(after, "disable", TRUE, None)
          /\ normal # None => AssessManual(m, normal, t) = ModeAssessment(after, normal, FALSE, None)
      BY <2>3 DEF AssessManual
    <3> HIDE DEF after
    <3>3. normal = None => AssessedWell(ModeAssessment(after, "disable", TRUE, None), normal, p, f, t)
      BY <1>2, <3>1, AnswerIsWell DEF Maybe
    <3>4. normal # None => AssessedWell(ModeAssessment(after, normal, FALSE, None), normal, p, f, t)
      BY <1>2, <3>1, AnswerIsWell
    <3> QED BY <2>1, <3>2, <3>3, <3>4
  <2> QED BY <2>2, <2>3
<1>4. CASE m.mode = "emergency_off"
  <2>1. AssessMode(m, normal, p, f, t) = ModeAssessment(m, "disable", TRUE, None)
    BY <1>4 DEF AssessMode
  <2> QED BY <1>2, <1>4, <2>1, AnswerIsWell DEF Maybe
<1>5. CASE m.mode = "normal"
  <2>1. AssessMode(m, normal, p, f, t) = ModeAssessment(m, normal, FALSE, None)
    BY <1>5 DEF AssessMode
  <2>2. AssessedWell(ModeAssessment(m, normal, FALSE, None), normal, p, f, t)
    BY <1>5, AnswerIsWell
  <2> QED BY <2>1, <2>2
<1>6. CASE m.mode = "safe_heating"
  <2> DEFINE reading == IF SafeProfile = None THEN None ELSE SafeReading(p, f)
             heat == SafeHeat(m.safeHeat, reading)
  <2>1. AssessMode(m, normal, p, f, t) =
          IF reading = None
          THEN ModeAssessment([m EXCEPT !.safeHeat = None], None, FALSE, None)
          ELSE ModeAssessment([m EXCEPT !.safeHeat = heat],
                              IF heat THEN "enable" ELSE "disable", FALSE, None)
    BY <1>6 DEF AssessMode, AssessSafeHeating
  <2>2. reading # None => SafeReading(p, f) # None
    OBVIOUS
  <2>3. \A x : IsMode([m EXCEPT !.safeHeat = x]) /\ [m EXCEPT !.safeHeat = x].mode = "safe_heating"
    BY <1>1, <1>6
  <2>4. (IF heat THEN "enable" ELSE "disable") \in Actions
    BY <1>2
  <2> HIDE DEF reading, heat
  <2>5. CASE reading = None
    <3> DEFINE s == [m EXCEPT !.safeHeat = None]
    <3>1. IsMode(s) /\ s.mode = "safe_heating"
      BY <2>3
    <3> HIDE DEF s
    <3>2. AssessedWell(ModeAssessment(s, None, FALSE, None), normal, p, f, t)
      BY <1>2, <3>1, AnswerIsWell DEF Maybe
    <3> QED BY <2>1, <2>5, <3>2 DEF s
  <2>6. CASE reading # None
    <3> DEFINE action == IF heat THEN "enable" ELSE "disable"
    <3>1. AssessMode(m, normal, p, f, t) = ModeAssessment([m EXCEPT !.safeHeat = heat], action, FALSE, None)
      BY <2>1, <2>6
    <3>2. action \in Maybe(Actions)
      BY <2>4 DEF Maybe
    <3> DEFINE s == [m EXCEPT !.safeHeat = heat]
    <3>3. IsMode(s) /\ s.mode = "safe_heating"
      BY <2>3
    <3> HIDE DEF action, s
    <3>4. AssessedWell(ModeAssessment(s, action, FALSE, None), normal, p, f, t)
      BY <2>2, <2>6, <3>2, <3>3, AnswerIsWell
    <3> QED BY <3>1, <3>4 DEF s
  <2> QED BY <2>5, <2>6
<1> QED BY <1>3, <1>4, <1>5, <1>6 DEF IsMode, Modes

(* A building demand for heat has a zone whose stored reading asks for it. *)
LEMMA HeatHasZone ==
    ASSUME NEW before, NEW demands, NEW t, NEW confirmed,
           confirmed = [z \in Zones |-> Confirm(before[z], ZoneInput(demands[z], t), t)],
           BuildingDemand(confirmed) = HEAT
    PROVE  \E z \in Zones : ZoneInput(demands[z], t) = HEAT
<1>1. PICK z \in Zones : OutputDemand(confirmed[z]) = HEAT
  BY DEF BuildingDemand, HEAT, NO_HEAT, UNKNOWN
<1> DEFINE input == ZoneInput(demands[z], t)
<1>2. OutputDemand(Confirm(before[z], input, t)) = HEAT
  BY <1>1
<1>3. input \in {HEAT, NO_HEAT, UNKNOWN}
  BY DEF ZoneInput
<1> HIDE DEF input
<1>4. input = HEAT
  BY <1>2, <1>3 DEF Confirm, Confirmation, OutputDemand, IsPending, HEAT, NO_HEAT, UNKNOWN
<1> QED BY <1>4 DEF input

(* The action of normal mode; an enable has its reason.                    *)
LEMMA NormalActionHasReason ==
    ASSUME NEW start, NEW t, NEW building
    PROVE  /\ NormalAction(SafetyPhase(start, t), building) \in Maybe(Actions)
           /\ NormalAction(SafetyPhase(start, t), building) = "enable" =>
                \/ building = HEAT
                \/ start # None /\ TimeoutAction = "enable"
BY NoneIsNoAction, TimeoutIsAction DEF NormalAction, SafetyPhase, Maybe, Actions

------------------------------------------------------------------------------
(* The command path.                                                       *)

(* The part of a report the policy reads.                                  *)
Seen(report) ==
    IF report = None THEN None
    ELSE [state |-> report.state, transitionAt |-> report.transitionAt]

LEMMA SeenIsEnough ==
    ASSUME NEW report \in Maybe(Reports), NEW s, NEW action, NEW t, NEW safety, NEW corrective
    PROVE  /\ Seen(report) \in Maybe(Evidence(Time))
           /\ Verdict(s, action, t, safety, corrective, report)
                = Verdict(s, action, t, safety, corrective, Seen(report))
           /\ Assessed(s, action, t, safety, corrective, report)
                = Assessed(s, action, t, safety, corrective, Seen(report))
<1>1. /\ Seen(report) \in Maybe(Evidence(Time))
      /\ report = None <=> Seen(report) = None
      /\ report # None => Seen(report).state = report.state /\ Seen(report).transitionAt = report.transitionAt
  <2>1. CASE report = None
    BY <2>1 DEF Seen, Maybe
  <2>2. CASE report # None
    <3> DEFINE e == [state |-> report.state, transitionAt |-> report.transitionAt]
    <3>1. e \in Evidence(Time) /\ e.state = report.state /\ e.transitionAt = report.transitionAt
      BY <2>2 DEF Reports, Evidence, Maybe
    <3>2. Seen(report) = e
      BY <2>2 DEF Seen
    <3> HIDE DEF e
    <3> QED BY <2>2, <3>1, <3>2, NoneIsNoSnapshot DEF Maybe
  <2> QED BY <2>1, <2>2
<1>2. ReportedLockout(report, action, t) = ReportedLockout(Seen(report), action, t)
  BY <1>1 DEF ReportedLockout
<1>3. BlockingLockout(s, action, t, corrective, report) = BlockingLockout(s, action, t, corrective, Seen(report))
  BY <1>2 DEF BlockingLockout
<1> QED BY <1>1, <1>3 DEF Assessed, Verdict

(* The policy of the refined module is this one.                           *)
LEMMA SamePolicy ==
    ASSUME NEW s, NEW action, NEW t, NEW safety, NEW corrective, NEW evidence
    PROVE  /\ CommandPath!Verdict(s, action, t, safety, corrective, evidence)
                = Verdict(s, action, t, safety, corrective, evidence)
           /\ CommandPath!Assessed(s, action, t, safety, corrective, evidence)
                = Assessed(s, action, t, safety, corrective, evidence)
<1>1. /\ CommandPath!BlockingLockout(s, action, t, corrective, evidence)
           = BlockingLockout(s, action, t, corrective, evidence)
      /\ CommandPath!NoLockout = NoLockout
  BY DEF CommandPath!BlockingLockout, BlockingLockout, CommandPath!DispatchedLockout, DispatchedLockout,
         CommandPath!ReportedLockout, ReportedLockout, CommandPath!NoLockout, NoLockout,
         CommandPath!ProtectedOn, ProtectedOn, CommandPath!ProtectedOff, ProtectedOff
<1>2. CommandPath!Verdict(s, action, t, safety, corrective, evidence)
        = Verdict(s, action, t, safety, corrective, evidence)
  BY <1>1 DEF CommandPath!Verdict, Verdict, CommandPath!Bypasses, Bypasses
<1>3. /\ CommandPath!BypassState(s, action, t) = BypassState(s, action, t)
      /\ CommandPath!DuplicateState(s, action, t) = DuplicateState(s, action, t)
      /\ CommandPath!AllowedState(s, action, t) = AllowedState(s, action, t)
      /\ \A l : CommandPath!DeferredState(s, action, t, l) = DeferredState(s, action, t, l)
  BY DEF CommandPath!BypassState, BypassState, CommandPath!DuplicateState, DuplicateState,
         CommandPath!AllowedState, AllowedState, CommandPath!DeferredState, DeferredState,
         CommandPath!ClearDeferred, ClearDeferred, CommandPath!SettledPhase, SettledPhase,
         CommandPath!DeferredPhase, DeferredPhase
<1> QED BY <1>1, <1>2, <1>3 DEF CommandPath!Assessed, Assessed

LEMMA SameRecords ==
    ASSUME NEW s, NEW verdict, NEW t
    PROVE  /\ CommandPath!RecordDispatched(s, verdict, t) = RecordDispatched(s, verdict, t)
           /\ CommandPath!RecordFailed(s, t) = RecordFailed(s, t)
           /\ CommandPath!RecordSuppressedDuplicate(s, t) = RecordSuppressedDuplicate(s, t)
           /\ CommandPath!Dispatches(verdict) <=> Dispatches(verdict)
           /\ CommandPath!InitialState(t) = InitialState(t)
           /\ CommandPath!StoppedState(s, t) = StoppedState(s, t)
           /\ CommandPath!FatalState(s, t) = FatalState(s, t)
BY DEF CommandPath!RecordDispatched, RecordDispatched, CommandPath!RecordFailed, RecordFailed,
       CommandPath!RecordSuppressedDuplicate, RecordSuppressedDuplicate, CommandPath!Dispatches, Dispatches,
       CommandPath!InitialState, InitialState, CommandPath!ClearDeferred, ClearDeferred,
       CommandPath!SettledPhase, SettledPhase, CommandPath!StoppedState, StoppedState,
       CommandPath!FatalState, FatalState

(* A correction is asked for only against a report that contradicts it.    *)
LEMMA CorrectionContradicts ==
    ASSUME NEW report \in Maybe(Reports), NEW action \in Actions, NEW safety,
           IsCorrective(Reconcile(recon, action, report, now), safety, action, report)
    PROVE  Seen(report) \in CommandPath!Contradicting(action)
<1> DEFINE reconciled == Reconcile(recon, action, report, now)
<1>1. reconciled.status = "correction_required" =>
        Known(report) /\ CommandFor(report.state) # action
  BY NoneIsNoAction DEF Reconcile, Reconciliation
<1> HIDE DEF reconciled
<1>2. report # None /\ report.state = (IF action = "disable" THEN "enabled" ELSE "disabled")
  BY <1>1 DEF IsCorrective, Known, CommandFor, Actions, reconciled
<1>3. Seen(report) = [state |-> report.state, transitionAt |-> report.transitionAt]
  BY <1>2 DEF Seen
<1>4. report.transitionAt \in CommandPath!Maybe(Time)
  BY <1>2 DEF Reports, Maybe, CommandPath!Maybe
<1> QED BY <1>2, <1>3, <1>4 DEF CommandPath!Contradicting

(* While it runs, the controller knows the last executed command, and so   *)
(* does the dispatcher.                                                    *)
Applied(a, c) == a = IF c = None THEN None ELSE c.action

RuntimeInvariant ==
    /\ now \in Time
    /\ status \in {"running", "stopped", "fatal"}
    /\ sc \in Maybe(States(Time))
    /\ sc # None => sc.at <= now
    /\ source \in Maybe(Command)
    /\ reported \in Maybe(Reports)
    /\ IsMode(mode)
    /\ status = "running" => KnowsCommand(sc, source) /\ Applied(applied, source)

(* What a pass through the command path leaves behind.                     *)
Commanded(action, safety, corrective) ==
    /\ sc' \in States(Time) /\ sc'.at = now
    /\ source' \in Maybe(Command)
    /\ KnowsCommand(sc', source') /\ Applied(applied', source')
    /\ source' # source => source'.action = action /\ source'.safety = safety
    /\ (action = "disable" /\ safety = TRUE /\ corrective = FALSE) =>
         \/ source' # None /\ source'.action = "disable"
         \/ sc'.outcome = "failed"
    /\ CommandPath!Next

LEMMA CommandSound ==
    ASSUME RuntimeInvariant, status = "running", UNCHANGED <<now, status>>,
           NEW report \in Maybe(Reports), NEW action \in Actions, NEW safety \in BOOLEAN,
           NEW corrective \in BOOLEAN,
           corrective = TRUE => Seen(report) \in CommandPath!Contradicting(action),
           NEW w, NEW base, NEW force, NEW reconciled,
           CommandSource(w, base, force, action, safety, corrective, report, reconciled)
    PROVE  Commanded(action, safety, corrective)
<1> DEFINE s == CurrentSource
           e == IF corrective THEN Seen(report) ELSE None
           v == Verdict(s, action, now, safety, corrective, e)
           a == Assessed(s, action, now, safety, corrective, e)
           c == [action |-> action, at |-> now, safety |-> safety]
           r == [action |-> action, safety |-> safety, corrective |-> corrective, evidence |-> e]
<1>1. now \in Int /\ now \in Time /\ Time \subseteq Int
  BY TimeIsInt DEF RuntimeInvariant
<1>2. s \in States(Time) /\ s # None /\ KnowsCommand(s, source) /\ s = CommandPath!Current
  <2>1. InitialState(now) \in States(Time) /\ InitialState(now).last = None
    BY <1>1, InitialStateType DEF InitialState
  <2>2. CommandPath!Current = s
    BY SameRecords DEF CommandPath!Current, CurrentSource
  <2> QED BY <2>1, <2>2, NoneIsNoSnapshot DEF CurrentSource, RuntimeInvariant, Maybe, KnowsCommand
<1>3. e \in Maybe(Evidence(Time))
  BY SeenIsEnough DEF Maybe
<1>4. r \in CommandPath!Requests
  <2>1. CASE corrective = FALSE
    <3>1. e = None
      BY <2>1
    <3> HIDE DEF e
    <3>2. r \in [action : CommandPath!Actions, safety : BOOLEAN, corrective : {FALSE}, evidence : {None}]
      BY <2>1, <3>1 DEF Actions, CommandPath!Actions
    <3> QED BY <3>2 DEF CommandPath!Requests
  <2>2. CASE corrective = TRUE
    <3>1. e \in CommandPath!Contradicting(action)
      BY <2>2
    <3> HIDE DEF e
    <3>2. r \in [action : {action}, safety : BOOLEAN, corrective : {TRUE},
                 evidence : CommandPath!Contradicting(action)]
      BY <2>2, <3>1
    <3>3. action \in CommandPath!Actions
      BY DEF Actions, CommandPath!Actions
    <3> QED BY <3>2, <3>3 DEF CommandPath!Requests
  <2> QED BY <2>1, <2>2
<1>5. /\ Verdict(s, action, now, safety, corrective, EvidenceFor(corrective, report)) = v
      /\ Assessed(s, action, now, safety, corrective, EvidenceFor(corrective, report)) = a
  BY SeenIsEnough DEF EvidenceFor
<1> HIDE DEF s
<1>6. CommandPath!VerdictOn(r) = v /\ CommandPath!AssessedFor(r) = a
  <2>1. /\ CommandPath!VerdictOn(r) = CommandPath!Verdict(s, action, now, safety, corrective, e)
        /\ CommandPath!AssessedFor(r) = CommandPath!Assessed(s, action, now, safety, corrective, e)
    BY <1>2 DEF CommandPath!VerdictOn, CommandPath!AssessedFor
  <2> QED BY <2>1, SamePolicy
<1> HIDE DEF e
<1>7. a \in States(Time) /\ AssessedAs(a, s, action, now) /\ a # None
  <2>1. a \in States(Time) /\ AssessedAs(a, s, action, now)
    BY <1>1, <1>2, <1>3, AssessedType, AssessedFields
  <2> HIDE DEF a
  <2> QED BY <2>1, NoneIsNoSnapshot
<1>8. a.demand = action /\ KeepsCommands(a, s)
  BY <1>7 DEF AssessedAs
<1>9. /\ RecordDispatched(a, v, now) \in States(Time) /\ RecordFailed(a, now) \in States(Time)
      /\ RecordSuppressedDuplicate(a, now) \in States(Time)
  BY <1>1, <1>7, <1>8, RecordedType
<1> DEFINE drops == ~corrective /\ applied = action
<1>10. \/ ~Dispatches(v) /\ sc' = a /\ applied' = applied /\ source' = source
       \/ Dispatches(v) /\ drops /\ sc' = RecordSuppressedDuplicate(a, now) /\ applied' = applied /\ source' = source
       \/ Dispatches(v) /\ ~drops /\ sc' = RecordDispatched(a, v, now) /\ applied' = action /\ source' = c
       \/ Dispatches(v) /\ ~drops /\ sc' = RecordFailed(a, now) /\ applied' = applied /\ source' = source
  <2> HIDE DEF a, v
  <2>1. \/ ~Dispatches(v) /\ sc' = a /\ UNCHANGED <<applied, source>>
        \/ Dispatches(v) /\ drops /\ sc' = RecordSuppressedDuplicate(a, now) /\ UNCHANGED <<applied, source>>
        \/ Dispatches(v) /\ ~drops /\ sc' = RecordDispatched(a, v, now) /\ applied' = action /\ source' = c
        \/ Dispatches(v) /\ ~drops /\ sc' = RecordFailed(a, now) /\ UNCHANGED <<applied, source>>
    BY <1>5 DEF CommandSource, DropsDuplicate, s
  <2> QED BY <2>1
<1>11. CommandPath!Next
  <2>1. CommandPath!Admitted
    BY <1>1 DEF CommandPath!Admitted, RuntimeInvariant
  <2>2. CommandPath!DropsDuplicate(r) <=> drops
    BY DEF CommandPath!DropsDuplicate
  <2>3. r.action = action /\ r.safety = safety
    OBVIOUS
  <2> HIDE DEF r, a, v, drops
  <2>4. CommandPath!Hold(r) \/ CommandPath!Execute(r) \/ CommandPath!ExecuteFails(r)
    BY <1>6, <1>10, <2>1, <2>2, <2>3, SameRecords DEF CommandPath!Hold, CommandPath!Execute, CommandPath!ExecuteFails
  <2> QED BY <1>4, <2>4 DEF CommandPath!Next
<1>12. c \in Command /\ c # None /\ c.action = action /\ c.at = now /\ c.safety = safety
  BY <1>1, NoneIsNoSnapshot DEF Command
<1>13. KnowsCommand(sc, source) /\ Applied(applied, source) /\ source \in Maybe(Command)
  BY DEF RuntimeInvariant
<1> HIDE DEF c, r
<1>14. CASE ~Dispatches(v) /\ sc' = a /\ applied' = applied /\ source' = source
  <2>1. KnowsCommand(sc', source')
    BY <1>2, <1>7, <1>8, <1>14, KnowledgeIsKept
  <2>2. (action = "disable" /\ safety = TRUE /\ corrective = FALSE) => source # None /\ source.action = "disable"
    <3> HAVE action = "disable" /\ safety = TRUE /\ corrective = FALSE
    <3>1. s.last = "disable"
      BY <1>1, <1>14, SafetyDisableGoesThrough DEF e
    <3> QED BY <1>2, <3>1, NoneIsNoAction DEF KnowsCommand, Actions
  <2> HIDE DEF a
  <2>3. sc'.at = now
    BY <1>7, <1>14 DEF AssessedAs
  <2> QED BY <1>7, <1>11, <1>13, <1>14, <2>1, <2>2, <2>3 DEF Commanded
<1>15. CASE /\ Dispatches(v)
            /\ sc' \in {RecordFailed(a, now), RecordSuppressedDuplicate(a, now)}
            /\ applied' = applied /\ source' = source
            /\ sc' = RecordFailed(a, now) \/ drops
  <2>1. AssessedAs(sc', a, a.demand, now)
    BY <1>1, <1>7, <1>15, FailedFields
  <2>2. sc' \in States(Time) /\ sc' # None /\ KeepsCommands(sc', s) /\ sc'.at = now
    BY <1>8, <1>9, <1>15, <2>1, NoneIsNoSnapshot DEF AssessedAs, KeepsCommands
  <2>3. KnowsCommand(sc', source')
    BY <1>2, <1>15, <2>2, KnowledgeIsKept
  <2>4. sc' = RecordFailed(a, now) => sc'.outcome = "failed"
    BY <1>7 DEF RecordFailed, States
  <2>5. drops => source # None /\ source.action = action
    BY <1>13, NoneIsNoAction DEF Applied
  <2> HIDE DEF a, v, drops
  <2> QED BY <1>11, <1>13, <1>15, <2>2, <2>3, <2>4, <2>5 DEF Commanded
<1>16. CASE Dispatches(v) /\ sc' = RecordDispatched(a, v, now) /\ applied' = action /\ source' = c
  <2>1. DispatchedAs(sc', a, now) /\ sc' \in States(Time) /\ sc' # None
    BY <1>1, <1>7, <1>8, <1>9, <1>16, DispatchedFields, NoneIsNoSnapshot
  <2> HIDE DEF a, v
  <2>2. KnowsCommand(sc', c)
    BY <1>8, <1>12, <2>1, KnowledgeIsGained
  <2>3. sc'.at = now
    BY <2>1 DEF DispatchedAs
  <2>4. Applied(action, c)
    BY <1>12 DEF Applied
  <2> QED BY <1>11, <1>12, <1>16, <2>1, <2>2, <2>3, <2>4 DEF Commanded, Maybe
<1> HIDE DEF a, v, drops
<1> QED BY <1>10, <1>14, <1>15, <1>16

------------------------------------------------------------------------------
(* The whole evaluation.                                                   *)

(* Why an enable was sent, in terms of what the evaluation read.           *)
Reason(demands, evidence) ==
    \/ mode'.mode = "manual_recovery_heat" /\ now < mode'.until
    \/ mode'.mode = "safe_heating" /\ SafeReading(evidence.preferred, evidence.fallback) # None
    \/ mode'.mode = "normal" /\ \E z \in Zones : ZoneInput(demands[z], now) = HEAT
    \/ mode'.mode = "normal" /\ since' # None /\ TimeoutAction = "enable"

EmergencyIsOff(m, recovering, c, s) ==
    (m.mode = "emergency_off" /\ ~Owned /\ ~RecoveryBlocks(recovering)) =>
        \/ c # None /\ c.action = "disable"
        \/ s # None /\ s.outcome = "failed"

Evaluated(demands, evidence) ==
    /\ IsMode(mode')
    /\ sc' \in Maybe(States(Time))
    /\ sc' # None => sc'.at <= now
    /\ source' \in Maybe(Command)
    /\ KnowsCommand(sc', source') /\ Applied(applied', source')
    /\ CommandPath!Next \/ UNCHANGED <<sc, applied, source>>
    /\ (source' # source /\ source'.action = "enable") => Reason(demands, evidence)
    /\ EmergencyIsOff(mode', recovery', source', sc')

LEMMA EvaluationSound ==
    ASSUME RuntimeInvariant, status = "running", UNCHANGED <<now, status>>,
           NEW demands, NEW report \in Maybe(Reports), NEW mode0, IsMode(mode0),
           NEW evidence, NEW w, NEW hint,
           Evaluate(demands, report, mode0, evidence, w, hint)
    PROVE  Evaluated(demands, evidence)
<1> DEFINE confirmed == [z \in Zones |-> Confirm(confirm[z], ZoneInput(demands[z], now), now)]
           building == BuildingDemand(confirmed)
           start == IndeterminateSince(since, building, now, hint)
           phase == SafetyPhase(start, now)
           normal == NormalAction(phase, building)
           assessment == AssessMode(mode0, normal, evidence.preferred, evidence.fallback, now)
           action == assessment.action
           safety == SafetyAuthority(assessment, phase)
           recovering == AssessRecovery(recovery, building # UNKNOWN, Known(report), now)
           reconciled == Reconcile(recon, action, report, now)
           base == BaseDeadlines(demands, confirmed, start, phase, assessment.next,
                                 recovering, reconciled.next)
           force == PendingDropped(confirm, confirmed)
           corrective == IsCorrective(reconciled, safety, action, report)
<1>1. /\ since' = start /\ mode' = assessment.state /\ recovery' = recovering
      /\ \/ /\ RecoveryBlocks(recovering) \/ ReconciliationBlocks(reconciled, safety, action)
            /\ UNCHANGED <<sc, applied, source>>
         \/ /\ action = None \/ AgreesWithoutHistory(reconciled)
            /\ UNCHANGED <<sc, applied, source>>
         \/ /\ action # None
            /\ CommandSource(w, base, force, action, safety, corrective, report, reconciled)
  <2> HIDE DEF base, force, recovering, start, phase, safety, reconciled, assessment, corrective
  <2>1. /\ since' = start /\ mode' = assessment.state /\ recovery' = recovering
        /\ IF RecoveryBlocks(recovering) \/ ReconciliationBlocks(reconciled, safety, assessment.action)
           THEN HoldCommand(w, base, force)
           ELSE IF assessment.action = None \/ AgreesWithoutHistory(reconciled)
           THEN SkipCommand(w, base, force)
           ELSE CommandSource(w, base, force, assessment.action, safety, corrective, report, reconciled)
    BY DEF Evaluate, base, force, recovering, start, phase, safety, reconciled, assessment, corrective
  <2> QED BY <2>1 DEF HoldCommand, SkipCommand
<1>2. /\ normal \in Maybe(Actions)
      /\ normal = "enable" => building = HEAT \/ (start # None /\ TimeoutAction = "enable")
  <2> HIDE DEF start, building
  <2> QED BY NormalActionHasReason
<1>3. building = HEAT => \E z \in Zones : ZoneInput(demands[z], now) = HEAT
  <2>1. confirmed = [z \in Zones |-> Confirm(confirm[z], ZoneInput(demands[z], now), now)]
    OBVIOUS
  <2> HIDE DEF confirmed
  <2> QED BY <2>1, HeatHasZone
<1> HIDE DEF confirmed, building, start, phase, normal
<1>4. AssessedWell(assessment, normal, evidence.preferred, evidence.fallback, now)
  BY <1>2, ModeIsAssessed
<1> HIDE DEF assessment
<1>5. IsMode(mode') /\ action \in Maybe(Actions)
  BY <1>1, <1>4 DEF AssessedWell
<1>6. action = "enable" => Reason(demands, evidence)
  BY <1>1, <1>2, <1>3, <1>4 DEF AssessedWell, Reason
<1>7. mode'.mode = "emergency_off" => action = "disable" /\ safety = TRUE
  BY <1>1, <1>4 DEF AssessedWell, SafetyAuthority
<1>8. safety \in BOOLEAN /\ corrective \in BOOLEAN
  BY DEF SafetyAuthority, IsCorrective
<1>9. action \in Actions /\ corrective = TRUE => Seen(report) \in CommandPath!Contradicting(action)
  <2> HAVE action \in Actions /\ corrective = TRUE
  <2> HIDE DEF action, safety
  <2>1. IsCorrective(Reconcile(recon, action, report, now), safety, action, report)
    OBVIOUS
  <2> QED BY <2>1, CorrectionContradicts
<1>10. ~Owned => /\ reconciled.status = "observed_external"
                 /\ ~ReconciliationBlocks(reconciled, safety, action)
                 /\ ~AgreesWithoutHistory(reconciled)
                 /\ safety = TRUE => corrective = FALSE
  <2>1. ~Owned => reconciled.status = "observed_external"
    BY DEF Reconcile, Reconciliation
  <2> HIDE DEF reconciled, safety
  <2> QED BY <2>1 DEF ReconciliationBlocks, AgreesWithoutHistory, IsCorrective
<1> HIDE DEF action, safety, recovering, reconciled, base, force, corrective
<1>11. CASE /\ UNCHANGED <<sc, applied, source>>
            /\ \/ RecoveryBlocks(recovering) \/ ReconciliationBlocks(reconciled, safety, action)
               \/ action = None \/ AgreesWithoutHistory(reconciled)
  <2>1. mode'.mode = "emergency_off" /\ ~Owned => RecoveryBlocks(recovery')
    BY <1>1, <1>7, <1>10, <1>11, NoneIsNoAction DEF Actions
  <2> QED BY <1>5, <1>11, <2>1 DEF Evaluated, EmergencyIsOff, RuntimeInvariant
<1>12. CASE action # None /\ CommandSource(w, base, force, action, safety, corrective, report, reconciled)
  <2>1. action \in Actions
    BY <1>5, <1>12 DEF Maybe
  <2>2. Commanded(action, safety, corrective)
    BY <1>8, <1>9, <1>12, <2>1, CommandSound
  <2>3. EmergencyIsOff(mode', recovery', source', sc')
    <3>1. sc' # None
      BY <2>2, NoneIsNoSnapshot DEF Commanded
    <3>2. mode'.mode = "emergency_off" /\ ~Owned => action = "disable" /\ safety = TRUE /\ corrective = FALSE
      BY <1>7, <1>10
    <3> QED BY <2>2, <3>1, <3>2 DEF Commanded, EmergencyIsOff
  <2>4. (source' # source /\ source'.action = "enable") => Reason(demands, evidence)
    BY <1>6, <2>2 DEF Commanded
  <2>5. sc'.at <= now
    <3>1. now \in Int
      BY TimeIsInt DEF RuntimeInvariant
    <3>2. sc'.at = now
      BY <2>2 DEF Commanded
    <3> QED BY <3>1, <3>2
  <2> QED BY <1>5, <2>2, <2>3, <2>4, <2>5 DEF Evaluated, Commanded, Maybe
<1> QED BY <1>1, <1>11, <1>12

------------------------------------------------------------------------------
(* The steps.                                                              *)

(* EnableHasReason as a predicate of one step.                             *)
EnableReason ==
    (source' # source /\ source'.action = "enable") =>
          \/ mode'.mode = "manual_recovery_heat" /\ now < mode'.until
          \/ mode'.mode = "safe_heating" /\ SafeReading(safe'.preferred, safe'.fallback) # None
          \/ mode'.mode = "normal" /\ \E z \in Zones : ZoneInput(demand'[z], now) = HEAT
          \/ mode'.mode = "normal" /\ since' # None /\ TimeoutAction = "enable"

(* The inductive invariant.  That the source is off in EMERGENCY_OFF needs *)
(* both memories of the last command: the policy suppresses a duplicate by *)
(* one, the dispatcher by the other, and each is right only while it       *)
(* agrees with the source.                                                 *)
Inv == RuntimeInvariant /\ EmergencyOffReachesSource

GoodStep == Inv' /\ [CommandPath!Next]_(CommandPath!vars) /\ EnableReason

LEMMA InitHolds == Init => Inv /\ CommandPath!Init
<1> SUFFICES ASSUME Init PROVE Inv /\ CommandPath!Init
  OBVIOUS
<1>1. now \in Time /\ mode = InitialMode /\ status = "running"
      /\ sc = None /\ applied = None /\ source = None /\ reported = None
  BY RuntimeBounds DEF Init, Time
<1>2. IsMode(mode) /\ mode.mode = "normal"
  BY <1>1 DEF IsMode, InitialMode, ModeState, Modes
<1>3. RuntimeInvariant
  BY <1>1, <1>2 DEF RuntimeInvariant, KnowsCommand, Applied, Maybe
<1> QED BY <1>1, <1>2, <1>3 DEF Inv, EmergencyOffReachesSource, CommandPath!Init

(* A step that evaluates.                                                  *)
LEMMA EvaluatingStep ==
    ASSUME RuntimeInvariant, status = "running", UNCHANGED <<now, status>>,
           reported' \in Maybe(Reports), NEW demands, NEW evidence,
           demand' = demands, safe' = evidence, Evaluated(demands, evidence)
    PROVE  GoodStep
<1>1. RuntimeInvariant'
  BY DEF Evaluated, RuntimeInvariant
<1>2. EmergencyOffReachesSource'
  BY DEF Evaluated, EmergencyIsOff, EmergencyOffReachesSource
<1>3. [CommandPath!Next]_(CommandPath!vars)
  BY DEF Evaluated, CommandPath!vars
<1>4. EnableReason
  BY DEF Evaluated, Reason, EnableReason
<1> QED BY <1>1, <1>2, <1>3, <1>4 DEF GoodStep, Inv

(* A step that leaves the command path alone.                              *)
LEMMA QuietStep ==
    ASSUME Inv, UNCHANGED <<now, status, sc, applied, source, reported>>, IsMode(mode'),
           \/ UNCHANGED <<mode, recovery, crashed>>
           \/ RecoveryBlocks(recovery')
    PROVE  GoodStep
<1>1. RuntimeInvariant'
  BY DEF Inv, RuntimeInvariant
<1>2. EmergencyOffReachesSource'
  BY DEF Inv, EmergencyOffReachesSource, Running, Started
<1>3. [CommandPath!Next]_(CommandPath!vars) /\ EnableReason
  BY DEF CommandPath!vars, EnableReason
<1> QED BY <1>1, <1>2, <1>3 DEF GoodStep, Inv

(* A report made now.                                                      *)
LEMMA ReportType ==
    ASSUME RuntimeInvariant, NEW state \in ReportStates, NEW transitionAt \in TransitionTimes(state)
    PROVE  [state |-> state, observedAt |-> now, transitionAt |-> transitionAt] \in Maybe(Reports)
<1>1. transitionAt \in Maybe(Time)
  <2>1. Known(reported) => reported \in Reports
    BY DEF RuntimeInvariant, Known, Maybe
  <2> QED BY <2>1 DEF TransitionTimes, RuntimeInvariant, Reports, Maybe
<1>2. state \in ReportedStates /\ now \in Time
  BY RuntimeBounds DEF RuntimeInvariant
<1> QED BY <1>1, <1>2 DEF Reports, Maybe

LEMMA RecoveryBegun ==
    ASSUME NEW t \in Int
    PROVE  RecoveryBlocks(BeginRecovery(t))
<1> DEFINE b == [waiting |-> TRUE, until |-> t + RecoveryWindow]
<1>1. b \in [waiting : BOOLEAN, until : Int] /\ b.waiting = TRUE
  BY ModeConstants
<1>2. BeginRecovery(t) = b
  BY DEF BeginRecovery
<1> HIDE DEF b
<1> QED BY <1>1, <1>2, NoneIsNoSnapshot DEF RecoveryBlocks

LEMMA StepIsGood == ASSUME Inv, Next PROVE GoodStep
<1>1. /\ RuntimeInvariant /\ now \in Int /\ now \in Time /\ reported \in Maybe(Reports) /\ IsMode(mode)
  BY TimeIsInt DEF Inv, RuntimeInvariant
<1>2. Running => status = "running"
  BY DEF Running
<1>3. CASE Tick
  <2>1. /\ UNCHANGED <<sc, applied, source, status, mode, recovery, crashed, reported, demand, since, safe, recon>>
        /\ now' = now + 1 /\ now' \in Time
    BY <1>1, <1>3, RuntimeBounds DEF Tick, inputs, decided, Time
  <2>2. RuntimeInvariant'
    <3>1. sc # None => sc.at \in Int
      BY TimeIsInt DEF Inv, RuntimeInvariant, Maybe, States
    <3> QED BY <1>1, <2>1, <3>1 DEF Inv, RuntimeInvariant
  <2>3. EmergencyOffReachesSource'
    BY <2>1 DEF Inv, EmergencyOffReachesSource, Running, Started
  <2>4. CommandPath!ClockMoves
    BY <2>1 DEF CommandPath!ClockMoves
  <2> QED BY <2>1, <2>2, <2>3, <2>4 DEF GoodStep, Inv, CommandPath!Next, EnableReason
<1>4. CASE Fire
  BY <1>1, <1>4, QuietStep DEF Fire, inputs, decided
<1>5. ASSUME NEW z \in Zones, NEW temperature \in Temperatures, NEW at, ProcessTemperature(z, temperature, at)
      PROVE  GoodStep
  <2> DEFINE stored == [demand EXCEPT ![z] = [heat |-> Hysteresis(hysteresis[z], temperature) = HEAT, at |-> at]]
  <2>1. /\ Running /\ demand' = stored /\ Evaluate(stored, reported, mode, safe, wake, None)
        /\ UNCHANGED <<now, safe, reported, status>>
    BY <1>5 DEF ProcessTemperature
  <2> HIDE DEF stored
  <2>2. Evaluated(stored, safe)
    BY <1>1, <1>2, <2>1, EvaluationSound
  <2> QED BY <1>1, <1>2, <2>1, <2>2, EvaluatingStep
<1>6. CASE MarkIndeterminate
  <2>1. /\ Running /\ demand' = NoDemand /\ Evaluate(NoDemand, reported, mode, safe, wake, None)
        /\ UNCHANGED <<now, safe, reported, status>>
    BY <1>6 DEF MarkIndeterminate
  <2>2. Evaluated(NoDemand, safe)
    BY <1>1, <1>2, <2>1, EvaluationSound
  <2> QED BY <1>1, <1>2, <2>1, <2>2, EvaluatingStep
<1>7. CASE Reevaluate
  <2>1. /\ Running /\ Evaluate(demand, reported, mode, safe, wake, None)
        /\ UNCHANGED <<now, demand, safe, reported, status>>
    BY <1>7 DEF Reevaluate, inputs
  <2>2. Evaluated(demand, safe)
    BY <1>1, <1>2, <2>1, EvaluationSound
  <2> QED BY <1>1, <1>2, <2>1, <2>2, EvaluatingStep
<1>8. ASSUME NEW state \in ReportStates, NEW transitionAt \in TransitionTimes(state),
             IngestReported(state, transitionAt)
      PROVE  GoodStep
  <2> DEFINE report == [state |-> state, observedAt |-> now, transitionAt |-> transitionAt]
  <2>1. /\ Running /\ reported' = report /\ Evaluate(demand, report, mode, safe, wake, None)
        /\ UNCHANGED <<now, demand, safe, status>>
    BY <1>8 DEF IngestReported
  <2>2. report \in Maybe(Reports)
    BY <1>1, ReportType
  <2> HIDE DEF report
  <2>3. Evaluated(demand, safe)
    BY <1>1, <1>2, <2>1, <2>2, EvaluationSound
  <2> QED BY <1>1, <1>2, <2>1, <2>2, <2>3, EvaluatingStep
<1>9. ASSUME NEW requested \in ModeRequests, SetMode(requested) PROVE GoodStep
  <2> DEFINE after == ActivatedMode(mode, requested, now)
  <2>1. /\ Running /\ Evaluate(demand, reported, after, safe, wake, None)
        /\ UNCHANGED <<now, demand, safe, reported, status>>
    BY <1>9 DEF SetMode, inputs
  <2>2. IsMode(after)
    BY <1>1, RuntimeBounds, ActivatedIsMode
  <2> HIDE DEF after
  <2>3. Evaluated(demand, safe)
    BY <1>1, <1>2, <2>1, <2>2, EvaluationSound
  <2> QED BY <1>1, <1>2, <2>1, <2>3, EvaluatingStep
<1>10. ASSUME NEW sensor, NEW reading, IngestSafeReading(sensor, reading) PROVE GoodStep
  <2> DEFINE readings == [safe EXCEPT ![sensor] = reading]
  <2>1. /\ Running /\ safe' = readings /\ Evaluate(demand, reported, mode, readings, wake, None)
        /\ UNCHANGED <<now, demand, reported, status>>
    BY <1>10 DEF IngestSafeReading
  <2> HIDE DEF readings
  <2>2. Evaluated(demand, readings)
    BY <1>1, <1>2, <2>1, EvaluationSound
  <2> QED BY <1>1, <1>2, <2>1, <2>2, EvaluatingStep
<1>11. CASE Callback
  <2>1. CASE wake.fired.current /\ now >= wake.fired.for
    <3>1. /\ Running /\ Evaluate(demand, reported, mode, safe, Consumed, wake.fired.for)
          /\ UNCHANGED <<now, demand, safe, reported, status>>
      BY <1>11, <2>1 DEF Callback, inputs
    <3>2. Evaluated(demand, safe)
      BY <1>1, <1>2, <3>1, EvaluationSound
    <3> QED BY <1>1, <1>2, <3>1, <3>2, EvaluatingStep
  <2>2. CASE ~(wake.fired.current /\ now >= wake.fired.for)
    <3>1. UNCHANGED <<now, status, sc, applied, source, reported, mode, recovery, crashed>>
      BY <1>11, <2>2 DEF Callback, inputs, decided
    <3> QED BY <1>1, <3>1, QuietStep
  <2> QED BY <2>1, <2>2
<1>12. ASSUME NEW z \in Zones, NEW at, StoreIneffective(z, at) PROVE GoodStep
  BY <1>1, <1>12, QuietStep DEF StoreIneffective, decided
<1>13. ASSUME NEW manualCancelled \in BOOLEAN, BeginSourceRecovery(manualCancelled) PROVE GoodStep
  <2>1. /\ UNCHANGED <<now, status, sc, applied, source, reported>>
        /\ mode' = IF manualCancelled THEN ModeState("normal", TRUE, None, None) ELSE mode
        /\ recovery' = BeginRecovery(now)
    BY <1>13 DEF BeginSourceRecovery, inputs
  <2>2. IsMode(mode')
    BY <1>1, <2>1 DEF IsMode, ModeState, Modes
  <2> QED BY <1>1, <2>1, <2>2, RecoveryBegun, QuietStep
<1>14. CASE CancelManualRecovery
  <2>1. /\ UNCHANGED <<now, status, sc, applied, source, reported>>
        /\ mode' = CancelledMode(mode) /\ recovery' = BeginRecovery(now)
    BY <1>14 DEF CancelManualRecovery, inputs
  <2>2. IsMode(mode')
    BY <1>1, <2>1 DEF IsMode, ModeState, Modes, CancelledMode
  <2> QED BY <1>1, <2>1, <2>2, RecoveryBegun, QuietStep
<1>15. CASE Stop
  <2>1. /\ UNCHANGED <<now, mode, applied, source, reported>> /\ status' = "stopped" /\ status = "running"
        /\ sc' = IF sc = None THEN None ELSE StoppedState(sc, sc.at)
    BY <1>15 DEF Stop, Terminate, inputs
  <2>2. sc # None => /\ sc \in States(Time) /\ sc.at \in Time /\ StoppedState(sc, sc.at) \in States(Time)
                     /\ StoppedState(sc, sc.at).at = sc.at
    <3> HAVE sc # None
    <3>1. sc \in States(Time) /\ sc.at \in Time
      BY DEF Inv, RuntimeInvariant, Maybe, States
    <3> DEFINE t == sc.at
    <3> HIDE DEF t
    <3>2. t \in Time
      BY <3>1 DEF t
    <3>3. StoppedState(sc, t) \in States(Time) /\ KeptAs(StoppedState(sc, t), sc, t)
      BY <3>1, <3>2, TimeIsInt, StoppedType, StoppedFields
    <3> QED BY <3>1, <3>3 DEF t, KeptAs
  <2>3. RuntimeInvariant'
    BY <1>1, <2>1, <2>2 DEF RuntimeInvariant, Maybe
  <2>4. EmergencyOffReachesSource'
    BY <2>1 DEF EmergencyOffReachesSource, Running
  <2>5. CommandPath!Stop
    BY <2>1, SameRecords DEF CommandPath!Stop
  <2> QED BY <2>1, <2>3, <2>4, <2>5 DEF GoodStep, Inv, CommandPath!Next, EnableReason
<1>16. ASSUME NEW failedAction \in Maybe(Actions), NEW portOk \in BOOLEAN, FatalShutdown(failedAction, portOk)
       PROVE  GoodStep
  <2> DEFINE c == [action |-> "disable", at |-> now, safety |-> TRUE]
  <2>1. /\ UNCHANGED <<now, mode, applied, reported>> /\ status' = "fatal" /\ status # "fatal"
        /\ sc' = FatalState(CurrentSource, now)
        /\ source' = IF failedAction # "disable" /\ portOk THEN c ELSE source
    BY <1>16 DEF FatalShutdown, Terminate, inputs
  <2>2. CurrentSource \in States(Time) /\ CommandPath!Current = CurrentSource
    BY <1>1, TimeIsInt, InitialStateType, SameRecords DEF CurrentSource, CommandPath!Current, RuntimeInvariant, Maybe
  <2>3. sc' \in States(Time) /\ sc'.at = now
    <3>1. FatalState(CurrentSource, now) \in States(Time)
      BY <1>1, <2>2, TimeIsInt, StoppedType
    <3>2. ClearDeferred(CurrentSource) \in States(Time)
      BY <2>2, TimeIsInt, ClearDeferredType
    <3>3. FatalState(CurrentSource, now).at = now
      BY <3>2 DEF FatalState, States
    <3> QED BY <2>1, <3>1, <3>3
  <2>4. c \in Command /\ c.action = "disable"
    BY <1>1 DEF Command, Actions
  <2>5. CommandPath!FatalShutdown(failedAction, portOk)
    BY <2>1, <2>2, SameRecords DEF CommandPath!FatalShutdown
  <2>6. CommandPath!Next
    BY <2>5 DEF CommandPath!Next, CommandPath!Maybe, Maybe, CommandPath!Actions, Actions
  <2> HIDE DEF c
  <2>7. RuntimeInvariant'
    BY <1>1, <2>1, <2>3, <2>4 DEF RuntimeInvariant, Maybe
  <2>8. EmergencyOffReachesSource'
    BY <2>1 DEF EmergencyOffReachesSource, Running
  <2>9. EnableReason
    BY <2>1, <2>4 DEF EnableReason
  <2> QED BY <2>6, <2>7, <2>8, <2>9 DEF GoodStep, Inv
<1>17. ASSUME Operation PROVE GoodStep
  BY <1>5, <1>6, <1>7, <1>8, <1>9, <1>10, <1>11, <1>17 DEF Operation
<1> QED BY <1>3, <1>4, <1>12, <1>13, <1>14, <1>15, <1>16, <1>17 DEF Next

LEMMA StutterIsGood == ASSUME Inv, UNCHANGED vars PROVE GoodStep
<1>1. UNCHANGED <<now, status, sc, applied, source, reported, mode, recovery, crashed>>
  BY DEF vars
<1> QED BY <1>1, QuietStep DEF Inv, RuntimeInvariant

------------------------------------------------------------------------------
(* What waits for a time.  The lemmas follow the evaluation once more, for *)
(* the times it leaves behind.                                             *)

(* min() of a non-empty set of times is the least of them.                 *)
LEMMA EarliestIsLeast ==
    ASSUME NEW D, D \subseteq Nat, D # {}
    PROVE  Earliest(D) \in D /\ \A d \in D : Earliest(D) <= d
<1> DEFINE R == OpToRel(<, Nat)
<1>1. IsWellFoundedOn(R, Nat)
  BY NatLessThanWellFounded DEF R
<1>2. R = {ss \in Nat \X Nat : ss[1] < ss[2]}
  BY Zenon DEF OpToRel
<1> HIDE DEF R
<1>3. PICK t \in D : \A u \in D : ~(<<u, t>> \in R)
  BY <1>1, WFMin
<1>4. ASSUME NEW u \in D PROVE t <= u
  <2>1. u \in Nat /\ t \in Nat /\ ~(<<u, t>> \in R)
    BY <1>3
  <2> QED BY <1>2, <2>1
<1> QED BY <1>4 DEF Earliest

(* A callback in flight that is still current carries the armed deadline.  *)
WakeWell(w) ==
    /\ w = [timer |-> w.timer, fired |-> w.fired]
    /\ w.timer \in Maybe(Int)
    /\ w.fired # None => w.fired \in [for : Int, current : BOOLEAN]
    /\ (w.fired # None /\ w.fired.current = TRUE) => w.fired.for = w.timer

LEMMA RearmWell ==
    ASSUME NEW w, WakeWell(w), NEW deadline \in Maybe(Int), NEW force
    PROVE  WakeWell(Rearm(w, deadline, force)) /\ Rearm(w, deadline, force).timer = deadline
<1>1. CASE ~force /\ deadline = w.timer /\ w.timer # None
  BY <1>1 DEF Rearm
<1>2. CASE ~(~force /\ deadline = w.timer /\ w.timer # None)
  <2> DEFINE f == Outdated(w.fired)
             x == [timer |-> deadline, fired |-> f]
  <2>1. Rearm(w, deadline, force) = x
    BY <1>2 DEF Rearm
  <2>2. f # None => f \in [for : Int, current : BOOLEAN] /\ f.current = FALSE
    BY DEF Outdated, WakeWell
  <2> HIDE DEF f
  <2>3. x.timer = deadline /\ x.fired = f
    OBVIOUS
  <2>4. WakeWell(x)
    BY <2>2, <2>3 DEF WakeWell
  <2> QED BY <2>1, <2>3, <2>4
<1> QED BY <1>1, <1>2

(* The times in the confirmation states.                                   *)
ConfirmTimes(states) == \A z \in Zones : IsPending(states[z]) => states[z].until \in Int
UntilTimes(states) == \A z \in Zones : states[z].until \in Maybe(Int)

LEMMA ConfirmedTimes ==
    ASSUME NEW before, ConfirmTimes(before), NEW demands, NEW t \in Int, NEW confirmed,
           confirmed = [z \in Zones |-> Confirm(before[z], ZoneInput(demands[z], t), t)]
    PROVE  ConfirmTimes(confirmed) /\ UntilTimes(confirmed)
<1>1. ASSUME NEW z \in Zones
      PROVE  /\ confirmed[z].until \in Maybe(Int)
             /\ IsPending(confirmed[z]) => confirmed[z].until \in Int
  <2> DEFINE input == ZoneInput(demands[z], t)
             s == before[z]
  <2>1. IsPending(s) => s.until \in Int
    BY DEF ConfirmTimes
  <2>2. confirmed[z] = Confirm(s, input, t)
    OBVIOUS
  <2>3. input \in {HEAT, NO_HEAT, UNKNOWN}
    BY DEF ZoneInput
  <2>4. t + ConfirmFor \in Int
    BY DemandDurations
  <2> HIDE DEF input, s
  <2>5. \/ Confirm(s, input, t) = s /\ IsPending(s)
        \/ \E c : Confirm(s, input, t) = Confirmation("indeterminate", c, None)
        \/ Confirm(s, input, t) = Confirmation("no_heat_required", NO_HEAT, None)
        \/ Confirm(s, input, t) = Confirmation("confirmed", HEAT, None)
        \/ Confirm(s, input, t) = Confirmation("pending", NO_HEAT, t + ConfirmFor)
    BY <2>3 DEF Confirm, HEAT, NO_HEAT, UNKNOWN
  <2> QED BY <2>1, <2>2, <2>4, <2>5 DEF Confirmation, IsPending, Maybe
<1> QED BY <1>1 DEF ConfirmTimes, UntilTimes

(* Heat the building asks for was confirmed before, or its time elapsed.   *)
LEMMA HeatWasConfirmed ==
    ASSUME NEW before, ConfirmTimes(before), NEW demands, NEW t \in Int, NEW confirmed,
           confirmed = [z \in Zones |-> Confirm(before[z], ZoneInput(demands[z], t), t)],
           BuildingDemand(confirmed) = HEAT, ConfirmFor > 0
    PROVE  \E z \in Zones : /\ before[z] # None
                            /\ \/ before[z].confirmed = HEAT
                               \/ IsPending(before[z]) /\ before[z].until <= t
<1>1. PICK z \in Zones : OutputDemand(confirmed[z]) = HEAT
  BY DEF BuildingDemand, HEAT, NO_HEAT, UNKNOWN
<1> DEFINE input == ZoneInput(demands[z], t)
           s == before[z]
<1>2. OutputDemand(Confirm(s, input, t)) = HEAT
  BY <1>1
<1>3. input \in {HEAT, NO_HEAT, UNKNOWN}
  BY DEF ZoneInput
<1>4. IsPending(s) => s.until \in Int
  BY DEF ConfirmTimes
<1> HIDE DEF input, s
<1>5. ConfirmFor # 0
  BY DemandDurations
<1>6. \/ WasConfirmed(s) /\ ~IsPending(s)
      \/ IsPending(s) /\ ~(t < s.until)
  BY <1>2, <1>3, <1>5 DEF Confirm, Confirmation, OutputDemand, IsPending, HEAT, NO_HEAT, UNKNOWN
<1>7. s # None /\ (s.confirmed = HEAT \/ (IsPending(s) /\ s.until <= t))
  BY <1>4, <1>6 DEF WasConfirmed, IsPending
<1> QED BY <1>7 DEF s

(* Only a manual recovery has a deadline of the mode.                      *)
ModeTimes(m) ==
    IF m.mode = "manual_recovery_heat" THEN m.until \in Int ELSE m.until = None

AnsweredInTime(a, normal) ==
    /\ ModeTimes(a.state)
    /\ a.next = a.state.until
    /\ a.action = None => a.state.mode = "safe_heating" \/ (a.state.mode = "normal" /\ normal = None)

LEMMA AnswerIsInTime ==
    ASSUME NEW s, NEW action, NEW safety, NEW normal, ModeTimes(s),
           action = None => s.mode = "safe_heating" \/ (s.mode = "normal" /\ normal = None)
    PROVE  AnsweredInTime(ModeAssessment(s, action, safety, s.until), normal)
<1> DEFINE a == ModeAssessment(s, action, safety, s.until)
<1>1. a.state = s /\ a.action = action /\ a.next = s.until
  BY DEF ModeAssessment
<1> HIDE DEF a
<1>2. AnsweredInTime(a, normal)
  BY <1>1 DEF AnsweredInTime
<1> QED BY <1>2 DEF a

LEMMA ModeAnswersInTime ==
    ASSUME NEW m, IsMode(m), ModeTimes(m), NEW normal \in Maybe(Actions), NEW p, NEW f, NEW t
    PROVE  AnsweredInTime(AssessMode(m, normal, p, f, t), normal)
<1>1. "enable" # None /\ "disable" # None
  BY NoneIsNoAction DEF Actions
<1>2. ASSUME NEW x PROVE /\ ModeTimes([m EXCEPT !.manual = x])
                         /\ [m EXCEPT !.manual = x].mode = m.mode /\ [m EXCEPT !.manual = x].until = m.until
                         /\ ModeTimes([m EXCEPT !.safeHeat = x])
                         /\ [m EXCEPT !.safeHeat = x].mode = m.mode /\ [m EXCEPT !.safeHeat = x].until = m.until
  BY DEF IsMode, ModeState, ModeTimes
<1>3. CASE m.mode = "manual_recovery_heat"
  <2>1. AssessMode(m, normal, p, f, t) = AssessManual(m, normal, t)
    BY <1>3 DEF AssessMode
  <2>2. CASE t < m.until
    <3> DEFINE s == [m EXCEPT !.manual = TRUE]
    <3>1. ModeTimes(s) /\ s.until = m.until
      BY <1>2
    <3>2. AssessManual(m, normal, t) = ModeAssessment(s, "enable", FALSE, m.until)
      BY <2>2 DEF AssessManual
    <3> HIDE DEF s
    <3>3. AnsweredInTime(ModeAssessment(s, "enable", FALSE, s.until), normal)
      BY <1>1, <3>1, AnswerIsInTime
    <3> QED BY <2>1, <3>1, <3>2, <3>3
  <2>3. CASE ~(t < m.until)
    <3> DEFINE s == ModeState("normal", TRUE, None, None)
    <3>1. ModeTimes(s) /\ s.until = None
      BY DEF ModeTimes, ModeState
    <3>2. /\ normal = None => AssessManual(m, normal, t) = ModeAssessment(s, "disable", TRUE, None)
          /\ normal # None => AssessManual(m, normal, t) = ModeAssessment(s, normal, FALSE, None)
      BY <2>3 DEF AssessManual
    <3> HIDE DEF s
    <3>3. /\ AnsweredInTime(ModeAssessment(s, "disable", TRUE, s.until), normal)
          /\ normal # None => AnsweredInTime(ModeAssessment(s, normal, FALSE, s.until), normal)
      BY <1>1, <3>1, AnswerIsInTime
    <3> QED BY <2>1, <3>1, <3>2, <3>3
  <2> QED BY <2>2, <2>3
<1>4. CASE m.mode = "emergency_off"
  <2>1. AssessMode(m, normal, p, f, t) = ModeAssessment(m, "disable", TRUE, None) /\ m.until = None
    BY <1>4 DEF AssessMode, ModeTimes
  <2>2. AnsweredInTime(ModeAssessment(m, "disable", TRUE, m.until), normal)
    BY <1>1, AnswerIsInTime
  <2> QED BY <2>1, <2>2
<1>5. CASE m.mode = "normal"
  <2>1. AssessMode(m, normal, p, f, t) = ModeAssessment(m, normal, FALSE, None) /\ m.until = None
    BY <1>5 DEF AssessMode, ModeTimes
  <2>2. AnsweredInTime(ModeAssessment(m, normal, FALSE, m.until), normal)
    BY <1>5, AnswerIsInTime
  <2> QED BY <2>1, <2>2
<1>6. CASE m.mode = "safe_heating"
  <2>1. ASSUME NEW x, NEW action
        PROVE  AnsweredInTime(ModeAssessment([m EXCEPT !.safeHeat = x], action, FALSE, None), normal)
    <3> DEFINE s == [m EXCEPT !.safeHeat = x]
    <3>1. ModeTimes(s) /\ s.mode = "safe_heating" /\ s.until = None
      BY <1>2, <1>6 DEF ModeTimes
    <3> HIDE DEF s
    <3>2. AnsweredInTime(ModeAssessment(s, action, FALSE, s.until), normal)
      BY <3>1, AnswerIsInTime
    <3> QED BY <3>1, <3>2 DEF s
  <2>2. \E x, action : AssessMode(m, normal, p, f, t) =
                         ModeAssessment([m EXCEPT !.safeHeat = x], action, FALSE, None)
    BY <1>6 DEF AssessMode, AssessSafeHeating
  <2> QED BY <2>1, <2>2
<1> QED BY <1>3, <1>4, <1>5, <1>6 DEF IsMode, Modes

LEMMA ActivatedTimes ==
    ASSUME NEW m, IsMode(m), ModeTimes(m), NEW requested \in Modes, NEW t \in Int
    PROVE  ModeTimes(ActivatedMode(m, requested, t)) /\ ModeTimes(CancelledMode(m))
<1>1. t + ManualFor \in Int
  BY ModeConstants
<1> QED BY <1>1 DEF ActivatedMode, CancelledMode, ModeTimes, ModeState

(* Demand is answered by a command unless it is in its grace period.       *)
LEMMA NoActionIsGrace ==
    ASSUME NEW start, NEW t, NEW building
    PROVE  NormalAction(SafetyPhase(start, t), building) = None => start # None
BY NoneIsNoAction, TimeoutIsAction DEF NormalAction, SafetyPhase, Actions

RecoveryTimes(r) == r # None => r \in [waiting : BOOLEAN, until : Int]

LEMMA RecoveryKept ==
    ASSUME NEW r, RecoveryTimes(r), NEW a, NEW b, NEW t
    PROVE  RecoveryTimes(AssessRecovery(r, a, b, t))
<1>1. CASE r = None \/ ~r.waiting
  BY <1>1 DEF AssessRecovery
<1>2. CASE ~(r = None \/ ~r.waiting)
  <2> DEFINE x == ~(a /\ b) /\ t < r.until
  <2>1. AssessRecovery(r, a, b, t) = [r EXCEPT !.waiting = x]
    BY <1>2 DEF AssessRecovery
  <2>2. x \in BOOLEAN
    OBVIOUS
  <2> HIDE DEF x
  <2> QED BY <1>2, <2>1, <2>2 DEF RecoveryTimes
<1> QED BY <1>1, <1>2

(* A reconciliation state that awaits agreement or a retry is of a drift:  *)
(* the report contradicts what was asked for.                              *)
Drifting(r) ==
    /\ Owned /\ r.drift = TRUE /\ r.desired # None
    /\ Known(r.reported) /\ CommandFor(r.reported.state) # r.desired

Fields == {"status", "failed", "desired", "reported", "drift", "holdUntil", "next", "at"}

ReconKept(r) ==
    /\ DOMAIN r = Fields
    /\ r.at \in Int /\ r.next \in Maybe(Int) /\ r.failed \in BOOLEAN
    /\ (r.status = "correction_pending" \/ r.failed = TRUE) => Drifting(r)
    /\ r.failed = TRUE => r.status = "drift_holding" /\ r.next # None

ReconciledAs(r, desired, report, t) ==
    ReconKept(r) /\ r.at = t /\ r.desired = desired /\ r.reported = report

(* The fields of a state, and what replacing some of them leaves.          *)
Has(r, status0, failed, desired, report, drift, hold, next, t) ==
    /\ DOMAIN r = Fields
    /\ r.status = status0 /\ r.failed = failed /\ r.desired = desired /\ r.reported = report
    /\ r.drift = drift /\ r.holdUntil = hold /\ r.next = next /\ r.at = t

LEMMA FreshHas ==
    ASSUME NEW s, NEW d, NEW p, NEW t
    PROVE  Has(Reconciliation(s, d, p, t), s, FALSE, d, p, FALSE, None, None, t)
BY DEF Reconciliation, Has, Fields

LEMMA ExceptHas ==
    ASSUME NEW s, NEW f, NEW d, NEW p, NEW dr, NEW h, NEW n, NEW t, NEW x, NEW y, NEW z, NEW u,
           NEW r, Has(r, s, f, d, p, dr, h, n, t)
    PROVE  /\ Has([r EXCEPT !.drift = x, !.holdUntil = y], s, f, d, p, x, y, n, t)
           /\ Has([r EXCEPT !.status = x], x, f, d, p, dr, h, n, t)
           /\ Has([r EXCEPT !.status = x, !.failed = y, !.next = z], x, y, d, p, dr, h, z, t)
           /\ Has([r EXCEPT !.holdUntil = x, !.next = y], s, f, d, p, dr, x, y, t)
           /\ Has([r EXCEPT !.status = x, !.failed = y, !.next = z, !.at = u], x, y, d, p, dr, h, z, u)
<1>1. Has([r EXCEPT !.drift = x, !.holdUntil = y], s, f, d, p, x, y, n, t)
  BY DEF Has, Fields
<1>2. Has([r EXCEPT !.status = x], x, f, d, p, dr, h, n, t)
  BY DEF Has, Fields
<1>3. Has([r EXCEPT !.status = x, !.failed = y, !.next = z], x, y, d, p, dr, h, z, t)
  BY DEF Has, Fields
<1>4. Has([r EXCEPT !.holdUntil = x, !.next = y], s, f, d, p, dr, x, y, t)
  BY DEF Has, Fields
<1>5. Has([r EXCEPT !.status = x, !.failed = y, !.next = z, !.at = u], x, y, d, p, dr, h, z, u)
  BY DEF Has, Fields
<1> QED BY <1>1, <1>2, <1>3, <1>4, <1>5

(* The fresh states of the policy.                                         *)
LEMMA FreshReconciliation ==
    ASSUME NEW s \in {"observed_external", "expected_unknown", "reported_indeterminate", "agreed"},
           NEW desired, NEW report, NEW t \in Int
    PROVE  /\ ReconciledAs(Reconciliation(s, desired, report, t), desired, report, t)
           /\ Reconciliation(s, desired, report, t).status = s
<1> DEFINE r == Reconciliation(s, desired, report, t)
<1>1. Has(r, s, FALSE, desired, report, FALSE, None, None, t)
  BY FreshHas
<1> HIDE DEF r
<1>2. ReconciledAs(r, desired, report, t) /\ r.status = s
  BY <1>1 DEF Has, ReconciledAs, ReconKept, Maybe
<1> QED BY <1>2 DEF r

(* A drift, from its fields.                                               *)
LEMMA DriftStateKept ==
    ASSUME NEW desired, NEW report, NEW t \in Int, NEW status0, NEW failed \in BOOLEAN,
           NEW hold, NEW next \in Maybe(Int), NEW r,
           Has(r, status0, failed, desired, report, TRUE, hold, next, t),
           Owned, desired # None, Known(report), CommandFor(report.state) # desired,
           failed = TRUE => status0 = "drift_holding" /\ next # None
    PROVE  ReconciledAs(r, desired, report, t) /\ Drifting(r)
<1>1. Drifting(r)
  BY DEF Drifting, Has
<1>2. ReconciledAs(r, desired, report, t)
  BY <1>1 DEF ReconciledAs, ReconKept, Has
<1> QED BY <1>1, <1>2

LEMMA DriftIsReconciled ==
    ASSUME NEW current, current # None => ReconKept(current), NEW desired, NEW report, NEW t \in Int,
           Owned, desired # None, Known(report), CommandFor(report.state) # desired
    PROVE  LET r == ReconcileDrift(current, desired, report, t)
           IN  ReconciledAs(r, desired, report, t) /\ Drifting(r)
<1> DEFINE r == ReconcileDrift(current, desired, report, t)
           hold == IF SameDrift(current, desired, report) THEN current.holdUntil ELSE None
           fresh == Reconciliation("drift_holding", desired, report, t)
           drifting == [fresh EXCEPT !.drift = TRUE, !.holdUntil = hold]
<1>1. /\ AwaitsAgreement(current, desired, report) => r = [drifting EXCEPT !.status = "correction_pending"]
      /\ (~AwaitsAgreement(current, desired, report) /\ WaitsForDeadline(current, desired, report, t)) =>
           r = [drifting EXCEPT !.status = current.status, !.failed = current.failed, !.next = current.next]
      /\ (~AwaitsAgreement(current, desired, report) /\ ~WaitsForDeadline(current, desired, report, t)) =>
           \/ r = [drifting EXCEPT !.status = "correction_required"]
           \/ r = [drifting EXCEPT !.holdUntil = t + UnknownHold, !.next = t + UnknownHold]
  BY DEF ReconcileDrift
<1> HIDE DEF hold, fresh
<1>2. Has(drifting, "drift_holding", FALSE, desired, report, TRUE, hold, None, t)
  BY FreshHas, ExceptHas DEF fresh
<1> HIDE DEF r, drifting
<1>3. t + UnknownHold \in Maybe(Int) /\ None \in Maybe(Int) /\ FALSE \in BOOLEAN
  BY ModeConstants DEF Maybe
<1>4. CASE AwaitsAgreement(current, desired, report)
  <2>1. Has([drifting EXCEPT !.status = "correction_pending"], "correction_pending", FALSE,
            desired, report, TRUE, hold, None, t)
    BY <1>2, ExceptHas
  <2>2. Has(r, "correction_pending", FALSE, desired, report, TRUE, hold, None, t)
    BY <1>1, <1>4, <2>1
  <2> QED BY <1>3, <2>2, DriftStateKept DEF r
<1>5. CASE ~AwaitsAgreement(current, desired, report) /\ WaitsForDeadline(current, desired, report, t)
  <2> DEFINE status0 == current.status
             failed == current.failed
             next == current.next
  <2>1. /\ failed \in BOOLEAN /\ next \in Maybe(Int)
        /\ failed = TRUE => status0 = "drift_holding" /\ next # None
    BY <1>5 DEF WaitsForDeadline, SameDrift, ReconKept
  <2>2. r = [drifting EXCEPT !.status = status0, !.failed = failed, !.next = next]
    BY <1>1, <1>5
  <2> HIDE DEF status0, failed, next
  <2>3. Has(r, status0, failed, desired, report, TRUE, hold, next, t)
    BY <1>2, <2>2, ExceptHas
  <2> QED BY <2>1, <2>3, DriftStateKept DEF r
<1>6. CASE ~AwaitsAgreement(current, desired, report) /\ ~WaitsForDeadline(current, desired, report, t)
  <2> DEFINE until == t + UnknownHold
  <2>1. \/ r = [drifting EXCEPT !.status = "correction_required"]
        \/ r = [drifting EXCEPT !.holdUntil = until, !.next = until]
    BY <1>1, <1>6
  <2>2. until \in Maybe(Int)
    BY <1>3
  <2> HIDE DEF until
  <2>3. \/ Has(r, "correction_required", FALSE, desired, report, TRUE, hold, None, t)
        \/ Has(r, "drift_holding", FALSE, desired, report, TRUE, until, until, t)
    <3>1. Has([drifting EXCEPT !.status = "correction_required"], "correction_required", FALSE,
              desired, report, TRUE, hold, None, t)
      BY <1>2, ExceptHas
    <3>2. Has([drifting EXCEPT !.holdUntil = until, !.next = until], "drift_holding", FALSE,
              desired, report, TRUE, until, until, t)
      BY <1>2, ExceptHas
    <3> QED BY <2>1, <3>1, <3>2
  <2> QED BY <1>3, <2>2, <2>3, DriftStateKept DEF r
<1> QED BY <1>4, <1>5, <1>6

LEMMA ReportIsReconciled ==
    ASSUME NEW current, current # None => ReconKept(current), NEW action, NEW report, NEW t \in Int
    PROVE  LET r == Reconcile(current, action, report, t)
           IN  /\ ReconciledAs(r, action, report, t)
               /\ (Owned /\ action # None /\ Known(report) /\ CommandFor(report.state) # action)
                    => r = ReconcileDrift(current, action, report, t) /\ Drifting(r)
               /\ r.status \in {"correction_required", "correction_pending"} => Drifting(r)
<1> DEFINE r == Reconcile(current, action, report, t)
<1>1. CASE Owned /\ action # None /\ Known(report) /\ CommandFor(report.state) # action
  <2>1. r = ReconcileDrift(current, action, report, t)
    BY <1>1 DEF Reconcile
  <2> QED BY <1>1, <2>1, DriftIsReconciled
<1>2. CASE ~(Owned /\ action # None /\ Known(report) /\ CommandFor(report.state) # action)
  <2>1. \E s \in {"observed_external", "expected_unknown", "reported_indeterminate", "agreed"} :
          r = Reconciliation(s, action, report, t)
    BY <1>2 DEF Reconcile
  <2> HIDE DEF r
  <2>2. ReconciledAs(r, action, report, t) /\ r.status \notin {"correction_required", "correction_pending"}
    BY <2>1, FreshReconciliation
  <2> QED BY <1>2, <2>2 DEF r
<1> QED BY <1>1, <1>2

(* What is recorded of a correction.                                       *)
LEMMA CorrectionKept ==
    ASSUME NEW r, NEW desired, NEW report, NEW t \in Int, ReconciledAs(r, desired, report, t), Drifting(r)
    PROVE  /\ ReconciledAs(CorrectionDispatched(r, t), desired, report, t)
           /\ CorrectionDispatched(r, t).next = None
           /\ ReconciledAs(CorrectionFailed(r, t), desired, report, t)
           /\ CorrectionFailed(r, t).next = t + RetryAfter /\ CorrectionFailed(r, t).failed = TRUE
<1> DEFINE status0 == r.status
           failed == r.failed
           hold == r.holdUntil
           next == r.next
           x == CorrectionDispatched(r, t)
           y == CorrectionFailed(r, t)
           retry == t + RetryAfter
<1>1. Has(r, status0, failed, desired, report, TRUE, hold, next, t)
  BY DEF ReconciledAs, ReconKept, Drifting, Has
<1>2. Owned /\ desired # None /\ Known(report) /\ CommandFor(report.state) # desired
  BY DEF ReconciledAs, Drifting
<1>3. retry \in Maybe(Int) /\ retry # None /\ None \in Maybe(Int)
  BY ModeConstants, NoneIsNoTime DEF Maybe
<1> HIDE DEF status0, failed, hold, next, retry
<1>4. Has(x, "correction_pending", FALSE, desired, report, TRUE, hold, None, t)
  BY <1>1, ExceptHas DEF CorrectionDispatched
<1>5. Has(y, "drift_holding", TRUE, desired, report, TRUE, hold, retry, t)
  <2>1. y = [r EXCEPT !.status = "drift_holding", !.failed = TRUE, !.next = retry, !.at = t]
    BY DEF CorrectionFailed, retry
  <2> HIDE DEF y
  <2> QED BY <1>1, <2>1, ExceptHas
<1> HIDE DEF x, y
<1>6. ReconciledAs(x, desired, report, t) /\ x.next = None
  <2>1. ReconciledAs(x, desired, report, t)
    BY <1>2, <1>3, <1>4, DriftStateKept
  <2> QED BY <1>4, <2>1 DEF Has
<1>7. ReconciledAs(y, desired, report, t) /\ y.next = retry /\ y.failed = TRUE
  <2>1. ReconciledAs(y, desired, report, t)
    BY <1>2, <1>3, <1>5, DriftStateKept
  <2> QED BY <1>5, <2>1 DEF Has
<1> QED BY <1>6, <1>7 DEF x, y, retry

(* A correction is asked for only of a drift.                              *)
LEMMA CorrectionIsDrift ==
    ASSUME NEW current, current # None => ReconKept(current), NEW action \in Actions, NEW report,
           NEW t \in Int, NEW safety,
           IsCorrective(Reconcile(current, action, report, t), safety, action, report)
    PROVE  Drifting(Reconcile(current, action, report, t))
<1> DEFINE r == Reconcile(current, action, report, t)
<1>1. CASE r.status = "correction_required"
  BY <1>1, ReportIsReconciled
<1>2. CASE r.status # "correction_required"
  <2> HIDE DEF r
  <2>1. safety /\ action = "disable" /\ Owned /\ report # None /\ report.state = "enabled"
    BY <1>2 DEF IsCorrective, r
  <2>2. Owned /\ action # None /\ Known(report) /\ CommandFor(report.state) # action
    BY <2>1, NoneIsNoAction DEF Known, CommandFor, Actions
  <2> QED BY <2>2, ReportIsReconciled DEF r
<1> QED BY <1>1, <1>2

(* Against the same report and for the same desire nothing is asked for    *)
(* again: an awaited agreement holds every command, a retry wait all but a *)
(* safety disable.                                                         *)
LEMMA CorrectionIsHeld ==
    ASSUME NEW current, current # None, ReconKept(current), NEW action, NEW report, NEW t \in Int,
           NEW safety, current.desired = action
    PROVE  LET r == Reconcile(current, action, report, t)
           IN  /\ (current.status = "correction_pending" /\ report = current.reported)
                    => ReconciliationBlocks(r, safety, action)
               /\ (/\ current.failed = TRUE /\ report # None
                   /\ report.state = current.reported.state /\ t < current.next)
                    => ReconciliationBlocks(r, safety, action) \/ safety
<1> DEFINE r == Reconcile(current, action, report, t)
<1>1. ASSUME current.status = "correction_pending", report = current.reported
      PROVE  ReconciliationBlocks(r, safety, action)
  <2>1. Drifting(current)
    BY <1>1 DEF ReconKept
  <2>2. r = ReconcileDrift(current, action, report, t)
    BY <1>1, <2>1, ReportIsReconciled DEF Drifting
  <2>3. AwaitsAgreement(current, action, report)
    BY <1>1, <2>1 DEF AwaitsAgreement, SameDrift, Drifting, Known
  <2>4. ReconcileDrift(current, action, report, t).status = "correction_pending"
    BY <2>3 DEF ReconcileDrift, Reconciliation
  <2> HIDE DEF r
  <2> QED BY <2>2, <2>4 DEF ReconciliationBlocks
<1>2. ASSUME current.failed = TRUE, report # None,
             report.state = current.reported.state, t < current.next
      PROVE  ReconciliationBlocks(r, safety, action) \/ safety
  <2>1. Drifting(current) /\ current.status = "drift_holding" /\ current.next # None
    BY <1>2 DEF ReconKept
  <2>2. Known(report) /\ CommandFor(report.state) # action /\ Owned /\ action # None
    BY <1>2, <2>1 DEF Drifting, Known
  <2>3. r = ReconcileDrift(current, action, report, t)
    BY <2>2, ReportIsReconciled
  <2>4. ~AwaitsAgreement(current, action, report) /\ WaitsForDeadline(current, action, report, t)
    BY <1>2, <2>1 DEF AwaitsAgreement, WaitsForDeadline, SameDrift, Drifting, Known
  <2>5. ReconcileDrift(current, action, report, t).status = "drift_holding"
    BY <2>1, <2>4 DEF ReconcileDrift, Reconciliation
  <2> HIDE DEF r
  <2> QED BY <2>3, <2>5 DEF ReconciliationBlocks
<1> QED BY <1>1, <1>2

------------------------------------------------------------------------------
(* The one deadline after an evaluation.                                   *)

(* A pass through the command path arms the earliest of some deadlines,    *)
(* or the retry of a correction that failed.                               *)
ArmedFor(D, w, force, corrective, reconciled) ==
    /\ crashed' = FALSE
    /\ \/ /\ recon' = reconciled \/ (corrective = TRUE /\ recon' = CorrectionDispatched(reconciled, now))
          /\ wake' = Rearm(w, Earliest(D), force)
       \/ /\ corrective = TRUE /\ recon' = CorrectionFailed(reconciled, now)
          /\ wake' = Rearm(Rearm(w, Earliest(D), force), CorrectionFailed(reconciled, now).next, FALSE)

CommandArms(D, base, w, force, corrective, reconciled) ==
    /\ base \subseteq D
    /\ \A d \in D : d > now
    /\ (sc'.deferredUntil # None /\ sc'.deferredUntil > now) => sc'.deferredUntil \in D
    /\ ArmedFor(D, w, force, corrective, reconciled)

LEMMA CommandWaitsArmed ==
    ASSUME RuntimeInvariant, NEW report \in Maybe(Reports), NEW action \in Actions,
           NEW safety \in BOOLEAN, NEW corrective \in BOOLEAN,
           NEW w, NEW base, base \subseteq Int, \A d \in base : d > now,
           NEW force, NEW reconciled,
           CommandSource(w, base, force, action, safety, corrective, report, reconciled)
    PROVE  \E D \in SUBSET Int : CommandArms(D, base, w, force, corrective, reconciled)
<1> DEFINE s == CurrentSource
           e == EvidenceFor(corrective, report)
           v == Verdict(s, action, now, safety, corrective, e)
           a == Assessed(s, action, now, safety, corrective, e)
           D == CommandDeadlines(base, a)
<1>1. now \in Int /\ now \in Time /\ Time \subseteq Int
  BY TimeIsInt DEF RuntimeInvariant
<1>2. s \in States(Time)
  BY <1>1, InitialStateType DEF CurrentSource, RuntimeInvariant, Maybe
<1>3. a \in States(Time) /\ a.demand = action /\ (Dispatches(v) => NothingDeferred(a))
  <2> DEFINE x == IF corrective THEN Seen(report) ELSE None
  <2>1. /\ x \in Maybe(Evidence(Time))
        /\ v = Verdict(s, action, now, safety, corrective, x)
        /\ a = Assessed(s, action, now, safety, corrective, x)
    BY SeenIsEnough DEF EvidenceFor, Maybe
  <2> HIDE DEF s, x, v, a
  <2>2. a \in States(Time) /\ AssessedAs(a, s, action, now)
    BY <1>1, <1>2, <2>1, AssessedType, AssessedFields
  <2>3. Dispatches(v) => NothingDeferred(a)
    BY <1>1, <1>2, <2>1, AssessedFields
  <2> QED BY <2>2, <2>3 DEF AssessedAs
<1>4. /\ D \in SUBSET Int /\ base \subseteq D /\ \A d \in D : d > now
      /\ (a.deferredUntil # None /\ a.deferredUntil > now) => a.deferredUntil \in D
  <2>1. a.deferredUntil \in Maybe(Int)
    BY <1>3 DEF States
  <2> HIDE DEF a
  <2> QED BY <2>1 DEF CommandDeadlines, Maybe
<1>5. /\ \/ ~Dispatches(v) /\ sc' = a
         \/ Dispatches(v) /\ sc' \in {RecordFailed(a, now), RecordSuppressedDuplicate(a, now)}
         \/ Dispatches(v) /\ sc' = RecordDispatched(a, v, now)
      /\ ArmedFor(D, w, force, corrective, reconciled)
  <2> HIDE DEF a, v, D
  <2>1. /\ crashed' = FALSE
        /\ IF ~Dispatches(v)
           THEN sc' = a /\ recon' = reconciled /\ wake' = Rearm(w, Earliest(D), force)
           ELSE IF DropsDuplicate(action, corrective)
           THEN /\ sc' = RecordSuppressedDuplicate(a, now)
                /\ recon' = reconciled /\ wake' = Rearm(w, Earliest(D), force)
           ELSE \/ /\ sc' = RecordDispatched(a, v, now)
                   /\ recon' = IF corrective THEN CorrectionDispatched(reconciled, now) ELSE reconciled
                   /\ wake' = Rearm(w, Earliest(D), force)
                \/ /\ sc' = RecordFailed(a, now)
                   /\ recon' = IF corrective THEN CorrectionFailed(reconciled, now) ELSE reconciled
                   /\ wake' = IF corrective
                              THEN Rearm(Rearm(w, Earliest(D), force), CorrectionFailed(reconciled, now).next, FALSE)
                              ELSE Rearm(w, Earliest(D), force)
    BY DEF CommandSource, a, v, D
  <2>2. CASE corrective = TRUE
    BY <2>1, <2>2 DEF ArmedFor
  <2>3. CASE corrective = FALSE
    BY <2>1, <2>3 DEF ArmedFor
  <2> QED BY <2>2, <2>3
<1> HIDE DEF a, v, D
<1>6. CASE ~Dispatches(v) /\ sc' = a
  <2>1. CommandArms(D, base, w, force, corrective, reconciled)
    BY <1>4, <1>5, <1>6 DEF CommandArms
  <2> QED BY <1>4, <2>1
<1>7. CASE Dispatches(v) /\ sc' \in {RecordFailed(a, now), RecordSuppressedDuplicate(a, now)}
  <2>1. sc'.deferredUntil = a.deferredUntil
    BY <1>3, <1>7 DEF RecordFailed, RecordSuppressedDuplicate, States
  <2>2. sc'.deferredUntil = None
    BY <1>3, <1>7, <2>1 DEF NothingDeferred
  <2>3. CommandArms(D, base, w, force, corrective, reconciled)
    BY <1>4, <1>5, <2>2 DEF CommandArms
  <2> QED BY <1>4, <2>3
<1>8. CASE Dispatches(v) /\ sc' = RecordDispatched(a, v, now)
  <2>1. DispatchedAs(sc', a, now)
    BY <1>1, <1>3, <1>8, DispatchedFields
  <2>2. sc'.deferredUntil = None
    BY <2>1 DEF DispatchedAs, NothingDeferred
  <2>3. CommandArms(D, base, w, force, corrective, reconciled)
    BY <1>4, <1>5, <2>2 DEF CommandArms
  <2> QED BY <1>4, <2>3
<1> QED BY <1>5, <1>6, <1>7, <1>8

(* The deadlines an evaluation collects are times to come, and hold        *)
(* whatever waits for one.                                                 *)
DemandType == [Zones -> Maybe([heat : BOOLEAN, at : Int])]

BaseWait(d, t, demands, confirmed, start, modeNext, recovering, reconNext) ==
    \/ d \in EligibilityDeadlines(demands, t)
    \/ \E z \in Zones : d = confirmed[z].until
    \/ start # None /\ d = start + Grace
    \/ d = modeNext
    \/ d = reconNext
    \/ RecoveryBlocks(recovering) /\ d = recovering.until

LEMMA BaseSound ==
    ASSUME now \in Int, NEW demands \in DemandType, NEW confirmed, UntilTimes(confirmed),
           NEW start \in Maybe(Int), NEW modeNext \in Maybe(Int), NEW reconNext \in Maybe(Int),
           NEW recovering, RecoveryTimes(recovering)
    PROVE  LET base == BaseDeadlines(demands, confirmed, start, SafetyPhase(start, now),
                                     modeNext, recovering, reconNext)
           IN  /\ base \subseteq Int
               /\ \A d \in base : d > now
               /\ \A d \in Int :
                    (d > now /\ BaseWait(d, now, demands, confirmed, start, modeNext, recovering, reconNext))
                      => d \in base
<1> DEFINE phase == SafetyPhase(start, now)
           grace == IF phase = "grace" THEN {start + Grace} ELSE {}
           untils == {confirmed[z].until : z \in Zones}
           window == IF RecoveryBlocks(recovering) THEN {recovering.until} ELSE {}
           usable == EligibilityDeadlines(demands, now)
           base == BaseDeadlines(demands, confirmed, start, phase, modeNext, recovering, reconNext)
<1>1. base = {d \in (usable \cup untils \cup grace \cup {modeNext, reconNext} \cup window) \ {None} : d > now}
  BY DEF BaseDeadlines
<1>2. usable \subseteq Int
  <2>1. \A z \in Zones : demands[z] # None => demands[z].at \in Int /\ demands[z].at + MaxAge + 1 \in Int
    BY DemandDurations DEF DemandType, Maybe
  <2> QED BY <2>1 DEF EligibilityDeadlines
<1>3. untils \subseteq Maybe(Int)
  BY DEF UntilTimes
<1>4. /\ grace \subseteq Int
      /\ \A d \in Int : (start # None /\ d = start + Grace /\ d > now) => d \in grace
  BY DemandDurations DEF SafetyPhase, Maybe
<1>5. window \subseteq Int /\ \A d : (RecoveryBlocks(recovering) /\ d = recovering.until) => d \in window
  BY DEF RecoveryTimes, RecoveryBlocks
<1>6. \A d : (\E z \in Zones : d = confirmed[z].until) => d \in untils
  OBVIOUS
<1> HIDE DEF grace, untils, window, usable, base
<1>7. base \subseteq Int /\ \A d \in base : d > now
  BY <1>1, <1>2, <1>3, <1>4, <1>5 DEF Maybe
<1>8. ASSUME NEW d \in Int, d > now,
             BaseWait(d, now, demands, confirmed, start, modeNext, recovering, reconNext)
      PROVE  d \in base
  <2>1. d # None
    BY NoneIsNoTime
  <2>2. d \in usable \/ d \in untils \/ d \in grace \/ d \in {modeNext, reconNext} \/ d \in window
    BY <1>4, <1>5, <1>6, <1>8 DEF BaseWait, usable
  <2> QED BY <1>1, <1>8, <2>1, <2>2
<1> QED BY <1>7, <1>8 DEF base, phase

(* WaitsFor, as a predicate of the values it reads: the deadlines of the   *)
(* base, and a deferred command while the command path decides.            *)
Decides(start, m, recovering, rn, k) ==
    /\ start = None
    /\ m.mode \in {"normal", "emergency_off"}
    /\ ~RecoveryBlocks(recovering)
    /\ rn.status \notin {"correction_pending", "drift_holding"}
    /\ ~(Owned /\ rn.status = "agreed" /\ (k = None \/ k.last = None))

Wait(d, t, demands, confirmed, start, m, recovering, rn, k) ==
    \/ BaseWait(d, t, demands, confirmed, start, m.until, recovering, rn.next)
    \/ Decides(start, m, recovering, rn, k) /\ k # None /\ d = k.deferredUntil

Armed(d, w, recovering, rn) ==
    /\ w.timer # None
    /\ \/ w.timer <= d
       \/ rn.failed = TRUE /\ w.timer = rn.next
       \/ RecoveryBlocks(recovering) /\ w.timer = recovering.until

AllArmed(t, demands, confirmed, start, m, recovering, rn, k, w) ==
    \A d \in Int : (d > t /\ Wait(d, t, demands, confirmed, start, m, recovering, rn, k))
                      => Armed(d, w, recovering, rn)

(* What every operation leaves behind, for the times.  While the runtime   *)
(* lives the armed deadline is not before the last evaluation, so that a   *)
(* late callback cannot antedate a grace period.                           *)
Waiting ==
    /\ demand \in DemandType
    /\ ConfirmTimes(confirm)
    /\ since \in Maybe(Int)
    /\ ModeTimes(mode) /\ RecoveryTimes(recovery) /\ WakeWell(wake)
    /\ recon # None => /\ ReconKept(recon) /\ recon.at <= now /\ recon.reported = reported
                       /\ UntilTimes(confirm)
    /\ (~crashed /\ recon # None /\ wake.timer # None) => wake.timer >= recon.at
    /\ (Running /\ recon # None) =>
         AllArmed(now, demand, confirm, since, mode, recovery, recon, sc, wake)

(* What an evaluation does about the times, the corrections and the heat.  *)
HeldBack(report) ==
    (recon # None /\ recon.desired = recon'.desired) =>
      /\ (recon.status = "correction_pending" /\ report = recon.reported) => source' = source
      /\ (/\ recon.failed = TRUE /\ report # None
          /\ report.state = recon.reported.state /\ now < recon.next)
           => source' = source \/ source'.safety = TRUE

HeatConfirmed ==
    (source' # source /\ source'.action = "enable" /\ mode'.mode = "normal"
       /\ ConfirmFor > 0 /\ since' = None)
    => \E z \in Zones : ConfirmedBefore(confirm[z])

EvaluatedWaits(demands, report, hint) ==
    /\ ConfirmTimes(confirm') /\ UntilTimes(confirm')
    /\ since' \in Maybe(Int)
    /\ ModeTimes(mode') /\ RecoveryTimes(recovery') /\ WakeWell(wake')
    /\ ReconciledAs(recon', recon'.desired, report, now)
    /\ \/ crashed' = TRUE
       \/ /\ AllArmed(now, demands, confirm', since', mode', recovery', recon', sc', wake')
          /\ wake'.timer # None => wake'.timer > now
    /\ (since = None /\ since' # None) => since' = now \/ (hint # None /\ since' = hint)
    /\ HeldBack(report)
    /\ HeatConfirmed

LEMMA EvaluationWaits ==
    ASSUME RuntimeInvariant, Waiting, status = "running", UNCHANGED <<now, status>>,
           NEW demands \in DemandType, NEW report \in Maybe(Reports),
           NEW mode0, IsMode(mode0), ModeTimes(mode0),
           NEW evidence, NEW w, WakeWell(w), NEW hint \in Maybe(Int),
           Evaluate(demands, report, mode0, evidence, w, hint)
    PROVE  EvaluatedWaits(demands, report, hint)
<1> DEFINE confirmed == [z \in Zones |-> Confirm(confirm[z], ZoneInput(demands[z], now), now)]
           building == BuildingDemand(confirmed)
           start == IndeterminateSince(since, building, now, hint)
           phase == SafetyPhase(start, now)
           normal == NormalAction(phase, building)
           assessment == AssessMode(mode0, normal, evidence.preferred, evidence.fallback, now)
           action == assessment.action
           safety == SafetyAuthority(assessment, phase)
           recovering == AssessRecovery(recovery, building # UNKNOWN, Known(report), now)
           reconciled == Reconcile(recon, action, report, now)
           base == BaseDeadlines(demands, confirmed, start, phase, assessment.next,
                                 recovering, reconciled.next)
           force == PendingDropped(confirm, confirmed)
           corrective == IsCorrective(reconciled, safety, action, report)
           blocked == RecoveryBlocks(recovering) \/ ReconciliationBlocks(reconciled, safety, action)
<1>1. /\ confirm' = confirmed /\ since' = start /\ mode' = assessment.state /\ recovery' = recovering
      /\ \/ /\ blocked
            /\ recon' = reconciled /\ HoldCommand(w, base, force)
         \/ /\ ~blocked /\ (action = None \/ AgreesWithoutHistory(reconciled))
            /\ recon' = reconciled /\ SkipCommand(w, base, force)
         \/ /\ ~blocked /\ action # None
            /\ CommandSource(w, base, force, action, safety, corrective, report, reconciled)
  <2> HIDE DEF base, force, recovering, confirmed, start, phase, safety, reconciled, assessment, corrective
  <2>1. /\ confirm' = confirmed /\ since' = start /\ mode' = assessment.state /\ recovery' = recovering
        /\ IF RecoveryBlocks(recovering) \/ ReconciliationBlocks(reconciled, safety, assessment.action)
           THEN recon' = reconciled /\ HoldCommand(w, base, force)
           ELSE IF assessment.action = None \/ AgreesWithoutHistory(reconciled)
           THEN recon' = reconciled /\ SkipCommand(w, base, force)
           ELSE CommandSource(w, base, force, assessment.action, safety, corrective, report, reconciled)
    BY DEF Evaluate, base, force, recovering, confirmed, start, phase, safety, reconciled, assessment, corrective
  <2> QED BY <2>1
<1>2. now \in Int /\ now \in Nat
  BY TimeIsInt DEF RuntimeInvariant
<1>3. ConfirmTimes(confirmed) /\ UntilTimes(confirmed)
  <2>1. ConfirmTimes(confirm)
    BY DEF Waiting
  <2>2. confirmed = [z \in Zones |-> Confirm(confirm[z], ZoneInput(demands[z], now), now)]
    OBVIOUS
  <2> HIDE DEF confirmed
  <2> QED BY <1>2, <2>1, <2>2, ConfirmedTimes
<1>4. (building = HEAT /\ ConfirmFor > 0) => \E z \in Zones : ConfirmedBefore(confirm[z])
  <2> HAVE building = HEAT /\ ConfirmFor > 0
  <2>1. ConfirmTimes(confirm)
    BY DEF Waiting
  <2>2. confirmed = [z \in Zones |-> Confirm(confirm[z], ZoneInput(demands[z], now), now)]
    OBVIOUS
  <2> HIDE DEF confirmed
  <2>3. \E z \in Zones : /\ confirm[z] # None
                         /\ \/ confirm[z].confirmed = HEAT
                            \/ IsPending(confirm[z]) /\ confirm[z].until <= now
    BY <1>2, <2>1, <2>2, HeatWasConfirmed
  <2> QED BY <2>3 DEF ConfirmedBefore
<1> HIDE DEF confirmed
<1>5. /\ start \in Maybe(Int)
      /\ (since = None /\ start # None) => start = now \/ (hint # None /\ start = hint)
  <2> HIDE DEF building
  <2> QED BY <1>2 DEF IndeterminateSince, Waiting, Maybe
<1>6. /\ normal \in Maybe(Actions)
      /\ normal = "enable" => building = HEAT \/ start # None
      /\ normal = None => start # None
  <2> HIDE DEF start, building
  <2> QED BY NormalActionHasReason, NoActionIsGrace
<1> HIDE DEF start, building, normal
<1>7. /\ AssessedWell(assessment, normal, evidence.preferred, evidence.fallback, now)
      /\ AnsweredInTime(assessment, normal)
  BY <1>6, ModeIsAssessed, ModeAnswersInTime
<1> HIDE DEF assessment
<1>8. /\ action \in Maybe(Actions) /\ ModeTimes(mode')
      /\ assessment.next = mode'.until /\ mode'.until \in Maybe(Int)
      /\ action = None => mode'.mode = "safe_heating" \/ start # None
      /\ (action = "enable" /\ mode'.mode = "normal") => building = HEAT \/ start # None
  <2>1. mode' = assessment.state
    BY <1>1
  <2>2. ModeTimes(mode') /\ assessment.next = mode'.until
    BY <1>7, <2>1 DEF AnsweredInTime
  <2>3. mode'.until \in Maybe(Int)
    BY <2>2 DEF ModeTimes, Maybe
  <2> QED BY <1>6, <1>7, <2>1, <2>2, <2>3 DEF AnsweredInTime, AssessedWell
<1>9. safety \in BOOLEAN /\ corrective \in BOOLEAN
  BY DEF SafetyAuthority, IsCorrective
<1> HIDE DEF safety, action
<1>10. RecoveryTimes(recovering)
  <2>1. RecoveryTimes(recovery)
    BY DEF Waiting
  <2> HIDE DEF building
  <2> QED BY <2>1, RecoveryKept
<1>11. recon # None => ReconKept(recon)
  BY DEF Waiting
<1>12. ReconciledAs(reconciled, action, report, now)
  BY <1>2, <1>11, ReportIsReconciled
<1>13. (action \in Actions /\ corrective = TRUE) =>
         Drifting(reconciled) /\ Seen(report) \in CommandPath!Contradicting(action)
  <2> HAVE action \in Actions /\ corrective = TRUE
  <2>1. IsCorrective(Reconcile(recon, action, report, now), safety, action, report)
    OBVIOUS
  <2> QED BY <1>2, <1>11, <2>1, CorrectionContradicts, CorrectionIsDrift
<1>14. (recon # None /\ recon.desired = action) =>
         /\ (recon.status = "correction_pending" /\ report = recon.reported) => blocked
         /\ (/\ recon.failed = TRUE /\ report # None
             /\ report.state = recon.reported.state /\ now < recon.next) => blocked \/ safety = TRUE
  <2> HAVE recon # None /\ recon.desired = action
  <2>1. ReconKept(recon)
    BY <1>11
  <2>2. /\ (recon.status = "correction_pending" /\ report = recon.reported)
             => ReconciliationBlocks(reconciled, safety, action)
        /\ (/\ recon.failed = TRUE /\ report # None
            /\ report.state = recon.reported.state /\ now < recon.next)
             => ReconciliationBlocks(reconciled, safety, action) \/ safety
    BY <1>2, <2>1, CorrectionIsHeld
  <2> HIDE DEF reconciled, recovering
  <2> QED BY <1>9, <2>2
<1> HIDE DEF recovering, reconciled, corrective
<1>15. reconciled.next \in Maybe(Int)
  BY <1>12 DEF ReconciledAs, ReconKept
<1>16. /\ base \subseteq Int
       /\ \A d \in base : d > now
       /\ \A d \in Int :
            (d > now /\ BaseWait(d, now, demands, confirmed, start, mode'.until, recovering, reconciled.next))
              => d \in base
  <2> DEFINE u == mode'.until
             n == reconciled.next
  <2>1. base = BaseDeadlines(demands, confirmed, start, SafetyPhase(start, now), u, recovering, n)
    BY <1>8
  <2>2. u \in Maybe(Int) /\ n \in Maybe(Int)
    BY <1>8, <1>15
  <2> HIDE DEF u, n, base
  <2>3. /\ base \subseteq Int
        /\ \A d \in base : d > now
        /\ \A d \in Int :
             (d > now /\ BaseWait(d, now, demands, confirmed, start, u, recovering, n)) => d \in base
    BY <1>2, <1>3, <1>5, <1>10, <2>1, <2>2, BaseSound
  <2> QED BY <2>3 DEF u, n
<1> HIDE DEF base, force, phase
<1>17. ASSUME NEW D \in SUBSET Int, D # {}, \A d \in D : d > now
       PROVE  Earliest(D) \in Int /\ Earliest(D) > now /\ \A d \in D : Earliest(D) <= d
  <2>1. D \subseteq Nat
    BY <1>2, <1>17
  <2> QED BY <1>17, <2>1, EarliestIsLeast
(* The three ways the evaluation ends.                                     *)
<1>18. CASE UNCHANGED <<sc, applied, source>> /\ recon' = reconciled /\
            (blocked \/ action = None \/ AgreesWithoutHistory(reconciled)) /\
            (HoldCommand(w, base, force) \/ SkipCommand(w, base, force))
  <2>1. /\ WakeWell(wake')
        /\ \/ crashed' = TRUE
           \/ base = {} /\ wake'.timer = None
           \/ base # {} /\ wake'.timer = Earliest(base)
    <3>1. \/ crashed' = TRUE /\ wake' = w
          \/ base = {} /\ wake' = Rearm(w, None, force)
          \/ base # {} /\ wake' = Rearm(w, Earliest(base), force)
      BY <1>18 DEF HoldCommand, SkipCommand, Earliest
    <3>2. CASE crashed' = TRUE /\ wake' = w
      BY <3>2
    <3>3. CASE base = {} /\ wake' = Rearm(w, None, force)
      <4>1. None \in Maybe(Int)
        BY DEF Maybe
      <4>2. WakeWell(wake') /\ wake'.timer = None
        BY <3>3, <4>1, RearmWell
      <4> QED BY <3>3, <4>2
    <3>4. CASE base # {} /\ wake' = Rearm(w, Earliest(base), force)
      <4> DEFINE e == Earliest(base)
      <4>1. e \in Maybe(Int)
        BY <1>16, <1>17, <3>4 DEF Maybe
      <4> HIDE DEF e
      <4>2. WakeWell(Rearm(w, e, force)) /\ Rearm(w, e, force).timer = e
        BY <4>1, RearmWell
      <4>3. WakeWell(wake') /\ wake'.timer = Earliest(base)
        BY <3>4, <4>2 DEF e
      <4> QED BY <3>4, <4>3
    <3> QED BY <3>1, <3>2, <3>3, <3>4
  <2>2. ~Decides(start, mode', recovering, reconciled, sc)
    <3>1. CASE blocked
      BY <3>1 DEF Decides, ReconciliationBlocks
    <3>2. CASE action = None
      BY <1>8, <3>2 DEF Decides
    <3>3. CASE AgreesWithoutHistory(reconciled)
      BY <3>3 DEF Decides, AgreesWithoutHistory
    <3> QED BY <1>18, <3>1, <3>2, <3>3
  <2>3. crashed' = TRUE \/ (/\ AllArmed(now, demands, confirm', since', mode', recovery', recon', sc', wake')
                            /\ wake'.timer # None => wake'.timer > now)
    <3>1. SUFFICES ASSUME crashed' # TRUE
                   PROVE  /\ AllArmed(now, demands, confirmed, start, mode', recovering, reconciled, sc, wake')
                          /\ wake'.timer # None => wake'.timer > now
      BY <1>1, <1>18
    <3>2. ASSUME NEW d \in Int, d > now, Wait(d, now, demands, confirmed, start, mode', recovering, reconciled, sc)
          PROVE  Armed(d, wake', recovering, reconciled)
      <4>1. d \in base
        BY <1>16, <2>2, <3>2 DEF Wait
      <4>2. wake'.timer = Earliest(base) /\ Earliest(base) \in Int /\ Earliest(base) <= d
        BY <1>16, <1>17, <2>1, <3>1, <4>1
      <4> QED BY <4>2, NoneIsNoTime DEF Armed
    <3>3. wake'.timer # None => wake'.timer > now
      BY <1>16, <1>17, <2>1, <3>1
    <3> QED BY <3>2, <3>3 DEF AllArmed
  <2>4. ReconciledAs(recon', recon'.desired, report, now)
    BY <1>12, <1>18 DEF ReconciledAs
  <2>5. HeldBack(report) /\ HeatConfirmed
    BY <1>18 DEF HeldBack, HeatConfirmed
  <2> HIDE DEF blocked
  <2> QED BY <1>1, <1>3, <1>5, <1>8, <1>10, <2>1, <2>3, <2>4, <2>5 DEF EvaluatedWaits
<1>19. CASE ~blocked /\ action # None /\
            CommandSource(w, base, force, action, safety, corrective, report, reconciled)
  <2>1. action \in Actions
    BY <1>8, <1>19 DEF Maybe
  <2>2. Commanded(action, safety, corrective)
    BY <1>9, <1>13, <1>19, <2>1, CommandSound
  <2>3. PICK D \in SUBSET Int :
             /\ base \subseteq D
             /\ \A d \in D : d > now
             /\ (sc'.deferredUntil # None /\ sc'.deferredUntil > now) => sc'.deferredUntil \in D
             /\ ArmedFor(D, w, force, corrective, reconciled)
    <3>1. base \subseteq Int /\ \A d \in base : d > now
      BY <1>16
    <3>2. CommandSource(w, base, force, action, safety, corrective, report, reconciled)
      BY <1>19
    <3>3. \E D \in SUBSET Int : CommandArms(D, base, w, force, corrective, reconciled)
      BY <1>9, <2>1, <3>1, <3>2, CommandWaitsArmed
    <3> QED BY <3>3 DEF CommandArms
  <2> DEFINE armed == Rearm(w, Earliest(D), force)
             retry == CorrectionFailed(reconciled, now)
  <2>4. WakeWell(armed) /\ armed.timer = Earliest(D)
    <3>1. Earliest(D) \in Maybe(Int)
      BY <1>17, <2>3 DEF Earliest, Maybe
    <3> QED BY <3>1, RearmWell
  <2>5. corrective = TRUE =>
          /\ ReconciledAs(CorrectionDispatched(reconciled, now), action, report, now)
          /\ CorrectionDispatched(reconciled, now).next = None
          /\ ReconciledAs(retry, action, report, now)
          /\ retry.next = now + RetryAfter /\ retry.failed = TRUE
    BY <1>2, <1>12, <1>13, <2>1, CorrectionKept
  <2>6. corrective = TRUE => /\ WakeWell(Rearm(armed, retry.next, FALSE))
                             /\ Rearm(armed, retry.next, FALSE).timer = retry.next
    <3> HAVE corrective = TRUE
    <3> DEFINE n == retry.next
    <3>1. n \in Maybe(Int)
      BY <2>5 DEF ReconciledAs, ReconKept
    <3> HIDE DEF n, armed
    <3>2. WakeWell(Rearm(armed, n, FALSE)) /\ Rearm(armed, n, FALSE).timer = n
      BY <2>4, <3>1, RearmWell
    <3> QED BY <3>2 DEF n
  <2> HIDE DEF armed, retry
  <2>7. /\ crashed' = FALSE
        /\ \/ /\ recon' = reconciled \/ (recon'.next = None /\ corrective = TRUE)
              /\ wake' = armed
           \/ /\ recon'.failed = TRUE /\ wake'.timer = recon'.next /\ recon'.next = now + RetryAfter
        /\ WakeWell(wake') /\ ReconciledAs(recon', action, report, now)
    <3>1. /\ crashed' = FALSE
          /\ \/ /\ recon' = reconciled \/ (corrective = TRUE /\ recon' = CorrectionDispatched(reconciled, now))
                /\ wake' = armed
             \/ /\ corrective = TRUE /\ recon' = retry
                /\ wake' = Rearm(armed, retry.next, FALSE)
      BY <2>3 DEF ArmedFor, armed, retry
    <3>2. CASE recon' = reconciled /\ wake' = armed
      BY <1>12, <2>4, <3>1, <3>2
    <3>3. CASE corrective = TRUE /\ recon' = CorrectionDispatched(reconciled, now) /\ wake' = armed
      BY <2>4, <2>5, <3>1, <3>3
    <3>4. CASE corrective = TRUE /\ recon' = retry /\ wake' = Rearm(armed, retry.next, FALSE)
      BY <2>5, <2>6, <3>1, <3>4
    <3> QED BY <3>1, <3>2, <3>3, <3>4
  <2>8. /\ AllArmed(now, demands, confirm', since', mode', recovery', recon', sc', wake')
        /\ wake'.timer # None => wake'.timer > now
    <3>1. CASE recon'.failed = TRUE /\ wake'.timer = recon'.next /\ recon'.next = now + RetryAfter
      <4>1. now + RetryAfter \in Int /\ now + RetryAfter > now /\ now + RetryAfter # None
        BY <1>2, ModeConstants, NoneIsNoTime
      <4> QED BY <3>1, <4>1 DEF AllArmed, Armed
    <3>2. CASE (recon' = reconciled \/ (recon'.next = None /\ corrective = TRUE)) /\ wake' = armed
      <4>1. ASSUME NEW d \in Int, d > now,
                   Wait(d, now, demands, confirmed, start, mode', recovering, recon', sc')
            PROVE  d \in D
        <5>1. CASE BaseWait(d, now, demands, confirmed, start, mode'.until, recovering, recon'.next)
          <6>1. BaseWait(d, now, demands, confirmed, start, mode'.until, recovering, reconciled.next)
            BY <3>2, <4>1, <5>1, NoneIsNoTime DEF BaseWait
          <6> QED BY <1>16, <2>3, <4>1, <6>1
        <5>2. CASE d = sc'.deferredUntil
          BY <2>3, <4>1, <5>2, NoneIsNoTime
        <5> QED BY <4>1, <5>1, <5>2 DEF Wait
      <4>2. ASSUME NEW d \in Int, d > now,
                   Wait(d, now, demands, confirmed, start, mode', recovering, recon', sc')
            PROVE  Armed(d, wake', recovering, recon')
        <5>1. d \in D
          BY <4>1, <4>2
        <5>2. Earliest(D) \in Int /\ Earliest(D) <= d
          BY <1>17, <2>3, <5>1
        <5> QED BY <2>4, <3>2, <5>2, NoneIsNoTime DEF Armed
      <4>3. wake'.timer # None => wake'.timer > now
        BY <1>17, <2>3, <2>4, <3>2 DEF Earliest
      <4> QED BY <1>1, <4>2, <4>3 DEF AllArmed
    <3> QED BY <2>7, <3>1, <3>2
  <2>9. ReconciledAs(recon', recon'.desired, report, now) /\ recon'.desired = action
    BY <2>7 DEF ReconciledAs
  <2>10. HeldBack(report)
    BY <1>14, <1>19, <2>2, <2>9 DEF HeldBack, Commanded
  <2>11. HeatConfirmed
    BY <1>1, <1>4, <1>8, <2>2 DEF HeatConfirmed, Commanded
  <2> HIDE DEF blocked
  <2> QED BY <1>1, <1>3, <1>5, <1>8, <1>10, <2>7, <2>8, <2>9, <2>10, <2>11 DEF EvaluatedWaits
<1>20. \/ UNCHANGED <<sc, applied, source>> /\ recon' = reconciled /\
            (blocked \/ action = None \/ AgreesWithoutHistory(reconciled)) /\
            (HoldCommand(w, base, force) \/ SkipCommand(w, base, force))
       \/ ~blocked /\ action # None /\
            CommandSource(w, base, force, action, safety, corrective, report, reconciled)
  <2>1. HoldCommand(w, base, force) \/ SkipCommand(w, base, force) => UNCHANGED <<sc, applied, source>>
    BY DEF HoldCommand, SkipCommand
  <2> HIDE DEF blocked
  <2> QED BY <1>1, <2>1
<1> QED BY <1>18, <1>19, <1>20

------------------------------------------------------------------------------
(* The steps once more, for the times.                                     *)

NoAntedating == (since = None /\ since' # None /\ recon # None) => since' >= recon.at

NoStorm ==
    /\ (Same(recon.status = "correction_pending") /\ reported' = recon.reported)
         => source' = source
    /\ (Same(recon.failed) /\ reported'.state = recon.reported.state /\ now < recon.next)
         => (source' = source \/ source'.safety)

WaitStep == Waiting' /\ NoAntedating /\ NoStorm /\ HeatConfirmed

LEMMA WaitingAtFirst == Init => Waiting
<1> SUFFICES ASSUME Init PROVE Waiting
  OBVIOUS
<1>1. demand \in DemandType
  BY DEF Init, DemandType, Maybe
<1>2. ConfirmTimes(confirm)
  BY DEF Init, ConfirmTimes, IsPending
<1>3. ModeTimes(mode) /\ RecoveryTimes(recovery)
  BY DEF Init, InitialMode, ModeState, ModeTimes, RecoveryTimes
<1>4. WakeWell(wake) /\ recon = None /\ since \in Maybe(Int)
  BY DEF Init, WakeWell, Maybe
<1> QED BY <1>1, <1>2, <1>3, <1>4 DEF Waiting

(* A step that evaluates.                                                  *)
LEMMA EvaluatingWaits ==
    ASSUME RuntimeInvariant, Waiting, Running, UNCHANGED <<now, status>>,
           NEW demands \in DemandType, demand' = demands,
           NEW report, reported' = report, reported # None => report # None,
           NEW hint, (hint # None /\ recon # None) => hint >= recon.at,
           EvaluatedWaits(demands, report, hint)
    PROVE  WaitStep
<1>1. now \in Int
  BY TimeIsInt DEF RuntimeInvariant
<1>2. recon' # None => recon'.at = now /\ ReconKept(recon') /\ recon'.reported = report
  BY DEF EvaluatedWaits, ReconciledAs
<1>3. WakeWell(wake')
  BY DEF EvaluatedWaits
<1>4. (~crashed' /\ recon' # None /\ wake'.timer # None) => wake'.timer >= recon'.at
  <2> HAVE ~crashed' /\ recon' # None /\ wake'.timer # None
  <2>1. wake'.timer > now
    BY DEF EvaluatedWaits
  <2>2. wake'.timer \in Int
    BY <1>3 DEF WakeWell, Maybe
  <2> QED BY <1>1, <1>2, <2>1, <2>2
<1>5. Running' => AllArmed(now', demand', confirm', since', mode', recovery', recon', sc', wake')
  BY DEF EvaluatedWaits, Running
<1>6. Waiting'
  BY <1>1, <1>2, <1>3, <1>4, <1>5 DEF Waiting, EvaluatedWaits
<1>7. NoAntedating
  BY <1>1 DEF NoAntedating, Waiting, EvaluatedWaits, ReconKept
<1>8. NoStorm
  <2>1. ASSUME recon # None, recon.desired = recon'.desired, recon.status = "correction_pending",
               reported' = recon.reported
        PROVE  source' = source
    BY <2>1 DEF EvaluatedWaits, HeldBack
  <2>2. ASSUME recon # None, recon.desired = recon'.desired, recon.failed,
               reported'.state = recon.reported.state, now < recon.next
        PROVE  source' = source \/ source'.safety
    <3>1. ReconKept(recon) /\ recon.reported = reported
      BY <2>2 DEF Waiting
    <3>2. recon.failed = TRUE /\ Drifting(recon)
      BY <2>2, <3>1 DEF ReconKept
    <3>3. report # None
      BY <3>1, <3>2 DEF Drifting, Known
    <3>4. source' = source \/ source'.safety = TRUE
      BY <2>2, <3>2, <3>3 DEF EvaluatedWaits, HeldBack
    <3> QED BY <3>4
  <2> QED BY <2>1, <2>2 DEF NoStorm, Same
<1>9. HeatConfirmed
  BY DEF EvaluatedWaits
<1> QED BY <1>6, <1>7, <1>8, <1>9 DEF WaitStep

(* A step that leaves the evidence and the reconciliation alone.           *)
LEMMA QuietWaits ==
    ASSUME RuntimeInvariant, Waiting, UNCHANGED <<now, demand, since, recon, reported>>,
           source' = source \/ (source'.action = "disable" /\ status' = "fatal"),
           ModeTimes(mode'), RecoveryTimes(recovery'), WakeWell(wake'), ConfirmTimes(confirm'),
           recon # None => UntilTimes(confirm'),
           (~crashed' /\ recon # None /\ wake'.timer # None) => wake'.timer >= recon.at,
           (Running' /\ recon # None) =>
             AllArmed(now, demand, confirm', since, mode', recovery', recon, sc', wake')
    PROVE  WaitStep
<1>1. Waiting'
  BY DEF Waiting
<1>2. NoAntedating /\ NoStorm /\ HeatConfirmed
  BY DEF NoAntedating, NoStorm, HeatConfirmed, Same
<1> QED BY <1>1, <1>2 DEF WaitStep

(* The same deadline covers the same waits.                                *)
LEMMA SameTimer ==
    ASSUME NEW t, NEW demands, NEW confirmed, NEW start, NEW m, NEW recovering, NEW rn, NEW k,
           NEW w, NEW x, w.timer = x.timer,
           AllArmed(t, demands, confirmed, start, m, recovering, rn, k, w)
    PROVE  AllArmed(t, demands, confirmed, start, m, recovering, rn, k, x)
BY DEF AllArmed, Armed

(* The deadline of a recovery that has just begun covers every wait.       *)
LEMMA RecoveryArmsAll ==
    ASSUME NEW t, NEW demands, NEW confirmed, NEW start, NEW m, NEW recovering, NEW rn, NEW k,
           NEW w, RecoveryBlocks(recovering), w.timer = recovering.until, w.timer # None
    PROVE  AllArmed(t, demands, confirmed, start, m, recovering, rn, k, w)
BY DEF AllArmed, Armed

(* As time goes on nothing new starts to wait: a reading dated in the      *)
(* future becomes usable at a moment that was already waited for.          *)
LEMMA LaterWaits ==
    ASSUME NEW t \in Int, NEW demands \in DemandType, NEW d \in Int, d > t + 1,
           NEW confirmed, NEW start, NEW m, NEW recovering, NEW rn, NEW k, NEW w, WakeWell(w),
           Wait(d, t + 1, demands, confirmed, start, m, recovering, rn, k),
           AllArmed(t, demands, confirmed, start, m, recovering, rn, k, w)
    PROVE  Armed(d, w, recovering, rn)
<1>1. CASE Wait(d, t, demands, confirmed, start, m, recovering, rn, k)
  BY <1>1 DEF AllArmed
<1>2. CASE ~Wait(d, t, demands, confirmed, start, m, recovering, rn, k)
  <2>1. d \in EligibilityDeadlines(demands, t + 1) /\ d \notin EligibilityDeadlines(demands, t)
    BY <1>2 DEF Wait, BaseWait
  <2>2. \A z \in Zones : demands[z] # None => demands[z].at \in Int
    BY DEF DemandType, Maybe
  <2>3. PICK z \in Zones : demands[z] # None /\ demands[z].at = t + 1
    BY <2>1, <2>2, DemandDurations DEF EligibilityDeadlines, FutureDated
  <2>4. t + 1 \in EligibilityDeadlines(demands, t)
    BY <2>2, <2>3 DEF EligibilityDeadlines, FutureDated
  <2>5. Armed(t + 1, w, recovering, rn)
    BY <2>4 DEF AllArmed, Wait, BaseWait
  <2>6. w.timer \in Maybe(Int)
    BY DEF WakeWell
  <2> QED BY <2>5, <2>6 DEF Armed, Maybe
<1> QED BY <1>1, <1>2

LEMMA StepWaits == ASSUME RuntimeInvariant, Waiting, Next PROVE WaitStep
<1>1. /\ now \in Int /\ reported \in Maybe(Reports) /\ IsMode(mode) /\ ModeTimes(mode)
      /\ demand \in DemandType /\ WakeWell(wake) /\ RecoveryTimes(recovery) /\ ConfirmTimes(confirm)
      /\ recon # None => UntilTimes(confirm) /\ recon.at \in Int /\ recon.at <= now
  BY TimeIsInt DEF RuntimeInvariant, Waiting, ReconKept
<1>2. Running => status = "running"
  BY DEF Running
<1>3. CASE Tick
  <2>1. /\ Running
        /\ UNCHANGED <<sc, applied, source, status, mode, recovery, crashed, reported, demand, since,
                       recon, confirm, wake>>
        /\ now' = now + 1
    BY <1>3 DEF Tick, inputs, decided
  <2>2. Running' => Running
    BY <2>1
  <2>3. recon # None =>
          AllArmed(now + 1, demand, confirm, since, mode, recovery, recon, sc, wake)
    <3> HAVE recon # None
    <3>1. AllArmed(now, demand, confirm, since, mode, recovery, recon, sc, wake)
      BY <2>1 DEF Waiting
    <3>2. ASSUME NEW d \in Int, d > now + 1,
                 Wait(d, now + 1, demand, confirm, since, mode, recovery, recon, sc)
          PROVE  Armed(d, wake, recovery, recon)
      BY <1>1, <3>1, <3>2, LaterWaits
    <3> QED BY <3>2 DEF AllArmed
  <2>4. Waiting'
    BY <1>1, <2>1, <2>3 DEF Waiting
  <2> QED BY <2>1, <2>4 DEF WaitStep, NoAntedating, NoStorm, HeatConfirmed, Same
<1>4. CASE Fire
  <2>1. /\ UNCHANGED <<now, demand, since, recon, reported, source, status, mode, recovery, confirm,
                       crashed, sc>>
        /\ wake' = [wake EXCEPT !.fired = [for |-> wake.timer, current |-> TRUE]]
        /\ wake.timer # None
    BY <1>4 DEF Fire, inputs, decided
  <2>2. WakeWell(wake') /\ wake'.timer = wake.timer
    <3> DEFINE f == [for |-> wake.timer, current |-> TRUE]
    <3>1. f \in [for : Int, current : BOOLEAN] /\ f.for = wake.timer
      BY <1>1, <2>1 DEF WakeWell, Maybe
    <3>2. wake' = [timer |-> wake.timer, fired |-> f]
      BY <1>1, <2>1 DEF WakeWell
    <3> HIDE DEF f
    <3>3. wake'.timer = wake.timer /\ wake'.fired = f /\ wake' = [timer |-> wake'.timer, fired |-> wake'.fired]
      BY <3>2
    <3> QED BY <1>1, <3>1, <3>3 DEF WakeWell
  <2>3. (Running' /\ recon # None) => AllArmed(now, demand, confirm', since, mode', recovery', recon, sc', wake')
    <3>1. (Running' /\ recon # None) => AllArmed(now, demand, confirm, since, mode, recovery, recon, sc, wake)
      BY <2>1 DEF Waiting, Running, Started
    <3> QED BY <2>1, <2>2, <3>1, SameTimer
  <2>4. (~crashed' /\ recon # None /\ wake'.timer # None) => wake'.timer >= recon.at
    BY <2>1, <2>2 DEF Waiting
  <2> QED BY <1>1, <2>1, <2>2, <2>3, <2>4, QuietWaits
<1>5. ASSUME NEW z \in Zones, NEW temperature \in Temperatures, NEW at \in Int,
             ProcessTemperature(z, temperature, at)
      PROVE  WaitStep
  <2> DEFINE heat == Hysteresis(hysteresis[z], temperature) = HEAT
             stored == [demand EXCEPT ![z] = [heat |-> heat, at |-> at]]
  <2>1. /\ Running /\ demand' = stored /\ Evaluate(stored, reported, mode, safe, wake, None)
        /\ UNCHANGED <<now, reported, status>>
    BY <1>5 DEF ProcessTemperature
  <2>2. heat \in BOOLEAN
    OBVIOUS
  <2>3. stored \in DemandType
    <3> HIDE DEF heat
    <3>1. [heat |-> heat, at |-> at] \in Maybe([heat : BOOLEAN, at : Int])
      BY <2>2 DEF Maybe
    <3> QED BY <1>1, <3>1 DEF DemandType
  <2> HIDE DEF stored
  <2>4. EvaluatedWaits(stored, reported, None)
    BY <1>1, <1>2, <2>1, <2>3, EvaluationWaits DEF Maybe
  <2> QED BY <2>1, <2>3, <2>4, EvaluatingWaits
<1>6. CASE MarkIndeterminate
  <2>1. /\ Running /\ demand' = NoDemand /\ Evaluate(NoDemand, reported, mode, safe, wake, None)
        /\ UNCHANGED <<now, reported, status>>
    BY <1>6 DEF MarkIndeterminate
  <2>2. NoDemand \in DemandType
    BY DEF NoDemand, DemandType, Maybe
  <2>3. EvaluatedWaits(NoDemand, reported, None)
    BY <1>1, <1>2, <2>1, <2>2, EvaluationWaits DEF Maybe
  <2> QED BY <2>1, <2>2, <2>3, EvaluatingWaits
<1>7. CASE Reevaluate
  <2>1. /\ Running /\ Evaluate(demand, reported, mode, safe, wake, None)
        /\ UNCHANGED <<now, demand, reported, status>>
    BY <1>7 DEF Reevaluate, inputs
  <2>2. EvaluatedWaits(demand, reported, None)
    BY <1>1, <1>2, <2>1, EvaluationWaits DEF Maybe
  <2> QED BY <1>1, <2>1, <2>2, EvaluatingWaits
<1>8. ASSUME NEW state \in ReportStates, NEW transitionAt \in TransitionTimes(state),
             IngestReported(state, transitionAt)
      PROVE  WaitStep
  <2> DEFINE report == [state |-> state, observedAt |-> now, transitionAt |-> transitionAt]
  <2>1. /\ Running /\ reported' = report /\ Evaluate(demand, report, mode, safe, wake, None)
        /\ UNCHANGED <<now, demand, status>>
    BY <1>8 DEF IngestReported
  <2>2. report \in Maybe(Reports)
    BY ReportType
  <2>3. report # None
    <3>1. report \in [state : {state}, observedAt : {now}, transitionAt : {transitionAt}]
      OBVIOUS
    <3>2. transitionAt \in Maybe(Time) /\ state \in ReportedStates /\ now \in Time
      <4>1. Known(reported) => reported \in Reports
        BY <1>1 DEF Known, Maybe
      <4> QED BY <4>1, RuntimeBounds DEF TransitionTimes, RuntimeInvariant, Reports, Maybe
    <3>3. report \in Reports
      BY <3>2 DEF Reports
    <3> QED BY <3>3, NoneIsNoSnapshot
  <2> HIDE DEF report
  <2>4. EvaluatedWaits(demand, report, None)
    BY <1>1, <1>2, <2>1, <2>2, EvaluationWaits DEF Maybe
  <2> QED BY <1>1, <2>1, <2>3, <2>4, EvaluatingWaits
<1>9. ASSUME NEW requested \in ModeRequests, SetMode(requested) PROVE WaitStep
  <2> DEFINE after == ActivatedMode(mode, requested, now)
  <2>1. /\ Running /\ Evaluate(demand, reported, after, safe, wake, None)
        /\ UNCHANGED <<now, demand, reported, status>>
    BY <1>9 DEF SetMode, inputs
  <2>2. requested \in Modes
    BY RuntimeBounds
  <2>3. IsMode(after) /\ ModeTimes(after)
    BY <1>1, <2>2, ActivatedIsMode, ActivatedTimes
  <2> HIDE DEF after
  <2>4. EvaluatedWaits(demand, reported, None)
    BY <1>1, <1>2, <2>1, <2>3, EvaluationWaits DEF Maybe
  <2> QED BY <1>1, <2>1, <2>4, EvaluatingWaits
<1>10. ASSUME NEW sensor, NEW reading, IngestSafeReading(sensor, reading) PROVE WaitStep
  <2> DEFINE readings == [safe EXCEPT ![sensor] = reading]
  <2>1. /\ Running /\ Evaluate(demand, reported, mode, readings, wake, None)
        /\ UNCHANGED <<now, demand, reported, status>>
    BY <1>10 DEF IngestSafeReading
  <2> HIDE DEF readings
  <2>2. EvaluatedWaits(demand, reported, None)
    BY <1>1, <1>2, <2>1, EvaluationWaits DEF Maybe
  <2> QED BY <1>1, <2>1, <2>2, EvaluatingWaits
<1>11. CASE Callback
  <2> DEFINE hint == wake.fired.for
  <2>1. Running /\ wake.fired # None /\ UNCHANGED <<now, demand, reported, status>>
    BY <1>11 DEF Callback, inputs
  <2>2. wake.fired.current \in BOOLEAN /\ hint \in Int
    BY <1>1, <2>1 DEF WakeWell
  <2>3. wake.fired.current = TRUE => hint = wake.timer
    BY <1>1, <2>1 DEF WakeWell
  <2>4. CASE wake.fired.current /\ now >= hint
    <3>1. Evaluate(demand, reported, mode, safe, Consumed, hint)
      BY <1>11, <2>4 DEF Callback
    <3>2. WakeWell(Consumed) /\ hint \in Maybe(Int)
      BY <2>2 DEF Consumed, WakeWell, Maybe
    <3>3. recon # None => hint >= recon.at
      <4>1. wake.timer = hint /\ wake.timer # None /\ ~crashed
        BY <2>1, <2>2, <2>3, <2>4, NoneIsNoTime DEF Running
      <4> QED BY <4>1 DEF Waiting
    <3> HIDE DEF hint
    <3>4. EvaluatedWaits(demand, reported, hint)
      BY <1>1, <1>2, <2>1, <3>1, <3>2, EvaluationWaits
    <3> QED BY <1>1, <2>1, <3>3, <3>4, EvaluatingWaits
  <2>5. CASE ~(wake.fired.current /\ now >= hint)
    <3>1. /\ UNCHANGED <<since, recon, source, mode, recovery, confirm, crashed, sc>>
          /\ wake' = IF wake.fired.current THEN AfterPremature ELSE [wake EXCEPT !.fired = None]
      BY <1>11, <2>5 DEF Callback, decided
    <3>2. WakeWell(wake') /\ wake'.timer = wake.timer
      <4>1. CASE wake.fired.current
        <5>1. WakeWell(Consumed) /\ hint \in Maybe(Int) /\ hint = wake.timer
          BY <2>2, <2>3, <4>1 DEF Consumed, WakeWell, Maybe
        <5>2. wake' = Rearm(Consumed, hint, FALSE)
          BY <3>1, <4>1 DEF AfterPremature
        <5> HIDE DEF hint
        <5>3. WakeWell(Rearm(Consumed, hint, FALSE)) /\ Rearm(Consumed, hint, FALSE).timer = hint
          BY <5>1, RearmWell
        <5> QED BY <5>1, <5>2, <5>3
      <4>2. CASE ~wake.fired.current
        <5>1. wake' = [timer |-> wake.timer, fired |-> None]
          BY <1>1, <3>1, <4>2 DEF WakeWell
        <5> QED BY <1>1, <5>1 DEF WakeWell
      <4> QED BY <4>1, <4>2
    <3>3. (Running' /\ recon # None) => AllArmed(now, demand, confirm', since, mode', recovery', recon, sc', wake')
      <4>1. recon # None => AllArmed(now, demand, confirm, since, mode, recovery, recon, sc, wake)
        BY <2>1 DEF Waiting
      <4> QED BY <3>1, <3>2, <4>1, SameTimer
    <3>4. (~crashed' /\ recon # None /\ wake'.timer # None) => wake'.timer >= recon.at
      BY <3>1, <3>2 DEF Waiting
    <3> QED BY <1>1, <2>1, <3>1, <3>2, <3>3, <3>4, QuietWaits
  <2> QED BY <2>4, <2>5
<1>12. ASSUME NEW z \in Zones, NEW at, StoreIneffective(z, at) PROVE WaitStep
  <2>1. UNCHANGED <<now, demand, since, recon, reported, source, status, mode, recovery, confirm,
                    crashed, sc, wake>>
    BY <1>12 DEF StoreIneffective, decided
  <2>2. (Running' /\ recon # None) => AllArmed(now, demand, confirm', since, mode', recovery', recon, sc', wake')
    BY <2>1 DEF Waiting, Running, Started
  <2>3. (~crashed' /\ recon # None /\ wake'.timer # None) => wake'.timer >= recon.at
    BY <2>1 DEF Waiting
  <2> QED BY <1>1, <2>1, <2>2, <2>3, QuietWaits
(* A recovery that begins takes the deadline for itself.                   *)
<1>13. ASSUME UNCHANGED <<now, demand, since, recon, reported, source, status, confirm, crashed, sc>>,
              ModeTimes(mode'), recovery' = BeginRecovery(now), wake' = Rearm(wake, now + RecoveryWindow, FALSE)
       PROVE  WaitStep
  <2> DEFINE until == now + RecoveryWindow
  <2>1. until \in Int /\ until >= now /\ until \in Maybe(Int) /\ until # None
    BY <1>1, ModeConstants, NoneIsNoTime DEF Maybe
  <2>2. RecoveryTimes(recovery') /\ RecoveryBlocks(recovery') /\ recovery'.until = until
    <3>1. BeginRecovery(now) = [waiting |-> TRUE, until |-> until]
      BY DEF BeginRecovery
    <3> HIDE DEF until
    <3>2. recovery'.until = until /\ recovery' \in [waiting : BOOLEAN, until : Int]
      BY <1>13, <2>1, <3>1
    <3> QED BY <1>1, <1>13, <3>2, RecoveryBegun DEF RecoveryTimes
  <2>3. WakeWell(wake') /\ wake'.timer = until
    <3>1. wake' = Rearm(wake, until, FALSE)
      BY <1>13
    <3> HIDE DEF until
    <3>2. WakeWell(Rearm(wake, until, FALSE)) /\ Rearm(wake, until, FALSE).timer = until
      BY <1>1, <2>1, RearmWell
    <3> QED BY <3>1, <3>2
  <2> HIDE DEF until
  <2>4. AllArmed(now, demand, confirm', since, mode', recovery', recon, sc', wake')
    BY <2>1, <2>2, <2>3, RecoveryArmsAll
  <2>5. (~crashed' /\ recon # None /\ wake'.timer # None) => wake'.timer >= recon.at
    BY <1>1, <2>1, <2>3
  <2>6. ConfirmTimes(confirm') /\ (recon # None => UntilTimes(confirm'))
    BY <1>1, <1>13
  <2> QED BY <1>13, <2>2, <2>3, <2>4, <2>5, <2>6, QuietWaits
<1>14. ASSUME NEW manualCancelled \in BOOLEAN, BeginSourceRecovery(manualCancelled) PROVE WaitStep
  <2>1. /\ UNCHANGED <<now, demand, since, recon, reported, source, status, confirm, crashed, sc>>
        /\ mode' = IF manualCancelled THEN ModeState("normal", TRUE, None, None) ELSE mode
        /\ recovery' = BeginRecovery(now) /\ wake' = Rearm(wake, now + RecoveryWindow, FALSE)
    BY <1>14 DEF BeginSourceRecovery, inputs
  <2>2. ModeTimes(mode')
    BY <1>1, <2>1 DEF ModeTimes, ModeState
  <2> QED BY <1>13, <2>1, <2>2
<1>15. CASE CancelManualRecovery
  <2>1. /\ UNCHANGED <<now, demand, since, recon, reported, source, status, confirm, crashed, sc>>
        /\ mode' = CancelledMode(mode)
        /\ recovery' = BeginRecovery(now) /\ wake' = Rearm(wake, now + RecoveryWindow, FALSE)
    BY <1>15 DEF CancelManualRecovery, inputs
  <2>2. ModeTimes(mode')
    BY <1>1, <2>1 DEF ModeTimes, ModeState, CancelledMode
  <2> QED BY <1>13, <2>1, <2>2
(* The end of the runtime: nothing is armed and nothing is pending.        *)
<1>16. ASSUME NEW outcome \in {"stopped", "fatal"}, Terminate(outcome),
              UNCHANGED <<now, demand, since, recon, reported, mode, recovery, crashed>>,
              source' = source \/ (source'.action = "disable" /\ outcome = "fatal")
       PROVE  WaitStep
  <2>1. status' = outcome /\ wake' = [timer |-> None, fired |-> Outdated(wake.fired)]
    BY <1>16 DEF Terminate
  <2>2. WakeWell(wake') /\ wake'.timer = None
    <3> DEFINE f == Outdated(wake.fired)
    <3>1. f # None => f \in [for : Int, current : BOOLEAN] /\ f.current = FALSE
      BY <1>1 DEF Outdated, WakeWell
    <3>2. wake' = [timer |-> None, fired |-> f]
      BY <2>1
    <3> HIDE DEF f
    <3>3. wake'.timer = None /\ wake'.fired = f /\ wake' = [timer |-> wake'.timer, fired |-> wake'.fired]
      BY <3>2
    <3> QED BY <3>1, <3>3 DEF WakeWell, Maybe
  <2>3. ConfirmTimes(confirm') /\ (recon # None => UntilTimes(confirm'))
    <3>1. ASSUME NEW z \in Zones, confirm[z] # None
          PROVE  ~IsPending(confirm'[z]) /\ confirm'[z].until = None
      BY <1>16, <3>1 DEF Terminate, TerminalConfirmation, Confirmation, IsPending
    <3>2. ASSUME NEW z \in Zones, confirm[z] = None PROVE confirm'[z] = confirm[z]
      BY <1>16, <3>2 DEF Terminate
    <3>3. ASSUME NEW z \in Zones, IsPending(confirm'[z]) PROVE confirm'[z].until \in Int
      <4>1. confirm'[z] = confirm[z]
        BY <3>1, <3>2, <3>3
      <4> QED BY <1>1, <3>3, <4>1 DEF ConfirmTimes
    <3>4. ASSUME recon # None, NEW z \in Zones PROVE confirm'[z].until \in Maybe(Int)
      <4>1. confirm[z] = None => confirm'[z] = confirm[z]
        BY <3>2
      <4>2. confirm[z] # None => confirm'[z].until = None
        BY <3>1
      <4>3. confirm[z].until \in Maybe(Int) /\ None \in Maybe(Int)
        BY <1>1, <3>4 DEF UntilTimes, Maybe
      <4> QED BY <4>1, <4>2, <4>3
    <3> QED BY <3>3, <3>4 DEF ConfirmTimes, UntilTimes
  <2>4. ~Running'
    BY <2>1 DEF Running
  <2> QED BY <1>1, <1>16, <2>1, <2>2, <2>3, <2>4, QuietWaits
<1>17. CASE Stop
  BY <1>16, <1>17 DEF Stop, inputs
<1>18. ASSUME NEW failedAction \in Maybe(Actions), NEW portOk \in BOOLEAN, FatalShutdown(failedAction, portOk)
       PROVE  WaitStep
  <2>1. source' = source \/ source'.action = "disable"
    BY <1>18 DEF FatalShutdown
  <2> QED BY <1>16, <1>18, <2>1 DEF FatalShutdown, inputs
<1>19. ASSUME Operation PROVE WaitStep
  <2>1. ASSUME NEW at \in (now - MaxLag) .. (now + MaxSkew) PROVE at \in Int
    BY <1>1
  <2> QED BY <1>5, <1>6, <1>7, <1>8, <1>9, <1>10, <1>11, <1>19, <2>1 DEF Operation
<1> QED BY <1>3, <1>4, <1>12, <1>14, <1>15, <1>17, <1>18, <1>19 DEF Next

LEMMA StutterWaits == ASSUME RuntimeInvariant, Waiting, UNCHANGED vars PROVE WaitStep
<1>1. UNCHANGED <<now, demand, since, recon, reported, source, status, mode, recovery, confirm,
                  crashed, sc, wake>>
  BY DEF vars
<1>2. Waiting'
  BY <1>1 DEF Waiting, Running, Started
<1> QED BY <1>1, <1>2 DEF WaitStep, NoAntedating, NoStorm, HeatConfirmed

(* The invariant of the times, with what each step does about them.        *)
WaitInv == Inv /\ Waiting

LEMMA WaitInvHolds == Init => WaitInv
BY InitHolds, WaitingAtFirst DEF WaitInv

LEMMA WaitInvKept ==
    WaitInv /\ [Next]_vars =>
        WaitInv' /\ [NoAntedating]_vars /\ [NoStorm]_vars /\ [HeatConfirmed]_vars
BY StepIsGood, StutterIsGood, StepWaits, StutterWaits DEF GoodStep, Inv, WaitStep, WaitInv

(* WaitsFor is made of times, and the deadline covers them.                *)
LEMMA WaitsAreArmed ==
    ASSUME RuntimeInvariant, Waiting, Running, recon # None
    PROVE  EveryWaitIsArmed
<1>1. /\ AllArmed(now, demand, confirm, since, mode, recovery, recon, sc, wake)
      /\ demand \in DemandType /\ UntilTimes(confirm) /\ since \in Maybe(Int) /\ ModeTimes(mode)
      /\ ReconKept(recon) /\ RecoveryTimes(recovery)
  BY DEF Waiting
<1>2. sc # None => sc.deferredUntil \in Maybe(Int)
  BY TimeIsInt DEF RuntimeInvariant, Maybe, States
<1>3. /\ recon.next \in Maybe(Int) /\ recon.failed \in BOOLEAN
      /\ mode.until \in Maybe(Int)
      /\ since # None => since + Grace \in Int
      /\ RecoveryBlocks(recovery) => recovery.until \in Int
  BY <1>1, DemandDurations DEF ReconKept, ModeTimes, Maybe, RecoveryBlocks, RecoveryTimes
<1>4. EligibilityDeadlines(demand, now) \subseteq Int
  <2>1. \A z \in Zones : demand[z] # None => demand[z].at \in Int /\ demand[z].at + MaxAge + 1 \in Int
    BY <1>1, DemandDurations DEF DemandType, Maybe
  <2> QED BY <2>1 DEF EligibilityDeadlines
<1>5. CommandPathDecides => Decides(since, mode, recovery, recon, sc)
  BY DEF CommandPathDecides, Decides, AgreesWithoutHistory
<1>6. ASSUME NEW d \in WaitsFor, d # None
      PROVE  d \in Int /\ Wait(d, now, demand, confirm, since, mode, recovery, recon, sc)
  <2>1. CASE d \in EligibilityDeadlines(demand, now)
    BY <1>4, <2>1 DEF Wait, BaseWait
  <2>2. CASE \E z \in Zones : d = confirm[z].until
    BY <1>1, <1>6, <2>2 DEF UntilTimes, Maybe, Wait, BaseWait
  <2>3. CASE since # None /\ d = since + Grace
    BY <1>3, <2>3 DEF Wait, BaseWait
  <2>4. CASE d \in {mode.until, recon.next}
    BY <1>3, <1>6, <2>4 DEF Maybe, Wait, BaseWait
  <2>5. CASE RecoveryBlocks(recovery) /\ d = recovery.until
    BY <1>3, <2>5 DEF Wait, BaseWait
  <2>6. CASE CommandPathDecides /\ sc # None /\ d = sc.deferredUntil
    BY <1>2, <1>5, <1>6, <2>6 DEF Maybe, Wait
  <2> QED BY <1>6, <2>1, <2>2, <2>3, <2>4, <2>5, <2>6 DEF WaitsFor
<1>7. ASSUME NEW d \in WaitsFor \ {None}, d > now PROVE Armed(d, wake, recovery, recon)
  BY <1>1, <1>6, <1>7 DEF AllArmed
<1> QED BY <1>3, <1>7 DEF EveryWaitIsArmed, Armed

------------------------------------------------------------------------------
(* The theorems.                                                           *)

(* Once EMERGENCY_OFF has been evaluated the source is off, or the disable *)
(* failed at the port (control_runtime.py:961-1052).                       *)
THEOREM EmergencyOffIsReached == Spec => []EmergencyOffReachesSource
<1>1. Inv /\ [Next]_vars => Inv'
  BY StepIsGood, StutterIsGood DEF GoodStep
<1>2. Inv => EmergencyOffReachesSource
  BY DEF Inv
<1> QED BY InitHolds, <1>1, <1>2, PTL DEF Spec

(* No enable reaches the source without its reason at that moment: the     *)
(* evaluation sends what this mode, these readings and this demand ask for *)
(* (control_runtime.py:756-959).                                           *)
THEOREM NoOldDecisionIsSent == Spec => EnableHasReason
<1>1. Inv /\ [Next]_vars => Inv' /\ [EnableReason]_vars
  BY StepIsGood, StutterIsGood DEF GoodStep
<1>2. EnableHasReason <=> [][EnableReason]_vars
  BY PTL DEF EnableHasReason, EnableReason
<1> QED BY InitHolds, <1>1, <1>2, PTL DEF Spec

(* The command path inside the runtime is SourceControl: what is proved of *)
(* that for any demand holds of every runtime.                             *)
THEOREM RuntimeUsesCommandPath == Spec => ImplementsSourceControl
<1>1. Inv /\ [Next]_vars => Inv' /\ [CommandPath!Next]_(CommandPath!vars)
  BY StepIsGood, StutterIsGood DEF GoodStep
<1> QED BY InitHolds, <1>1, PTL DEF Spec, ImplementsSourceControl, CommandPath!Spec

(* Nothing that waits for a time is forgotten: whatever an evaluation      *)
(* leaves waiting is covered by the one deadline it arms, and stays        *)
(* covered while time passes, the scheduler fires early or late and other  *)
(* operations come between (control_runtime.py:803-820, 899-927, 961-1011).*)
THEOREM NothingWaitsUnarmed == Spec => []EveryWaitIsArmed
<1>1. WaitInv => EveryWaitIsArmed
  BY WaitsAreArmed DEF EveryWaitIsArmed, WaitInv, Inv
<1> QED BY WaitInvHolds, WaitInvKept, <1>1, PTL DEF Spec

(* A grace period never starts before the last evaluation, even when a     *)
(* late callback brings its deadline as the start                          *)
(* (heat_demand_safety_policy.py:111-118, control_runtime.py:1312-1330).   *)
THEOREM GraceIsNotAntedated == Spec => GraceStartsAfterLastEvaluation
<1>1. GraceStartsAfterLastEvaluation <=> [][NoAntedating]_vars
  BY PTL DEF GraceStartsAfterLastEvaluation, NoAntedating
<1> QED BY WaitInvHolds, WaitInvKept, <1>1, PTL DEF Spec

(* One reading never switches the heat on: an enable in normal mode with   *)
(* known demand finds a zone whose request was confirmed before this       *)
(* evaluation, or was pending and has waited its time                      *)
(* (zone_heat_demand_confirmation_policy.py:59-148).                       *)
THEOREM HeatNeedsConfirmation == Spec => HeatIsConfirmedFirst
<1>1. HeatIsConfirmedFirst <=> [][HeatConfirmed]_vars
  BY PTL DEF HeatIsConfirmedFirst, HeatConfirmed
<1> QED BY WaitInvHolds, WaitInvKept, <1>1, PTL DEF Spec

(* A correction is not repeated before the report changes, nor a failed    *)
(* one retried before its deadline: both are states of a drift, against    *)
(* which the next evaluation holds the same command                        *)
(* (source_reconciliation_policy.py:106-142, control_runtime.py:912-927).  *)
THEOREM CorrectionsAreHeld == Spec => CorrectionsDoNotStorm
<1>1. CorrectionsDoNotStorm <=> [][NoStorm]_vars
  BY PTL DEF CorrectionsDoNotStorm, NoStorm
<1> QED BY WaitInvHolds, WaitInvKept, <1>1, PTL DEF Spec

==============================================================================
