------------------------- MODULE SourceControlPolicyProofs -------------------------
(***************************************************************************)
(* What the operations of SourceControlPolicy let through, keep and set,   *)
(* for every set T of integers as the times: the lemmas the proofs about   *)
(* the command path and about the supervised system rest on.               *)
(***************************************************************************)
EXTENDS SourceControlPolicy, TLAPS

------------------------------------------------------------------------------
(* The verdict.                                                            *)

(* A command the protection of the last one forbids meets a lockout.       *)
LEMMA LockoutIsProper ==
    ASSUME NEW s, NEW action \in Actions, NEW t \in Int
    PROVE  /\ (action = "disable" /\ ProtectedOn(s, t)) => DispatchedLockout(s, action, t) # NoLockout
           /\ (action = "enable" /\ ProtectedOff(s, t)) => DispatchedLockout(s, action, t) # NoLockout
  BY NoneIsNoAction DEF DispatchedLockout, NoLockout, ProtectedOn, ProtectedOff, Actions

(* No enable is let through while the last disable is protected, whatever  *)
(* its authority (source_control_policy.py:95-187).                        *)
LEMMA EnableWaits ==
    ASSUME NEW s, NEW t \in Int, NEW safety \in BOOLEAN, NEW corrective \in BOOLEAN, NEW evidence,
           Dispatches(Verdict(s, "enable", t, safety, corrective, evidence))
    PROVE  ~ProtectedOff(s, t)
  BY LockoutIsProper DEF Dispatches, Verdict, Bypasses, BlockingLockout, Actions

(* No ordinary disable is let through while the last enable is protected.  *)
LEMMA DisableWaits ==
    ASSUME NEW s, NEW t \in Int, NEW corrective \in BOOLEAN, NEW evidence,
           Dispatches(Verdict(s, "disable", t, FALSE, corrective, evidence))
    PROVE  ~ProtectedOn(s, t)
  BY LockoutIsProper DEF Dispatches, Verdict, Bypasses, BlockingLockout, Actions

(* initial_state builds a snapshot.                                        *)
LEMMA InitialStateType ==
    ASSUME NEW T, T \subseteq Int, NEW t \in T
    PROVE  InitialState(t) \in States(T)
  BY DEF InitialState, States, Maybe, Phases, Outcomes

(* _clear_deferred builds a snapshot.                                      *)
LEMMA ClearDeferredType ==
    ASSUME NEW T, T \subseteq Int, NEW s \in States(T)
    PROVE  ClearDeferred(s) \in States(T)
  BY DEF ClearDeferred, States, Maybe

(* A lockout has the type that fits the command it blocks and ends in the  *)
(* future, be it the policy's own or a reported one.                       *)
Fits(l, action, t) ==
    /\ l[1] = (IF action = "disable" THEN "minimum_on" ELSE "minimum_off")
    /\ l[2] \in Int /\ t < l[2]

LEMMA LockoutType ==
    ASSUME NEW T, T \subseteq Int, NEW s \in States(T), NEW action \in Actions, NEW t \in T,
           NEW corrective \in BOOLEAN, NEW evidence \in Maybe(Evidence(T)),
           BlockingLockout(s, action, t, corrective, evidence) # NoLockout
    PROVE  Fits(BlockingLockout(s, action, t, corrective, evidence), action, t)
  <1>1. LET l == DispatchedLockout(s, action, t)
        IN  l # NoLockout => Fits(l, action, t)
    BY DEF Fits, DispatchedLockout, NoLockout, ProtectedOn, ProtectedOff, Actions, States, Maybe
  <1>2. LET l == ReportedLockout(evidence, action, t)
        IN  l # NoLockout => Fits(l, action, t)
    BY DurationsAreNonNegative DEF Fits, ReportedLockout, NoLockout, Actions, Evidence, Maybe
  <1> QED BY <1>1, <1>2 DEF BlockingLockout

(* An evaluation that is not deferred rewrites five fields, or four.       *)
LEMMA EvaluatedType ==
    ASSUME NEW T, NEW c \in States(T), NEW phase \in Phases, NEW action \in Maybe(Actions),
           NEW bypass \in BOOLEAN, NEW outcome \in Outcomes, NEW t \in T
    PROVE  /\ [c EXCEPT !.demand = action, !.bypass = bypass, !.outcome = outcome, !.at = t] \in States(T)
           /\ [c EXCEPT !.phase = phase, !.demand = action, !.bypass = bypass,
                        !.outcome = outcome, !.at = t] \in States(T)
BY DEF States

(* What it makes of a snapshot without a deferral is coherent.             *)
LEMMA EvaluatedCoherent ==
    ASSUME NEW T, NEW c \in States(T), c.lockout = None, c.lockoutUntil = None,
           c.deferred = None, c.since = None, c.deferredUntil = None,
           NEW phase, NEW action, NEW bypass, NEW outcome, NEW t
    PROVE  /\ Coherent([c EXCEPT !.demand = action, !.bypass = bypass, !.outcome = outcome, !.at = t])
           /\ Coherent([c EXCEPT !.phase = phase, !.demand = action, !.bypass = bypass,
                                 !.outcome = outcome, !.at = t])
<1> DEFINE x == [c EXCEPT !.demand = action, !.bypass = bypass, !.outcome = outcome, !.at = t]
           y == [c EXCEPT !.phase = phase, !.demand = action, !.bypass = bypass,
                          !.outcome = outcome, !.at = t]
<1>1. /\ x.lockout = None /\ x.lockoutUntil = None
      /\ x.deferred = None /\ x.since = None /\ x.deferredUntil = None
  BY DEF States
<1>2. /\ y.lockout = None /\ y.lockoutUntil = None
      /\ y.deferred = None /\ y.since = None /\ y.deferredUntil = None
  BY DEF States
<1> HIDE DEF x, y
<1>3. Coherent(x) /\ Coherent(y)
  BY <1>1, <1>2 DEF Coherent
<1> QED
  BY <1>3 DEF x, y

(* evaluate builds a snapshot.                                             *)
LEMMA AssessedType ==
    ASSUME NEW T, T \subseteq Int, NEW s \in States(T), NEW action \in Actions, NEW t \in T, NEW safety \in BOOLEAN,
           NEW corrective \in BOOLEAN, NEW evidence \in Maybe(Evidence(T))
    PROVE  Assessed(s, action, t, safety, corrective, evidence) \in States(T)
  <1> DEFINE l == BlockingLockout(s, action, t, corrective, evidence)
             c == ClearDeferred(s)
  <1>0. /\ c \in States(T) /\ action \in Maybe(Actions)
        /\ "requested" \in Outcomes /\ "suppressed_duplicate" \in Outcomes
    BY ClearDeferredType DEF Outcomes, Maybe
  <1> HIDE DEF c
  <1>1. BypassState(s, action, t) \in States(T)
    <2>1. SettledPhase(action) \in Phases
      BY DEF SettledPhase, Phases
    <2> QED BY <1>0, <2>1, EvaluatedType DEF BypassState, c
  <1>2. DuplicateState(s, action, t) \in States(T)
    <2>1. SettledPhase(action) \in Phases
      BY DEF SettledPhase, Phases
    <2>2. QED BY <1>0, <2>1, EvaluatedType DEF DuplicateState, c
  <1>3. AllowedState(s, action, t) \in States(T)
    <2>1. SettledPhase(action) \in Phases
      BY DEF SettledPhase, Phases
    <2> QED BY <1>0, <2>1, EvaluatedType DEF AllowedState, c
  <1>4. l # NoLockout => DeferredState(s, action, t, l) \in States(T)
    <2> HAVE l # NoLockout
    <2>1. DeferredPhase(action) \in Phases
      BY DEF DeferredPhase, Phases
    <2>2. l[1] \in Lockouts /\ l[2] \in Int
      <3>1. Fits(l, action, t)
        BY LockoutType
      <3> HIDE DEF l
      <3>2. QED BY <3>1 DEF Lockouts, Fits
    <2>3. (IF s.deferred = action /\ s.since # None THEN s.since ELSE t) \in Maybe(T)
      BY DEF States, Maybe
    <2>4. /\ action \in Maybe(Actions) /\ l[1] \in Maybe(Lockouts) /\ l[2] \in Maybe(Int)
          /\ "deferred" \in Outcomes
      BY <2>2 DEF Maybe, Outcomes
    <2> HIDE DEF l
    <2>5. QED BY <2>1, <2>3, <2>4 DEF DeferredState, States
  <1> QED BY <1>1, <1>2, <1>3, <1>4 DEF Assessed, Verdict

(* The record_ operations build snapshots.                                 *)
LEMMA RecordedType ==
    ASSUME NEW T, T \subseteq Int, NEW s \in States(T), s.demand \in Actions, NEW t \in T, NEW verdict
    PROVE  /\ RecordDispatched(s, verdict, t) \in States(T)
           /\ RecordFailed(s, t) \in States(T)
           /\ RecordSuppressedDuplicate(s, t) \in States(T)
  <1>1. RecordDispatched(s, verdict, t) \in States(T)
    <2>1. SettledPhase(s.demand) \in Phases /\ "dispatched" \in Outcomes
      BY DEF SettledPhase, Phases, Outcomes
    <2>2. s.demand \in Maybe(Actions) /\ t \in Maybe(T) /\ None \in Maybe(Int)
      BY DEF Maybe
    <2>3. t + MinOff \in Maybe(Int) /\ t + MinOn \in Maybe(Int)
      BY DurationsAreNonNegative DEF Maybe
    <2> DEFINE c == ClearDeferred(s)
               enabledAt == IF s.demand = "enable" THEN t ELSE c.enabledAt
               disabledAt == IF s.demand = "disable" THEN t ELSE c.disabledAt
               enableFrom == IF s.demand = "disable" /\ MinOff > 0 THEN t + MinOff ELSE None
               disableFrom == IF s.demand = "enable" /\ MinOn > 0 THEN t + MinOn ELSE None
               bypass == (verdict = "bypass")
    <2>4. c \in States(T)
      BY ClearDeferredType
    <2>5. /\ enabledAt \in Maybe(T) /\ disabledAt \in Maybe(T)
          /\ enableFrom \in Maybe(Int) /\ disableFrom \in Maybe(Int)
      BY <2>2, <2>3, <2>4 DEF States
    <2>6. bypass \in BOOLEAN
      OBVIOUS
    <2>7. RecordDispatched(s, verdict, t) =
            [[c EXCEPT !.phase = SettledPhase(s.demand), !.last = s.demand,
                       !.enabledAt = enabledAt, !.disabledAt = disabledAt]
                EXCEPT !.enableFrom = enableFrom, !.disableFrom = disableFrom,
                       !.bypass = bypass, !.outcome = "dispatched", !.at = t]
      BY Zenon DEF RecordDispatched
    <2> HIDE DEF c, enabledAt, disabledAt, enableFrom, disableFrom, bypass
    <2> DEFINE d == [c EXCEPT !.phase = SettledPhase(s.demand), !.last = s.demand,
                              !.enabledAt = enabledAt, !.disabledAt = disabledAt]
    <2>8. d \in States(T)
      BY <2>1, <2>2, <2>4, <2>5 DEF States
    <2>9. RecordDispatched(s, verdict, t) =
            [d EXCEPT !.enableFrom = enableFrom, !.disableFrom = disableFrom,
                      !.bypass = bypass, !.outcome = "dispatched", !.at = t]
      BY <2>7, Zenon
    <2> HIDE DEF d
    <2>10. [d EXCEPT !.enableFrom = enableFrom, !.disableFrom = disableFrom,
                     !.bypass = bypass, !.outcome = "dispatched", !.at = t] \in States(T)
      BY <2>1, <2>5, <2>6, <2>8 DEF States
    <2>11. QED BY <2>9, <2>10, Zenon
  <1>2. RecordFailed(s, t) \in States(T) /\ RecordSuppressedDuplicate(s, t) \in States(T)
    BY DEF RecordFailed, RecordSuppressedDuplicate, States, Outcomes
  <1>3. QED BY <1>1, <1>2

(* stopped_state and fatal_state build snapshots.                          *)
LEMMA StoppedType ==
    ASSUME NEW T, T \subseteq Int, NEW s \in States(T), NEW t \in T
    PROVE  StoppedState(s, t) \in States(T) /\ FatalState(s, t) \in States(T)
  <1> DEFINE c == ClearDeferred(s)
  <1>0. /\ c \in States(T) /\ None \in Maybe(Int)
        /\ "stopped" \in Phases /\ "fatal_error" \in Phases
    BY ClearDeferredType DEF Phases, Maybe
  <1>1. StoppedState(s, t) \in States(T)
    <2> HIDE DEF c
    <2>1. StoppedState(s, t) = [c EXCEPT !.phase = "stopped", !.bypass = FALSE, !.at = t]
      BY DEF StoppedState, c
    <2> QED BY <1>0, <2>1 DEF States
  <1>2. FatalState(s, t) \in States(T)
    <2>2. FatalState(s, t) = [c EXCEPT !.phase = "fatal_error", !.enableFrom = None,
                                       !.disableFrom = None, !.bypass = TRUE, !.at = t]
      BY DEF FatalState
    <2> HIDE DEF c
    <2>3. QED BY <1>0, <2>2 DEF States
  <1>3. QED BY <1>1, <1>2

(* What the operations promise about the snapshot x they build from s.     *)
KeepsCommands(x, s) ==
    /\ x.last = s.last /\ x.enabledAt = s.enabledAt /\ x.disabledAt = s.disabledAt
    /\ x.enableFrom = s.enableFrom /\ x.disableFrom = s.disableFrom

NothingDeferred(x) ==
    /\ x.lockout = None /\ x.lockoutUntil = None
    /\ x.deferred = None /\ x.since = None /\ x.deferredUntil = None

AssessedAs(x, s, action, t) ==
    /\ KeepsCommands(x, s)
    /\ x.demand = action /\ x.at = t

DispatchedAs(x, s, t) ==
    /\ x.last = s.demand /\ x.at = t /\ x.outcome = "dispatched"
    /\ x.enabledAt = IF s.demand = "enable" THEN t ELSE s.enabledAt
    /\ x.disabledAt = IF s.demand = "disable" THEN t ELSE s.disabledAt
    /\ x.enableFrom = IF s.demand = "disable" /\ MinOff > 0 THEN t + MinOff ELSE None
    /\ x.disableFrom = IF s.demand = "enable" /\ MinOn > 0 THEN t + MinOn ELSE None
    /\ NothingDeferred(x)

KeptAs(x, s, t) ==
    /\ KeepsCommands(x, s)
    /\ NothingDeferred(x)
    /\ x.at = t

(* _clear_deferred drops the lockout and the deferral and keeps the        *)
(* command history.                                                        *)
LEMMA ClearDeferredFields ==
    ASSUME NEW T, T \subseteq Int, NEW s \in States(T)
    PROVE  LET c == ClearDeferred(s)
           IN  /\ c.lockout = None /\ c.lockoutUntil = None
               /\ c.deferred = None /\ c.since = None /\ c.deferredUntil = None
               /\ c.last = s.last /\ c.enabledAt = s.enabledAt /\ c.disabledAt = s.disabledAt
               /\ c.enableFrom = s.enableFrom /\ c.disableFrom = s.disableFrom
  BY DEF ClearDeferred, States

(* evaluate keeps the command history; when it lets the command through,   *)
(* no lockout and no deferral is left.                                     *)
LEMMA AssessedFields ==
    ASSUME NEW T, T \subseteq Int, NEW s \in States(T), NEW action \in Actions, NEW t \in T, NEW safety \in BOOLEAN,
           NEW corrective \in BOOLEAN, NEW evidence \in Maybe(Evidence(T))
    PROVE  LET a == Assessed(s, action, t, safety, corrective, evidence)
           IN  /\ AssessedAs(a, s, action, t)
               /\ Dispatches(Verdict(s, action, t, safety, corrective, evidence)) => NothingDeferred(a)
  <1> DEFINE l == BlockingLockout(s, action, t, corrective, evidence)
             c == ClearDeferred(s)
  <1>1. c \in States(T)
    BY ClearDeferredType
  <1> DEFINE Kept(x) ==
          /\ x.last = s.last /\ x.enabledAt = s.enabledAt /\ x.disabledAt = s.disabledAt
          /\ x.enableFrom = s.enableFrom /\ x.disableFrom = s.disableFrom
          /\ x.demand = action /\ x.at = t
          /\ x.lockout = None /\ x.lockoutUntil = None
          /\ x.deferred = None /\ x.since = None /\ x.deferredUntil = None
  <1>2. Kept(BypassState(s, action, t))
    BY <1>1, ClearDeferredFields DEF BypassState, States
  <1>4. Kept(DuplicateState(s, action, t))
    BY <1>1, ClearDeferredFields DEF DuplicateState, States
  <1>5. Kept(AllowedState(s, action, t))
    BY <1>1, ClearDeferredFields DEF AllowedState, States
  <1>3. LET x == DeferredState(s, action, t, l)
        IN  /\ x.last = s.last /\ x.enabledAt = s.enabledAt /\ x.disabledAt = s.disabledAt
            /\ x.enableFrom = s.enableFrom /\ x.disableFrom = s.disableFrom
            /\ x.demand = action /\ x.at = t
    BY DEF DeferredState, States
  <1> QED BY <1>2, <1>3, <1>4, <1>5 DEF Assessed, Verdict, Dispatches, AssessedAs, KeepsCommands, NothingDeferred

(* Whatever evaluate builds passes __post_init__.                          *)
LEMMA AssessedCoherent ==
    ASSUME NEW T, T \subseteq Int, NEW s \in States(T), NEW action \in Actions, NEW t \in T, NEW safety \in BOOLEAN,
           NEW corrective \in BOOLEAN, NEW evidence \in Maybe(Evidence(T))
    PROVE  Coherent(Assessed(s, action, t, safety, corrective, evidence))
  <1> DEFINE l == BlockingLockout(s, action, t, corrective, evidence)
             c == ClearDeferred(s)
  <1>1. c \in States(T)
    BY ClearDeferredType
  <1>2. Coherent(BypassState(s, action, t)) /\ Coherent(DuplicateState(s, action, t)) /\ Coherent(AllowedState(s, action, t))
    <2>1. /\ c.lockout = None /\ c.lockoutUntil = None
          /\ c.deferred = None /\ c.since = None /\ c.deferredUntil = None
      BY ClearDeferredFields
    <2> HIDE DEF c
    <2>2. Coherent(BypassState(s, action, t))
      BY <1>1, <2>1, EvaluatedCoherent DEF BypassState, c
    <2>3. Coherent(DuplicateState(s, action, t))
      BY <1>1, <2>1, EvaluatedCoherent DEF DuplicateState, c
    <2>4. Coherent(AllowedState(s, action, t))
      BY <1>1, <2>1, EvaluatedCoherent DEF AllowedState, c
    <2> QED BY <2>2, <2>3, <2>4
  <1>3. l # NoLockout => Coherent(DeferredState(s, action, t, l))
    <2> HAVE l # NoLockout
    <2> DEFINE x == DeferredState(s, action, t, l)
    <2>1. /\ x.lockout = l[1] /\ x.lockoutUntil = l[2] /\ x.deferred = action /\ x.demand = action
          /\ x.deferredUntil = l[2] /\ x.bypass = FALSE
          /\ x.since = IF s.deferred = action /\ s.since # None THEN s.since ELSE t
      BY DEF DeferredState, States
    <2>2. l[1] = (IF action = "disable" THEN "minimum_on" ELSE "minimum_off") /\ l[2] \in Int
      <3>1. Fits(l, action, t)
        BY LockoutType
      <3> HIDE DEF l
      <3> QED BY <3>1 DEF Fits
    <2>3. t # None /\ l[2] # None
      BY <2>2, NoneIsNoTime
    <2>4. "minimum_on" # None /\ "minimum_off" # None /\ "enable" # None /\ "disable" # None
      BY NoneIsNoAction, NoneIsNoLockout DEF Actions, Lockouts
    <2> HIDE DEF x, l
    <2>5. Coherent(x)
      BY <2>1, <2>2, <2>3, <2>4 DEF Coherent, Actions
    <2>6. QED BY <2>5 DEF x
  <1> QED BY <1>2, <1>3 DEF Assessed, Verdict

(* A deferral that evaluate leaves began no later than now and ends later. *)
LEMMA AssessedDeferral ==
    ASSUME NEW T, T \subseteq Int, NEW s \in States(T), NEW action \in Actions, NEW t \in T, NEW safety \in BOOLEAN,
           NEW corrective \in BOOLEAN, NEW evidence \in Maybe(Evidence(T)),
           s.deferred # None => s.since <= t,
           (s.deferred = None) <=> (s.since = None)
    PROVE  LET a == Assessed(s, action, t, safety, corrective, evidence)
           IN  a.deferred # None => a.since <= t /\ t < a.deferredUntil
  <1> DEFINE l == BlockingLockout(s, action, t, corrective, evidence)
             c == ClearDeferred(s)
  <1>1. c \in States(T)
    BY ClearDeferredType
  <1>2. \A x \in {BypassState(s, action, t), DuplicateState(s, action, t), AllowedState(s, action, t)} :
          x.deferred = None
    <2>1. c.deferred = None
      BY ClearDeferredFields
    <2> HIDE DEF c
    <2>2. QED BY <1>1, <2>1 DEF BypassState, DuplicateState, AllowedState, States, c
  <1>3. l # NoLockout => /\ DeferredState(s, action, t, l).since <= t 
                         /\ t < DeferredState(s, action, t, l).deferredUntil
    <2> HAVE l # NoLockout
    <2>1. Fits(l, action, t)
      BY LockoutType
    <2> HIDE DEF l
    <2> QED BY <2>1, NoneIsNoAction DEF Fits, DeferredState, States, Actions
  <1> QED BY <1>2, <1>3 DEF Assessed, Verdict

(* record_dispatched makes the command the history and starts the opposite *)
(* protection.                                                             *)
LEMMA DispatchedFields ==
    ASSUME NEW T, T \subseteq Int, NEW s \in States(T), s.demand \in Actions, NEW t \in T, NEW verdict
    PROVE  DispatchedAs(RecordDispatched(s, verdict, t), s, t)
  <1>1. ClearDeferred(s) \in States(T)
    BY ClearDeferredType
  <1>2. QED BY <1>1, ClearDeferredFields DEF RecordDispatched, DispatchedAs, NothingDeferred, States

(* record_failed and record_suppressed_duplicate keep everything but the   *)
(* outcome and the time.                                                   *)
LEMMA FailedFields ==
    ASSUME NEW T, T \subseteq Int, NEW s \in States(T), NEW t \in T,
           NEW f \in {RecordFailed(s, t), RecordSuppressedDuplicate(s, t)}
    PROVE  /\ AssessedAs(f, s, s.demand, t)
           /\ f.lockout = s.lockout /\ f.lockoutUntil = s.lockoutUntil
           /\ f.deferred = s.deferred /\ f.since = s.since /\ f.deferredUntil = s.deferredUntil
  BY DEF RecordFailed, RecordSuppressedDuplicate, AssessedAs, KeepsCommands, States

(* stopped_state keeps the command history.                                *)
LEMMA StoppedFields ==
    ASSUME NEW T, T \subseteq Int, NEW s \in States(T), NEW t \in T
    PROVE  KeptAs(StoppedState(s, t), s, t)
  <1>1. ClearDeferred(s) \in States(T)
    BY ClearDeferredType
  <1>2. QED BY <1>1, ClearDeferredFields DEF StoppedState, KeptAs, KeepsCommands, NothingDeferred, States

(* fatal_state leaves no lockout and no deferral.                          *)
LEMMA FatalFields ==
    ASSUME NEW T, T \subseteq Int, NEW s \in States(T), NEW t \in T
    PROVE  NothingDeferred(FatalState(s, t))
  <1>1. ClearDeferred(s) \in States(T)
    BY ClearDeferredType
  <1>2. QED BY <1>1, ClearDeferredFields DEF FatalState, NothingDeferred, States
------------------------------------------------------------------------------
(* A snapshot knows the last executed command c (None: none yet) when it   *)
(* has it as its history and protects it.                                  *)
KnowsCommand(s, c) ==
    IF c = None
    THEN s = None \/ s.last = None
    ELSE /\ s # None /\ s.last = c.action
         /\ IF c.action = "enable"
            THEN s.disableFrom = (IF MinOn > 0 THEN c.at + MinOn ELSE None)
            ELSE s.enableFrom = (IF MinOff > 0 THEN c.at + MinOff ELSE None)

(* What keeps the history keeps the knowledge.                             *)
LEMMA KnowledgeIsKept ==
    ASSUME NEW s, NEW x, NEW c, s # None, x # None, KeepsCommands(x, s), KnowsCommand(s, c)
    PROVE  KnowsCommand(x, c)
  BY DEF KeepsCommands, KnowsCommand

(* What is recorded as dispatched is known.                                *)
LEMMA KnowledgeIsGained ==
    ASSUME NEW s, NEW x, NEW t, NEW c, x # None, c # None, DispatchedAs(x, s, t),
           s.demand \in Actions, c.action = s.demand, c.at = t
    PROVE  KnowsCommand(x, c)
  BY DEF DispatchedAs, KnowsCommand, Actions

(* A controller that knows the last command lets the source rest.          *)
LEMMA KnownRest ==
    ASSUME NEW s, NEW c, NEW t \in Int, c # None, c.at \in Int, c.at <= t,
           KnowsCommand(s, c), c.action = "disable", ~ProtectedOff(s, t)
    PROVE  t >= c.at + MinOff
  BY DurationsAreNonNegative, NoneIsNoTime DEF KnowsCommand, ProtectedOff

(* A controller that knows the last command lets the source run.           *)
LEMMA KnownRun ==
    ASSUME NEW s, NEW c, NEW t \in Int, c # None, c.at \in Int, c.at <= t,
           KnowsCommand(s, c), c.action = "enable", ~ProtectedOn(s, t)
    PROVE  t >= c.at + MinOn
  BY DurationsAreNonNegative, NoneIsNoTime DEF KnowsCommand, ProtectedOn

(* A safety disable is held back only as a duplicate.                      *)
LEMMA SafetyDisableGoesThrough ==
    ASSUME NEW s, NEW t \in Int,
           ~Dispatches(Verdict(s, "disable", t, TRUE, FALSE, None))
    PROVE  s.last = "disable"
  <1> DEFINE l == BlockingLockout(s, "disable", t, FALSE, None)
  <1>1. l = NoLockout \/ (s.last = "enable" /\ l[1] = "minimum_on")
    BY DEF BlockingLockout, DispatchedLockout, ProtectedOn, ProtectedOff
  <1>2. Verdict(s, "disable", t, TRUE, FALSE, None) =
          IF s.last = "enable" /\ l[1] = "minimum_on" THEN "bypass"
          ELSE IF s.last = "disable" THEN "suppress_duplicate"
          ELSE IF l # NoLockout THEN "defer" ELSE "dispatch"
    BY DEF Verdict, Bypasses
  <1> HIDE DEF l
  <1>3. QED BY <1>1, <1>2 DEF Dispatches

==============================================================================
