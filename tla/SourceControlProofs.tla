---------------------------- MODULE SourceControlProofs ----------------------------
(***************************************************************************)
(* What SourceControl guarantees for every protection time, every clock    *)
(* and every request: its types, the agreement of the three memories of    *)
(* the last command, and that it implements SourceProtection.              *)
(*                                                                         *)
(* The invariant is inductive as soon as one fact is added to those TLC    *)
(* checks: the last command is not later than the last evaluation          *)
(* (SourceIsPast).  Each operation of the policy is described once, by     *)
(* the fields it keeps and the fields it sets, and each step by those.     *)
(***************************************************************************)
EXTENDS SourceControl, SourceControlPolicyProofs, TLAPS

------------------------------------------------------------------------------
(* Types.                                                                  *)

(* The fields of a request.                                                *)
LEMMA RequestType ==
    ASSUME NEW r \in Requests
    PROVE  /\ r.action \in Actions /\ r.safety \in BOOLEAN /\ r.corrective \in BOOLEAN
           /\ r.evidence \in Maybe(Evidence(Time))
  <1>1. CASE r \in [action : Actions, safety : BOOLEAN, corrective : {FALSE}, evidence : {None}]
    BY <1>1 DEF Maybe
  <1>2. ASSUME NEW action \in Actions,
               r \in [action : {action}, safety : BOOLEAN, corrective : {TRUE},
                      evidence : Contradicting(action)]
        PROVE  /\ r.action \in Actions /\ r.safety \in BOOLEAN /\ r.corrective \in BOOLEAN
               /\ r.evidence \in Maybe(Evidence(Time))
    <2>1. r.evidence \in Contradicting(action)
      BY <1>2
    <2>2. r.evidence \in Evidence(Time)
      BY <2>1 DEF Contradicting, Evidence, ReportedStates
    <2>3. QED BY <1>2, <2>2 DEF Maybe
  <1>3. QED BY <1>1, <1>2 DEF Requests

(* The snapshot an evaluation starts from.                                 *)
LEMMA CurrentType ==
    ASSUME TypeOK
    PROVE  Current \in States(Time)
  BY TimeIsInteger, InitialStateType DEF TypeOK, Current, Maybe

(* What an assessment builds.                                              *)
LEMMA AssessmentType ==
    ASSUME TypeOK, NEW r \in Requests
    PROVE  AssessedFor(r) \in States(Time) /\ AssessedFor(r).demand = r.action /\ r.action \in Actions
  <1>1. /\ r.action \in Actions /\ r.safety \in BOOLEAN /\ r.corrective \in BOOLEAN
        /\ r.evidence \in Maybe(Evidence(Time))
    BY RequestType
  <1>2. Current \in States(Time) /\ now \in Time
    BY CurrentType DEF TypeOK
  <1>3. AssessedFor(r) \in States(Time)
    BY <1>1, <1>2, TimeIsInteger, AssessedType DEF AssessedFor
  <1>4. AssessedAs(AssessedFor(r), Current, r.action, now)
    BY <1>1, <1>2, TimeIsInteger, AssessedFields DEF AssessedFor
  <1>5. QED BY <1>1, <1>3, <1>4 DEF AssessedAs

------------------------------------------------------------------------------
(* Every step keeps the types.                                             *)
LEMMA TypeStep == TypeOK /\ [Next]_vars => TypeOK'
  <1> SUFFICES ASSUME TypeOK, [Next]_vars PROVE TypeOK'
    OBVIOUS
  <1>1. ASSUME NEW r \in Requests, Hold(r) PROVE TypeOK'
    BY TimeIsInteger, <1>1, RequestType, CurrentType, AssessedType DEF Hold, AssessedFor, TypeOK, Maybe
  <1>2. ASSUME NEW r \in Requests, Execute(r) PROVE TypeOK'
    <2>1. AssessedFor(r) \in States(Time) /\ AssessedFor(r).demand \in Actions
      BY AssessmentType
    <2>2. /\ RecordDispatched(AssessedFor(r), VerdictOn(r), now) \in States(Time)
          /\ RecordSuppressedDuplicate(AssessedFor(r), now) \in States(Time)
      BY TimeIsInteger, <2>1, RecordedType DEF TypeOK
    <2>3. [action |-> r.action, at |-> now, safety |-> r.safety] \in Command
      BY RequestType DEF Command, TypeOK
    <2>4. QED BY <1>2, <2>2, <2>3, RequestType DEF Execute, TypeOK, Maybe
  <1>3. ASSUME NEW r \in Requests, ExecuteFails(r) PROVE TypeOK'
    <2>1. AssessedFor(r) \in States(Time) /\ AssessedFor(r).demand \in Actions
      BY AssessmentType
    <2>2. QED BY TimeIsInteger, <1>3, <2>1, RecordedType DEF ExecuteFails, TypeOK, Maybe
  <1>4. CASE Stop
    <2>1. sc # None => StoppedState(sc, sc.at) \in States(Time)
      <3>1. sc # None => sc \in States(Time) /\ sc.at \in Time
        BY DEF TypeOK, Maybe, States
      <3>2. QED BY TimeIsInteger, <3>1, StoppedType
    <2>2. QED BY <1>4, <2>1 DEF Stop, TypeOK, Maybe
  <1>5. ASSUME NEW failedAction \in Maybe(Actions), NEW portOk \in BOOLEAN,
               FatalShutdown(failedAction, portOk)
        PROVE  TypeOK'
    <2>1. FatalState(Current, now) \in States(Time)
      BY TimeIsInteger, CurrentType, StoppedType DEF TypeOK
    <2>2. [action |-> "disable", at |-> now, safety |-> TRUE] \in Command
      BY DEF Command, TypeOK, Actions
    <2>3. QED BY <1>5, <2>1, <2>2 DEF FatalShutdown, TypeOK, Maybe
  <1>6. CASE ClockMoves
    BY <1>6 DEF ClockMoves, TypeOK
  <1>7. CASE UNCHANGED vars
    BY <1>7 DEF vars, TypeOK
  <1>8. QED BY <1>1, <1>2, <1>3, <1>4, <1>5, <1>6, <1>7 DEF Next

(* Every reachable state is well typed: every snapshot is one the          *)
(* dataclass can hold (source_control_state.py:59-125).                    *)
THEOREM TypeCorrect == Spec => []TypeOK
  <1>1. Init => TypeOK
    BY DEF Init, TypeOK, Maybe
  <1>2. QED BY <1>1, TypeStep, PTL DEF Spec

(* The last command is not later than the last evaluation.                 *)
SourceIsPast == (status # "fatal" /\ source # None) => source.at <= sc.at

InductiveInvariant ==
    /\ TypeOK
    /\ SnapshotCoherent
    /\ MemoriesAgree
    /\ ProtectionMatchesSource
    /\ DeferralEndsLater
    /\ SourceIsPast

(* The invariant holds before the first evaluation.                        *)
LEMMA InitHolds == Init => InductiveInvariant
  BY DEF Init, InductiveInvariant, TypeOK, SnapshotCoherent, MemoriesAgree, ProtectionMatchesSource,
         DeferralEndsLater, SourceIsPast, Maybe

(* What an admitted assessment yields in a state of the invariant.         *)
LEMMA AssessmentKeeps ==
    ASSUME InductiveInvariant, Admitted, NEW r \in Requests
    PROVE  LET a == AssessedFor(r)
           IN  /\ a \in States(Time) /\ a.demand = r.action /\ a.at = now
               /\ a.last = Current.last
               /\ a.enabledAt = Current.enabledAt /\ a.disabledAt = Current.disabledAt
               /\ a.enableFrom = Current.enableFrom /\ a.disableFrom = Current.disableFrom
               /\ Coherent(a)
               /\ a.deferred # None => a.since <= a.at /\ a.at < a.deferredUntil
               /\ Dispatches(VerdictOn(r)) => /\ a.lockout = None /\ a.lockoutUntil = None
                                             /\ a.deferred = None /\ a.since = None
                                             /\ a.deferredUntil = None
  <1>1. TypeOK /\ now \in Time
    BY DEF InductiveInvariant, TypeOK
  <1>2. Current \in States(Time)
    BY <1>1, CurrentType
  <1>3. /\ Current.deferred # None => Current.since <= now
        /\ (Current.deferred = None) <=> (Current.since = None)
    <2>1. CASE sc = None
      BY <2>1 DEF Current, InitialState
    <2>2. CASE sc # None
      <3>1. sc \in States(Time)
        BY <1>1, <2>2 DEF TypeOK, Maybe
      <3>2. sc.at <= now /\ Coherent(sc) /\ (sc.deferred # None => sc.since <= sc.at)
        BY <2>2 DEF InductiveInvariant, Admitted, SnapshotCoherent, DeferralEndsLater
      <3>3. sc.deferred # None => sc.since \in Time
        BY <3>1, <3>2 DEF States, Coherent, Maybe
      <3>4. sc.at \in Time
        BY <3>1 DEF States
      <3>5. QED BY <1>1, <2>2, <3>2, <3>3, <3>4, TimeIsInteger DEF Current, Coherent
    <2>3. QED BY <2>1, <2>2
  <1>4. /\ r.action \in Actions /\ r.safety \in BOOLEAN /\ r.corrective \in BOOLEAN
        /\ r.evidence \in Maybe(Evidence(Time))
    BY RequestType
  <1> DEFINE a == AssessedFor(r)
  <1>5. a \in States(Time) /\ Coherent(a)
    BY <1>1, <1>2, <1>4, TimeIsInteger, AssessedType, AssessedCoherent DEF AssessedFor
  <1>6. a.deferred # None => a.since <= now /\ now < a.deferredUntil
    BY <1>1, <1>2, <1>3, <1>4, TimeIsInteger, AssessedDeferral DEF AssessedFor
  <1>7. /\ AssessedAs(a, Current, r.action, now)
        /\ Dispatches(VerdictOn(r)) => NothingDeferred(a)
    BY <1>1, <1>2, <1>4, TimeIsInteger, AssessedFields DEF AssessedFor, VerdictOn
  <1> HIDE DEF a
  <1>8. QED BY <1>5, <1>6, <1>7 DEF AssessedAs, KeepsCommands, NothingDeferred, a

(* While control lasts, the memory the policy protects by is the memory    *)
(* the dispatcher compares with.                                           *)
LEMMA CurrentHistory ==
    ASSUME InductiveInvariant, Admitted
    PROVE  /\ Current.last = applied
           /\ source = None => applied = None
           /\ source # None => /\ sc # None /\ Current = sc /\ applied = source.action
                               /\ source \in Command /\ source.at <= now
  <1>1. TypeOK /\ now \in Time /\ status = "running"
    BY DEF InductiveInvariant, TypeOK, Admitted
  <1>2. CASE source = None
    BY <1>1, <1>2 DEF InductiveInvariant, MemoriesAgree, Current, InitialState
  <1>3. CASE source # None
    <2>1. sc # None /\ sc.last = source.action /\ applied = source.action /\ source.at <= sc.at
      BY <1>1, <1>3 DEF InductiveInvariant, MemoriesAgree, SourceIsPast
    <2>2. source \in Command /\ sc \in States(Time)
      BY <1>1, <1>3, <2>1 DEF TypeOK, Maybe
    <2>3. sc.at <= now /\ sc.at \in Int /\ source.at \in Int /\ now \in Int
      BY <1>1, <2>1, <2>2, TimeIsInteger DEF Admitted, States, Command
    <2>4. QED BY <1>3, <2>1, <2>2, <2>3 DEF Current
  <1>4. QED BY <1>2, <1>3

(* The dispatcher's memory never contradicts the policy's verdict.         *)
LEMMA VerdictCarriedOut == InductiveInvariant => VerdictIsCarriedOut
  <1> SUFFICES ASSUME InductiveInvariant, NEW r \in Requests, Admitted,
                      Dispatches(VerdictOn(r)), DropsDuplicate(r)
               PROVE  FALSE
    BY DEF VerdictIsCarriedOut
  <1>1. Current.last = r.action /\ ~r.corrective
    BY CurrentHistory DEF DropsDuplicate
  <1>2. QED BY <1>1 DEF Dispatches, VerdictOn, Verdict, Bypasses

(* A duplicate or a deferral keeps the invariant.                          *)
LEMMA HoldStep ==
    ASSUME InductiveInvariant, NEW r \in Requests, Hold(r)
    PROVE  InductiveInvariant'
  <1> DEFINE a == AssessedFor(r)
  <1>1. TypeOK'
    BY TypeStep DEF InductiveInvariant, Next
  <1>2. Admitted /\ sc' = a /\ UNCHANGED <<now, applied, status, source>>
    BY DEF Hold
  <1>3. /\ a \in States(Time) /\ a # None /\ a.at = now /\ a.last = Current.last /\ Coherent(a)
        /\ a.enabledAt = Current.enabledAt /\ a.disabledAt = Current.disabledAt
        /\ a.enableFrom = Current.enableFrom /\ a.disableFrom = Current.disableFrom
        /\ a.deferred # None => a.since <= a.at /\ a.at < a.deferredUntil
    BY <1>2, AssessmentKeeps, NoneIsNoRecord
  <1> HIDE DEF a
  <1>4. SnapshotCoherent' /\ DeferralEndsLater'
    BY <1>2, <1>3 DEF SnapshotCoherent, DeferralEndsLater
  <1>5. MemoriesAgree' /\ ProtectionMatchesSource' /\ SourceIsPast'
    <2>1. CASE source = None
      BY <1>2, <1>3, <2>1, CurrentHistory DEF MemoriesAgree, ProtectionMatchesSource, SourceIsPast
    <2>2. CASE source # None
      <3>1. sc # None /\ Current = sc /\ status = "running" /\ source.at <= now
        BY <1>2, <2>2, CurrentHistory DEF Admitted
      <3>2. QED BY <1>2, <1>3, <2>2, <3>1 DEF InductiveInvariant, MemoriesAgree, ProtectionMatchesSource, SourceIsPast
    <2>3. QED BY <2>1, <2>2
  <1>6. QED BY <1>1, <1>4, <1>5 DEF InductiveInvariant

(* A failed command keeps the invariant.                                   *)
LEMMA ExecuteFailsStep ==
    ASSUME InductiveInvariant, NEW r \in Requests, ExecuteFails(r)
    PROVE  InductiveInvariant'
  <1> DEFINE a == AssessedFor(r)
             f == RecordFailed(a, now)
  <1>1. TypeOK' /\ now \in Time
    BY TypeStep DEF InductiveInvariant, Next, TypeOK
  <1>2. Admitted /\ Dispatches(VerdictOn(r)) /\ sc' = f /\ UNCHANGED <<now, applied, status, source>>
    BY DEF ExecuteFails
  <1>3. /\ a \in States(Time) /\ a.last = Current.last
        /\ a.enabledAt = Current.enabledAt /\ a.disabledAt = Current.disabledAt
        /\ a.enableFrom = Current.enableFrom /\ a.disableFrom = Current.disableFrom
        /\ a.lockout = None /\ a.lockoutUntil = None
        /\ a.deferred = None /\ a.since = None /\ a.deferredUntil = None
    BY <1>2, AssessmentKeeps
  <1>4. f.at = now /\ f.last = a.last /\ f.enabledAt = a.enabledAt /\ f.disabledAt = a.disabledAt
        /\ f.enableFrom = a.enableFrom /\ f.disableFrom = a.disableFrom
        /\ f.lockout = a.lockout /\ f.lockoutUntil = a.lockoutUntil
        /\ f.deferred = a.deferred /\ f.since = a.since /\ f.deferredUntil = a.deferredUntil
    <2> HIDE DEF a
    <2> QED BY <1>3 DEF RecordFailed, States
  <1>5. f \in States(Time) /\ f # None
    <2>1. a.demand = r.action
      BY <1>2, AssessmentKeeps
    <2>2. QED BY TimeIsInteger, <1>1, <1>3, <2>1, RequestType, RecordedType, NoneIsNoRecord
  <1> HIDE DEF a, f
  <1>6. SnapshotCoherent' /\ DeferralEndsLater'
    BY <1>2, <1>3, <1>4 DEF SnapshotCoherent, DeferralEndsLater, Coherent
  <1>7. MemoriesAgree' /\ ProtectionMatchesSource' /\ SourceIsPast'
    <2>1. CASE source = None
      BY <1>2, <1>3, <1>4, <2>1, CurrentHistory DEF MemoriesAgree, ProtectionMatchesSource, SourceIsPast
    <2>2. CASE source # None
      <3>1. sc # None /\ Current = sc /\ status = "running" /\ source.at <= now
        BY <1>2, <2>2, CurrentHistory DEF Admitted
      <3>2. QED BY <1>2, <1>3, <1>4, <1>5, <2>2, <3>1
                DEF InductiveInvariant, MemoriesAgree, ProtectionMatchesSource, SourceIsPast
    <2>3. QED BY <2>1, <2>2
  <1>8. QED BY <1>1, <1>6, <1>7 DEF InductiveInvariant

(* An executed command keeps the invariant.                                *)
LEMMA ExecuteStep ==
    ASSUME InductiveInvariant, NEW r \in Requests, Execute(r)
    PROVE  InductiveInvariant'
  <1> DEFINE a == AssessedFor(r)
             d == RecordDispatched(a, VerdictOn(r), now)
  <1>1. TypeOK' /\ now \in Time
    BY TypeStep DEF InductiveInvariant, Next, TypeOK
  <1>2. Admitted /\ Dispatches(VerdictOn(r)) /\ ~DropsDuplicate(r)
    BY VerdictCarriedOut DEF Execute, VerdictIsCarriedOut
  <1>3. /\ sc' = d /\ applied' = r.action /\ status' = "running"
        /\ source' = [action |-> r.action, at |-> now, safety |-> r.safety]
    BY <1>2 DEF Execute, Admitted
  <1>4. a \in States(Time) /\ a.demand = r.action /\ r.action \in Actions
    BY <1>2, AssessmentKeeps, RequestType
  <1>5. /\ d \in States(Time) /\ d # None /\ source' # None
    <2>1. d \in States(Time)
      <3> HIDE DEF a
      <3>1. QED BY TimeIsInteger, <1>1, <1>4, RecordedType
    <2>2. source' \in Command
      BY <1>1, <1>3, <1>4, RequestType DEF Command
    <2>3. QED BY <2>1, <2>2, NoneIsNoRecord
  <1>6. /\ d.last = r.action /\ d.at = now
        /\ r.action = "enable" => d.enabledAt = now
        /\ r.action = "disable" => d.disabledAt = now
        /\ d.enableFrom = IF r.action = "disable" /\ MinOff > 0 THEN now + MinOff ELSE None
        /\ d.disableFrom = IF r.action = "enable" /\ MinOn > 0 THEN now + MinOn ELSE None
        /\ d.lockout = None /\ d.lockoutUntil = None
        /\ d.deferred = None /\ d.since = None /\ d.deferredUntil = None
    <2>1. DispatchedAs(d, a, now)
      BY TimeIsInteger, <1>1, <1>4, DispatchedFields
    <2> HIDE DEF a, d
    <2>2. QED BY <1>4, <2>1 DEF DispatchedAs, NothingDeferred
  <1> HIDE DEF a, d
  <1>7. SnapshotCoherent' /\ DeferralEndsLater'
    BY <1>3, <1>6 DEF SnapshotCoherent, DeferralEndsLater, Coherent
  <1>8. MemoriesAgree' /\ ProtectionMatchesSource'
    BY <1>3, <1>4, <1>5, <1>6 DEF MemoriesAgree, ProtectionMatchesSource, Actions
  <1>9. SourceIsPast'
    BY <1>1, <1>3, <1>6, TimeIsInteger DEF SourceIsPast
  <1>10. QED BY <1>1, <1>7, <1>8, <1>9 DEF InductiveInvariant

(* stop keeps the invariant.                                               *)
LEMMA StopStep ==
    ASSUME InductiveInvariant, Stop
    PROVE  InductiveInvariant'
  <1>1. TypeOK'
    BY TypeStep DEF InductiveInvariant, Next
  <1>2. CASE sc = None
    BY <1>1, <1>2 DEF Stop, InductiveInvariant, SnapshotCoherent, MemoriesAgree, ProtectionMatchesSource,
                      DeferralEndsLater, SourceIsPast
  <1>3. CASE sc # None
    <2> DEFINE f == StoppedState(sc, sc.at)
    <2>1. sc \in States(Time) /\ sc.at \in Time
      BY <1>3 DEF InductiveInvariant, TypeOK, Maybe, States
    <2>2. /\ f.last = sc.last /\ f.enabledAt = sc.enabledAt /\ f.disabledAt = sc.disabledAt
          /\ f.enableFrom = sc.enableFrom /\ f.disableFrom = sc.disableFrom
          /\ f.lockout = None /\ f.lockoutUntil = None
          /\ f.deferred = None /\ f.since = None /\ f.deferredUntil = None
          /\ f.at = sc.at
      <3>1. KeptAs(f, sc, sc.at)
        BY TimeIsInteger, <2>1, StoppedFields
      <3> HIDE DEF f
      <3>2. QED BY <3>1 DEF KeptAs, KeepsCommands, NothingDeferred
    <2>3. f # None
      BY TimeIsInteger, <2>1, StoppedType, NoneIsNoRecord
    <2>4. sc' = f /\ status = "running" /\ status' = "stopped" /\ UNCHANGED <<now, applied, source>>
      BY <1>3 DEF Stop
    <2> HIDE DEF f
    <2>5. SnapshotCoherent' /\ DeferralEndsLater'
      BY <2>2, <2>4 DEF SnapshotCoherent, DeferralEndsLater, Coherent
    <2>6. MemoriesAgree' /\ ProtectionMatchesSource' /\ SourceIsPast'
      BY <1>3, <2>2, <2>3, <2>4 DEF InductiveInvariant, MemoriesAgree, ProtectionMatchesSource, SourceIsPast
    <2>7. QED BY <1>1, <2>5, <2>6 DEF InductiveInvariant
  <1>4. QED BY <1>2, <1>3

(* fatal_shutdown keeps the invariant.                                     *)
LEMMA FatalShutdownStep ==
    ASSUME InductiveInvariant, NEW failedAction \in Maybe(Actions), NEW portOk \in BOOLEAN,
           FatalShutdown(failedAction, portOk)
    PROVE  InductiveInvariant'
  <1>1. TypeOK' /\ TypeOK /\ now \in Time
    BY TypeStep DEF InductiveInvariant, Next, TypeOK
  <1>2. sc' = FatalState(Current, now) /\ status' = "fatal"
    BY DEF FatalShutdown
  <1>3. SnapshotCoherent' /\ DeferralEndsLater'
    <2> DEFINE f == FatalState(Current, now)
    <2>1. Current \in States(Time)
      BY <1>1, CurrentType
    <2>2. NothingDeferred(f)
      BY <1>1, <2>1, TimeIsInteger, FatalFields
    <2>3. sc' = f
      BY <1>2
    <2> HIDE DEF f
    <2>4. QED BY <2>2, <2>3 DEF SnapshotCoherent, DeferralEndsLater, Coherent, NothingDeferred
  <1>4. MemoriesAgree' /\ ProtectionMatchesSource' /\ SourceIsPast'
    BY <1>2 DEF MemoriesAgree, ProtectionMatchesSource, SourceIsPast
  <1>5. QED BY <1>1, <1>3, <1>4 DEF InductiveInvariant

(* Every step keeps the invariant.                                         *)
LEMMA InvariantStep == InductiveInvariant /\ [Next]_vars => InductiveInvariant'
  <1> SUFFICES ASSUME InductiveInvariant, [Next]_vars PROVE InductiveInvariant'
    OBVIOUS
  <1>1. TypeOK'
    BY TypeStep DEF InductiveInvariant
  <1>2. CASE ClockMoves
    BY <1>1, <1>2 DEF ClockMoves, InductiveInvariant, SnapshotCoherent, MemoriesAgree,
                      ProtectionMatchesSource, DeferralEndsLater, SourceIsPast
  <1>3. CASE UNCHANGED vars
    BY <1>1, <1>3 DEF vars, InductiveInvariant, SnapshotCoherent, MemoriesAgree,
                      ProtectionMatchesSource, DeferralEndsLater, SourceIsPast
  <1>4. QED BY <1>2, <1>3, HoldStep, ExecuteStep, ExecuteFailsStep, StopStep, FatalShutdownStep DEF Next

(* The inductive invariant holds in every reachable state.                 *)
THEOREM Safety == Spec => []InductiveInvariant
  <1>1. QED BY InitHolds, InvariantStep, PTL DEF Spec

(* No evaluation ends in the ValueError of __post_init__, the snapshot,    *)
(* the dispatcher and the port agree on the last command, and every        *)
(* deferral ends later than the evaluation that left it                    *)
(* (source_control_state.py:127-153, control_runtime.py:961-1052).         *)
THEOREM Agreement == Spec => [](SnapshotCoherent /\ MemoriesAgree /\ DeferralEndsLater)
  <1>1. InductiveInvariant => SnapshotCoherent /\ MemoriesAgree /\ DeferralEndsLater
    BY DEF InductiveInvariant
  <1>2. QED BY <1>1, Safety, PTL

(* What the policy lets through is never dropped as a duplicate by the     *)
(* dispatcher (heat_source_command_dispatcher.py:16-32).                   *)
THEOREM DispatcherNeverSwallows == Spec => []VerdictIsCarriedOut
  <1>1. QED BY VerdictCarriedOut, Safety, PTL

(* The protection deadlines are those of the command the source last       *)
(* executed, until fatal_shutdown (source_control_policy.py:214-265).      *)
THEOREM ProtectionFollowsSource == Spec => []ProtectionMatchesSource
  <1>1. InductiveInvariant => ProtectionMatchesSource
    BY DEF InductiveInvariant
  <1>2. QED BY <1>1, Safety, PTL

------------------------------------------------------------------------------
(* The body of ProtectionOnlyFromExecution.                                *)
ProtectionKept ==
    (source' = source /\ status' # "fatal" /\ sc # None) =>
        /\ sc'.last = sc.last
        /\ sc'.enabledAt = sc.enabledAt /\ sc'.disabledAt = sc.disabledAt
        /\ sc'.enableFrom = sc.enableFrom /\ sc'.disableFrom = sc.disableFrom

(* Every step that does not execute a command keeps the protection; so     *)
(* does one that repeats the last command at the same time.                *)
LEMMA ProtectionKeptByStep == InductiveInvariant /\ [Next]_vars => [ProtectionKept]_vars
  <1> SUFFICES ASSUME InductiveInvariant, [Next]_vars, source' = source, status' # "fatal", sc # None
               PROVE  ProtectionKept
    BY DEF ProtectionKept
  <1>1. TypeOK /\ now \in Time /\ Current = sc /\ sc \in States(Time) /\ sc.at \in Time
    BY DEF InductiveInvariant, TypeOK, Current, Maybe, States
  <1>2. ASSUME NEW r \in Requests, Hold(r) PROVE ProtectionKept
    BY <1>1, <1>2, AssessmentKeeps DEF Hold, ProtectionKept
  <1>3. ASSUME NEW r \in Requests, ExecuteFails(r) PROVE ProtectionKept
    BY TimeIsInteger, <1>1, <1>3, AssessmentKeeps, FailedFields
       DEF ExecuteFails, ProtectionKept, AssessedAs, KeepsCommands
  <1>4. ASSUME NEW r \in Requests, Execute(r) PROVE ProtectionKept
    <2> DEFINE a == AssessedFor(r)
               d == RecordDispatched(a, VerdictOn(r), now)
    <2>1. Admitted /\ Dispatches(VerdictOn(r)) /\ ~DropsDuplicate(r)
      BY <1>4, VerdictCarriedOut DEF Execute, VerdictIsCarriedOut
    <2>2. sc' = d /\ source = [action |-> r.action, at |-> now, safety |-> r.safety] /\ source # None
      <3>1. [action |-> r.action, at |-> now, safety |-> r.safety] \in Command
        BY <1>1, RequestType DEF Command
      <3>2. QED BY <1>4, <2>1, <3>1, NoneIsNoRecord DEF Execute
    <2>3. /\ a \in States(Time) /\ a.demand = r.action /\ r.action \in Actions
          /\ a.enabledAt = sc.enabledAt /\ a.disabledAt = sc.disabledAt
      BY <1>1, <2>1, AssessmentKeeps, RequestType
    <2>4. /\ d.last = r.action
          /\ d.enabledAt = IF r.action = "enable" THEN now ELSE sc.enabledAt
          /\ d.disabledAt = IF r.action = "disable" THEN now ELSE sc.disabledAt
          /\ d.enableFrom = IF r.action = "disable" /\ MinOff > 0 THEN now + MinOff ELSE None
          /\ d.disableFrom = IF r.action = "enable" /\ MinOn > 0 THEN now + MinOn ELSE None
      <3>1. DispatchedAs(d, a, now)
        BY TimeIsInteger, <1>1, <2>3, DispatchedFields
      <3> HIDE DEF a, d
      <3>2. QED BY <2>3, <3>1 DEF DispatchedAs
    <2> HIDE DEF a, d
    <2>5. /\ sc.last = r.action
          /\ now = IF r.action = "enable" THEN sc.enabledAt ELSE sc.disabledAt
          /\ sc.enableFrom = IF r.action = "disable" /\ MinOff > 0 THEN now + MinOff ELSE None
          /\ sc.disableFrom = IF r.action = "enable" /\ MinOn > 0 THEN now + MinOn ELSE None
      BY <2>1, <2>2, <2>3 DEF InductiveInvariant, MemoriesAgree, ProtectionMatchesSource, Admitted, Actions
    <2>6. QED BY <2>2, <2>3, <2>4, <2>5 DEF ProtectionKept, Actions
  <1>5. CASE Stop
    BY TimeIsInteger, <1>1, <1>5, StoppedFields DEF Stop, ProtectionKept, KeptAs, KeepsCommands
  <1>6. CASE ClockMoves
    BY <1>6 DEF ClockMoves, ProtectionKept
  <1>7. CASE UNCHANGED vars
    BY <1>7 DEF vars, ProtectionKept
  <1>8. QED BY <1>2, <1>3, <1>4, <1>5, <1>6, <1>7 DEF Next, FatalShutdown

(* Duplicates, deferrals, failures and stop leave the protection as it     *)
(* was.                                                                    *)
THEOREM ProtectionMovesByExecution == Spec => ProtectionOnlyFromExecution
  <1>1. QED BY Safety, ProtectionKeptByStep, PTL DEF Spec, ProtectionOnlyFromExecution, ProtectionKept

------------------------------------------------------------------------------
(* Refinement of SourceProtection. *)

(* Initial states map to initial states.                                   *)
LEMMA RefinesInit == Init => Protection!Init
  BY DEF Init, Protection!Init

(* An executed command respects the rest and the run of the source.        *)
LEMMA RefinesExecute ==
    ASSUME InductiveInvariant, NEW r \in Requests, Execute(r)
    PROVE  Protection!Execute
  <1> DEFINE c == [action |-> r.action, at |-> now, safety |-> r.safety]
  <1>1. /\ Admitted /\ Dispatches(VerdictOn(r)) /\ ~DropsDuplicate(r)
        /\ now \in Time /\ status = "running" /\ status' = "running"
    BY VerdictCarriedOut DEF Execute, VerdictIsCarriedOut, InductiveInvariant, TypeOK, Admitted
  <1>2. source' = c /\ c \in Protection!Command
    BY <1>1, RequestType DEF Execute, Protection!Command, Actions
  <1>3. source # None => c.at >= source.at
    BY <1>1, CurrentHistory, TimeIsInteger DEF Command
  <1>4. Protection!RespectsRest(c)
    <2>1. SUFFICES ASSUME source # None, source.action = "disable", r.action = "enable"
                   PROVE  now >= source.at + MinOff
      BY DEF Protection!RespectsRest
    <2>2. ~ProtectedOff(Current, now)
      BY <1>1, <2>1, EnableWaits, RequestType, TimeIsInteger DEF VerdictOn
    <2>3. /\ Current = sc /\ sc.last = "disable"
          /\ sc.enableFrom = IF MinOff > 0 THEN source.at + MinOff ELSE None
          /\ source.at <= now /\ source.at \in Int /\ now \in Int
      BY <1>1, <2>1, CurrentHistory, TimeIsInteger
         DEF InductiveInvariant, MemoriesAgree, ProtectionMatchesSource, Command
    <2>4. QED BY <2>2, <2>3, DurationsAreNonNegative, NoneIsNoTime DEF ProtectedOff
  <1>5. Protection!RespectsRun(c)
    <2>1. SUFFICES ASSUME source # None, source.action = "enable", r.action = "disable", ~r.safety
                   PROVE  now >= source.at + MinOn
      BY DEF Protection!RespectsRun
    <2>2. r.safety = FALSE
      BY <2>1, RequestType
    <2>3. ~ProtectedOn(Current, now)
      BY <1>1, <2>1, <2>2, DisableWaits, RequestType, TimeIsInteger DEF VerdictOn
    <2>4. /\ Current = sc /\ sc.last = "enable"
          /\ sc.disableFrom = IF MinOn > 0 THEN source.at + MinOn ELSE None
          /\ source.at <= now /\ source.at \in Int /\ now \in Int
      BY <1>1, <2>1, CurrentHistory, TimeIsInteger
         DEF InductiveInvariant, MemoriesAgree, ProtectionMatchesSource, Command
    <2>5. QED BY <2>3, <2>4, DurationsAreNonNegative, NoneIsNoTime DEF ProtectedOn
  <1>6. QED BY <1>1, <1>2, <1>3, <1>4, <1>5 DEF Protection!Execute

(* Every step is a step of SourceProtection or changes nothing there.      *)
LEMMA RefinesStep ==
    InductiveInvariant /\ [Next]_vars => [Protection!Next]_(Protection!vars)
  <1> SUFFICES ASSUME InductiveInvariant, [Next]_vars
               PROVE  Protection!Next \/ UNCHANGED Protection!vars
    OBVIOUS
  <1>1. ASSUME NEW r \in Requests, Hold(r) PROVE UNCHANGED Protection!vars
    BY <1>1 DEF Hold, Protection!vars
  <1>2. ASSUME NEW r \in Requests, ExecuteFails(r) PROVE UNCHANGED Protection!vars
    BY <1>2 DEF ExecuteFails, Protection!vars
  <1>3. ASSUME NEW r \in Requests, Execute(r) PROVE Protection!Next
    BY <1>3, RefinesExecute DEF Protection!Next
  <1>4. CASE Stop
    BY <1>4 DEF Stop, Protection!Next, Protection!Release
  <1>5. ASSUME NEW failedAction \in Maybe(Actions), NEW portOk \in BOOLEAN,
               FatalShutdown(failedAction, portOk)
        PROVE  Protection!Next
    <2>1. now \in Time
      BY DEF InductiveInvariant, TypeOK
    <2>2. QED BY <1>5, <2>1 DEF FatalShutdown, Protection!Next, Protection!Release
  <1>6. CASE ClockMoves
    BY <1>6 DEF ClockMoves, Protection!vars
  <1>7. CASE UNCHANGED vars
    BY <1>7 DEF vars, Protection!vars
  <1>8. QED BY <1>1, <1>2, <1>3, <1>4, <1>5, <1>6, <1>7 DEF Next

(* The command path implements the protection contract: for all protection *)
(* times, no enable cuts the rest of the source short, and only a safety   *)
(* disable its run (README.md:97-104).                                     *)
THEOREM ProtectionIsImplemented == Spec => ImplementsProtection
  <1>1. QED BY RefinesInit, RefinesStep, Safety, PTL DEF Spec, ImplementsProtection, Protection!Spec
=====
