-------------------------- MODULE RuntimeSupervisorProofs --------------------------
(***************************************************************************)
(* What RuntimeSupervisor guarantees for every number of failures,         *)
(* restarts and operator actions, every policy of the failsafe and every   *)
(* timer.                                                                  *)
(*                                                                         *)
(* One controller commands.  A port carries the kind and the generation it *)
(* was made for.  The generations of runtimes that could not be stopped    *)
(* are all older than the present one, and the failsafe is that of the     *)
(* present generation, so the only port that equals the present authority  *)
(* is that of the controller in charge.  No step lowers its rank.          *)
(*                                                                         *)
(* The campaign goes on.  Whatever replaces the time of the next attempt   *)
(* schedules a task for it, and a callback that takes a task away is       *)
(* either the awaited one or an older one, which is not the witness.       *)
(*                                                                         *)
(* What is forgotten.  The controller in charge has the last executed      *)
(* command as its history (KnowsCommand), so the policy protects it: every *)
(* command is a step of SourceProtection.  A failure that is reported      *)
(* while no runtime is attached (host.py:382-391,                          *)
(* runtime_supervisor.py:161-164) makes the controllers forget it: the     *)
(* invariant then says that they know of no command, until one of them     *)
(* commands and is known again.  A command is forgotten when its sender    *)
(* ranks below the last failsafe that was told nothing; every sender is in *)
(* charge when it commands, so ranks never fall and the next command is    *)
(* remembered.                                                             *)
(***************************************************************************)
EXTENDS RuntimeSupervisor, SourceControlPolicyProofs, TLAPS

(* The failsafe of the present generation exists while it is in charge.    *)
OneFailsafe ==
    (failsafe # None \/ ~normalActive) =>
        /\ "generation" \in DOMAIN failsafe
        /\ failsafe.generation = generation

AuthorityInvariant ==
    /\ generation \in Nat \ {0}
    /\ authority = (IF normalActive THEN "normal" ELSE "failsafe")
    /\ \A g \in late : g \in Nat /\ g < generation
    /\ OneFailsafe

(* The failsafe keeps its generation, and commands only as the authority.  *)
LEMMA EvaluationKeepsPort ==
    ASSUME NEW f, NEW evidence, NEW manualRecovery, NEW owner,
           "generation" \in DOMAIN f,
           EvaluateFailsafe(f, evidence, manualRecovery, owner)
    PROVE  /\ "generation" \in DOMAIN failsafe'
           /\ failsafe'.generation = f.generation
           /\ source' # source => commander' = Rank(owner)
<1> DEFINE mode == FailsafeMode(evidence, manualRecovery)
           assessment == FailsafeAssessment(f, evidence, mode)
           After(snapshot) == [f EXCEPT !.mode = assessment.state, !.sc = snapshot]
<1>1. \A snapshot : /\ "generation" \in DOMAIN After(snapshot)
                    /\ After(snapshot).generation = f.generation
  OBVIOUS
<1>2. \E snapshot : failsafe' = After(snapshot)
  <2> HIDE DEF mode
  <2>1. \/ \E snapshot : failsafe' = After(snapshot)
    BY DEF EvaluateFailsafe, mode
  <2> QED BY <2>1
<1>3. source' # source => commander' = Rank(owner)
  BY DEF EvaluateFailsafe, Owns, Executed
<1> HIDE DEF After
<1> QED BY <1>1, <1>2, <1>3

LEMMA InitAuthority == Init => AuthorityInvariant
BY DEF Init, AuthorityInvariant, OneFailsafe

(* What a step does to the authority: it stays in charge and commands, or  *)
(* the next one takes over.                                                *)
OneCommander ==
    /\ InPower' >= InPower
    /\ source' # source => commander' = InPower'

LEMMA StaysInCharge ==
    ASSUME AuthorityInvariant, UNCHANGED power,
           source' = source \/ commander' = Rank(<<authority, generation>>)
    PROVE  OneCommander
BY DEF AuthorityInvariant, OneCommander, InPower, Rank, power

(* A step that changes neither the authority nor the failsafe's generation.*)
LEMMA KeepsAuthority ==
    ASSUME AuthorityInvariant, UNCHANGED power, OneFailsafe'
    PROVE  AuthorityInvariant'
BY DEF AuthorityInvariant, power

LEMMA SameFailsafe ==
    ASSUME AuthorityInvariant, UNCHANGED power, failsafe' = failsafe
    PROVE  OneFailsafe'
BY DEF AuthorityInvariant, OneFailsafe, power

LEMMA EvaluatedFailsafe ==
    ASSUME AuthorityInvariant, UNCHANGED power, failsafe # None \/ ~normalActive,
           NEW evidence, NEW manualRecovery,
           EvaluateFailsafe(failsafe, evidence, manualRecovery, <<authority, generation>>)
    PROVE  AuthorityInvariant' /\ OneCommander
<1>1. "generation" \in DOMAIN failsafe /\ failsafe.generation = generation
  BY DEF AuthorityInvariant, OneFailsafe
<1>2. /\ "generation" \in DOMAIN failsafe'
      /\ failsafe'.generation = failsafe.generation
      /\ source' # source => commander' = Rank(<<authority, generation>>)
  BY <1>1, EvaluationKeepsPort
<1>3. OneFailsafe'
  BY <1>1, <1>2 DEF OneFailsafe, power
<1> QED BY <1>2, <1>3, StaysInCharge, KeepsAuthority

LEMMA FatalAuthority ==
    ASSUME AuthorityInvariant, NEW stops \in BOOLEAN, ReportFatal(stops)
    PROVE  AuthorityInvariant' /\ OneCommander
<1>1. EvaluateFailsafe(Handover, trusted, FALSE, <<"failsafe", generation + 1>>)
  BY DEF ReportFatal
<1>2. "generation" \in DOMAIN Handover /\ Handover.generation = generation + 1
  BY DEF Handover
<1>3. /\ "generation" \in DOMAIN failsafe'
      /\ failsafe'.generation = generation + 1
      /\ source' # source => commander' = Rank(<<"failsafe", generation + 1>>)
  BY <1>1, <1>2, EvaluationKeepsPort
<1>4. generation' = generation + 1 /\ authority' = "failsafe" /\ normalActive' = FALSE
      /\ late' \subseteq late \cup {generation}
  BY DEF ReportFatal
<1>5. AuthorityInvariant'
  BY <1>3, <1>4 DEF AuthorityInvariant, OneFailsafe
<1>6. OneCommander
  BY <1>3, <1>4 DEF AuthorityInvariant, OneCommander, InPower, Rank
<1> QED BY <1>5, <1>6

(* A restart raises the authority of the same generation.                  *)
LEMMA RestartAuthority ==
    ASSUME AuthorityInvariant, NEW c, RestartSucceeds(c) \/ RestartFails(c) \/ RestartRefused(c)
    PROVE  AuthorityInvariant' /\ OneCommander
<1>1. CASE RestartSucceeds(c)
  <2>1. /\ authority' = "normal" /\ normalActive' = TRUE
        /\ UNCHANGED <<generation, late, failsafe, source>>
    BY <1>1 DEF RestartSucceeds
  <2>2. AuthorityInvariant'
    BY <2>1 DEF AuthorityInvariant, OneFailsafe
  <2>3. OneCommander
    BY <2>1 DEF AuthorityInvariant, OneCommander, InPower, Rank
  <2> QED BY <2>2, <2>3
<1>2. CASE RestartFails(c) \/ RestartRefused(c)
  <2>1. UNCHANGED <<power, failsafe, source>>
    BY <1>2 DEF RestartFails, RestartRefused
  <2> QED BY <2>1, SameFailsafe, KeepsAuthority, StaysInCharge
<1> QED BY <1>1, <1>2

LEMMA StepAuthority ==
    ASSUME AuthorityInvariant, [Next]_vars
    PROVE  AuthorityInvariant' /\ [OneCommander]_vars
<1>1. CASE Tick
  <2>1. UNCHANGED <<power, failsafe, source>> BY <1>1 DEF Tick
  <2> QED BY <2>1, SameFailsafe, KeepsAuthority, StaysInCharge
<1>2. ASSUME NEW r \in Requests, NormalRequest(r)
      PROVE  AuthorityInvariant' /\ OneCommander
  <2>1. UNCHANGED <<power, failsafe>> BY <1>2 DEF NormalRequest
  <2>2. NormalPort(generation) = <<authority, generation>> BY <1>2 DEF NormalRequest, Owns
  <2>3. source' = source \/ commander' = Rank(<<authority, generation>>)
    BY <1>2, <2>2 DEF NormalRequest, Normal!Hold, Normal!Execute, Normal!ExecuteFails
  <2> QED BY <2>1, <2>3, SameFailsafe, KeepsAuthority, StaysInCharge
<1>3. ASSUME NEW g \in late, NEW action \in Actions, LateCommand(g, action)
      PROVE  AuthorityInvariant' /\ OneCommander
  <2>1. UNCHANGED <<power, failsafe>> BY <1>3 DEF LateCommand
  <2>2. ~Owns(NormalPort(g), <<authority, generation>>)
    BY DEF AuthorityInvariant, Owns, NormalPort
  <2>3. source' = source BY <1>3, <2>2 DEF LateCommand
  <2> QED BY <2>1, <2>3, SameFailsafe, KeepsAuthority, StaysInCharge
<1>4. ASSUME NEW stops \in BOOLEAN, ReportFatal(stops)
      PROVE  AuthorityInvariant' /\ OneCommander
  BY <1>4, FatalAuthority
<1>5. CASE RequestRestart
  BY <1>5, RestartAuthority DEF RequestRestart
<1>6. ASSUME NEW task \in restart.tasks, RestartCallback(task)
      PROVE  AuthorityInvariant' /\ OneCommander
  <2>1. \/ \E c : RestartSucceeds(c) \/ RestartFails(c) \/ RestartRefused(c)
        \/ UNCHANGED <<power, failsafe, source>>
    BY <1>6 DEF RestartCallback
  <2> QED BY <2>1, RestartAuthority, SameFailsafe, KeepsAuthority, StaysInCharge
<1>7. CASE ResetCampaign
  <2>1. UNCHANGED <<power, failsafe, source>> BY <1>7 DEF ResetCampaign
  <2> QED BY <2>1, SameFailsafe, KeepsAuthority, StaysInCharge
<1>8. CASE ActivateManual
  <2>1. UNCHANGED power BY <1>8 DEF ActivateManual
  <2>2. CASE failsafe = None
    <3>1. UNCHANGED <<failsafe, source>> BY <1>8, <2>2 DEF ActivateManual
    <3> QED BY <2>1, <3>1, SameFailsafe, KeepsAuthority, StaysInCharge
  <2>3. CASE failsafe # None
    <3>1. EvaluateFailsafe(failsafe, trusted, TRUE, <<authority, generation>>)
      BY <1>8, <2>3 DEF ActivateManual
    <3> QED BY <2>1, <2>3, <3>1, EvaluatedFailsafe
  <2> QED BY <2>2, <2>3
<1>9. ASSUME NEW task \in manual.tasks, ManualCallback(task)
      PROVE  AuthorityInvariant' /\ OneCommander
  <2>1. UNCHANGED power BY <1>9 DEF ManualCallback
  <2>2. \/ UNCHANGED <<failsafe, source>>
        \/ ~normalActive /\ EvaluateFailsafe(failsafe, trusted, FALSE, <<authority, generation>>)
    BY <1>9 DEF ManualCallback
  <2> QED BY <2>1, <2>2, EvaluatedFailsafe, SameFailsafe, KeepsAuthority, StaysInCharge
<1>10. ASSUME NEW reading \in Maybe(Readings), UpdateTrusted(reading)
       PROVE  AuthorityInvariant' /\ OneCommander
  <2>1. UNCHANGED power BY <1>10 DEF UpdateTrusted
  <2>2. \/ UNCHANGED <<failsafe, source>>
        \/ ~normalActive /\ EvaluateFailsafe(failsafe, reading, FALSE, <<authority, generation>>)
    BY <1>10 DEF UpdateTrusted
  <2> QED BY <2>1, <2>2, EvaluatedFailsafe, SameFailsafe, KeepsAuthority, StaysInCharge
<1>11. ASSUME NEW state \in ReportStates, ReportToSupervisor(state)
       PROVE  AuthorityInvariant' /\ OneCommander
  <2>1. UNCHANGED <<power, source>> BY <1>11 DEF ReportToSupervisor
  <2>2. OneFailsafe'
    BY <1>11, <2>1 DEF ReportToSupervisor, AuthorityInvariant, OneFailsafe, power
  <2> QED BY <2>1, <2>2, KeepsAuthority, StaysInCharge
<1>12. CASE ReportToRuntime
  <2>1. UNCHANGED <<power, failsafe, source>> BY <1>12 DEF ReportToRuntime
  <2> QED BY <2>1, SameFailsafe, KeepsAuthority, StaysInCharge
<1>13. CASE UNCHANGED vars
  <2>1. UNCHANGED <<power, failsafe, source>> BY <1>13 DEF vars
  <2> QED BY <2>1, SameFailsafe, KeepsAuthority, StaysInCharge
<1> QED
  BY <1>1, <1>2, <1>3, <1>4, <1>5, <1>6, <1>7, <1>8, <1>9, <1>10, <1>11, <1>12, <1>13 DEF Next

(* The authority tokens of RuntimeSupervisor (runtime_supervisor.py:54-56, *)
(* 443-444): every executed command is one of the controller in charge,    *)
(* and a controller that lost the authority never has it again.            *)
THEOREM OneControllerCommands == Spec => AuthorityNeverReturns
<1>1. AuthorityInvariant /\ [Next]_vars => AuthorityInvariant' /\ [OneCommander]_vars
  BY StepAuthority
<1> QED BY <1>1, InitAuthority, PTL DEF Spec, AuthorityNeverReturns, OneCommander
------------------------------------------------------------------------------
(* The restart campaign.                                                   *)

CampaignInvariant ==
    /\ now \in Nat /\ generation \in Nat
    /\ restart \in CampaignType
    /\ (~normalActive /\ ~expired /\ ~restart.exhausted) =>
         restart.next \in Nat /\ RestartOnItsWay

(* A campaign with a restart of its own.                                   *)
OnItsWay(c, g) ==
    \E task \in c.tasks : task.campaign = c.campaign /\ task.generation = g /\ task.at >= c.next

(* _schedule_restart keeps the campaign and adds its restart.              *)
LEMMA ScheduledCampaign ==
    ASSUME NEW c \in CampaignType, NEW g \in Nat, NEW d \in Scheduled(c, g)
    PROVE  /\ d \in CampaignType
           /\ d.next = c.next /\ d.exhausted = c.exhausted /\ d.campaign = c.campaign
           /\ c.next \in Nat => OnItsWay(d, g)
<1>1. CASE c.next = None
  <2>1. d = c
    BY <1>1 DEF Scheduled
  <2>2. c.next \notin Nat
    BY <1>1, NoneIsNoTime
  <2> QED BY <2>1, <2>2
<1>2. CASE c.next # None
  <2> DEFINE task == [campaign |-> c.campaign, generation |-> g, at |-> c.next]
  <2>1. PICK rest \in Cancelled(c.tasks, c.handle) :
          d = [c EXCEPT !.tasks = rest \cup {task}, !.handle = task]
    BY <1>2 DEF Scheduled
  <2>2. c.campaign \in Nat /\ c.next \in Nat /\ c.tasks \subseteq RestartTask
    BY <1>2 DEF CampaignType, Maybe
  <2>3. task \in RestartTask /\ task.campaign = c.campaign /\ task.generation = g /\ task.at = c.next
    BY <2>2 DEF RestartTask
  <2>4. rest \subseteq c.tasks
    BY <2>1 DEF Cancelled
  <2> HIDE DEF task
  <2>5. /\ d.tasks = rest \cup {task} /\ d.next = c.next /\ d.exhausted = c.exhausted
        /\ d.campaign = c.campaign
    BY <2>1 DEF CampaignType
  <2>6. rest \cup {task} \in SUBSET RestartTask /\ task \in Maybe(RestartTask)
    BY <2>2, <2>3, <2>4 DEF Maybe
  <2>7. d \in CampaignType
    BY <2>1, <2>6 DEF CampaignType
  <2>8. OnItsWay(d, g)
    BY <2>2, <2>3, <2>5 DEF OnItsWay
  <2> QED BY <2>5, <2>7, <2>8
<1> QED BY <1>1, <1>2

LEMMA InitCampaign == Init => CampaignInvariant
BY DEF Init, CampaignInvariant, CampaignType, Maybe

(* A step that leaves the campaign and the power keeps its invariant.      *)
LEMMA SameCampaign ==
    ASSUME CampaignInvariant, UNCHANGED <<power, restart, expired>>, now' \in Nat
    PROVE  CampaignInvariant'
BY DEF CampaignInvariant, RestartOnItsWay, power

(* A failed attempt is followed by another one, or it was the last.        *)
LEMMA FailedCampaign ==
    ASSUME CampaignInvariant, NEW c \in CampaignType, RestartFails(c)
    PROVE  CampaignInvariant'
<1> DEFINE tried == [c EXCEPT !.attempts = @ + 1]
<1>1. tried \in CampaignType
  BY DEF CampaignType
<1>2. now \in Nat /\ generation \in Nat /\ UNCHANGED <<now, power, expired>>
  BY DEF CampaignInvariant, RestartFails
<1>3. CASE Exhausts(tried.attempts)
  <2>1. restart' = [tried EXCEPT !.phase = "restart_exhausted", !.exhausted = TRUE, !.next = None]
    BY <1>3 DEF RestartFails
  <2> HIDE DEF tried
  <2>2. restart' \in CampaignType /\ restart'.exhausted
    BY <1>1, <2>1 DEF CampaignType, Maybe
  <2> QED BY <1>2, <2>2 DEF CampaignInvariant, power
<1>4. CASE ~Exhausts(tried.attempts)
  <2> DEFINE again == [tried EXCEPT !.phase = "restart_wait", !.next = now + RetryInterval]
  <2>1. restart' \in Scheduled(again, generation)
    BY <1>4 DEF RestartFails
  <2> HIDE DEF tried
  <2>2. now + RetryInterval \in Nat
    BY <1>2, SupervisorConstants
  <2>3. again \in CampaignType /\ again.next \in Nat
    BY <1>1, <2>2 DEF CampaignType, Maybe
  <2> HIDE DEF again
  <2>4. restart' \in CampaignType /\ restart'.next \in Nat /\ OnItsWay(restart', generation)
    BY <1>2, <2>1, <2>3, ScheduledCampaign
  <2> QED BY <1>2, <2>4 DEF CampaignInvariant, RestartOnItsWay, OnItsWay, power
<1> QED BY <1>3, <1>4

(* A successful restart ends the campaign.                                 *)
LEMMA EndedCampaign ==
    ASSUME CampaignInvariant, NEW c \in CampaignType, RestartSucceeds(c)
    PROVE  CampaignInvariant'
<1>1. PICK rest \in Cancelled(c.tasks, c.handle) :
        restart' = [c EXCEPT !.phase = "normal", !.campaign = @ + 1, !.attempts = @ + 1,
                             !.next = None, !.tasks = rest, !.handle = None]
  BY DEF RestartSucceeds
<1>2. rest \in SUBSET RestartTask
  BY <1>1 DEF Cancelled, CampaignType
<1>3. restart' \in CampaignType
  <2>1. /\ c.campaign + 1 \in Nat /\ c.attempts + 1 \in Nat
        /\ None \in Maybe(Nat) /\ None \in Maybe(RestartTask)
    BY DEF CampaignType, Maybe
  <2>2. restart' = [c EXCEPT !.phase = "normal", !.campaign = c.campaign + 1, !.attempts = c.attempts + 1,
                             !.next = None, !.tasks = rest, !.handle = None]
    BY <1>1
  <2> QED BY <1>2, <2>1, <2>2 DEF CampaignType
<1>4. normalActive' = TRUE /\ UNCHANGED <<now, generation>>
  BY DEF RestartSucceeds
<1> QED BY <1>3, <1>4 DEF CampaignInvariant

(* The callback of a restart: it is the one awaited, or the one awaited is *)
(* still to come.                                                          *)
LEMMA CalledCampaign ==
    ASSUME CampaignInvariant, NEW task \in restart.tasks, RestartCallback(task)
    PROVE  CampaignInvariant'
<1> DEFINE consumed == [restart EXCEPT !.tasks = @ \ {task}]
           current == task.campaign = restart.campaign /\ task.generation = generation /\ ~normalActive
<1>1. restart \in CampaignType /\ now \in Nat /\ generation \in Nat
  BY DEF CampaignInvariant
<1>2. /\ consumed \in CampaignType /\ consumed.tasks = restart.tasks \ {task}
      /\ consumed.next = restart.next /\ consumed.exhausted = restart.exhausted
      /\ consumed.campaign = restart.campaign
  BY <1>1 DEF CampaignType
<1>3. task.at \in Nat
  BY <1>1 DEF CampaignType, RestartTask
<1>4. ASSUME ~normalActive, ~expired, ~restart.exhausted, ~current \/ task.at < restart.next
      PROVE  restart.next \in Nat /\ OnItsWay(consumed, generation)
  <2>1. PICK w \in restart.tasks :
          w.campaign = restart.campaign /\ w.generation = generation /\ w.at >= restart.next
    BY <1>4 DEF CampaignInvariant, RestartOnItsWay
  <2>2. restart.next \in Nat /\ w.at \in Nat
    BY <1>1, <1>4, <2>1 DEF CampaignInvariant, CampaignType, RestartTask
  <2>3. w # task
    BY <1>3, <1>4, <2>1, <2>2
  <2> HIDE DEF consumed
  <2> QED BY <1>2, <2>1, <2>2, <2>3 DEF OnItsWay
<1>5. CASE current /\ now >= task.at
  <2> DEFINE c == [consumed EXCEPT !.handle = None]
  <2>1. RestartSucceeds(c) \/ RestartFails(c) \/ RestartRefused(c)
    BY <1>5 DEF RestartCallback
  <2>2. /\ c \in CampaignType /\ c.tasks = consumed.tasks /\ c.next = restart.next
        /\ c.exhausted = restart.exhausted /\ c.campaign = restart.campaign
    <3> HIDE DEF consumed
    <3> QED BY <1>2 DEF CampaignType, Maybe
  <2> HIDE DEF c
  <2>3. CASE RestartRefused(c)
    <3>1. restart' = c /\ UNCHANGED <<now, power, expired>> /\ ~MayRestart(c)
      BY <2>3 DEF RestartRefused
    <3>2. SUFFICES ASSUME ~normalActive, ~expired, ~restart.exhausted
                   PROVE  restart.next \in Nat /\ OnItsWay(c, generation)
      BY <1>1, <2>2, <3>1 DEF CampaignInvariant, RestartOnItsWay, OnItsWay, power
    <3>3. restart.next \in Nat /\ now < restart.next
      BY <1>1, <2>2, <3>1, <3>2 DEF MayRestart, CampaignInvariant
    <3>4. task.at < restart.next
      BY <1>1, <1>3, <1>5, <3>3
    <3>5. OnItsWay(consumed, generation)
      BY <1>4, <3>2, <3>4
    <3> HIDE DEF consumed
    <3> QED BY <1>2, <2>2, <3>3, <3>5 DEF OnItsWay
  <2> QED BY <2>1, <2>2, <2>3, FailedCampaign, EndedCampaign
<1>6. CASE ~(current /\ now >= task.at)
  <2>1. /\ restart' \in (IF current THEN Scheduled(consumed, generation) ELSE {consumed})
        /\ UNCHANGED <<now, power, expired>>
    BY <1>6 DEF RestartCallback, Rescheduled
  <2>2. CASE current
    <3>1. restart' \in Scheduled(consumed, generation)
      BY <2>1, <2>2
    <3> HIDE DEF consumed
    <3>2. /\ restart' \in CampaignType /\ restart'.next = restart.next
          /\ restart'.exhausted = restart.exhausted
          /\ restart.next \in Nat => OnItsWay(restart', generation)
      BY <1>1, <1>2, <3>1, ScheduledCampaign
    <3> QED BY <1>1, <2>1, <3>2 DEF CampaignInvariant, RestartOnItsWay, OnItsWay, power
  <2>3. CASE ~current
    <3>1. restart' = consumed
      BY <2>1, <2>3
    <3>2. (~normalActive /\ ~expired /\ ~restart.exhausted) =>
             restart.next \in Nat /\ OnItsWay(consumed, generation)
      BY <1>4, <2>3
    <3> HIDE DEF consumed
    <3> QED BY <1>1, <1>2, <2>1, <3>1, <3>2 DEF CampaignInvariant, RestartOnItsWay, OnItsWay, power
  <2> QED BY <2>2, <2>3
<1> QED BY <1>5, <1>6

(* A reported failure opens a campaign.                                    *)
LEMMA OpenedCampaign ==
    ASSUME CampaignInvariant, NEW stops \in BOOLEAN, ReportFatal(stops)
    PROVE  CampaignInvariant'
<1> DEFINE c == [restart EXCEPT !.phase = "failsafe", !.campaign = @ + 1,
                                !.exhausted = FALSE, !.next = now + RetryInterval]
<1>1. /\ restart' \in Scheduled(c, generation + 1)
      /\ now' = now /\ generation' = generation + 1
  BY DEF ReportFatal
<1>2. restart \in CampaignType /\ now + RetryInterval \in Nat /\ generation + 1 \in Nat /\ now \in Nat
  BY SupervisorConstants DEF CampaignInvariant
<1>3. c \in CampaignType /\ c.next \in Nat
  <2>1. restart.campaign + 1 \in Nat /\ now + RetryInterval \in Maybe(Nat)
    BY <1>2 DEF CampaignType, Maybe
  <2>2. c = [restart EXCEPT !.phase = "failsafe", !.campaign = restart.campaign + 1,
                            !.exhausted = FALSE, !.next = now + RetryInterval]
    OBVIOUS
  <2> HIDE DEF c
  <2>3. c \in CampaignType
    BY <1>2, <2>1, <2>2 DEF CampaignType
  <2>4. c.next = now + RetryInterval
    BY <1>2, <2>2 DEF CampaignType
  <2> QED BY <1>2, <2>3, <2>4
<1> HIDE DEF c
<1>4. restart' \in CampaignType /\ restart'.next \in Nat /\ OnItsWay(restart', generation + 1)
  BY <1>1, <1>2, <1>3, ScheduledCampaign
<1> QED BY <1>1, <1>2, <1>4 DEF CampaignInvariant, RestartOnItsWay, OnItsWay

(* So does an operator's reset.                                            *)
LEMMA ResetsCampaign ==
    ASSUME CampaignInvariant, ResetCampaign
    PROVE  CampaignInvariant'
<1>1. PICK rest \in Cancelled(restart.tasks, restart.handle) :
        restart' \in Scheduled([restart EXCEPT !.campaign = @ + 1, !.attempts = 0,
                                               !.exhausted = FALSE, !.next = now + RetryInterval,
                                               !.tasks = rest, !.handle = None,
                                               !.resets = @ + 1], generation)
  BY DEF ResetCampaign
<1> DEFINE c == [restart EXCEPT !.campaign = @ + 1, !.attempts = 0,
                                !.exhausted = FALSE, !.next = now + RetryInterval,
                                !.tasks = rest, !.handle = None, !.resets = @ + 1]
<1>2. restart \in CampaignType /\ now + RetryInterval \in Nat /\ generation \in Nat /\ now \in Nat
  BY SupervisorConstants DEF CampaignInvariant
<1>3. rest \in SUBSET RestartTask
  BY <1>1, <1>2 DEF Cancelled, CampaignType
<1>4. c \in CampaignType /\ c.next \in Nat
  <2>1. /\ restart.campaign + 1 \in Nat /\ restart.resets + 1 \in Nat
        /\ now + RetryInterval \in Maybe(Nat) /\ None \in Maybe(RestartTask)
    BY <1>2 DEF CampaignType, Maybe
  <2>2. c = [restart EXCEPT !.campaign = restart.campaign + 1, !.attempts = 0,
                            !.exhausted = FALSE, !.next = now + RetryInterval,
                            !.tasks = rest, !.handle = None, !.resets = restart.resets + 1]
    OBVIOUS
  <2> HIDE DEF c
  <2>3. c \in CampaignType
    BY <1>2, <1>3, <2>1, <2>2 DEF CampaignType
  <2>4. c.next = now + RetryInterval
    BY <1>2, <2>2 DEF CampaignType
  <2> QED BY <1>2, <2>3, <2>4
<1>5. restart' \in Scheduled(c, generation)
  BY <1>1
<1> HIDE DEF c
<1>6. restart' \in CampaignType /\ restart'.next \in Nat /\ OnItsWay(restart', generation)
  BY <1>2, <1>4, <1>5, ScheduledCampaign
<1>7. UNCHANGED <<now, power>>
  BY DEF ResetCampaign
<1> QED BY <1>2, <1>6, <1>7 DEF CampaignInvariant, RestartOnItsWay, OnItsWay, power

(* A manual recovery that ends gives up the schedule, and says so.         *)
LEMMA ManualCampaign ==
    ASSUME CampaignInvariant, NEW task \in manual.tasks, ManualCallback(task)
    PROVE  CampaignInvariant'
<1>1. UNCHANGED <<now, power>>
  BY DEF ManualCallback
<1>2. CASE UNCHANGED <<restart, expired>>
  BY <1>1, <1>2, SameCampaign DEF CampaignInvariant
<1>3. CASE /\ expired' = TRUE
           /\ restart' = [restart EXCEPT !.phase = "failsafe", !.exhausted = FALSE,
                                         !.next = now + RetryInterval]
  <2>1. restart \in CampaignType /\ now + RetryInterval \in Nat /\ generation \in Nat /\ now \in Nat
    BY SupervisorConstants DEF CampaignInvariant
  <2>2. restart' \in CampaignType
    BY <1>3, <2>1 DEF CampaignType, Maybe
  <2> QED BY <1>1, <1>3, <2>1, <2>2 DEF CampaignInvariant, power
<1> QED BY <1>2, <1>3 DEF ManualCallback

LEMMA StepCampaign == CampaignInvariant /\ [Next]_vars => CampaignInvariant'
<1> SUFFICES ASSUME CampaignInvariant, [Next]_vars PROVE CampaignInvariant'
  OBVIOUS
<1>1. now \in Nat /\ restart \in CampaignType
  BY DEF CampaignInvariant
<1>2. CASE Tick \/ UNCHANGED vars
  <2>1. UNCHANGED <<power, restart, expired>> /\ now' \in Nat
    BY <1>1, <1>2 DEF Tick, vars
  <2> QED BY <2>1, SameCampaign
<1>3. ASSUME NEW r \in Requests, NormalRequest(r) PROVE CampaignInvariant'
  <2>1. UNCHANGED <<power, restart, expired, now>>
    BY <1>3 DEF NormalRequest, Normal!Hold, Normal!Execute, Normal!ExecuteFails
  <2> QED BY <1>1, <2>1, SameCampaign
<1>4. ASSUME NEW g \in late, NEW action \in Actions, LateCommand(g, action) PROVE CampaignInvariant'
  BY <1>1, <1>4, SameCampaign DEF LateCommand
<1>5. CASE RequestRestart
  BY <1>1, <1>5, EndedCampaign, FailedCampaign DEF RequestRestart
<1>6. CASE ActivateManual
  BY <1>1, <1>6, SameCampaign DEF ActivateManual
<1>7. ASSUME NEW reading \in Maybe(Readings), UpdateTrusted(reading) PROVE CampaignInvariant'
  BY <1>1, <1>7, SameCampaign DEF UpdateTrusted
<1>8. ASSUME NEW state \in ReportStates, ReportToSupervisor(state) PROVE CampaignInvariant'
  BY <1>1, <1>8, SameCampaign DEF ReportToSupervisor
<1>9. CASE ReportToRuntime
  BY <1>1, <1>9, SameCampaign DEF ReportToRuntime
<1> QED
  BY <1>2, <1>3, <1>4, <1>5, <1>6, <1>7, <1>8, <1>9,
     OpenedCampaign, CalledCampaign, ResetsCampaign, ManualCampaign DEF Next

(* No attempt, reset, refused or early callback loses the campaign, for    *)
(* every retry interval, budget and timer                                  *)
(* (runtime_supervisor.py:178-235, 303-313, 386-402).                      *)
THEOREM CampaignGoesOn == Spec => []RestartIsScheduled
<1>1. CampaignInvariant => RestartIsScheduled
  BY DEF CampaignInvariant, RestartIsScheduled
<1> QED BY <1>1, InitCampaign, StepCampaign, PTL DEF Spec
------------------------------------------------------------------------------
(* Who knows the last command.  The snapshot of the controller in charge,  *)
(* handed over in both directions, has the last executed command as its    *)
(* history, or no command at all when the last one is forgotten.           *)

(* The mode of a failsafe has the fields of a mode, and a failsafe those   *)
(* of a failsafe.                                                          *)
IsMode(m) == m = ModeState(m.mode, m.manual, m.until, m.safeHeat)

IsFailsafe(f) ==
    /\ {"generation", "mode", "sc", "report"} \subseteq DOMAIN f
    /\ f.sc \in Maybe(States(Time))
    /\ f.mode # None => IsMode(f.mode)

(* The commands are of the past.                                           *)
PastCommand(c, t) == c = None \/ (c \in Command /\ c.at <= t)

(* The command the controllers should know of.                             *)
Remembered == IF Forgotten THEN None ELSE source

(* A failsafe in emergency-off has sent its disable, or failed to.         *)
TurnsOff(f, c) ==
    f.mode.mode = "emergency_off" => (c # None /\ c.action = "disable") \/ f.sc.outcome = "failed"

Ranked ==
    /\ commander \in Int /\ uninformed \in Int
    /\ commander <= InPower /\ uninformed <= InPower

Knowledge ==
    /\ now \in Time
    /\ normalActive \in BOOLEAN
    /\ attached = normalActive
    /\ sc \in Maybe(States(Time))
    /\ PastCommand(source, now)
    /\ Ranked
    /\ (failsafe # None \/ ~normalActive) => IsFailsafe(failsafe)
    /\ normalActive => KnowsCommand(sc, Remembered)
    /\ ~normalActive => KnowsCommand(failsafe.sc, Remembered)
    /\ ~normalActive => TurnsOff(failsafe, Remembered)

KnowledgeInvariant == AuthorityInvariant /\ Knowledge

LEMMA TimeIsInt == Time \subseteq Int /\ Time \subseteq Nat
BY SupervisorConstants DEF Time

(* FailsafeRuntime.evaluate asks for a command; in emergency-off it is a   *)
(* disable.                                                                *)
LEMMA FailsafeAction ==
    ASSUME NEW f, f.mode # None => IsMode(f.mode), NEW evidence, NEW manualRecovery
    PROVE  LET mode == FailsafeMode(evidence, manualRecovery)
               assessment == FailsafeAssessment(f, evidence, mode)
               action == IF assessment.action = None THEN "disable" ELSE assessment.action
           IN  /\ action \in Actions
               /\ IsMode(assessment.state)
               /\ assessment.state.mode = "emergency_off" => mode = "emergency_off"
               /\ mode = "emergency_off" => action = "disable"
<1> DEFINE mode == FailsafeMode(evidence, manualRecovery)
           before == IF f.mode = None THEN InitialMode ELSE f.mode
           active == IF before.mode = mode THEN before ELSE ActivatedMode(before, mode, now)
           assessment == AssessMode(active, None, evidence, None, now)
<1>1. mode \in {"manual_recovery_heat", "safe_heating", "emergency_off"}
  BY DEF FailsafeMode
<1>2. IsMode(active) /\ active.mode = mode
  <2>1. IsMode(before)
    BY DEF IsMode, InitialMode, ModeState
  <2> HIDE DEF before, mode
  <2>2. IsMode(ActivatedMode(before, mode, now)) /\ ActivatedMode(before, mode, now).mode = mode
    BY DEF ActivatedMode, IsMode, ModeState
  <2> QED BY <2>1, <2>2
<1>3. FailsafeAssessment(f, evidence, mode) = assessment
  BY DEF FailsafeAssessment
<1> HIDE DEF mode, active
<1>4. CASE mode = "emergency_off"
  <2>1. assessment = ModeAssessment(active, "disable", TRUE, None)
    BY <1>2, <1>4 DEF AssessMode
  <2>2. assessment.action = "disable" /\ assessment.state = active
    BY <2>1 DEF ModeAssessment
  <2> HIDE DEF assessment
  <2> QED BY <1>2, <1>3, <1>4, <2>2, NoneIsNoAction DEF mode, Actions
<1>5. CASE mode = "manual_recovery_heat"
  <2>1. assessment = AssessManual(active, None, now)
    BY <1>2, <1>5 DEF AssessMode
  <2>2. /\ assessment.action \in Actions
        /\ assessment.state \in {[active EXCEPT !.manual = TRUE], ModeState("normal", TRUE, None, None)}
    BY <2>1 DEF AssessManual, ModeAssessment, Actions
  <2>3. \A m \in {[active EXCEPT !.manual = TRUE], ModeState("normal", TRUE, None, None)} :
          IsMode(m) /\ m.mode # "emergency_off"
    BY <1>2, <1>5 DEF IsMode, ModeState
  <2> HIDE DEF assessment
  <2> QED BY <1>3, <1>5, <2>2, <2>3, NoneIsNoAction DEF mode
<1>6. CASE mode = "safe_heating"
  <2>1. assessment = AssessSafeHeating(active, evidence, None)
    BY <1>2, <1>6 DEF AssessMode
  <2>2. /\ assessment.action \in Actions \cup {None}
        /\ \E x : assessment.state = [active EXCEPT !.safeHeat = x]
    <3> DEFINE reading == IF SafeProfile = None THEN None ELSE SafeReading(evidence, None)
               heat == SafeHeat(active.safeHeat, reading)
    <3>1. assessment =
            IF reading = None
            THEN ModeAssessment([active EXCEPT !.safeHeat = None], None, FALSE, None)
            ELSE ModeAssessment([active EXCEPT !.safeHeat = heat],
                                IF heat THEN "enable" ELSE "disable", FALSE, None)
      BY <2>1 DEF AssessSafeHeating
    <3> HIDE DEF assessment, reading, heat
    <3>2. /\ assessment.action \in {None, IF heat THEN "enable" ELSE "disable"}
          /\ assessment.state \in {[active EXCEPT !.safeHeat = None], [active EXCEPT !.safeHeat = heat]}
      BY <3>1 DEF ModeAssessment
    <3>3. (IF heat THEN "enable" ELSE "disable") \in Actions
      BY DEF Actions
    <3> HIDE DEF heat
    <3>4. \E x : assessment.state = [active EXCEPT !.safeHeat = x]
      BY <3>2
    <3> QED BY <3>2, <3>3, <3>4
  <2>3. \A x : IsMode([active EXCEPT !.safeHeat = x]) /\ [active EXCEPT !.safeHeat = x].mode = mode
    BY <1>2 DEF IsMode, ModeState
  <2> HIDE DEF assessment
  <2> QED BY <1>3, <1>6, <2>2, <2>3, NoneIsNoAction DEF mode, Actions
<1> QED BY <1>1, <1>4, <1>5, <1>6

(* What one evaluation of the failsafe f does to the source and to what f  *)
(* knows of it: it sends nothing, or a command that f then knows of.       *)
LEMMA EvaluationSound ==
    ASSUME now \in Time, NEW f, IsFailsafe(f), NEW evidence, NEW manualRecovery, NEW owner,
           EvaluateFailsafe(f, evidence, manualRecovery, owner)
    PROVE  /\ IsFailsafe(failsafe')
           /\ ~Owns(FailsafePort(f.generation), owner) => UNCHANGED <<source, commander>>
           /\ \A known \in {None, source} :
                PastCommand(source, now) /\ KnowsCommand(f.sc, known) =>
                  /\ PastCommand(source', now)
                  /\ \/ /\ UNCHANGED <<source, commander>>
                        /\ KnowsCommand(failsafe'.sc, known)
                        /\ TurnsOff(failsafe', known)
                     \/ /\ commander' = Rank(FailsafePort(f.generation))
                        /\ KnowsCommand(failsafe'.sc, source')
                        /\ TurnsOff(failsafe', source')
                        /\ known = source => Protection!Execute
<1> DEFINE mode == FailsafeMode(evidence, manualRecovery)
           assessment == FailsafeAssessment(f, evidence, mode)
           action == IF assessment.action = None THEN "disable" ELSE assessment.action
           safety == HasSafetyAuthority(mode)
           current == IF f.sc = None THEN InitialState(now) ELSE f.sc
           v == Verdict(current, action, now, safety, FALSE, None)
           a == Assessed(current, action, now, safety, FALSE, None)
           m == assessment.state
           c == [action |-> action, at |-> now, safety |-> safety]
<1>1. /\ action \in Actions /\ IsMode(m)
      /\ m.mode = "emergency_off" => action = "disable" /\ safety
  <2>1. f.mode # None => IsMode(f.mode)
    BY DEF IsFailsafe
  <2>2. /\ action \in Actions /\ IsMode(m)
        /\ m.mode = "emergency_off" => mode = "emergency_off"
        /\ mode = "emergency_off" => action = "disable"
    BY <2>1, FailsafeAction
  <2> HIDE DEF mode, assessment
  <2> QED BY <2>2 DEF HasSafetyAuthority
<1>2. safety \in BOOLEAN
  BY DEF HasSafetyAuthority
<1>3. current \in States(Time) /\ current # None /\ (f.sc # None => current = f.sc)
      /\ (f.sc = None => current.last = None)
  <2>1. InitialState(now) \in States(Time) /\ InitialState(now).last = None
    BY TimeIsInt, InitialStateType DEF InitialState
  <2>2. f.sc \in Maybe(States(Time))
    BY DEF IsFailsafe
  <2> QED BY <2>1, <2>2, NoneIsNoSnapshot DEF Maybe
<1>4. \E snapshot :
        /\ failsafe' = [f EXCEPT !.mode = m, !.sc = snapshot]
        /\ \/ ~Dispatches(v) /\ snapshot = a /\ UNCHANGED <<source, commander>>
           \/ /\ Dispatches(v) /\ Owns(FailsafePort(f.generation), owner)
              /\ snapshot = RecordDispatched(a, v, now) /\ source' = c
              /\ commander' = Rank(FailsafePort(f.generation))
           \/ Dispatches(v) /\ snapshot = RecordFailed(a, now) /\ UNCHANGED <<source, commander>>
  BY DEF EvaluateFailsafe, Executed
<1> HIDE DEF mode, assessment, action, safety, current, m
<1>5. None \in Maybe(Evidence(Time)) /\ FALSE \in BOOLEAN
  BY DEF Maybe
<1>6. a \in States(Time) /\ AssessedAs(a, current, action, now)
  BY <1>1, <1>2, <1>3, <1>5, TimeIsInt, AssessedType, AssessedFields
<1>7. a.demand = action /\ KeepsCommands(a, current) /\ a # None
  BY <1>6, NoneIsNoSnapshot DEF AssessedAs
<1>8. PICK snapshot :
        /\ failsafe' = [f EXCEPT !.mode = m, !.sc = snapshot]
        /\ \/ ~Dispatches(v) /\ snapshot = a /\ UNCHANGED <<source, commander>>
           \/ /\ Dispatches(v) /\ Owns(FailsafePort(f.generation), owner)
              /\ snapshot = RecordDispatched(a, v, now) /\ source' = c
              /\ commander' = Rank(FailsafePort(f.generation))
           \/ Dispatches(v) /\ snapshot = RecordFailed(a, now) /\ UNCHANGED <<source, commander>>
  BY <1>4
<1>9. /\ failsafe'.mode = m /\ failsafe'.sc = snapshot
      /\ {"generation", "mode", "sc", "report"} \subseteq DOMAIN failsafe'
  BY <1>8 DEF IsFailsafe
<1>10. RecordDispatched(a, v, now) \in States(Time) /\ RecordFailed(a, now) \in States(Time)
  BY <1>1, <1>6, <1>7, TimeIsInt, RecordedType
<1>11. IsFailsafe(failsafe')
  BY <1>1, <1>6, <1>8, <1>9, <1>10 DEF IsFailsafe, Maybe
<1>12. ASSUME NEW known \in {None, source}, PastCommand(source, now), KnowsCommand(f.sc, known)
       PROVE  /\ PastCommand(source', now)
              /\ \/ /\ UNCHANGED <<source, commander>>
                    /\ KnowsCommand(snapshot, known)
                    /\ TurnsOff(failsafe', known)
                 \/ /\ commander' = Rank(FailsafePort(f.generation))
                    /\ KnowsCommand(snapshot, source')
                    /\ TurnsOff(failsafe', source')
                    /\ known = source => Protection!Execute
  <2>1. KnowsCommand(current, known)
    BY <1>3, <1>12 DEF KnowsCommand
  <2>2. now \in Int
    BY TimeIsInt
  <2>3. CASE ~Dispatches(v) /\ snapshot = a /\ UNCHANGED <<source, commander>>
    <3>1. KnowsCommand(a, known)
      BY <1>3, <1>7, <2>1, KnowledgeIsKept
    <3>2. ASSUME m.mode = "emergency_off" PROVE known # None /\ known.action = "disable"
      <4>1. ~Dispatches(Verdict(current, "disable", now, TRUE, FALSE, None))
        BY <1>1, <2>3, <3>2
      <4>2. current.last = "disable"
        BY <2>2, <4>1, SafetyDisableGoesThrough
      <4> QED BY <1>3, <2>1, <4>2, NoneIsNoAction DEF KnowsCommand, Actions
    <3> QED BY <1>9, <1>12, <2>3, <3>1, <3>2 DEF TurnsOff
  <2>4. CASE Dispatches(v) /\ snapshot = RecordFailed(a, now) /\ UNCHANGED <<source, commander>>
    <3>1. AssessedAs(snapshot, a, a.demand, now) /\ snapshot # None
      BY <1>6, <1>10, <2>4, TimeIsInt, FailedFields, NoneIsNoSnapshot
    <3>2. KeepsCommands(snapshot, current)
      BY <1>7, <3>1 DEF AssessedAs, KeepsCommands
    <3>3. KnowsCommand(snapshot, known)
      BY <1>3, <2>1, <3>1, <3>2, KnowledgeIsKept
    <3>4. snapshot.outcome = "failed"
      BY <1>6, <2>4 DEF RecordFailed, States
    <3> QED BY <1>9, <1>12, <2>4, <3>3, <3>4 DEF TurnsOff
  <2>5. CASE /\ Dispatches(v) /\ snapshot = RecordDispatched(a, v, now) /\ source' = c
             /\ commander' = Rank(FailsafePort(f.generation))
    <3>1. c \in Command /\ c # None
      BY <1>1, <1>2, NoneIsNoSnapshot DEF Command
    <3>2. c.action = action /\ c.at = now /\ c.safety = safety
      OBVIOUS
    <3> HIDE DEF c
    <3>3. DispatchedAs(snapshot, a, now) /\ snapshot # None
      BY <1>1, <1>6, <1>7, <1>10, <2>5, TimeIsInt, DispatchedFields, NoneIsNoSnapshot
    <3>4. KnowsCommand(snapshot, c)
      BY <1>1, <1>7, <3>1, <3>2, <3>3, KnowledgeIsGained
    <3>5. PastCommand(c, now)
      BY <2>2, <3>1, <3>2 DEF PastCommand
    <3>6. TurnsOff(failsafe', c)
      BY <1>1, <1>9, <3>1, <3>2 DEF TurnsOff
    <3>7. ASSUME source # None
          PROVE  source.at \in Int /\ source.at <= now
      BY <1>12, <3>7, TimeIsInt DEF PastCommand, Command
    <3>8. ASSUME known = source PROVE Protection!RespectsRest(c)
      <4>1. SUFFICES ASSUME source # None, source.action = "disable", action = "enable"
                     PROVE  now >= source.at + MinOff
        BY <3>2 DEF Protection!RespectsRest
      <4>2. ~ProtectedOff(current, now)
        BY <1>2, <1>5, <2>2, <2>5, <4>1, EnableWaits
      <4> QED BY <2>1, <2>2, <3>7, <3>8, <4>1, <4>2, KnownRest
    <3>9. ASSUME known = source PROVE Protection!RespectsRun(c)
      <4>1. SUFFICES ASSUME source # None, source.action = "enable", action = "disable", ~safety
                     PROVE  now >= source.at + MinOn
        BY <3>2 DEF Protection!RespectsRun
      <4>2. safety = FALSE
        BY <1>2, <4>1
      <4>3. ~ProtectedOn(current, now)
        BY <1>5, <2>2, <2>5, <4>1, <4>2, DisableWaits
      <4> QED BY <2>1, <2>2, <3>7, <3>9, <4>1, <4>3, KnownRun
    <3>10. c \in Protection!Command
      BY <3>1 DEF Command, Protection!Command, Actions
    <3>11. known = source => Protection!Execute
      BY <2>5, <3>2, <3>7, <3>8, <3>9, <3>10 DEF Protection!Execute
    <3> QED BY <2>5, <3>4, <3>5, <3>6, <3>11
  <2> QED BY <1>8, <2>3, <2>4, <2>5
<1> QED BY <1>8, <1>9, <1>11, <1>12
(* The normal runtime decides by the same policy.                          *)
LEMMA SamePolicy ==
    ASSUME NEW s, NEW action, NEW t, NEW safety, NEW corrective, NEW evidence
    PROVE  /\ Normal!Verdict(s, action, t, safety, corrective, evidence)
                = Verdict(s, action, t, safety, corrective, evidence)
           /\ Normal!Assessed(s, action, t, safety, corrective, evidence)
                = Assessed(s, action, t, safety, corrective, evidence)
<1>1. /\ Normal!BlockingLockout(s, action, t, corrective, evidence)
           = BlockingLockout(s, action, t, corrective, evidence)
      /\ Normal!NoLockout = NoLockout
  BY DEF Normal!BlockingLockout, BlockingLockout, Normal!DispatchedLockout, DispatchedLockout,
         Normal!ReportedLockout, ReportedLockout, Normal!NoLockout, NoLockout,
         Normal!ProtectedOn, ProtectedOn, Normal!ProtectedOff, ProtectedOff
<1>2. Normal!Verdict(s, action, t, safety, corrective, evidence)
        = Verdict(s, action, t, safety, corrective, evidence)
  BY <1>1 DEF Normal!Verdict, Verdict, Normal!Bypasses, Bypasses
<1>3. /\ Normal!BypassState(s, action, t) = BypassState(s, action, t)
      /\ Normal!DuplicateState(s, action, t) = DuplicateState(s, action, t)
      /\ Normal!AllowedState(s, action, t) = AllowedState(s, action, t)
      /\ \A l : Normal!DeferredState(s, action, t, l) = DeferredState(s, action, t, l)
  BY DEF Normal!BypassState, BypassState, Normal!DuplicateState, DuplicateState,
         Normal!AllowedState, AllowedState, Normal!DeferredState, DeferredState,
         Normal!ClearDeferred, ClearDeferred, Normal!SettledPhase, SettledPhase,
         Normal!DeferredPhase, DeferredPhase
<1> QED BY <1>1, <1>2, <1>3 DEF Normal!Assessed, Assessed

LEMMA SameRecords ==
    ASSUME NEW s, NEW verdict, NEW t
    PROVE  /\ Normal!RecordDispatched(s, verdict, t) = RecordDispatched(s, verdict, t)
           /\ Normal!RecordFailed(s, t) = RecordFailed(s, t)
           /\ Normal!RecordSuppressedDuplicate(s, t) = RecordSuppressedDuplicate(s, t)
           /\ Normal!Dispatches(verdict) <=> Dispatches(verdict)
           /\ Normal!InitialState(t) = InitialState(t)
BY DEF Normal!RecordDispatched, RecordDispatched, Normal!RecordFailed, RecordFailed,
       Normal!RecordSuppressedDuplicate, RecordSuppressedDuplicate, Normal!Dispatches, Dispatches,
       Normal!InitialState, InitialState, Normal!ClearDeferred, ClearDeferred,
       Normal!SettledPhase, SettledPhase

(* What a request of the normal runtime does.                              *)
LEMMA RequestSound ==
    ASSUME now \in Time, sc \in Maybe(States(Time)), PastCommand(source, now),
           NEW known \in {None, source}, KnowsCommand(sc, known),
           NEW r \in Requests, NormalRequest(r)
    PROVE  /\ now' = now
           /\ sc' \in Maybe(States(Time))
           /\ PastCommand(source', now)
           /\ \/ UNCHANGED <<source, commander>> /\ KnowsCommand(sc', known)
              \/ /\ commander' = Rank(NormalPort(generation))
                 /\ KnowsCommand(sc', source')
                 /\ known = source => Protection!Execute
<1> DEFINE current == IF sc = None THEN InitialState(now) ELSE sc
           v == Verdict(current, r.action, now, r.safety, FALSE, None)
           a == Assessed(current, r.action, now, r.safety, FALSE, None)
           c == [action |-> r.action, at |-> now, safety |-> r.safety]
<1>1. r.action \in Actions /\ r.safety \in BOOLEAN /\ r.corrective = FALSE /\ r.evidence = None
  <2>1. r \in [action : Actions, safety : BOOLEAN, corrective : {FALSE}, evidence : {None}]
    <3>1. r \in Normal!Requests /\ ~r.corrective
      BY DEF Requests
    <3>2. ASSUME NEW x \in Normal!Actions,
                 r \in [action : {x}, safety : BOOLEAN, corrective : {TRUE}, evidence : Normal!Contradicting(x)]
          PROVE  FALSE
      <4>1. r.corrective = TRUE
        BY <3>2
      <4> QED BY <3>1, <4>1
    <3> QED BY <3>1, <3>2 DEF Normal!Requests, Normal!Actions, Actions
  <2> QED BY <2>1
<1>2. current \in States(Time) /\ current # None /\ KnowsCommand(current, known)
  <2>1. InitialState(now) \in States(Time) /\ InitialState(now).last = None
    BY TimeIsInt, InitialStateType DEF InitialState
  <2> QED BY <2>1, NoneIsNoSnapshot DEF Maybe, KnowsCommand
<1>3. None \in Maybe(Evidence(Time)) /\ FALSE \in BOOLEAN /\ now \in Int
  BY TimeIsInt DEF Maybe
<1>4. Normal!VerdictOn(r) = v /\ Normal!AssessedFor(r) = a
  <2>1. Normal!Current = current
    BY SameRecords DEF Normal!Current
  <2> HIDE DEF current
  <2>2. /\ Normal!VerdictOn(r) = Normal!Verdict(current, r.action, now, r.safety, FALSE, None)
        /\ Normal!AssessedFor(r) = Normal!Assessed(current, r.action, now, r.safety, FALSE, None)
    BY <1>1, <2>1 DEF Normal!VerdictOn, Normal!AssessedFor
  <2>3. Normal!Verdict(current, r.action, now, r.safety, FALSE, None) = v
    BY SamePolicy
  <2>4. Normal!Assessed(current, r.action, now, r.safety, FALSE, None) = a
    BY SamePolicy
  <2> QED BY <2>2, <2>3, <2>4
<1> HIDE DEF current
<1>5. a \in States(Time) /\ AssessedAs(a, current, r.action, now)
  BY <1>1, <1>2, <1>3, TimeIsInt, AssessedType, AssessedFields
<1>6. a.demand = r.action /\ KeepsCommands(a, current) /\ a # None
  BY <1>5, NoneIsNoSnapshot DEF AssessedAs
<1>7. /\ RecordDispatched(a, v, now) \in States(Time) /\ RecordFailed(a, now) \in States(Time)
      /\ RecordSuppressedDuplicate(a, now) \in States(Time)
  BY <1>1, <1>5, <1>6, TimeIsInt, RecordedType
<1>8. /\ now' = now
      /\ \/ sc' = a /\ UNCHANGED <<source, commander>>
         \/ /\ sc' \in {RecordFailed(a, now), RecordSuppressedDuplicate(a, now)}
            /\ UNCHANGED <<source, commander>>
         \/ /\ Dispatches(v) /\ sc' = RecordDispatched(a, v, now) /\ source' = c
            /\ commander' = Rank(NormalPort(generation))
  <2> HIDE DEF a, v
  <2> QED
    BY <1>4, SameRecords DEF NormalRequest, Normal!Hold, Normal!Execute, Normal!ExecuteFails
<1>9. CASE sc' = a /\ UNCHANGED <<source, commander>>
  BY <1>2, <1>5, <1>6, <1>8, <1>9, KnowledgeIsKept DEF Maybe
<1>10. CASE /\ sc' \in {RecordFailed(a, now), RecordSuppressedDuplicate(a, now)}
            /\ UNCHANGED <<source, commander>>
  <2>1. AssessedAs(sc', a, a.demand, now)
    BY <1>5, <1>10, TimeIsInt, FailedFields
  <2>2. sc' \in States(Time) /\ sc' # None /\ KeepsCommands(sc', current)
    BY <1>6, <1>7, <1>10, <2>1, NoneIsNoSnapshot DEF AssessedAs, KeepsCommands
  <2>3. KnowsCommand(sc', known)
    BY <1>2, <2>2, KnowledgeIsKept
  <2> QED BY <1>8, <1>10, <2>2, <2>3 DEF Maybe
<1>11. CASE /\ Dispatches(v) /\ sc' = RecordDispatched(a, v, now) /\ source' = c
            /\ commander' = Rank(NormalPort(generation))
  <2>1. c \in Command /\ c # None /\ c.action = r.action /\ c.at = now /\ c.safety = r.safety
    BY <1>1, NoneIsNoSnapshot DEF Command
  <2> HIDE DEF c
  <2>2. DispatchedAs(sc', a, now) /\ sc' \in States(Time) /\ sc' # None
    BY <1>1, <1>5, <1>6, <1>7, <1>11, TimeIsInt, DispatchedFields, NoneIsNoSnapshot
  <2>3. KnowsCommand(sc', c) /\ PastCommand(c, now)
    <3>1. KnowsCommand(sc', c)
      BY <1>1, <1>6, <2>1, <2>2, KnowledgeIsGained
    <3>2. PastCommand(c, now)
      BY <1>3, <2>1 DEF PastCommand
    <3> QED BY <3>1, <3>2
  <2>4. source # None => source.at \in Int /\ source.at <= now
    BY TimeIsInt DEF PastCommand, Command
  <2>5. ASSUME known = source PROVE Protection!RespectsRest(c)
    <3>1. SUFFICES ASSUME source # None, source.action = "disable", r.action = "enable"
                   PROVE  now >= source.at + MinOff
      BY <2>1 DEF Protection!RespectsRest
    <3>2. ~ProtectedOff(current, now)
      BY <1>1, <1>3, <1>11, <3>1, EnableWaits
    <3> QED BY <1>2, <1>3, <2>4, <2>5, <3>1, <3>2, KnownRest
  <2>6. ASSUME known = source PROVE Protection!RespectsRun(c)
    <3>1. SUFFICES ASSUME source # None, source.action = "enable", r.action = "disable", ~r.safety
                   PROVE  now >= source.at + MinOn
      BY <2>1 DEF Protection!RespectsRun
    <3>2. r.safety = FALSE
      BY <1>1, <3>1
    <3>3. ~ProtectedOn(current, now)
      BY <1>3, <1>11, <3>1, <3>2, DisableWaits
    <3> QED BY <1>2, <1>3, <2>4, <2>6, <3>1, <3>3, KnownRun
  <2>7. c \in Protection!Command
    BY <2>1 DEF Command, Protection!Command, Actions
  <2>8. known = source => Protection!Execute
    BY <1>11, <2>1, <2>4, <2>5, <2>6, <2>7 DEF Protection!Execute
  <2> QED BY <1>8, <1>11, <2>2, <2>3, <2>8 DEF Maybe
<1> QED BY <1>8, <1>9, <1>10, <1>11

LEMMA InitKnowledge == Init => KnowledgeInvariant
<1> SUFFICES ASSUME Init PROVE KnowledgeInvariant
  OBVIOUS
<1>1. now \in Time
  BY SupervisorConstants DEF Init, Time
<1>2. PastCommand(source, now) /\ KnowsCommand(sc, Remembered)
  BY DEF Init, PastCommand, KnowsCommand, Remembered
<1>3. Ranked
  BY DEF Init, Ranked, InPower, Rank
<1> QED BY <1>1, <1>2, <1>3, InitAuthority DEF Init, KnowledgeInvariant, Knowledge, Maybe

(* What a step does to the source: nothing, a command its protection       *)
(* allows, or the first one of a controller that was told nothing.         *)
Protects == source' = source \/ Protection!Execute \/ commander < uninformed'

LEMMA SameKnown ==
    ASSUME UNCHANGED <<source, commander, uninformed>>
    PROVE  Remembered' = Remembered
BY DEF Remembered, Forgotten

(* A command of the controller in charge is remembered.                    *)
LEMMA CommandIsKnown ==
    ASSUME Ranked, InPower \in Int, UNCHANGED power, commander' = InPower
    PROVE  Ranked' /\ Remembered' = source' /\ (Remembered = source \/ commander < uninformed')
<1>1. InPower' = InPower /\ uninformed' = uninformed
  BY DEF InPower, power
<1>2. uninformed \in Int /\ uninformed <= InPower /\ ~(InPower < uninformed)
  BY DEF Ranked
<1>3. Ranked' /\ ~Forgotten'
  BY <1>1, <1>2 DEF Ranked, Forgotten
<1>4. Forgotten => commander < uninformed'
  BY <1>1 DEF Forgotten
<1> QED BY <1>3, <1>4 DEF Remembered

LEMMA RankIsInt == AuthorityInvariant => InPower \in Int
BY DEF AuthorityInvariant, InPower, Rank

LEMMA SameRanks ==
    ASSUME Ranked, UNCHANGED <<power, commander>>
    PROVE  Ranked'
BY DEF Ranked, InPower, power

LEMMA SameKnowledge ==
    ASSUME Knowledge, UNCHANGED <<now, sc, source, commander, failsafe, power>>
    PROVE  Knowledge' /\ Protects
<1>1. Remembered' = Remembered /\ Ranked'
  BY SameKnown, SameRanks DEF Knowledge, power
<1> QED BY <1>1 DEF Knowledge, power, Protects

LEMMA EvaluatedKnowledge ==
    ASSUME AuthorityInvariant, Knowledge, failsafe # None \/ ~normalActive,
           UNCHANGED <<now, sc, power>>, NEW evidence, NEW manualRecovery,
           EvaluateFailsafe(failsafe, evidence, manualRecovery, <<authority, generation>>)
    PROVE  Knowledge' /\ Protects
<1>1. now \in Time /\ IsFailsafe(failsafe) /\ PastCommand(source, now) /\ Ranked
  BY DEF Knowledge
<1>2. Remembered \in {None, source}
  BY DEF Remembered
<1>3. /\ IsFailsafe(failsafe')
      /\ ~Owns(FailsafePort(failsafe.generation), <<authority, generation>>) =>
           UNCHANGED <<source, commander>>
      /\ KnowsCommand(failsafe.sc, Remembered) =>
           /\ PastCommand(source', now)
           /\ \/ /\ UNCHANGED <<source, commander>>
                 /\ KnowsCommand(failsafe'.sc, Remembered)
                 /\ TurnsOff(failsafe', Remembered)
              \/ /\ commander' = Rank(FailsafePort(failsafe.generation))
                 /\ KnowsCommand(failsafe'.sc, source')
                 /\ TurnsOff(failsafe', source')
                 /\ Remembered = source => Protection!Execute
  BY <1>1, <1>2, EvaluationSound
<1>4. UNCHANGED <<now, sc, normalActive, attached, uninformed>>
  BY DEF power
<1>5. CASE UNCHANGED <<source, commander>>
  <2>1. Remembered' = Remembered /\ Ranked'
    BY <1>1, <1>4, <1>5, SameKnown, SameRanks
  <2>2. CASE normalActive
    BY <1>1, <1>3, <1>4, <1>5, <2>1, <2>2 DEF Knowledge, Protects
  <2>3. CASE ~normalActive
    <3>1. KnowsCommand(failsafe.sc, Remembered)
      BY <2>3 DEF Knowledge
    <3>2. commander' = Rank(FailsafePort(failsafe.generation)) => Remembered' = source'
      <4>1. Rank(FailsafePort(failsafe.generation)) = InPower
        BY <2>3 DEF AuthorityInvariant, OneFailsafe, InPower, FailsafePort
      <4> QED BY <1>1, <4>1, RankIsInt, CommandIsKnown
    <3>3. KnowsCommand(failsafe'.sc, Remembered') /\ TurnsOff(failsafe', Remembered')
      BY <1>3, <2>1, <3>1, <3>2
    <3> QED BY <1>1, <1>3, <1>4, <1>5, <2>1, <2>3, <3>3 DEF Knowledge, Protects
  <2> QED BY <2>2, <2>3 DEF Knowledge
<1>6. CASE ~UNCHANGED <<source, commander>>
  <2>1. ~normalActive
    BY <1>3, <1>6 DEF AuthorityInvariant, Owns, FailsafePort
  <2>2. KnowsCommand(failsafe.sc, Remembered)
    BY <2>1 DEF Knowledge
  <2>3. /\ PastCommand(source', now)
        /\ commander' = Rank(FailsafePort(failsafe.generation))
        /\ KnowsCommand(failsafe'.sc, source') /\ TurnsOff(failsafe', source')
        /\ Remembered = source => Protection!Execute
    BY <1>3, <1>6, <2>2
  <2>4. commander' = InPower
    BY <2>1, <2>3 DEF AuthorityInvariant, OneFailsafe, InPower, FailsafePort
  <2>5. Ranked' /\ Remembered' = source' /\ (Remembered = source \/ commander < uninformed')
    BY <1>1, <2>4, RankIsInt, CommandIsKnown
  <2> QED BY <1>1, <1>3, <1>4, <2>1, <2>3, <2>5 DEF Knowledge, Protects
<1> QED BY <1>5, <1>6

(* A failure hands the knowledge over to the failsafe, a restart back.     *)
LEMMA FatalKnowledge ==
    ASSUME AuthorityInvariant, Knowledge, NEW stops \in BOOLEAN, ReportFatal(stops)
    PROVE  Knowledge' /\ Protects
<1> DEFINE known == IF attached THEN Remembered ELSE None
<1>1. /\ now \in Time /\ sc \in Maybe(States(Time)) /\ attached = normalActive
      /\ normalActive \in BOOLEAN /\ PastCommand(source, now) /\ Ranked
  BY DEF Knowledge
<1>2. IsFailsafe(Handover) /\ Handover.generation = generation + 1
  BY <1>1 DEF Handover, IsFailsafe, Maybe
<1>3. KnowsCommand(Handover.sc, known) /\ known \in {None, source}
  <2>1. known \in {None, source}
    BY DEF Remembered
  <2>2. CASE attached
    BY <1>1, <2>1, <2>2 DEF Handover, Knowledge
  <2>3. CASE ~attached
    BY <2>1, <2>3 DEF Handover, KnowsCommand
  <2> QED BY <2>2, <2>3
<1>4. EvaluateFailsafe(Handover, trusted, FALSE, <<"failsafe", generation + 1>>)
  BY DEF ReportFatal
<1> HIDE DEF known
<1>5. /\ IsFailsafe(failsafe')
      /\ PastCommand(source', now)
      /\ \/ /\ UNCHANGED <<source, commander>>
            /\ KnowsCommand(failsafe'.sc, known)
            /\ TurnsOff(failsafe', known)
         \/ /\ commander' = Rank(FailsafePort(generation + 1))
            /\ KnowsCommand(failsafe'.sc, source')
            /\ TurnsOff(failsafe', source')
            /\ known = source => Protection!Execute
  BY <1>1, <1>2, <1>3, <1>4, EvaluationSound
<1>6. sc' \in Maybe(States(Time))
  <2>1. CASE attached
    <3>1. sc' = IF sc = None THEN None ELSE StoppedState(sc, sc.at)
      BY <2>1 DEF ReportFatal
    <3>2. sc # None => sc \in States(Time) /\ sc.at \in Time
      BY <1>1 DEF Maybe, States
    <3> QED BY <3>1, <3>2, TimeIsInt, StoppedType DEF Maybe
  <2>2. CASE ~attached
    BY <1>1, <2>2 DEF ReportFatal
  <2> QED BY <2>1, <2>2
<1>7. /\ now' = now /\ normalActive' = FALSE /\ attached' = FALSE
      /\ authority' = "failsafe" /\ generation' = generation + 1
      /\ uninformed' = IF attached THEN uninformed ELSE Rank(FailsafePort(generation + 1))
  BY DEF ReportFatal
<1>8. /\ InPower' = 2 * generation + 1 /\ InPower <= 2 * generation
      /\ Rank(FailsafePort(generation + 1)) = 2 * generation + 1
  BY <1>7 DEF InPower, Rank, FailsafePort, AuthorityInvariant
<1>9. generation \in Nat
  BY DEF AuthorityInvariant
<1>10. /\ Ranked'
       /\ commander' = commander /\ source' = source => Remembered' = known
       /\ commander' = Rank(FailsafePort(generation + 1)) => Remembered' = source'
  <2>1. /\ commander \in Int /\ uninformed \in Int
        /\ commander <= 2 * generation /\ uninformed <= 2 * generation
    BY <1>1, <1>8, <1>9, RankIsInt DEF Ranked
  <2>2. uninformed' \in Int /\ uninformed' <= 2 * generation + 1
    BY <1>7, <1>8, <1>9, <2>1
  <2>3. commander' \in {commander, 2 * generation + 1}
    BY <1>5, <1>8
  <2>4. Ranked'
    BY <1>8, <1>9, <2>1, <2>2, <2>3 DEF Ranked
  <2>5. commander' = 2 * generation + 1 => ~Forgotten'
    BY <1>9, <2>2 DEF Forgotten
  <2>6. ~attached /\ commander' = commander => Forgotten'
    BY <1>7, <1>8, <1>9, <2>1 DEF Forgotten
  <2>7. attached /\ commander' = commander => (Forgotten' <=> Forgotten)
    BY <1>7 DEF Forgotten
  <2> QED BY <1>8, <2>4, <2>5, <2>6, <2>7 DEF Remembered, known
<1>11. known = source \/ commander < uninformed'
  <2>1. CASE attached
    <3>1. uninformed' = uninformed
      BY <1>7, <2>1
    <3> QED BY <2>1, <3>1 DEF known, Remembered, Forgotten
  <2>2. CASE ~attached
    <3>1. commander \in Int /\ commander <= 2 * generation
      BY <1>1, <1>8, <1>9, RankIsInt DEF Ranked
    <3>2. uninformed' = 2 * generation + 1
      BY <1>7, <1>8, <2>2
    <3> QED BY <1>9, <3>1, <3>2
  <2> QED BY <2>1, <2>2
<1>12. /\ KnowsCommand(failsafe'.sc, Remembered') /\ TurnsOff(failsafe', Remembered')
       /\ Protects
  <2>1. CASE /\ UNCHANGED <<source, commander>>
             /\ KnowsCommand(failsafe'.sc, known)
             /\ TurnsOff(failsafe', known)
    <3>1. Remembered' = known
      BY <1>10, <2>1
    <3> QED BY <2>1, <3>1 DEF Protects
  <2>2. CASE /\ commander' = Rank(FailsafePort(generation + 1))
             /\ KnowsCommand(failsafe'.sc, source')
             /\ TurnsOff(failsafe', source')
             /\ known = source => Protection!Execute
    <3>1. Remembered' = source'
      BY <1>10, <2>2
    <3> QED BY <1>11, <2>2, <3>1 DEF Protects
  <2> QED BY <1>5, <2>1, <2>2
<1> QED BY <1>1, <1>5, <1>6, <1>7, <1>10, <1>12 DEF Knowledge

LEMMA RestartKnowledge ==
    ASSUME AuthorityInvariant, Knowledge, ~normalActive, NEW c, RestartSucceeds(c) \/ RestartFails(c) \/ RestartRefused(c)
    PROVE  Knowledge' /\ Protects
<1>1. CASE RestartSucceeds(c)
  <2>1. /\ normalActive' = TRUE /\ attached' = TRUE /\ sc' = failsafe.sc
        /\ authority' = "normal"
        /\ UNCHANGED <<now, source, commander, failsafe, generation, uninformed>>
    BY <1>1 DEF RestartSucceeds
  <2>2. IsFailsafe(failsafe) /\ failsafe.sc \in Maybe(States(Time))
    BY DEF Knowledge, IsFailsafe
  <2>3. Remembered' = Remembered
    BY <2>1, SameKnown
  <2>4. InPower' = 2 * generation /\ InPower = 2 * generation - 1 /\ generation \in Nat
    BY <2>1 DEF InPower, Rank, AuthorityInvariant
  <2>5. Ranked'
    BY <2>1, <2>4 DEF Knowledge, Ranked
  <2> QED BY <2>1, <2>2, <2>3, <2>5 DEF Knowledge, Protects
<1>2. CASE RestartFails(c) \/ RestartRefused(c)
  <2>1. UNCHANGED <<now, sc, source, commander, failsafe, power>>
    BY <1>2 DEF RestartFails, RestartRefused, normal
  <2> QED BY <2>1, SameKnowledge
<1> QED BY <1>1, <1>2

LEMMA StepKnowledge ==
    ASSUME KnowledgeInvariant, [Next]_vars
    PROVE  KnowledgeInvariant' /\ Protects
<1>1. AuthorityInvariant /\ Knowledge /\ AuthorityInvariant'
  BY StepAuthority DEF KnowledgeInvariant
<1>2. SUFFICES Knowledge' /\ Protects
  BY <1>1 DEF KnowledgeInvariant
<1>3. CASE Tick
  <2>1. now' = now + 1 /\ now < MaxTime /\ UNCHANGED <<sc, source, commander, failsafe, power>>
    BY <1>3 DEF Tick, normal
  <2>2. now \in Time /\ now' \in Time
    BY <1>1, <2>1, SupervisorConstants DEF Knowledge, Time
  <2>3. PastCommand(source, now')
    <3>1. PastCommand(source, now) /\ now \in Int
      BY <1>1, <2>2, TimeIsInt DEF Knowledge
    <3>2. source \in Command => source.at \in Int
      BY TimeIsInt DEF Command
    <3> QED BY <2>1, <3>1, <3>2 DEF PastCommand
  <2>4. Remembered' = Remembered /\ Ranked'
    BY <1>1, <2>1, SameKnown, SameRanks DEF Knowledge, power
  <2> QED BY <1>1, <2>1, <2>2, <2>3, <2>4 DEF Knowledge, power, Protects
<1>4. ASSUME NEW r \in Requests, NormalRequest(r) PROVE Knowledge' /\ Protects
  <2>1. normalActive /\ authority = "normal" /\ UNCHANGED <<failsafe, power>>
    BY <1>1, <1>4 DEF NormalRequest, AuthorityInvariant
  <2>2. /\ now \in Time /\ sc \in Maybe(States(Time)) /\ PastCommand(source, now)
        /\ KnowsCommand(sc, Remembered) /\ Ranked
    BY <1>1, <2>1 DEF Knowledge
  <2>3. Remembered \in {None, source}
    BY DEF Remembered
  <2>4. /\ now' = now /\ sc' \in Maybe(States(Time)) /\ PastCommand(source', now)
        /\ \/ UNCHANGED <<source, commander>> /\ KnowsCommand(sc', Remembered)
           \/ /\ commander' = Rank(NormalPort(generation))
              /\ KnowsCommand(sc', source')
              /\ Remembered = source => Protection!Execute
    BY <1>4, <2>2, <2>3, RequestSound
  <2>5. UNCHANGED <<normalActive, attached, uninformed>>
    BY <2>1 DEF power
  <2>6. Ranked' /\ KnowsCommand(sc', Remembered') /\ Protects
    <3>1. CASE UNCHANGED <<source, commander>> /\ KnowsCommand(sc', Remembered)
      BY <2>1, <2>2, <2>5, <3>1, SameKnown, SameRanks DEF Protects
    <3>2. CASE /\ commander' = Rank(NormalPort(generation))
               /\ KnowsCommand(sc', source')
               /\ Remembered = source => Protection!Execute
      <4>1. commander' = InPower
        BY <2>1, <3>2 DEF InPower, NormalPort
      <4>2. Ranked' /\ Remembered' = source' /\ (Remembered = source \/ commander < uninformed')
        BY <1>1, <2>1, <2>2, <4>1, RankIsInt, CommandIsKnown
      <4> QED BY <3>2, <4>2 DEF Protects
    <3> QED BY <2>4, <3>1, <3>2
  <2> QED BY <1>1, <2>1, <2>4, <2>5, <2>6 DEF Knowledge
<1>5. ASSUME NEW g \in late, NEW action \in Actions, LateCommand(g, action) PROVE Knowledge' /\ Protects
  <2>1. ~Owns(NormalPort(g), <<authority, generation>>)
    BY <1>1 DEF AuthorityInvariant, Owns, NormalPort
  <2>2. UNCHANGED <<now, sc, source, commander, failsafe, power>>
    BY <1>5, <2>1 DEF LateCommand, normal
  <2> QED BY <1>1, <2>2, SameKnowledge
<1>6. ASSUME NEW stops \in BOOLEAN, ReportFatal(stops) PROVE Knowledge' /\ Protects
  BY <1>1, <1>6, FatalKnowledge
<1>7. CASE RequestRestart
  BY <1>1, <1>7, RestartKnowledge DEF RequestRestart
<1>8. ASSUME NEW task \in restart.tasks, RestartCallback(task) PROVE Knowledge' /\ Protects
  <2>1. \/ ~normalActive /\ \E c : RestartSucceeds(c) \/ RestartFails(c) \/ RestartRefused(c)
        \/ UNCHANGED <<now, normal, source, commander, failsafe, power>>
    BY <1>8 DEF RestartCallback
  <2> QED BY <1>1, <2>1, RestartKnowledge, SameKnowledge DEF normal
<1>9. CASE ResetCampaign
  <2>1. UNCHANGED <<now, sc, source, commander, failsafe, power>>
    BY <1>9 DEF ResetCampaign, normal
  <2> QED BY <1>1, <2>1, SameKnowledge
<1>10. CASE ActivateManual
  <2>1. UNCHANGED <<now, sc, power>>
    BY <1>10 DEF ActivateManual, normal
  <2>2. CASE failsafe = None
    <3>1. UNCHANGED <<failsafe, source, commander>>
      BY <1>10, <2>2 DEF ActivateManual
    <3> QED BY <1>1, <2>1, <3>1, SameKnowledge
  <2>3. CASE failsafe # None
    <3>1. EvaluateFailsafe(failsafe, trusted, TRUE, <<authority, generation>>)
      BY <1>10, <2>3 DEF ActivateManual
    <3> QED BY <1>1, <2>1, <2>3, <3>1, EvaluatedKnowledge
  <2> QED BY <2>2, <2>3
<1>11. ASSUME NEW task \in manual.tasks, ManualCallback(task) PROVE Knowledge' /\ Protects
  <2>1. UNCHANGED <<now, sc, power>>
    BY <1>11 DEF ManualCallback, normal
  <2>2. \/ UNCHANGED <<failsafe, source, commander>>
        \/ ~normalActive /\ EvaluateFailsafe(failsafe, trusted, FALSE, <<authority, generation>>)
    BY <1>11 DEF ManualCallback
  <2> QED BY <1>1, <2>1, <2>2, EvaluatedKnowledge, SameKnowledge
<1>12. ASSUME NEW reading \in Maybe(Readings), UpdateTrusted(reading) PROVE Knowledge' /\ Protects
  <2>1. UNCHANGED <<now, sc, power>>
    BY <1>12 DEF UpdateTrusted, normal
  <2>2. \/ UNCHANGED <<failsafe, source, commander>>
        \/ ~normalActive /\ EvaluateFailsafe(failsafe, reading, FALSE, <<authority, generation>>)
    BY <1>12 DEF UpdateTrusted
  <2> QED BY <1>1, <2>1, <2>2, EvaluatedKnowledge, SameKnowledge
<1>13. ASSUME NEW state \in ReportStates, ReportToSupervisor(state) PROVE Knowledge' /\ Protects
  <2>1. /\ UNCHANGED <<now, sc, source, commander, power>>
        /\ failsafe' = IF failsafe = None THEN None ELSE [failsafe EXCEPT !.report = state]
    BY <1>13 DEF ReportToSupervisor, normal
  <2>2. CASE failsafe = None
    BY <1>1, <2>1, <2>2, SameKnowledge
  <2>3. CASE failsafe # None
    <3>1. IsFailsafe(failsafe)
      BY <1>1, <2>3 DEF Knowledge
    <3>2. failsafe'.sc = failsafe.sc /\ failsafe'.mode = failsafe.mode /\ IsFailsafe(failsafe')
      BY <2>1, <2>3, <3>1 DEF IsFailsafe
    <3>3. UNCHANGED <<normalActive, attached, uninformed>>
      BY <2>1 DEF power
    <3>4. Remembered' = Remembered /\ Ranked'
      BY <1>1, <2>1, <3>3, SameKnown, SameRanks DEF Knowledge
    <3> QED BY <1>1, <2>1, <2>3, <3>2, <3>3, <3>4 DEF Knowledge, TurnsOff, Protects
  <2> QED BY <2>2, <2>3
<1>14. CASE ReportToRuntime \/ UNCHANGED vars
  <2>1. UNCHANGED <<now, sc, source, commander, failsafe, power>>
    BY <1>14 DEF ReportToRuntime, vars, normal
  <2> QED BY <1>1, <2>1, SameKnowledge
<1> QED
  BY <1>3, <1>4, <1>5, <1>6, <1>7, <1>8, <1>9, <1>10, <1>11, <1>12, <1>13, <1>14 DEF Next

(* Nothing is lost or invented in a handover, a failed restart or a manual *)
(* recovery.  The one thing that is lost is the history a failure reported *)
(* without an attached runtime finds nobody to take it from: the           *)
(* controllers then know of no command until one of them sends one         *)
(* (runtime_supervisor.py:152-176, 411-434; 02_Architecture.md:167-173).   *)
THEOREM NothingElseIsForgotten == Spec => []ControllerKnowsSource
<1>1. KnowledgeInvariant => ControllerKnowsSource
  <2>1. Knowledge => KnowsCommand(InCharge, Remembered)
    BY DEF Knowledge, InCharge
  <2> QED BY <2>1 DEF KnowledgeInvariant, KnowsCommand, Remembered, ControllerKnowsSource
<1>2. KnowledgeInvariant /\ [Next]_vars => KnowledgeInvariant'
  BY StepKnowledge
<1> QED BY <1>1, <1>2, InitKnowledge, PTL DEF Spec

(* A failsafe without trusted evidence gets the source off whatever its    *)
(* minimum-on time and however often the failure is reported, or its       *)
(* command failed (failsafe_runtime.py:76-134).                            *)
THEOREM EmergencyOffIsOff == Spec => []FailsafeTurnsOff
<1>1. KnowledgeInvariant => FailsafeTurnsOff
  BY DEF KnowledgeInvariant, Knowledge, TurnsOff, Remembered, FailsafeTurnsOff
<1>2. KnowledgeInvariant /\ [Next]_vars => KnowledgeInvariant'
  BY StepKnowledge
<1> QED BY <1>1, <1>2, InitKnowledge, PTL DEF Spec

(* Across failures and restarts the source gets its minimum times: every   *)
(* command is a step of SourceProtection, but for the first one after a    *)
(* failure that was reported while no runtime was attached.                *)
THEOREM ProtectionOutlivesFailures == Spec => SupervisedProtection
<1>1. KnowledgeInvariant /\ [Next]_vars =>
        KnowledgeInvariant' /\ [Protection!Next \/ commander < uninformed']_(Protection!vars)
  <2> SUFFICES ASSUME KnowledgeInvariant, [Next]_vars
               PROVE  /\ KnowledgeInvariant'
                      /\ \/ Protection!Next \/ commander < uninformed'
                         \/ UNCHANGED Protection!vars
    OBVIOUS
  <2>1. KnowledgeInvariant' /\ Protects
    BY StepKnowledge
  <2> QED BY <2>1 DEF Protects, Protection!Next, Protection!vars
<1>2. Init => Protection!Init
  BY DEF Init, Protection!Init
<1> QED BY <1>1, <1>2, InitKnowledge, PTL DEF Spec, SupervisedProtection
==============================================================================
