--------------------------- MODULE WaterSafetyHostProofs ---------------------------
(***************************************************************************)
(* What is proved of one Water Safety host, for every grace and repetition *)
(* interval, every number of readings, requests, restarts and failures of  *)
(* a stop: every snapshot is one the code can build, no reading is lost or *)
(* judged out of order, an alarm ends only by a dry reading, a saved alarm *)
(* was told, the one timer is armed, and a stop is final.                  *)
(***************************************************************************)
EXTENDS WaterSafetyHost, TLAPS

-----------------------------------------------------------------------------
(* THE RUNTIME'S OPERATIONS *)

(* What every operation may rely on in a snapshot: it is coherent, its     *)
(* incident is an earlier one and was wet no later than the latest         *)
(* reading, and only a repeating module repeats.                           *)
Fit(w) ==
    /\ w \in SnapshotType /\ Coherent(w)
    /\ w.incident # None => /\ w.latest # None /\ w.incident.wetAt <= w.latest.at
                            /\ w.incident.id < w.nextIncident
    /\ w.repeat # None => RepeatEvery # None

(* The state is the verdict on the latest reading. *)
Judged(w) ==
    /\ w.latest.cond = "wet" => w.state = "wet" /\ w.deadline = None
    /\ w.latest.cond = "dry" => w.state = "ok" /\ w.incident = None /\ w.deadline = None
    /\ w.latest.cond = "unknown" => w.state = "fault" \/ w.deadline # None

(* What AlarmEndsByDryReading says of one step. *)
AlarmKept(w, next) ==
    (w.incident # None /\ next.incident # w.incident) =>
        \/ next.incident = None /\ next.latest.cond = "dry"
           /\ next.latest.at >= w.incident.wetAt
        \/ next.incident # None /\ next.incident.id = w.incident.id
           /\ (w.incident.silenced => next.incident.silenced)

(* The waits out of an operation that is at the snapshot w: the snapshot   *)
(* before a wait, and the last one.                                        *)
Before(w, out, i) == IF i = 1 THEN w ELSE out[i - 1].w
Final(w, out) == IF out = <<>> THEN w ELSE out[Len(out)].w

(* Every snapshot on the way is fit, keeps the alarm, and is that of the   *)
(* incident when its wet notice is asked for.                              *)
Script(w, out) ==
    /\ out \in Seq(Waits)
    /\ \A i \in DOMAIN out :
         /\ Fit(out[i].w) /\ AlarmKept(Before(w, out, i), out[i].w)
         /\ out[i].ask = "notify_wet" => /\ Before(w, out, i).incident # None
                                         /\ Before(w, out, i).incident = Final(w, out).incident

(* A new incident is announced. *)
Announces(w, next, out) ==
    next.incident # None =>
        \/ w.incident # None /\ next.incident.id = w.incident.id
        \/ \E i \in DOMAIN out : out[i].ask = "notify_wet"

Performs(w, r) ==
    /\ Fit(r.w) /\ AlarmKept(w, r.w) /\ r.saves \in BOOLEAN
    /\ Script(r.w, r.out) /\ Announces(w, Final(r.w, r.out), r.out)

(* What it means that an operation judges a reading. *)
Judges(w, obs, r) ==
    /\ Performs(w, r)
    /\ Final(r.w, r.out).latest = obs /\ Judged(Final(r.w, r.out))
    /\ Final(r.w, r.out).state # "disabled"

(* After its first wait an operation goes on as it would have. *)
LEMMA ScriptGoesOn ==
    ASSUME NEW w, NEW out, Script(w, out), out # <<>>
    PROVE  /\ Script(out[1].w, Tail(out)) /\ Final(out[1].w, Tail(out)) = Final(w, out)
           /\ Fit(out[1].w) /\ AlarmKept(w, out[1].w) /\ out[1] \in Waits
           /\ Tail(out) \in Seq(Waits)
           /\ out[1].ask = "notify_wet" => w.incident # None /\ w.incident = Final(w, out).incident
<1> DEFINE rest == Tail(out)
<1>1. /\ out \in Seq(Waits) /\ Len(out) \in Nat \ {0} /\ DOMAIN out = 1 .. Len(out) /\ 1 \in DOMAIN out
      /\ rest \in Seq(Waits) /\ Len(rest) = Len(out) - 1 /\ DOMAIN rest = 1 .. Len(rest)
      /\ \A i \in DOMAIN rest : i + 1 \in DOMAIN out /\ rest[i] = out[i + 1]
  BY DEF Script
<1>2. Final(out[1].w, rest) = Final(w, out)
  <2>1. CASE rest = <<>>
    <3> HIDE DEF rest
    <3>1. 1 \notin DOMAIN rest
      BY <2>1
    <3>2. Len(out) > 1 => 1 \in DOMAIN rest
      BY <1>1
    <3>3. Len(out) = 1
      BY <1>1, <3>1, <3>2
    <3> QED
      BY <2>1, <3>3 DEF Final
  <2>2. CASE rest # <<>>
    <3>1. Len(rest) \in DOMAIN rest
      BY <1>1, <2>2
    <3>2. rest[Len(rest)] = out[Len(out)]
      BY <1>1, <3>1
    <3> HIDE DEF rest
    <3> QED
      BY <2>2, <3>2 DEF Final
  <2> QED
    BY <2>1, <2>2
<1> HIDE DEF rest
<1>3. ASSUME NEW i \in DOMAIN rest
      PROVE  Before(out[1].w, rest, i) = Before(w, out, i + 1)
  <2>1. CASE i = 1
    BY <2>1 DEF Before
  <2>2. CASE i # 1
    <3>1. i - 1 \in DOMAIN rest /\ (i - 1) + 1 = i /\ i + 1 # 1
      BY <1>1, <2>2
    <3>2. rest[i - 1] = out[i]
      BY <1>1, <3>1
    <3>3. (i + 1) - 1 = i
      BY <1>1
    <3> QED
      BY <2>2, <3>1, <3>2, <3>3 DEF Before
  <2> QED
    BY <2>1, <2>2
<1>4. Script(out[1].w, rest)
  <2>1. ASSUME NEW i \in DOMAIN rest
        PROVE  /\ Fit(rest[i].w) /\ AlarmKept(Before(out[1].w, rest, i), rest[i].w)
               /\ rest[i].ask = "notify_wet" =>
                    /\ Before(out[1].w, rest, i).incident # None
                    /\ Before(out[1].w, rest, i).incident = Final(out[1].w, rest).incident
    <3>1. i + 1 \in DOMAIN out /\ rest[i] = out[i + 1]
      BY <1>1
    <3>2. /\ Fit(out[i + 1].w) /\ AlarmKept(Before(w, out, i + 1), out[i + 1].w)
          /\ out[i + 1].ask = "notify_wet" =>
               /\ Before(w, out, i + 1).incident # None
               /\ Before(w, out, i + 1).incident = Final(w, out).incident
      BY <3>1 DEF Script
    <3> QED
      BY <1>2, <1>3, <3>1, <3>2
  <2> QED
    BY <1>1, <2>1 DEF Script
<1>5. /\ Fit(out[1].w) /\ AlarmKept(w, out[1].w) /\ out[1] \in Waits
      /\ out[1].ask = "notify_wet" => w.incident # None /\ w.incident = Final(w, out).incident
  BY <1>1 DEF Script, Before
<1> QED
  BY <1>1, <1>2, <1>4, <1>5 DEF rest

(* A verdict is performed: its requests change nothing. *)
LEMMA VerdictPerforms ==
    ASSUME NEW w, NEW next, Fit(next), AlarmKept(w, next), NEW asks \in Seq(Requests),
           next.incident # None => \/ w.incident # None /\ next.incident.id = w.incident.id
                                   \/ \E i \in DOMAIN asks : asks[i] = "notify_wet",
           \A i \in DOMAIN asks : asks[i] = "notify_wet" => next.incident # None
    PROVE  LET r == Verdict(next, asks) IN
             Performs(w, r) /\ Final(r.w, r.out) = next
<1> DEFINE r == Verdict(next, asks)
           out == Asking(asks, next)
<1>1. r.w = next /\ r.out = out /\ r.saves = TRUE
  BY DEF Verdict, Result
<1>2. /\ DOMAIN out = DOMAIN asks
      /\ \A i \in DOMAIN out : out[i] = [ask |-> asks[i], w |-> next]
  BY DEF Asking, Wait
<1>3. next \in SnapshotType /\ \A i \in DOMAIN asks : asks[i] \in Requests
  BY DEF Fit
<1>4. out \in Seq(Waits) /\ Len(out) = Len(asks) /\ DOMAIN out = 1 .. Len(asks) /\ Len(asks) \in Nat
  <2>1. DOMAIN asks = 1 .. Len(asks) /\ Len(asks) \in Nat
    OBVIOUS
  <2>2. \A i \in 1 .. Len(asks) : out[i] \in Waits
    BY <1>2, <1>3, <2>1 DEF Waits
  <2>3. out = [i \in 1 .. Len(asks) |-> out[i]]
    BY <1>2, <2>1 DEF Asking
  <2>4. out \in Seq(Waits)
    BY <2>1, <2>2, <2>3
  <2> QED
    BY <1>2, <2>1, <2>4
<1> HIDE DEF out, r
<1>5. Final(next, out) = next
  <2>1. out # <<>> => Len(out) \in DOMAIN out
    BY <1>4
  <2> QED
    BY <1>2, <2>1 DEF Final
<1>6. ASSUME NEW i \in DOMAIN out
      PROVE  Before(next, out, i) = next
  <2>1. i # 1 => i - 1 \in DOMAIN out
    BY <1>4
  <2> QED
    BY <1>2, <2>1 DEF Before
<1>7. Script(next, out)
  <2>1. ASSUME NEW i \in DOMAIN out
        PROVE  /\ Fit(out[i].w) /\ AlarmKept(Before(next, out, i), out[i].w)
               /\ out[i].ask = "notify_wet" => /\ Before(next, out, i).incident # None
                                               /\ Before(next, out, i).incident = Final(next, out).incident
    <3>1. out[i].w = next /\ out[i].ask = asks[i] /\ i \in DOMAIN asks
      BY <1>2
    <3>2. AlarmKept(next, next)
      BY DEF AlarmKept
    <3> QED
      BY <1>5, <1>6, <3>1, <3>2
  <2> QED
    BY <1>4, <2>1 DEF Script
<1>8. Announces(w, next, out)
  BY <1>2 DEF Announces
<1>9. Performs(w, r) /\ Final(r.w, r.out) = next
  BY <1>1, <1>5, <1>7, <1>8 DEF Performs
<1> QED
  BY <1>9 DEF r

(* An operation may be preceded by a change that leaves the incident alone. *)
LEMMA RecordFirstPerforms ==
    ASSUME NEW w, NEW v, NEW r, Fit(v), v.incident = w.incident, Performs(v, r)
    PROVE  LET s == RecordFirst(v, r) IN
             Performs(w, s) /\ Final(s.w, s.out) = Final(r.w, r.out)
<1> DEFINE s == RecordFirst(v, r)
           first == Wait("record", r.w)
           out == <<first>> \o r.out
<1>1. s.w = v /\ s.out = out /\ s.saves = r.saves
  BY DEF RecordFirst, Result
<1>2. first.ask = "record" /\ first.w = r.w /\ first \in Waits
  BY DEF Wait, Waits, Performs, Fit
<1> HIDE DEF first, s
<1>3. /\ r.out \in Seq(Waits) /\ <<first>> \in Seq(Waits) /\ Len(<<first>>) = 1 /\ <<first>>[1] = first
      /\ Len(r.out) \in Nat /\ DOMAIN r.out = 1 .. Len(r.out)
  BY <1>2 DEF Performs, Script
<1>4. /\ out \in Seq(Waits) /\ Len(out) = Len(r.out) + 1
      /\ DOMAIN out = 1 .. Len(r.out) + 1 /\ out[1] = first /\ out # <<>>
  BY <1>3
<1>5. \A i \in DOMAIN out : i # 1 => i - 1 \in DOMAIN r.out /\ out[i] = r.out[i - 1]
  BY <1>3, <1>4
<1> HIDE DEF out
<1>6. Final(v, out) = Final(r.w, r.out)
  <2>1. CASE r.out = <<>>
    <3>1. Len(out) = 1
      BY <1>4, <2>1
    <3> QED
      BY <1>2, <1>4, <2>1, <3>1 DEF Final
  <2>2. CASE r.out # <<>>
    <3>1. Len(r.out) # 0
      BY <1>3, <2>2
    <3>2. Len(out) \in DOMAIN out /\ Len(out) # 1 /\ Len(out) - 1 = Len(r.out)
      BY <1>3, <1>4, <3>1
    <3>3. out[Len(out)] = r.out[Len(r.out)]
      BY <1>5, <3>2
    <3> QED
      BY <1>4, <2>2, <3>3 DEF Final
  <2> QED
    BY <2>1, <2>2
<1>7. ASSUME NEW i \in DOMAIN out, i # 1
      PROVE  Before(v, out, i) = Before(r.w, r.out, i - 1)
  <2>1. CASE i = 2
    BY <1>2, <1>4, <2>1 DEF Before
  <2>2. CASE i # 2
    <3>1. i - 1 \in DOMAIN out /\ i - 1 # 1
      BY <1>3, <1>4, <1>7, <2>2
    <3>2. out[i - 1] = r.out[(i - 1) - 1]
      BY <1>5, <3>1
    <3> QED
      BY <1>7, <3>1, <3>2 DEF Before
  <2> QED
    BY <2>1, <2>2
<1>8. Script(v, out)
  <2>1. ASSUME NEW i \in DOMAIN out
        PROVE  /\ Fit(out[i].w) /\ AlarmKept(Before(v, out, i), out[i].w)
               /\ out[i].ask = "notify_wet" => /\ Before(v, out, i).incident # None
                                               /\ Before(v, out, i).incident = Final(v, out).incident
    <3>1. CASE i = 1
      BY <1>2, <1>4, <3>1 DEF Before, Performs
    <3>2. CASE i # 1
      <4>1. i - 1 \in DOMAIN r.out /\ out[i] = r.out[i - 1]
        BY <1>5, <3>2
      <4>2. /\ Fit(r.out[i - 1].w) /\ AlarmKept(Before(r.w, r.out, i - 1), r.out[i - 1].w)
            /\ r.out[i - 1].ask = "notify_wet" =>
                 /\ Before(r.w, r.out, i - 1).incident # None
                 /\ Before(r.w, r.out, i - 1).incident = Final(r.w, r.out).incident
        BY <4>1 DEF Performs, Script
      <4> QED
        BY <1>6, <1>7, <3>2, <4>1, <4>2
    <3> QED
      BY <3>1, <3>2
  <2> QED
    BY <1>4, <2>1 DEF Script
<1>9. Announces(w, Final(v, out), out)
  <2>1. \A i \in DOMAIN r.out : i + 1 \in DOMAIN out /\ out[i + 1] = r.out[i]
    <3>1. \A i \in DOMAIN r.out : i + 1 \in DOMAIN out /\ i + 1 # 1 /\ (i + 1) - 1 = i
      BY <1>3, <1>4
    <3> QED
      BY <1>5, <3>1
  <2>2. Announces(v, Final(r.w, r.out), r.out)
    BY DEF Performs
  <2> QED
    BY <1>6, <2>1, <2>2 DEF Announces
<1>10. AlarmKept(w, v) /\ r.saves \in BOOLEAN
  BY DEF AlarmKept, Performs
<1>11. Performs(w, s) /\ Final(s.w, s.out) = Final(r.w, r.out)
  BY <1>1, <1>6, <1>8, <1>9, <1>10, Zenon DEF Performs
<1> QED
  BY <1>11 DEF s

(* A request, and then a change that leaves the incident alone. *)
LEMMA LateChangePerforms ==
    ASSUME NEW w, NEW next, Fit(w), Fit(next), next.incident = w.incident,
           NEW ask \in Requests, ask # "notify_wet"
    PROVE  LET r == Result(w, <<Wait(ask, w), Wait("record", next)>>, TRUE) IN
             Performs(w, r) /\ Final(r.w, r.out) = next
<1> DEFINE out == <<Wait(ask, w), Wait("record", next)>>
           r == Result(w, out, TRUE)
<1>1. /\ Wait(ask, w) \in Waits /\ Wait("record", next) \in Waits
      /\ Wait(ask, w).w = w /\ Wait(ask, w).ask = ask
      /\ Wait("record", next).w = next /\ Wait("record", next).ask = "record"
  BY DEF Wait, Waits, Fit
<1>2. /\ out \in Seq(Waits) /\ Len(out) = 2 /\ DOMAIN out = {1, 2} /\ out # <<>>
      /\ out[1].w = w /\ out[1].ask = ask /\ out[2].w = next /\ out[2].ask = "record"
  BY <1>1
<1>3. r.w = w /\ r.out = out /\ r.saves = TRUE
  BY DEF Result
<1> HIDE DEF out, r
<1>4. Final(w, out) = next /\ Before(w, out, 1) = w /\ Before(w, out, 2) = w
  BY <1>2 DEF Final, Before
<1>5. AlarmKept(w, w) /\ AlarmKept(w, next)
  BY DEF AlarmKept
<1>6. Script(w, out)
  BY <1>2, <1>4, <1>5 DEF Script
<1>7. Announces(w, next, out)
  BY DEF Announces
<1>8. Performs(w, r) /\ Final(r.w, r.out) = next
  BY <1>3, <1>4, <1>5, <1>6, <1>7 DEF Performs
<1> QED
  BY <1>8 DEF r, out

(* The first change of a reading: it is the latest one. *)
LEMMA ReadingIsFit ==
    ASSUME NEW w, Fit(w), NEW obs \in Observation, w.latest # None => w.latest.at <= obs.at
    PROVE  LET v == [w EXCEPT !.latest = obs] IN
             /\ Fit(v) /\ v.latest = obs /\ v.incident = w.incident /\ v.state = w.state
<1> DEFINE v == [w EXCEPT !.latest = obs]
<1>1. obs # None /\ obs.at \in Int
  BY NoneIsNoData DEF Observation, Time
<1>2. v = [state |-> w.state, latest |-> obs, incident |-> w.incident, deadline |-> w.deadline,
           repeat |-> w.repeat, nextIncident |-> w.nextIncident]
  BY DEF Fit, SnapshotType
<1> HIDE DEF v
<1>3. v \in SnapshotType
  BY <1>2 DEF Fit, SnapshotType, Maybe
<1>4. w.incident # None => w.incident.wetAt \in Int /\ w.latest.at \in Int
  BY DEF Fit, SnapshotType, IncidentType, Observation, Maybe, Time
<1>5. Fit(v) /\ v.latest = obs /\ v.incident = w.incident /\ v.state = w.state
  BY <1>1, <1>2, <1>3, <1>4 DEF Fit, Coherent
<1> QED
  BY <1>5 DEF v

LEMMA NoneOrOneRequest ==
    /\ <<>> \in Seq(Requests) /\ \A i \in DOMAIN <<>> : <<>>[i] # "notify_wet"
    /\ \A a \in Requests : <<a>> \in Seq(Requests)
    /\ \A a \in Requests : a # "notify_wet" => \A i \in DOMAIN <<a>> : <<a>>[i] # "notify_wet"
<1>1. DOMAIN <<>> = {}
  OBVIOUS
<1>2. \A a \in Requests : DOMAIN <<a>> = {1} /\ <<a>>[1] = a
  OBVIOUS
<1>3. <<>> \in Seq(Requests) /\ \A a \in Requests : <<a>> \in Seq(Requests)
  OBVIOUS
<1> QED
  BY <1>1, <1>2, <1>3

LEMMA DryIsJudged ==
    ASSUME NEW w, Fit(w), NEW obs \in Observation, obs.cond = "dry", w.latest = obs
    PROVE  Judges(w, obs, ProcessDry(w))
<1>0. PICK next : next = [w EXCEPT !.state = "ok", !.incident = None, !.deadline = None, !.repeat = None]
  OBVIOUS
<1> DEFINE asks == IF w.incident = None THEN <<>> ELSE <<"siren_off", "notify_recovery">>
<1>1. next = [state |-> "ok", latest |-> obs, incident |-> None, deadline |-> None,
              repeat |-> None, nextIncident |-> w.nextIncident]
  BY <1>0 DEF Fit, SnapshotType
<1>2. ProcessDry(w) = Verdict(next, asks)
  BY <1>0 DEF ProcessDry
<1>3. Fit(next)
  BY <1>1 DEF Fit, SnapshotType, Coherent, Maybe
<1>4. asks \in Seq(Requests) /\ \A i \in DOMAIN asks : asks[i] # "notify_wet"
  <2>1. /\ <<"siren_off", "notify_recovery">> \in Seq(Requests)
        /\ \A i \in DOMAIN <<"siren_off", "notify_recovery">> :
             <<"siren_off", "notify_recovery">>[i] # "notify_wet"
    BY DEF Requests
  <2> QED
    BY <2>1, NoneOrOneRequest
<1> HIDE DEF asks
<1>5. AlarmKept(w, next)
  BY <1>1 DEF AlarmKept, Fit, SnapshotType, IncidentType, Observation, Maybe, Time
<1>6. Judged(next) /\ next.latest = obs /\ next.state # "disabled" /\ next.incident = None
  BY <1>1 DEF Judged
<1> QED
  BY <1>2, <1>3, <1>4, <1>5, <1>6, VerdictPerforms DEF Judges

LEMMA WetIsJudged ==
    ASSUME NEW w, Fit(w), NEW obs \in Observation, obs.cond = "wet", NEW reassert \in BOOLEAN,
           w.latest = obs
    PROVE  Judges(w, obs, ProcessWet(w, obs.at, reassert))
<1> DEFINE incident == IF w.incident = None
                       THEN [id |-> w.nextIncident, wetAt |-> obs.at, silenced |-> FALSE]
                       ELSE [w.incident EXCEPT !.wetAt = obs.at]
           number == IF w.incident = None THEN w.nextIncident + 1 ELSE w.nextIncident
           asks == IF w.incident = None THEN <<"valve_close", "siren_on", "notify_wet">>
                   ELSE IF reassert
                   THEN <<"valve_close">> \o (IF incident.silenced THEN <<>> ELSE <<"siren_on">>)
                   ELSE <<>>
<1>0. PICK next : next = [w EXCEPT !.state = "wet", !.incident = incident, !.deadline = None,
                                   !.repeat = None, !.nextIncident = number]
  OBVIOUS
<1>1. ProcessWet(w, obs.at, reassert) = Verdict(next, asks)
  BY <1>0 DEF ProcessWet
<1>2. /\ w.incident \in Maybe(IncidentType) /\ w.nextIncident \in Nat \ {0}
      /\ w.latest \in Maybe(Observation)
      /\ w.incident # None => w.incident.id < w.nextIncident
  BY DEF Fit, SnapshotType
<1>3. /\ incident \in IncidentType /\ incident # None /\ incident.wetAt = obs.at
      /\ w.incident = None => incident.id = w.nextIncident
      /\ w.incident # None => incident.id = w.incident.id /\ incident.silenced = w.incident.silenced
  <2>1. CASE w.incident = None
    <3>1. incident = [id |-> w.nextIncident, wetAt |-> obs.at, silenced |-> FALSE]
      BY <2>1
    <3>2. incident \in IncidentType
      BY <1>2, <3>1 DEF IncidentType, Observation
    <3> QED
      BY <2>1, <3>1, <3>2, NoneIsNoData
  <2>2. CASE w.incident # None
    <3>1. w.incident \in IncidentType /\ incident = [w.incident EXCEPT !.wetAt = obs.at]
      BY <1>2, <2>2 DEF Maybe
    <3>2. incident \in IncidentType
      BY <3>1 DEF IncidentType, Observation
    <3> QED
      BY <2>2, <3>1, <3>2, NoneIsNoData DEF IncidentType
  <2> QED
    BY <2>1, <2>2
<1> HIDE DEF incident
<1>4. next = [state |-> "wet", latest |-> obs, incident |-> incident, deadline |-> None,
              repeat |-> None, nextIncident |-> number]
  BY <1>0 DEF Fit, SnapshotType
<1>5. Fit(next)
  <2>1. next \in SnapshotType
    BY <1>2, <1>3, <1>4 DEF SnapshotType, Maybe
  <2>2. Coherent(next)
    BY <1>3, <1>4 DEF Coherent
  <2>3. obs # None /\ obs.at \in Int
    BY NoneIsNoData DEF Observation, Time
  <2>4. incident.id < number
    BY <1>2, <1>3 DEF IncidentType
  <2> QED
    BY <1>3, <1>4, <2>1, <2>2, <2>3, <2>4 DEF Fit
<1>6. asks \in Seq(Requests) /\ (w.incident = None => \E i \in DOMAIN asks : asks[i] = "notify_wet")
  <2>1. /\ <<"valve_close", "siren_on", "notify_wet">> \in Seq(Requests)
        /\ <<"valve_close">> \o <<"siren_on">> \in Seq(Requests)
        /\ <<"valve_close">> \o <<>> \in Seq(Requests) /\ <<>> \in Seq(Requests)
    BY DEF Requests
  <2>2. asks \in Seq(Requests)
    BY <2>1
  <2>3. w.incident = None => 3 \in DOMAIN asks /\ asks[3] = "notify_wet"
    OBVIOUS
  <2> QED
    BY <2>2, <2>3
<1> HIDE DEF asks
<1>7. AlarmKept(w, next)
  BY <1>3, <1>4 DEF AlarmKept
<1>8. Judged(next) /\ next.latest = obs /\ next.state # "disabled" /\ next.incident = incident
  BY <1>4 DEF Judged
<1>9. next.incident # None => \/ w.incident # None /\ next.incident.id = w.incident.id
                              \/ \E i \in DOMAIN asks : asks[i] = "notify_wet"
  BY <1>3, <1>6, <1>8
<1>10. \A i \in DOMAIN asks : asks[i] = "notify_wet" => next.incident # None
  BY <1>3, <1>8
<1> QED
  BY <1>1, <1>5, <1>6, <1>7, <1>8, <1>9, <1>10, VerdictPerforms DEF Judges

LEMMA FaultIsEntered ==
    ASSUME NEW w, Fit(w), NEW at \in Time
    PROVE  LET r == EnterSensorFault(w, at) IN
             /\ Performs(w, r) /\ Final(r.w, r.out).state = "fault"
             /\ Final(r.w, r.out).latest = w.latest
<1> DEFINE repeats == IF Critical /\ RepeatEvery # None THEN at + RepeatEvery ELSE None
           asks == IF Critical THEN <<"notify_fault">> ELSE <<>>
<1>0. PICK next : next = [w EXCEPT !.state = "fault", !.deadline = None, !.repeat = repeats]
  OBVIOUS
<1>1. EnterSensorFault(w, at) = Verdict(next, asks)
  BY <1>0 DEF EnterSensorFault
<1>2. repeats \in Maybe(Nat) /\ (repeats # None => RepeatEvery # None)
  BY WaterConstants, NoneIsNoTime DEF Maybe, Time
<1> HIDE DEF repeats
<1>3. next = [state |-> "fault", latest |-> w.latest, incident |-> w.incident, deadline |-> None,
              repeat |-> repeats, nextIncident |-> w.nextIncident]
  BY <1>0 DEF Fit, SnapshotType
<1>4. Fit(next)
  <2>1. next \in SnapshotType
    BY <1>2, <1>3 DEF SnapshotType, Maybe, Fit
  <2> QED
    BY <1>2, <1>3, <2>1 DEF Fit, Coherent
<1>5. asks \in Seq(Requests) /\ \A i \in DOMAIN asks : asks[i] # "notify_wet"
  BY NoneOrOneRequest DEF Requests
<1> HIDE DEF asks
<1>6. next.incident = w.incident /\ next.state = "fault" /\ next.latest = w.latest
  BY <1>3
<1>7. AlarmKept(w, next)
  BY <1>6 DEF AlarmKept
<1> QED
  BY <1>1, <1>4, <1>5, <1>6, <1>7, VerdictPerforms

LEMMA UnknownIsJudged ==
    ASSUME NEW w, Fit(w), w.state # "disabled", NEW obs \in Observation, obs.cond = "unknown",
           w.latest = obs
    PROVE  Judges(w, obs, ProcessIndeterminate(w, obs.at))
<1> DEFINE deadline == IF w.deadline = None THEN obs.at + Grace ELSE w.deadline
           r == ProcessIndeterminate(w, obs.at)
<1>1. obs # None /\ obs.at \in Nat /\ obs.at \in Time /\ Grace \in Nat /\ w.deadline \in Maybe(Nat)
  BY NoneIsNoData, WaterConstants DEF Observation, Time, Fit, SnapshotType
<1>2. <<>> \in Seq(Requests) /\ DOMAIN <<>> = {}
  OBVIOUS
<1>3. deadline \in Nat /\ deadline # None
  BY <1>1, NoneIsNoTime DEF Maybe
<1> HIDE DEF deadline
<1>4. CASE w.state = "fault"
  <2>1. r = Verdict(w, <<>>)
    BY <1>4 DEF ProcessIndeterminate
  <2>2. Judged(w) /\ AlarmKept(w, w)
    BY <1>4 DEF Judged, AlarmKept
  <2> HIDE DEF r
  <2>3. Performs(w, r) /\ Final(r.w, r.out) = w
    BY <1>2, <2>1, <2>2, VerdictPerforms
  <2>4. Judges(w, obs, r)
    BY <1>4, <2>2, <2>3 DEF Judges
  <2> QED
    BY <2>4 DEF r
<1> DEFINE g == [w EXCEPT !.deadline = deadline]
<1>5. g = [state |-> w.state, latest |-> obs, incident |-> w.incident, deadline |-> deadline,
           repeat |-> w.repeat, nextIncident |-> w.nextIncident]
  BY DEF Fit, SnapshotType
<1>6. w.state # "fault" =>
        r = IF Grace = 0 \/ obs.at >= deadline THEN EnterSensorFault(w, obs.at) ELSE Verdict(g, <<>>)
  <2>1. DOMAIN w = {"state", "latest", "incident", "deadline", "repeat", "nextIncident"}
    BY DEF Fit, SnapshotType
  <2>2. [w EXCEPT !.deadline = IF @ = None THEN obs.at + Grace ELSE @] = g
    BY DEF deadline
  <2>3. g.deadline = deadline
    BY <1>5
  <2> HIDE DEF g
  <2> QED
    BY <2>2, <2>3 DEF ProcessIndeterminate
<1> HIDE DEF g
<1>7. CASE w.state # "fault" /\ (Grace = 0 \/ obs.at >= deadline)
  <2>1. r = EnterSensorFault(w, obs.at)
    BY <1>6, <1>7
  <2> HIDE DEF r
  <2>2. Performs(w, r) /\ Final(r.w, r.out).state = "fault" /\ Final(r.w, r.out).latest = obs
    BY <1>1, <2>1, FaultIsEntered
  <2>3. Judges(w, obs, r)
    BY <2>2 DEF Judges, Judged
  <2> QED
    BY <2>3 DEF r
<1>8. CASE w.state # "fault" /\ ~(Grace = 0 \/ obs.at >= deadline)
  <2>1. r = Verdict(g, <<>>)
    BY <1>6, <1>8
  <2>2. w.state \in {"ok", "wet"}
    BY <1>8 DEF Fit, SnapshotType
  <2>3. Fit(g)
    <3>1. g \in SnapshotType
      BY <1>1, <1>3, <1>5 DEF Fit, SnapshotType, Maybe
    <3> QED
      BY <1>5, <2>2, <3>1 DEF Fit, Coherent
  <2>4. Judged(g) /\ g.latest = obs /\ g.state = w.state /\ g.incident = w.incident
    BY <1>3, <1>5 DEF Judged
  <2>5. AlarmKept(w, g)
    BY <2>4 DEF AlarmKept
  <2> HIDE DEF r
  <2>6. Performs(w, r) /\ Final(r.w, r.out) = g
    BY <1>2, <2>1, <2>3, <2>4, <2>5, VerdictPerforms
  <2>7. Judges(w, obs, r)
    BY <2>4, <2>6 DEF Judges
  <2> QED
    BY <2>7 DEF r
<1> QED
  BY <1>4, <1>7, <1>8

LEMMA ObservationIsJudged ==
    ASSUME NEW w, Fit(w), w.state # "disabled", NEW obs \in Observation, NEW reassert \in BOOLEAN,
           w.latest # None => w.latest.at <= obs.at
    PROVE  Judges(w, obs, ProcessObservation(w, obs, reassert))
<1> DEFINE v == [w EXCEPT !.latest = obs]
           verdict == CASE obs.cond = "dry" -> ProcessDry(v)
                        [] obs.cond = "wet" -> ProcessWet(v, obs.at, reassert)
                        [] OTHER            -> ProcessIndeterminate(v, obs.at)
<1>1. obs.cond \in {"dry", "wet", "unknown"}
  BY DEF Observation, Conditions
<1>2. Fit(v) /\ v.latest = obs /\ v.incident = w.incident /\ v.state = w.state
  BY ReadingIsFit
<1>3. ProcessObservation(w, obs, reassert) = RecordFirst(v, verdict)
  BY DEF ProcessObservation
<1> HIDE DEF v
<1>4. Judges(v, obs, verdict)
  <2>1. CASE obs.cond = "dry"
    BY <1>2, <2>1, DryIsJudged
  <2>2. CASE obs.cond = "wet"
    BY <1>2, <2>2, WetIsJudged
  <2>3. CASE obs.cond = "unknown"
    BY <1>2, <2>3, UnknownIsJudged
  <2> QED
    BY <1>1, <2>1, <2>2, <2>3
<1> HIDE DEF verdict
<1>5. Performs(v, verdict)
  BY <1>4 DEF Judges
<1> DEFINE r == RecordFirst(v, verdict)
<1>6. Performs(w, r) /\ Final(r.w, r.out) = Final(verdict.w, verdict.out)
  BY <1>2, <1>5, RecordFirstPerforms
<1> HIDE DEF r
<1>7. Judges(w, obs, r)
  BY <1>4, <1>6 DEF Judges
<1> QED
  BY <1>3, <1>7 DEF r

(* An operation without a reading keeps the verdict on the latest one. *)
KeepsVerdict(w, r) ==
    /\ Performs(w, r) /\ Final(r.w, r.out).latest = w.latest
    /\ Final(r.w, r.out).state # "disabled" =>
         w.state # "disabled" /\ (Judged(w) => Judged(Final(r.w, r.out)))

LEMMA NothingKeepsVerdict ==
    ASSUME NEW w, Fit(w), NEW saves \in BOOLEAN
    PROVE  LET r == Result(w, <<>>, saves) IN KeepsVerdict(w, r) /\ Final(r.w, r.out) = w
<1> DEFINE r == Result(w, <<>>, saves)
<1>1. r.w = w /\ r.out = <<>> /\ r.saves = saves
  BY DEF Result
<1> HIDE DEF r
<1>2. DOMAIN <<>> = {} /\ <<>> \in Seq(Waits)
  OBVIOUS
<1>3. Final(w, <<>>) = w
  BY DEF Final
<1>4. Script(w, <<>>)
  BY <1>2 DEF Script
<1>5. AlarmKept(w, w) /\ Announces(w, w, <<>>)
  BY DEF AlarmKept, Announces
<1>6. Performs(w, r)
  BY <1>1, <1>3, <1>4, <1>5, Zenon DEF Performs
<1>7. KeepsVerdict(w, r) /\ Final(r.w, r.out) = w
  BY <1>1, <1>3, <1>6 DEF KeepsVerdict
<1> QED
  BY <1>7 DEF r

LEMMA NothingDone ==
    ASSUME NEW w, Fit(w)
    PROVE  KeepsVerdict(w, Nothing(w))
  BY NothingKeepsVerdict DEF Nothing

LEMMA TickKeepsVerdict ==
    ASSUME NEW w, Fit(w), NEW at \in Time
    PROVE  KeepsVerdict(w, TickAt(w, at))
<1> DEFINE r == TickAt(w, at)
           next == [w EXCEPT !.repeat = at + RepeatEvery]
<1>1. CASE r = Nothing(w)
  BY <1>1, NothingDone
<1>2. CASE w.state # "disabled" /\ w.deadline # None /\ r = EnterSensorFault(w, at)
  <2>1. Performs(w, r) /\ Final(r.w, r.out).state = "fault" /\ Final(r.w, r.out).latest = w.latest
    BY <1>2, FaultIsEntered
  <2> HIDE DEF r
  <2>2. Judged(w) => Judged(Final(r.w, r.out))
    BY <1>2, <2>1 DEF Judged
  <2>3. KeepsVerdict(w, r)
    BY <1>2, <2>1, <2>2 DEF KeepsVerdict
  <2> QED
    BY <2>3 DEF r
<1>3. CASE /\ w.state = "fault" /\ w.repeat # None
           /\ r = Result(w, <<Wait("notify_fault", w), Wait("record", next)>>, TRUE)
  <2> DEFINE n == at + RepeatEvery
  <2>1. n \in Nat /\ RepeatEvery # None
    BY <1>3, WaterConstants DEF Fit, Maybe, Time
  <2>2. w.state = "fault" /\ w.repeat # None
    BY <1>3
  <2>3. next = [state |-> "fault", latest |-> w.latest, incident |-> w.incident,
                deadline |-> w.deadline, repeat |-> n, nextIncident |-> w.nextIncident]
    BY <1>3 DEF Fit, SnapshotType
  <2> HIDE DEF r, n, next
  <2>4. Fit(next)
    <3>1. next \in SnapshotType
      BY <2>1, <2>3 DEF Fit, SnapshotType, Maybe
    <3>2. Coherent(next)
      BY <2>2, <2>3 DEF Fit, Coherent
    <3> QED
      BY <2>1, <2>3, <3>1, <3>2 DEF Fit
  <2>5. next.incident = w.incident /\ next.latest = w.latest /\ (Judged(w) => Judged(next))
    BY <2>2, <2>3 DEF Judged
  <2>6. "notify_fault" \in Requests /\ "notify_fault" # "notify_wet"
    BY DEF Requests
  <2>7. Performs(w, r) /\ Final(r.w, r.out) = next
    BY <1>3, <2>4, <2>5, <2>6, LateChangePerforms
  <2>8. KeepsVerdict(w, r)
    BY <2>2, <2>5, <2>7 DEF KeepsVerdict
  <2> QED
    BY <2>8 DEF r
<1> QED
  BY <1>1, <1>2, <1>3 DEF TickAt

LEMMA SilenceKeepsVerdict ==
    ASSUME NEW w, Fit(w)
    PROVE  KeepsVerdict(w, Silence(w))
<1> DEFINE r == Silence(w)
<1>1. CASE w.state = "disabled" \/ w.incident = None \/ w.incident.silenced
  BY <1>1, NothingDone DEF Silence
<1>2. CASE ~(w.state = "disabled" \/ w.incident = None \/ w.incident.silenced)
  <2> DEFINE incident == [w.incident EXCEPT !.silenced = TRUE]
             asks == <<"siren_off">>
  <2>0. PICK next : next = [w EXCEPT !.incident.silenced = TRUE]
    OBVIOUS
  <2>1. w.incident \in IncidentType /\ incident \in IncidentType
    BY <1>2 DEF Fit, SnapshotType, Maybe, IncidentType
  <2>2. /\ incident.id = w.incident.id /\ incident.wetAt = w.incident.wetAt /\ incident # None
        /\ incident.silenced
    BY <2>1, NoneIsNoData DEF IncidentType
  <2>3. next = [state |-> w.state, latest |-> w.latest, incident |-> incident,
                deadline |-> w.deadline, repeat |-> w.repeat, nextIncident |-> w.nextIncident]
    BY <2>0 DEF Fit, SnapshotType
  <2>4. r = Verdict(next, asks)
    BY <1>2, <2>0 DEF Silence
  <2>5. asks \in Seq(Requests) /\ \A i \in DOMAIN asks : asks[i] # "notify_wet"
    BY NoneOrOneRequest DEF Requests
  <2> HIDE DEF r, incident, asks
  <2>6. Fit(next)
    <3>1. next \in SnapshotType
      BY <2>1, <2>3 DEF Fit, SnapshotType, Maybe
    <3> QED
      BY <1>2, <2>2, <2>3, <3>1 DEF Fit, Coherent
  <2>7. AlarmKept(w, next)
    BY <1>2, <2>2, <2>3 DEF AlarmKept
  <2>8. next.incident.id = w.incident.id /\ next.latest = w.latest /\ (Judged(w) => Judged(next))
    BY <1>2, <2>2, <2>3 DEF Judged
  <2>9. Performs(w, r) /\ Final(r.w, r.out) = next
    BY <1>2, <2>4, <2>5, <2>6, <2>7, <2>8, VerdictPerforms
  <2>10. KeepsVerdict(w, r)
    BY <1>2, <2>8, <2>9 DEF KeepsVerdict
  <2> QED
    BY <2>10 DEF r
<1> QED
  BY <1>1, <1>2

LEMMA DisableKeepsVerdict ==
    ASSUME NEW w, Fit(w)
    PROVE  KeepsVerdict(w, Disable(w))
<1> DEFINE r == Disable(w)
<1>1. CASE w.state = "disabled"
  BY <1>1, NothingDone DEF Disable
<1>2. CASE w.state # "disabled"
  <2>0. PICK next : next = [w EXCEPT !.state = "disabled", !.deadline = None, !.repeat = None]
    OBVIOUS
  <2>1. r = Result(w, <<Wait("siren_off", w), Wait("record", next)>>, TRUE)
    BY <1>2, <2>0 DEF Disable
  <2>2. next = [state |-> "disabled", latest |-> w.latest, incident |-> w.incident,
                deadline |-> None, repeat |-> None, nextIncident |-> w.nextIncident]
    BY <2>0 DEF Fit, SnapshotType
  <2> HIDE DEF r
  <2>3. Fit(next)
    <3>1. next \in SnapshotType
      BY <2>2 DEF Fit, SnapshotType, Maybe
    <3> QED
      BY <2>2, <3>1 DEF Fit, Coherent
  <2>4. next.incident = w.incident /\ next.latest = w.latest /\ next.state = "disabled"
    BY <2>2
  <2>5. "siren_off" \in Requests /\ "siren_off" # "notify_wet"
    BY DEF Requests
  <2>6. Performs(w, r) /\ Final(r.w, r.out) = next
    BY <2>1, <2>3, <2>4, <2>5, LateChangePerforms
  <2>7. KeepsVerdict(w, r)
    BY <2>4, <2>6 DEF KeepsVerdict
  <2> QED
    BY <2>7 DEF r
<1> QED
  BY <1>1, <1>2

LEMMA StartJudges ==
    ASSUME NEW w, Fit(w), w.state # "disabled", NEW obs \in Observation,
           w.latest # None => w.latest.at <= obs.at
    PROVE  Judges(w, obs, StartRuntime(w, obs))
<1> DEFINE s == ProcessObservation(w, obs, TRUE)
           r == RecordFirst(w, s)
<1>1. Judges(w, obs, s) /\ StartRuntime(w, obs) = r
  BY ObservationIsJudged DEF StartRuntime
<1> HIDE DEF s
<1>2. Performs(w, s)
  BY <1>1 DEF Judges
<1>3. Performs(w, r) /\ Final(r.w, r.out) = Final(s.w, s.out)
  BY <1>2, RecordFirstPerforms
<1> HIDE DEF r
<1> QED
  BY <1>1, <1>3 DEF Judges

LEMMA EnableJudges ==
    ASSUME NEW w, Fit(w), NEW obs \in Observation, w.latest # None => w.latest.at <= obs.at
    PROVE  Judges(w, obs, Enable(w, obs))
<1>1. CASE w.state # "disabled"
  BY <1>1, ObservationIsJudged DEF Enable
<1>2. CASE w.state = "disabled"
  <2> DEFINE v == [w EXCEPT !.state = IF w.incident = None THEN "ok" ELSE "wet"]
             s == ProcessObservation(v, obs, TRUE)
             r == RecordFirst(v, s)
  <2>1. v = [state |-> IF w.incident = None THEN "ok" ELSE "wet", latest |-> w.latest,
             incident |-> w.incident, deadline |-> w.deadline, repeat |-> w.repeat,
             nextIncident |-> w.nextIncident]
    BY DEF Fit, SnapshotType
  <2>2. Enable(w, obs) = r
    BY <1>2 DEF Enable
  <2> HIDE DEF v
  <2>3. w.deadline = None /\ w.repeat = None
    BY <1>2 DEF Fit, Coherent
  <2>4. Fit(v) /\ v.state # "disabled" /\ v.latest = w.latest /\ v.incident = w.incident
    <3>1. v \in SnapshotType
      BY <2>1 DEF Fit, SnapshotType
    <3> QED
      BY <2>1, <2>3, <3>1 DEF Fit, Coherent
  <2>5. Judges(v, obs, s)
    BY <2>4, ObservationIsJudged
  <2> HIDE DEF s
  <2>6. Performs(v, s)
    BY <2>5 DEF Judges
  <2>7. Performs(w, r) /\ Final(r.w, r.out) = Final(s.w, s.out)
    BY <2>4, <2>6, RecordFirstPerforms
  <2> HIDE DEF r
  <2> QED
    BY <2>2, <2>5, <2>7 DEF Judges
<1> QED
  BY <1>1, <1>2

LEMMA OneRequestPerforms ==
    ASSUME NEW w, Fit(w), NEW ask \in Requests, ask # "notify_wet"
    PROVE  LET r == Result(w, <<Wait(ask, w)>>, FALSE) IN KeepsVerdict(w, r) /\ Final(r.w, r.out) = w
<1> DEFINE out == <<Wait(ask, w)>>
           r == Result(w, out, FALSE)
<1>1. Wait(ask, w) \in Waits /\ Wait(ask, w).w = w /\ Wait(ask, w).ask = ask
  BY DEF Wait, Waits, Fit
<1>2. /\ out \in Seq(Waits) /\ Len(out) = 1 /\ DOMAIN out = {1} /\ out # <<>>
      /\ out[1].w = w /\ out[1].ask = ask
  BY <1>1
<1>3. r.w = w /\ r.out = out /\ r.saves = FALSE
  BY DEF Result
<1> HIDE DEF out, r
<1>4. Final(w, out) = w /\ Before(w, out, 1) = w
  BY <1>2 DEF Final, Before
<1>5. AlarmKept(w, w) /\ Announces(w, w, out)
  BY DEF AlarmKept, Announces
<1>6. Script(w, out)
  BY <1>2, <1>4, <1>5 DEF Script
<1>7. Performs(w, r)
  BY <1>3, <1>4, <1>5, <1>6 DEF Performs
<1>8. KeepsVerdict(w, r) /\ Final(r.w, r.out) = w
  BY <1>3, <1>4, <1>7 DEF KeepsVerdict
<1> QED
  BY <1>8 DEF r, out

RuntimeKinds == {"start", "observe", "tick", "silence", "disable", "enable", "test"}
Reads == {"start", "observe", "enable"}

(* An operation with a reading judges it, or the module is disabled. *)
ReadingSettled(w, obs, next) ==
    /\ next.latest \in {w.latest, obs}
    /\ next.state = "disabled" \/ (next.latest = obs /\ Judged(next))

Settles(w, op, r) ==
    /\ Performs(w, r)
    /\ op.kind \in Reads => ReadingSettled(w, op.obs, Final(r.w, r.out))
    /\ op.kind \notin Reads => KeepsVerdict(w, r)
    /\ op.kind = "test" => Final(r.w, r.out) = w

LEMMA Outcomes ==
    ASSUME Fit(ws), now \in Time, NEW op \in OpType, op.kind \in RuntimeKinds,
           op.kind \in Reads => op.obs \in Observation /\ (ws.latest # None => ws.latest.at <= op.obs.at)
    PROVE  Settles(ws, op, Outcome(op))
<1> DEFINE r == Outcome(op)
<1>1. CASE op.kind \in Reads
  <2>1. op.obs \in Observation /\ (ws.latest # None => ws.latest.at <= op.obs.at)
    BY <1>1
  <2>2. ASSUME Judges(ws, op.obs, r) PROVE Settles(ws, op, r)
    <3> HIDE DEF r
    <3> QED
      BY <1>1, <2>2 DEF Judges, Settles, ReadingSettled, Reads
  <2>3. ASSUME ws.state = "disabled", NEW saves \in BOOLEAN, r = Result(ws, <<>>, saves)
        PROVE  Settles(ws, op, r)
    <3>1. KeepsVerdict(ws, r) /\ Final(r.w, r.out) = ws
      BY <2>3, NothingKeepsVerdict
    <3> HIDE DEF r
    <3> QED
      BY <1>1, <2>3, <3>1 DEF KeepsVerdict, Settles, ReadingSettled, Reads
  <2>4. CASE op.kind = "start"
    <3>1. r = StartRuntime(ws, op.obs)
      BY <2>4 DEF Outcome
    <3>2. CASE ws.state = "disabled"
      BY <2>3, <3>1, <3>2 DEF StartRuntime
    <3>3. CASE ws.state # "disabled"
      BY <2>1, <2>2, <3>1, <3>3, StartJudges
    <3> QED
      BY <3>2, <3>3
  <2>5. CASE op.kind = "observe"
    <3>1. r = Observe(ws, op.obs)
      BY <2>5 DEF Outcome
    <3>2. CASE ws.state = "disabled"
      BY <2>3, <3>1, <3>2 DEF Observe, Nothing
    <3>3. CASE ws.state # "disabled"
      <4>1. ~(ws.latest # None /\ op.obs.at < ws.latest.at)
        <5>1. ws.latest # None => ws.latest.at \in Int /\ op.obs.at \in Int
          BY <2>1 DEF Fit, SnapshotType, Maybe, Observation, Time
        <5> QED
          BY <2>1, <5>1
      <4>2. r = ProcessObservation(ws, op.obs, FALSE)
        BY <3>1, <3>3, <4>1 DEF Observe
      <4> QED
        BY <2>1, <2>2, <3>3, <4>2, ObservationIsJudged
    <3> QED
      BY <3>2, <3>3
  <2>6. CASE op.kind = "enable"
    <3>1. r = Enable(ws, op.obs)
      BY <2>6 DEF Outcome
    <3> QED
      BY <2>1, <2>2, <3>1, EnableJudges
  <2> QED
    BY <1>1, <2>4, <2>5, <2>6 DEF Reads
<1>2. CASE op.kind \notin Reads
  <2>1. ASSUME KeepsVerdict(ws, r), op.kind # "test" PROVE Settles(ws, op, r)
    <3> HIDE DEF r
    <3> QED
      BY <1>2, <2>1 DEF KeepsVerdict, Settles
  <2>2. CASE op.kind = "tick"
    <3>1. r = TickAt(ws, now)
      BY <2>2 DEF Outcome
    <3> QED
      BY <2>1, <2>2, <3>1, TickKeepsVerdict
  <2>3. CASE op.kind = "silence"
    <3>1. r = Silence(ws)
      BY <2>3 DEF Outcome
    <3> QED
      BY <2>1, <2>3, <3>1, SilenceKeepsVerdict
  <2>4. CASE op.kind = "disable"
    <3>1. r = Disable(ws)
      BY <2>4 DEF Outcome
    <3> QED
      BY <2>1, <2>4, <3>1, DisableKeepsVerdict
  <2>5. CASE op.kind = "test"
    <3>1. r = Result(ws, <<Wait("siren_on", ws)>>, FALSE)
      BY <2>5 DEF Outcome
    <3>2. "siren_on" \in Requests /\ "siren_on" # "notify_wet"
      BY DEF Requests
    <3>3. KeepsVerdict(ws, r) /\ Final(r.w, r.out) = ws
      BY <3>1, <3>2, OneRequestPerforms
    <3> HIDE DEF r
    <3>4. Settles(ws, op, r)
      BY <1>2, <3>3 DEF KeepsVerdict, Settles
    <3> QED
      BY <3>4 DEF r
  <2> QED
    BY <1>2, <2>2, <2>3, <2>4, <2>5 DEF Reads, RuntimeKinds
<1> QED
  BY <1>1, <1>2

(* Of deadline and repetition at most one is pending. *)
LEMMA NextDeadlineType == ASSUME NEW w, Fit(w) PROVE NextDeadline(w) \in Maybe(Nat)
<1>1. w.deadline \in Maybe(Nat) /\ w.repeat \in Maybe(Nat)
  BY DEF Fit, SnapshotType
<1>2. \A n \in Nat : Earliest({n}) = n
  BY DEF Earliest
<1>3. Earliest({}) = None
  BY DEF Earliest
<1>4. \/ {w.deadline, w.repeat} \ {None} = {}
      \/ \E n \in Nat : {w.deadline, w.repeat} \ {None} = {n}
  BY <1>1 DEF Fit, Coherent, Maybe
<1> QED
  BY <1>2, <1>3, <1>4 DEF NextDeadline, Maybe

-----------------------------------------------------------------------------
(* THE INDUCTIVE INVARIANT *)

(* The snapshot that the operation in progress ends with. *)
Settled == IF worker = None THEN ws ELSE Final(ws, worker.out)

Types ==
    /\ now \in Time /\ sensor \in Observation
    /\ phase \in {"down", "starting", "live", "stopping", "incomplete", "stopped"}
    /\ accepting \in BOOLEAN /\ handle \in BOOLEAN /\ lost \in BOOLEAN
    /\ Fit(ws)
    /\ disk # None => Fit(disk)
    /\ startup \in Maybe(Seq(Observation))
    /\ queue \in Seq(OpType)
    /\ worker \in Maybe(Working) /\ (worker # None => Script(ws, worker.out))
    /\ timer \in Maybe(Nat)
    /\ cleanup \in CleanupType
    /\ asked \in {"siren_on", "siren_off"}
    /\ told \subseteq Nat /\ cut \subseteq Nat

(* A host accepts from its start to its stop, and releases nothing before. *)
Lifecycle ==
    /\ accepting <=> phase \in {"starting", "live"}
    /\ accepting => cleanup = Untouched
    /\ cleanup.step # "none" => phase = "stopping"
    /\ startup # None <=> phase = "starting"

(* The runtime's operations are queued while the host accepts, those of    *)
(* the stop afterwards.                                                    *)
QueueFits ==
    \A i \in DOMAIN queue :
        /\ queue[i].kind \in Reads => queue[i].obs \in Observation
        /\ queue[i].kind \notin Reads => queue[i].obs = None
        /\ queue[i].kind \in Physical <=> ~accepting

(* Readings wait in the order in which they were taken. *)
InOrder ==
    /\ sensor.at <= now
    /\ Settled.latest # None => Settled.latest.at <= sensor.at
    /\ disk # None /\ disk.latest # None => disk.latest.at <= sensor.at
    /\ \A i \in DOMAIN queue : queue[i].obs # None =>
         /\ queue[i].obs.at <= sensor.at
         /\ Settled.latest # None => Settled.latest.at <= queue[i].obs.at
         /\ \A j \in DOMAIN queue : i < j /\ queue[j].obs # None => queue[i].obs.at <= queue[j].obs.at
    /\ startup # None => \A k \in DOMAIN startup :
         /\ startup[k].at <= sensor.at
         /\ Settled.latest # None => Settled.latest.at <= startup[k].at
         /\ \A i \in DOMAIN queue : queue[i].obs # None => queue[i].obs.at <= startup[k].at
         /\ \A l \in DOMAIN startup : k < l => startup[k].at <= startup[l].at

(* The sensor's state is the last reading that waits, or is judged. *)
Buffered == startup # None /\ startup # <<>>
Current ==
    accepting =>
        \/ Buffered /\ startup[Len(startup)] = sensor
        \/ ~Buffered /\ \E i \in DOMAIN queue :
             queue[i].obs = sensor /\ \A j \in DOMAIN queue : i < j => queue[j].obs = None
        \/ /\ ~Buffered /\ \A i \in DOMAIN queue : queue[i].obs = None
           /\ Settled.state = "disabled" \/ (Settled.latest = sensor /\ Judged(Settled))

(* The deadline is armed or was lost in the race of schedule_at, or an     *)
(* operation that will arm it is on its way.                               *)
Lost(deadline) == lost /\ timer = None /\ deadline # None /\ deadline <= now
ArmedOrLost == timer = NextDeadline(Settled) \/ Lost(NextDeadline(Settled))
Armed ==
    /\ accepting =>
         \/ ArmedOrLost
         \/ \E i \in DOMAIN queue : queue[i].kind # "test"
         \/ worker # None /\ worker.op.kind # "test"
    /\ Rescheduling => /\ ~handle
                       /\ worker.out # <<>> => timer = None /\ Settled = ws
                       /\ worker.out = <<>> => ArmedOrLost

(* A saved incident was told, the current one was or is about to be. *)
Told ==
    /\ disk # None /\ disk.incident # None => disk.incident.id \in told \cup cut
    /\ Settled.incident # None =>
         \/ Settled.incident.id \in told \cup cut
         \/ worker # None /\ \E i \in DOMAIN worker.out : worker.out[i].ask = "notify_wet"
    /\ Rescheduling => \A i \in DOMAIN worker.out : worker.out[i].ask # "notify_wet"

HostInv == Types /\ Lifecycle /\ QueueFits /\ InOrder /\ Current /\ Armed /\ Told

(* What the two action properties say of a step. *)
StepIsFinal ==
    (~accepting /\ ~accepting') =>
        /\ asked' = asked
        /\ phase' # "down" =>
             /\ told' = told
             /\ worker # None => worker' = None \/ worker'.op = worker.op
             /\ worker = None => /\ UNCHANGED <<worker, ws, disk>>
                                 /\ timer' \in {timer, None}
StepKeepsAlarm ==
    (ws.incident # None /\ phase' = phase /\ ws'.incident # ws.incident) =>
        \/ ws'.incident = None /\ ws'.latest.cond = "dry" /\ ws'.latest.at >= ws.incident.wetAt
        \/ ws'.incident # None /\ ws'.incident.id = ws.incident.id
           /\ (ws.incident.silenced => ws'.incident.silenced)
Safe == HostInv' /\ StepIsFinal /\ StepKeepsAlarm

LEMMA FreshIsFit == Fit(Fresh) /\ Fit(Ended) /\ Ended.incident.id = 1 /\ Ended.latest.at = 0 /\ Ended.incident # None
<1>1. 0 \in Time /\ MaxTime \in Nat
  BY HostBounds DEF Time
<1>2. Fit(Fresh)
  BY DEF Fit, Fresh, SnapshotType, Coherent, Maybe
<1> DEFINE incident == [id |-> 1, wetAt |-> 0, silenced |-> FALSE]
           latest == [cond |-> "wet", at |-> 0]
<1>3. incident \in IncidentType /\ incident # None /\ latest \in Observation /\ latest # None
  <2>1. incident \in IncidentType
    BY <1>1 DEF IncidentType
  <2>2. latest \in Observation
    BY <1>1 DEF Observation, Conditions
  <2> HIDE DEF incident, latest
  <2> QED
    BY <2>1, <2>2, NoneIsNoData
<1>4. Ended = [state |-> "disabled", latest |-> latest, incident |-> incident, deadline |-> None,
               repeat |-> None, nextIncident |-> 2]
  <2> HIDE DEF incident, latest
  <2>1. Fresh = [state |-> "ok", latest |-> None, incident |-> None, deadline |-> None,
                 repeat |-> None, nextIncident |-> 1]
    BY DEF Fresh
  <2>2. Ended = [Fresh EXCEPT !.state = "disabled", !.latest = latest, !.incident = incident,
                              !.nextIncident = 2]
    BY DEF Ended, incident, latest
  <2> QED
    BY <2>1, <2>2
<1>5. Ended \in SnapshotType
  <2> HIDE DEF incident, latest
  <2> QED
    BY <1>3, <1>4 DEF SnapshotType, Maybe
<1>6. Fit(Ended)
  BY <1>3, <1>4, <1>5 DEF Fit, Coherent
<1> QED
  BY <1>2, <1>3, <1>4, <1>6

LEMMA InitIsSafe == Init => HostInv
<1> SUFFICES ASSUME Init PROVE HostInv
  OBVIOUS
<1>1. 0 \in Time
  BY HostBounds DEF Time
<1>2. sensor \in Observation /\ sensor.at = 0 /\ queue \in Seq(OpType)
  BY <1>1 DEF Init, Observation
<1>3. Types
  <2>1. Untouched \in CleanupType
    BY DEF Untouched, CleanupType
  <2>2. Fit(ws) /\ (disk # None => Fit(disk))
    BY FreshIsFit DEF Init
  <2>3. told \subseteq Nat /\ cut \subseteq Nat
    BY FreshIsFit DEF Init
  <2> QED
    BY <1>1, <1>2, <2>1, <2>2, <2>3 DEF Init, Types, Maybe
<1>4. Lifecycle /\ QueueFits /\ Current /\ Armed
  BY DEF Init, Lifecycle, QueueFits, Current, Armed, Rescheduling, Untouched
<1>5. Settled = Fresh
  BY DEF Init, Settled
<1>6. InOrder
  BY <1>2, <1>5, FreshIsFit DEF Init, InOrder, Fresh
<1>7. Told
  BY <1>5, FreshIsFit DEF Init, Told, Rescheduling, Fresh
<1> QED
  BY <1>3, <1>4, <1>6, <1>7 DEF HostInv

-----------------------------------------------------------------------------
(* WHAT THE STEPS HAVE IN COMMON *)

LEMMA SettledKept == ASSUME UNCHANGED <<ws, worker>> PROVE Settled' = Settled
  BY DEF Settled

LEMMA SettledIsFit == ASSUME Types PROVE Fit(Settled)
<1>1. CASE worker = None
  BY <1>1 DEF Types, Settled
<1>2. CASE worker # None /\ worker.out = <<>>
  BY <1>2 DEF Types, Settled, Final
<1>3. CASE worker # None /\ worker.out # <<>>
  <2>1. Script(ws, worker.out) /\ worker.out \in Seq(Waits)
    BY <1>3 DEF Types, Script
  <2>2. Len(worker.out) \in DOMAIN worker.out
    BY <1>3, <2>1
  <2> QED
    BY <1>3, <2>1, <2>2 DEF Settled, Final, Script
<1> QED
  BY <1>1, <1>2, <1>3

(* Neither the worker nor its timer moves. *)
Rests == UNCHANGED <<ws, disk, told, cut, worker>>

LEMMA ToldKept == ASSUME Told, Rests PROVE Told'
<1>1. Settled' = Settled
  BY SettledKept DEF Rests
<1> QED
  BY <1>1 DEF Told, Rescheduling, Rests

(* The timer stays as it is while the clock goes on. *)
LEMMA ArmedKept ==
    ASSUME HostInv, UNCHANGED <<ws, worker, timer, handle, lost>>, now \in Int, now' \in Int, now <= now',
           accepting' => accepting,
           accepting' => \A i \in DOMAIN queue : \E j \in DOMAIN queue' : queue'[j].kind = queue[i].kind
    PROVE  Armed'
<1>1. Settled' = Settled
  BY SettledKept
<1>2. NextDeadline(Settled) # None => NextDeadline(Settled) \in Int
  BY SettledIsFit, NextDeadlineType DEF HostInv, Maybe
<1>3. ArmedOrLost => ArmedOrLost'
  BY <1>1, <1>2 DEF ArmedOrLost, Lost
<1>4. Rescheduling' <=> Rescheduling
  BY DEF Rescheduling
<1> QED
  BY <1>1, <1>3, <1>4 DEF HostInv, Armed

LEMMA ArmedOnTheWay ==
    ASSUME HostInv, UNCHANGED <<now, ws, worker, timer, handle, lost>>,
           \E i \in DOMAIN queue' : queue'[i].kind # "test"
    PROVE  Armed'
<1>1. Settled' = Settled
  BY SettledKept
<1> QED
  BY <1>1 DEF HostInv, Armed, ArmedOrLost, Lost, Rescheduling

LEMMA QuietStep ==
    ASSUME UNCHANGED <<ws, asked, told>>,
           \/ accepting
           \/ UNCHANGED <<worker, disk>> /\ timer' \in {timer, None}
           \/ worker # None /\ (worker' = None \/ worker'.op = worker.op)
    PROVE  StepIsFinal /\ StepKeepsAlarm
  BY DEF StepIsFinal, StepKeepsAlarm

LEMMA TimesAreNumbers ==
    ASSUME Types
    PROVE  /\ now \in Int /\ sensor.at \in Int /\ None # sensor
           /\ Settled.latest # None => Settled.latest.at \in Int
           /\ disk # None /\ disk.latest # None => disk.latest.at \in Int
           /\ \A i \in DOMAIN queue : queue[i].obs # None =>
                queue[i].obs \in Observation /\ queue[i].obs.at \in Int
           /\ startup # None => /\ startup \in Seq(Observation)
                                /\ \A k \in DOMAIN startup : startup[k].at \in Int
<1>1. \A o \in Observation : o.at \in Int /\ o # None
  BY NoneIsNoData DEF Observation, Time
<1>2. now \in Int /\ sensor.at \in Int /\ None # sensor
  BY <1>1 DEF Types, Time
<1>3. Settled.latest # None => Settled.latest.at \in Int
  BY <1>1, SettledIsFit DEF Fit, SnapshotType, Maybe
<1>4. disk # None /\ disk.latest # None => disk.latest.at \in Int
  BY <1>1 DEF Types, Fit, SnapshotType, Maybe
<1>5. \A i \in DOMAIN queue : queue[i].obs # None =>
        queue[i].obs \in Observation /\ queue[i].obs.at \in Int
  <2>1. \A i \in DOMAIN queue : queue[i] \in OpType
    BY DEF Types
  <2>2. \A op \in OpType : op.obs # None => op.obs \in Observation
    BY DEF OpType, Maybe
  <2> QED
    BY <1>1, <2>1, <2>2
<1>6. startup # None => startup \in Seq(Observation) /\ \A k \in DOMAIN startup : startup[k].at \in Int
  BY <1>1 DEF Types, Maybe
<1> QED
  BY <1>2, <1>3, <1>4, <1>5, <1>6

(* Nothing is read, queued or judged; the clock may go on. *)
LEMMA ReadingsKept ==
    ASSUME HostInv, UNCHANGED <<sensor, accepting, startup, queue>>, Settled' = Settled, disk' \in {Settled, disk},
           now' \in Time, now <= now'
    PROVE  QueueFits' /\ InOrder' /\ Current'
<1>1. QueueFits'
  BY DEF HostInv, QueueFits
<1>2. InOrder'
  <2>1. sensor.at \in Int /\ now \in Int /\ now' \in Int
    BY DEF HostInv, Types, Observation, Time
  <2> QED
    BY <2>1 DEF HostInv, InOrder
<1>3. Current'
  BY DEF HostInv, Current, Buffered
<1> QED
  BY <1>1, <1>2, <1>3

(* An operation without a reading is queued; a snapshot may be saved. *)
LEMMA PlainQueued ==
    ASSUME HostInv, UNCHANGED <<now, sensor, accepting, startup>>, Settled' = Settled, disk' \in {Settled, disk},
           NEW op \in OpType, op.kind \notin Reads, op.obs = None, op.kind \in Physical <=> ~accepting,
           queue' = Append(queue, op)
    PROVE  queue' \in Seq(OpType) /\ QueueFits' /\ InOrder' /\ Current'
<1> DEFINE n == Len(queue) + 1
<1>1. /\ queue' \in Seq(OpType) /\ DOMAIN queue' = DOMAIN queue \cup {n}
      /\ queue'[n] = op /\ n \notin DOMAIN queue /\ \A i \in DOMAIN queue : queue'[i] = queue[i] /\ i < n
  BY DEF HostInv, Types
<1> HIDE DEF n
<1>2. QueueFits'
  BY <1>1 DEF HostInv, QueueFits
<1>3. InOrder'
  BY <1>1 DEF HostInv, InOrder
<1>4. Current'
  BY <1>1 DEF HostInv, Current, Buffered
<1> QED
  BY <1>1, <1>2, <1>3, <1>4

(* The sensor's present state is queued for a live host. *)
LEMMA ReadingQueued ==
    ASSUME HostInv, UNCHANGED <<now, disk, accepting, startup>>, Settled' = Settled, accepting, startup = None,
           sensor' \in Observation, sensor.at <= sensor'.at, sensor'.at <= now,
           NEW op \in OpType, op.kind \in Reads, op.obs = sensor', queue' = Append(queue, op)
    PROVE  queue' \in Seq(OpType) /\ QueueFits' /\ InOrder' /\ Current'
<1> DEFINE n == Len(queue) + 1
<1>1. /\ queue' \in Seq(OpType) /\ DOMAIN queue' = DOMAIN queue \cup {n}
      /\ queue'[n] = op /\ n \notin DOMAIN queue /\ \A i \in DOMAIN queue : queue'[i] = queue[i] /\ i < n
      /\ n \in Int /\ \A i \in DOMAIN queue : i \in Int
  BY DEF HostInv, Types
<1> HIDE DEF n
<1>2. QueueFits'
  BY <1>1 DEF HostInv, QueueFits, Reads, Physical
<1>3. InOrder'
  <2>1. sensor'.at \in Int /\ sensor.at \in Int /\ sensor' # None
    BY NoneIsNoData, TimesAreNumbers DEF Observation, Time, HostInv
  <2>2. /\ Settled.latest # None => Settled.latest.at <= sensor'.at
        /\ disk # None /\ disk.latest # None => disk.latest.at <= sensor'.at
        /\ \A i \in DOMAIN queue : queue[i].obs # None => queue[i].obs.at <= sensor'.at
    BY <2>1, TimesAreNumbers DEF HostInv, InOrder
  <2>3. ASSUME NEW i \in DOMAIN queue', queue'[i].obs # None
        PROVE  /\ queue'[i].obs.at <= sensor'.at
               /\ Settled.latest # None => Settled.latest.at <= queue'[i].obs.at
               /\ \A j \in DOMAIN queue' : i < j /\ queue'[j].obs # None =>
                    queue'[i].obs.at <= queue'[j].obs.at
    <3>1. CASE i \in DOMAIN queue
      BY <1>1, <2>2, <2>3, <3>1 DEF HostInv, InOrder
    <3>2. CASE i = n
      <4>1. \A j \in DOMAIN queue' : ~(n < j)
        BY <1>1
      <4> QED
        BY <1>1, <2>1, <2>2, <3>2, <4>1
    <3> QED
      BY <1>1, <3>1, <3>2
  <2> QED
    BY <2>2, <2>3 DEF InOrder
<1>4. Current'
  <2>1. \A j \in DOMAIN queue' : ~(n < j)
    BY <1>1
  <2> QED
    BY <1>1, <2>1 DEF Current, Buffered
<1> QED
  BY <1>1, <1>2, <1>3, <1>4

(* An operation without a reading is taken from the queue; another one may *)
(* be put at its end.                                                      *)
LEMMA QueueShifted ==
    ASSUME HostInv, UNCHANGED <<now, sensor, disk, accepting, startup>>, Settled' = Settled,
           queue # <<>>, queue[1].obs = None, queue' \in Seq(OpType),
           \A i \in DOMAIN queue : i # 1 => i - 1 \in DOMAIN queue' /\ queue'[i - 1] = queue[i],
           \A i \in DOMAIN queue' :
               \/ i + 1 \in DOMAIN queue /\ queue'[i] = queue[i + 1]
               \/ /\ i = Len(queue) /\ queue'[i].kind \notin Reads /\ queue'[i].obs = None
                  /\ queue'[i].kind \in Physical <=> ~accepting
    PROVE  QueueFits' /\ InOrder' /\ Current'
<1>1. /\ queue \in Seq(OpType) /\ Len(queue) \in Nat \ {0} /\ DOMAIN queue = 1 .. Len(queue)
      /\ DOMAIN queue' \subseteq Int
  BY DEF HostInv, Types
<1>2. QueueFits'
  BY DEF HostInv, QueueFits
<1>3. InOrder'
  <2>1. ASSUME NEW i \in DOMAIN queue', NEW j \in DOMAIN queue', i < j
        PROVE  i + 1 < j + 1
    BY <1>1, <2>1
  <2> QED
    BY <1>1, <2>1 DEF HostInv, InOrder
<1>4. Current'
  <2>1. CASE \E i \in DOMAIN queue :
               queue[i].obs = sensor /\ \A j \in DOMAIN queue : i < j => queue[j].obs = None
    <3>1. PICK i \in DOMAIN queue :
               queue[i].obs = sensor /\ \A j \in DOMAIN queue : i < j => queue[j].obs = None
      BY <2>1
    <3>2. i # 1
      BY <1>1, <3>1, NoneIsNoData DEF HostInv, Types
    <3>3. i - 1 \in DOMAIN queue' /\ queue'[i - 1].obs = sensor
      BY <1>1, <3>1, <3>2
    <3>4. \A j \in DOMAIN queue' : i - 1 < j => queue'[j].obs = None
      BY <1>1, <3>1
    <3> QED
      BY <3>3, <3>4 DEF HostInv, Current, Buffered
  <2>2. CASE ~\E i \in DOMAIN queue :
               queue[i].obs = sensor /\ \A j \in DOMAIN queue : i < j => queue[j].obs = None
    BY <1>1, <2>2 DEF HostInv, Current, Buffered
  <2> QED
    BY <2>1, <2>2
<1> QED
  BY <1>2, <1>3, <1>4

LEMMA PlainTaken ==
    ASSUME HostInv, UNCHANGED <<now, sensor, disk, accepting, startup>>, Settled' = Settled,
           queue # <<>>, Head(queue).obs = None, queue' = Tail(queue)
    PROVE  queue' \in Seq(OpType) /\ QueueFits' /\ InOrder' /\ Current'
<1>1. /\ queue \in Seq(OpType) /\ queue' \in Seq(OpType) /\ queue[1].obs = None
      /\ \A i \in DOMAIN queue' : i + 1 \in DOMAIN queue /\ queue'[i] = queue[i + 1]
      /\ \A i \in DOMAIN queue : i # 1 => i - 1 \in DOMAIN queue' /\ queue'[i - 1] = queue[i]
  BY DEF HostInv, Types
<1> QED
  BY <1>1, QueueShifted

-----------------------------------------------------------------------------
(* THE LIFE OF A HOST AND ITS SURROUNDINGS *)

LEMMA StartHostIsSafe == ASSUME HostInv, NEW same \in BOOLEAN, StartHost(same) PROVE Safe
<1> DEFINE op == Op("start", "init", sensor)
<1>1. /\ op \in OpType /\ op.kind = "start" /\ op.obs = sensor /\ sensor \in Observation
      /\ queue' = <<op>> /\ queue' \in Seq(OpType) /\ DOMAIN queue' = {1} /\ queue'[1] = op
  <2>1. op \in OpType
    BY DEF HostInv, Types, Op, OpType, Kinds, Maybe
  <2> QED
    BY <2>1 DEF StartHost, HostInv, Types, Op
<1>2. ws' \in {Fresh, disk} /\ (ws' = disk /\ ws' # Fresh => disk # None)
  BY DEF StartHost, Restored
<1>3. Types'
  <2>1. Fit(ws')
    BY <1>2, FreshIsFit DEF HostInv, Types, StartHost, Restored
  <2>2. startup' \in Maybe(Seq(Observation)) /\ Untouched \in CleanupType
    BY DEF StartHost, Maybe, Untouched, CleanupType
  <2> QED
    BY <1>1, <2>1, <2>2 DEF HostInv, Types, StartHost, Maybe
<1>a. Settled' = ws'
  BY DEF StartHost, Settled
<1>4. Lifecycle'
  <2>1. startup' # None
    <3>1. <<>> \in Seq(Observation)
      OBVIOUS
    <3> QED
      BY <3>1, NoneIsNoData DEF StartHost
  <2> QED
    BY <2>1 DEF StartHost, Lifecycle, Untouched
<1>5. QueueFits'
  BY <1>1 DEF StartHost, QueueFits, Reads, Physical
<1>6. Fresh.latest = None /\ Fresh.incident = None
  BY DEF Fresh
<1>7. InOrder'
  <2>1. DOMAIN startup' = {} /\ ~(1 < 1) /\ sensor.at <= sensor.at
    BY TimesAreNumbers DEF StartHost, HostInv
  <2>2. ws'.latest # None => ws'.latest.at <= sensor.at
    BY <1>2, <1>6 DEF HostInv, InOrder
  <2> QED
    BY <1>1, <1>a, <2>1, <2>2 DEF HostInv, InOrder, StartHost
<1>8. Current'
  BY <1>1 DEF StartHost, Current, Buffered
<1>9. Armed' /\ Told'
  BY <1>1, <1>2, <1>6, <1>a DEF StartHost, Armed, Rescheduling, Told, HostInv
<1>10. phase' # phase /\ accepting'
  BY DEF StartHost
<1> QED
  BY <1>3, <1>4, <1>5, <1>7, <1>8, <1>9, <1>10 DEF Safe, HostInv, StepIsFinal, StepKeepsAlarm

LEMMA DrainStartupIsSafe == ASSUME HostInv, DrainStartup PROVE Safe
<1> DEFINE op == Op("observe", "init", Head(startup))
           n == Len(queue) + 1
           m == Len(startup)
<1>1. /\ startup \in Seq(Observation) /\ startup # <<>> /\ startup # None /\ accepting
      /\ m \in Nat \ {0} /\ DOMAIN startup = 1 .. m /\ startup[1] \in Observation /\ startup[1] # None
  <2>1. startup # <<>> /\ accepting /\ startup # None
    BY DEF DrainStartup, HostInv, Types, Lifecycle, Current
  <2>2. startup \in Seq(Observation)
    BY <2>1, TimesAreNumbers DEF HostInv
  <2> QED
    BY <2>1, <2>2, NoneIsNoData
<1>2. op \in OpType /\ op.kind = "observe" /\ op.obs = startup[1]
  BY <1>1 DEF Op, OpType, Kinds, Maybe
<1> HIDE DEF op
<1>3. /\ queue' \in Seq(OpType) /\ DOMAIN queue' = DOMAIN queue \cup {n}
      /\ queue'[n] = op /\ n \notin DOMAIN queue /\ \A i \in DOMAIN queue : queue'[i] = queue[i] /\ i < n
      /\ n \in Int /\ \A i \in DOMAIN queue : i \in Int
  BY <1>2 DEF HostInv, Types, DrainStartup, op
<1> HIDE DEF n
<1>4. /\ startup' \in Seq(Observation) /\ startup' # None /\ DOMAIN startup' = 1 .. (m - 1)
      /\ \A k \in DOMAIN startup' : k + 1 \in DOMAIN startup /\ startup'[k] = startup[k + 1]
      /\ startup' # <<>> => m > 1 /\ startup'[Len(startup')] = startup[m]
      /\ startup' = <<>> => m = 1
  <2>1. startup' = Tail(startup)
    BY DEF DrainStartup
  <2>2. startup' \in Seq(Observation)
    BY <1>1, <2>1
  <2>3. startup' # None
    BY <2>2, NoneIsNoData
  <2>4. /\ Len(startup') = m - 1 /\ DOMAIN startup' = 1 .. (m - 1)
        /\ \A k \in 1 .. (m - 1) : startup'[k] = startup[k + 1]
    BY <1>1, <2>1
  <2>5. startup' # <<>> => m - 1 \in 1 .. (m - 1)
    BY <1>1, <2>2, <2>4
  <2>6. startup' = <<>> => m = 1
    <3>1. startup' = <<>> => Len(startup') = 0
      OBVIOUS
    <3>2. startup' = <<>> => m - 1 = 0
      BY <2>4, <3>1
    <3> HIDE DEF m
    <3> QED
      BY <1>1, <3>2
  <2> QED
    BY <1>1, <2>2, <2>3, <2>4, <2>5, <2>6
<1>5. UNCHANGED <<now, sensor, phase, accepting, ws, disk, asked, told, cut, worker, timer, handle, lost, cleanup>>
  BY DEF DrainStartup, runtimeVars, timerVars
<1>a. Settled' = Settled
  BY <1>5, SettledKept
<1>6. Types'
  BY <1>3, <1>4, <1>5 DEF HostInv, Types, Maybe
<1>7. Lifecycle'
  BY <1>1, <1>4, <1>5 DEF HostInv, Lifecycle, DrainStartup
<1>8. QueueFits'
  BY <1>1, <1>2, <1>3, <1>5 DEF HostInv, QueueFits, Reads, Physical
<1>9. InOrder'
  <2>1. /\ startup[1].at <= sensor.at
        /\ Settled.latest # None => Settled.latest.at <= startup[1].at
        /\ \A i \in DOMAIN queue : queue[i].obs # None => queue[i].obs.at <= startup[1].at
        /\ \A k \in DOMAIN startup : 1 < k => startup[1].at <= startup[k].at
    BY <1>1 DEF HostInv, InOrder
  <2>2. \A k \in DOMAIN startup' : 1 < k + 1
    BY <1>4
  <2>3. \A k \in DOMAIN startup', l \in DOMAIN startup' : k < l => k + 1 < l + 1
    BY <1>4
  <2>4. ASSUME NEW i \in DOMAIN queue', queue'[i].obs # None
        PROVE  /\ queue'[i].obs.at <= sensor.at
               /\ Settled.latest # None => Settled.latest.at <= queue'[i].obs.at
               /\ \A j \in DOMAIN queue' : i < j /\ queue'[j].obs # None =>
                    queue'[i].obs.at <= queue'[j].obs.at
    <3>1. CASE i \in DOMAIN queue
      BY <1>2, <1>3, <2>1, <2>4, <3>1 DEF HostInv, InOrder
    <3>2. CASE i = n
      <4>1. \A j \in DOMAIN queue' : ~(n < j)
        BY <1>3
      <4> QED
        BY <1>2, <1>3, <2>1, <3>2, <4>1
    <3> QED
      BY <1>3, <3>1, <3>2
  <2>5. ASSUME NEW k \in DOMAIN startup'
        PROVE  /\ startup'[k].at <= sensor.at
               /\ Settled.latest # None => Settled.latest.at <= startup'[k].at
               /\ \A i \in DOMAIN queue' : queue'[i].obs # None => queue'[i].obs.at <= startup'[k].at
               /\ \A l \in DOMAIN startup' : k < l => startup'[k].at <= startup'[l].at
    <3>1. /\ startup[k + 1].at <= sensor.at
          /\ Settled.latest # None => Settled.latest.at <= startup[k + 1].at
          /\ \A i \in DOMAIN queue : queue[i].obs # None => queue[i].obs.at <= startup[k + 1].at
          /\ \A l \in DOMAIN startup : k + 1 < l => startup[k + 1].at <= startup[l].at
          /\ startup[1].at <= startup[k + 1].at
      BY <1>1, <1>4, <2>1, <2>2 DEF HostInv, InOrder
    <3> QED
      BY <1>2, <1>3, <1>4, <2>3, <3>1
  <2> QED
    BY <1>1, <1>5, <1>a, <2>4, <2>5 DEF HostInv, InOrder
<1>10. Current'
  <2>1. startup[m] = sensor
    BY <1>1 DEF HostInv, Current, Buffered
  <2>2. \A j \in DOMAIN queue' : ~(n < j)
    BY <1>3
  <2>3. startup' = <<>> => queue'[n].obs = sensor'
    BY <1>2, <1>3, <1>4, <1>5, <2>1
  <2> QED
    BY <1>3, <1>4, <1>5, <2>1, <2>2, <2>3 DEF Current, Buffered
<1>11. Armed'
  <2>1. now \in Int /\ now' \in Int /\ now <= now'
    BY <1>5, TimesAreNumbers DEF HostInv
  <2> QED
    BY <1>3, <1>5, <2>1, ArmedKept
<1>12. Told'
  BY <1>5, ToldKept DEF HostInv, Rests
<1> QED
  BY <1>5, <1>6, <1>7, <1>8, <1>9, <1>10, <1>11, <1>12, QuietStep DEF Safe, HostInv

LEMMA GoLiveIsSafe == ASSUME HostInv, GoLive PROVE Safe
<1>1. /\ UNCHANGED <<now, sensor, accepting, ws, disk, asked, told, cut, queue, worker, timer, handle, lost, cleanup>>
      /\ phase = "starting" /\ accepting /\ startup = <<>> /\ phase' = "live" /\ startup' = None
  BY DEF GoLive, runtimeVars, timerVars
<1>2. Types'
  BY <1>1 DEF HostInv, Types, Maybe
<1>a. Settled' = Settled
  BY <1>1, SettledKept
<1>3. Lifecycle' /\ QueueFits' /\ InOrder'
  BY <1>1, <1>a DEF HostInv, Lifecycle, QueueFits, InOrder
<1>4. Current'
  BY <1>1, <1>a DEF HostInv, Current, Buffered
<1>5. Armed' /\ Told'
  <2>1. now \in Int /\ now' \in Int /\ now <= now'
    BY <1>1, TimesAreNumbers DEF HostInv
  <2> QED
    BY <1>1, <2>1, ArmedKept, ToldKept DEF HostInv, Rests
<1> QED
  BY <1>1, <1>2, <1>3, <1>4, <1>5, QuietStep DEF Safe, HostInv

LEMMA CrashIsSafe == ASSUME HostInv, Crash PROVE Safe
<1>1. /\ UNCHANGED <<now, sensor, disk, asked>> /\ phase # "down" /\ phase' = "down"
      /\ accepting' = FALSE /\ ws' = Fresh /\ startup' = None /\ queue' = <<>> /\ worker' = None
      /\ timer' = None /\ handle' = FALSE /\ lost' = FALSE /\ cleanup' = Untouched
  BY DEF Crash
<1>2. /\ told' \subseteq told /\ cut' \subseteq cut
      /\ disk # None => /\ \A i \in told : i < disk.nextIncident => i \in told'
                        /\ \A i \in cut : i < disk.nextIncident => i \in cut'
  BY DEF Crash
<1>3. Fresh.latest = None /\ Fresh.incident = None /\ Settled' = Fresh
  BY <1>1 DEF Fresh, Settled
<1>4. Types'
  <2>1. Untouched \in CleanupType
    BY DEF Untouched, CleanupType
  <2>2. Fit(ws')
    BY <1>1, FreshIsFit
  <2>3. queue' \in Seq(OpType) /\ told' \subseteq Nat /\ cut' \subseteq Nat
    BY <1>1, <1>2 DEF HostInv, Types
  <2> QED
    BY <1>1, <2>1, <2>2, <2>3 DEF HostInv, Types, Maybe
<1>5. Lifecycle' /\ QueueFits' /\ InOrder' /\ Current' /\ Armed'
  BY <1>1, <1>3 DEF HostInv, Lifecycle, QueueFits, InOrder, Current, Armed, Rescheduling, Untouched
<1>6. Told'
  BY <1>1, <1>2, <1>3 DEF HostInv, Told, Rescheduling, Types, Fit
<1> QED
  BY <1>1, <1>4, <1>5, <1>6 DEF Safe, HostInv, StepIsFinal, StepKeepsAlarm

LEMMA AdvanceIsSafe == ASSUME HostInv, Advance PROVE Safe
<1>1. /\ UNCHANGED <<sensor, phase, accepting, ws, disk, asked, told, cut, startup, queue, worker,
                     timer, handle, lost, cleanup>>
      /\ now' \in Time /\ now <= now'
  BY HostBounds DEF Advance, runtimeVars, timerVars, HostInv, Types, Time
<1>2. Types'
  BY <1>1 DEF HostInv, Types
<1>3. Lifecycle' /\ Armed' /\ Told'
  <2>1. now \in Int /\ now' \in Int
    BY <1>1, TimesAreNumbers DEF HostInv, Time
  <2> QED
    BY <1>1, <2>1, ArmedKept, ToldKept DEF HostInv, Lifecycle, Rests
<1>4. QueueFits' /\ InOrder' /\ Current'
  <2>1. Settled' = Settled
    BY <1>1, SettledKept
  <2> QED
    BY <1>1, <2>1, ReadingsKept
<1> QED
  BY <1>1, <1>2, <1>3, <1>4, QuietStep DEF Safe, HostInv

LEMMA SensorChangesIsSafe == ASSUME HostInv, NEW raw \in {"on", "off", "unavailable"}, SensorChanges(raw) PROVE Safe
<1> DEFINE obs == [cond |-> Condition(raw), at |-> now]
<1>1. /\ UNCHANGED <<now, phase, accepting, ws, disk, asked, told, cut, worker, timer, handle, lost, cleanup>>
      /\ sensor' = obs
  BY DEF SensorChanges, runtimeVars, timerVars
<1>2. obs \in Observation /\ obs.at = now /\ obs # None
  BY NoneIsNoData DEF HostInv, Types, Observation, Condition, Conditions
<1> HIDE DEF obs
<1>a. Settled' = Settled
  BY <1>1, SettledKept
<1>b. now \in Int /\ now' \in Int /\ now <= now'
  BY <1>1, TimesAreNumbers DEF HostInv
<1>c. Told'
  BY <1>1, ToldKept DEF HostInv, Rests
<1>3. /\ sensor.at <= obs.at /\ obs.at <= now /\ obs.at \in Int /\ sensor.at \in Int
      /\ now \in Int
      /\ Settled.latest # None => Settled.latest.at <= obs.at
      /\ disk # None /\ disk.latest # None => disk.latest.at <= obs.at
      /\ \A i \in DOMAIN queue : queue[i].obs # None => queue[i].obs.at <= obs.at
  BY <1>2, TimesAreNumbers DEF HostInv, InOrder
<1>5. CASE UNCHANGED <<startup, queue>> /\ ~accepting
  <2>1. Types' /\ Lifecycle' /\ QueueFits'
    BY <1>1, <1>2, <1>5 DEF HostInv, Types, Lifecycle, QueueFits
  <2>a. Armed'
    BY <1>1, <1>5, <1>b, ArmedKept
  <2>2. Current' /\ startup = None
    BY <1>1, <1>5 DEF HostInv, Lifecycle, Current
  <2>3. InOrder'
    BY <1>1, <1>3, <1>5, <1>a, <2>2 DEF HostInv, InOrder
  <2> QED
    BY <1>1, <1>c, <2>1, <2>2, <2>3, <2>a, QuietStep DEF Safe, HostInv
<1>6. CASE startup # None /\ startup' = Append(startup, obs) /\ UNCHANGED queue
  <2> DEFINE n == Len(startup) + 1
  <2>1. /\ startup' \in Seq(Observation) /\ startup' # None /\ startup' # <<>>
        /\ Len(startup') = n /\ startup'[n] = obs /\ n \notin DOMAIN startup /\ n \in Int
        /\ DOMAIN startup' = DOMAIN startup \cup {n}
        /\ \A k \in DOMAIN startup : startup'[k] = startup[k] /\ k < n /\ k \in Int
    <3>1. startup \in Seq(Observation)
      BY <1>6 DEF HostInv, Types, Maybe
    <3>2. startup' \in Seq(Observation)
      BY <1>2, <1>6, <3>1
    <3> QED
      BY <1>6, <3>1, <3>2, NoneIsNoData
  <2> HIDE DEF n
  <2>2. Types'
    BY <1>1, <1>2, <1>6, <2>1 DEF HostInv, Types, Maybe
  <2>3. Lifecycle' /\ QueueFits'
    BY <1>1, <1>6, <2>1 DEF HostInv, Lifecycle, QueueFits
  <2>a. Armed'
    BY <1>1, <1>6, <1>b, ArmedKept
  <2>4. Current'
    BY <1>1, <2>1 DEF Current, Buffered
  <2>5. ASSUME NEW k \in DOMAIN startup'
        PROVE  /\ startup'[k].at <= obs.at
               /\ Settled.latest # None => Settled.latest.at <= startup'[k].at
               /\ \A i \in DOMAIN queue : queue[i].obs # None => queue[i].obs.at <= startup'[k].at
               /\ \A l \in DOMAIN startup' : k < l => startup'[k].at <= startup'[l].at
    <3>1. CASE k \in DOMAIN startup
      <4>1. startup[k].at <= obs.at
        BY <1>3, <1>6, <3>1, TimesAreNumbers DEF HostInv, InOrder
      <4> QED
        BY <1>6, <2>1, <3>1, <4>1 DEF HostInv, InOrder
    <3>2. CASE k = n
      <4>1. \A l \in DOMAIN startup' : ~(n < l)
        BY <2>1
      <4> QED
        BY <1>3, <2>1, <3>2, <4>1
    <3> QED
      BY <2>1, <3>1, <3>2
  <2>6. ASSUME NEW i \in DOMAIN queue, queue[i].obs # None
        PROVE  /\ queue[i].obs.at <= obs.at
               /\ Settled.latest # None => Settled.latest.at <= queue[i].obs.at
               /\ \A j \in DOMAIN queue : i < j /\ queue[j].obs # None => queue[i].obs.at <= queue[j].obs.at
    BY <1>3, <2>6 DEF HostInv, InOrder
  <2>7. InOrder'
    BY <1>1, <1>3, <1>6, <1>a, <2>5, <2>6 DEF InOrder
  <2> QED
    BY <1>1, <1>c, <2>2, <2>3, <2>4, <2>7, <2>a, QuietStep DEF Safe, HostInv
<1>7. CASE accepting /\ startup = None /\ queue' = Append(queue, Op("observe", "task", obs)) /\ UNCHANGED startup
  <2> DEFINE op == Op("observe", "task", obs)
  <2>1. op \in OpType /\ op.kind \in Reads /\ op.obs = obs /\ op.kind # "test"
    BY <1>2 DEF Op, OpType, Kinds, Maybe, Reads
  <2>2. queue' = Append(queue, op)
    BY <1>7
  <2> HIDE DEF op
  <2>3. queue' \in Seq(OpType) /\ QueueFits' /\ InOrder' /\ Current'
    BY <1>1, <1>2, <1>3, <1>7, <1>a, <2>1, <2>2, ReadingQueued
  <2>4. Types'
    BY <1>1, <1>2, <1>7, <2>3 DEF HostInv, Types
  <2>5. Lifecycle'
    BY <1>1, <1>7 DEF HostInv, Lifecycle
  <2>6. Armed'
    <3>1. \E i \in DOMAIN queue' : queue'[i].kind # "test"
      BY <2>1, <2>2 DEF HostInv, Types
    <3> QED
      BY <1>1, <3>1, ArmedOnTheWay
  <2> QED
    BY <1>1, <1>c, <2>3, <2>4, <2>5, <2>6, QuietStep DEF Safe, HostInv
<1>8. cleanup.subscribed \/ ~accepting
  BY DEF HostInv, Lifecycle, Untouched
<1> QED
  BY <1>5, <1>6, <1>7, <1>8 DEF SensorChanges, obs

LEMMA UserAsksIsSafe == ASSUME HostInv, NEW kind \in UserRequests, UserAsks(kind) PROVE Safe
<1> DEFINE op == Op(kind, "task", IF kind = "enable" THEN sensor ELSE None)
<1>1. /\ UNCHANGED <<now, sensor, phase, accepting, ws, disk, asked, told, cut, startup, worker,
                     timer, handle, lost, cleanup>>
      /\ accepting /\ phase = "live" /\ queue' = Append(queue, op)
      /\ kind \in {"silence", "disable", "enable", "test"}
  BY UserRequestsAreServices DEF UserAsks, runtimeVars, timerVars
<1>2. op \in OpType /\ op.kind = kind /\ op.obs = IF kind = "enable" THEN sensor ELSE None
  BY <1>1 DEF Op, OpType, Kinds, Maybe, HostInv, Types
<1> HIDE DEF op
<1>a. Settled' = Settled
  BY <1>1, SettledKept
<1>3. startup = None
  BY <1>1 DEF HostInv, Lifecycle
<1>4. queue' \in Seq(OpType) /\ QueueFits' /\ InOrder' /\ Current'
  <2>1. CASE kind = "enable"
    <3>1. sensor \in Observation /\ sensor.at <= sensor.at /\ sensor.at <= now
      BY TimesAreNumbers DEF HostInv, Types, InOrder
    <3>2. op.kind \in Reads /\ op.obs = sensor
      BY <1>2, <2>1 DEF Reads
    <3> QED
      BY <1>1, <1>2, <1>3, <1>a, <3>1, <3>2, ReadingQueued
  <2>2. CASE kind # "enable"
    <3>1. op.kind \notin Reads /\ op.obs = None /\ op.kind \notin Physical
      BY <1>1, <1>2, <2>2 DEF Reads, Physical
    <3> QED
      BY <1>1, <1>2, <1>a, <3>1, PlainQueued
  <2> QED
    BY <2>1, <2>2
<1>5. Types'
  BY <1>1, <1>4 DEF HostInv, Types
<1>6. Lifecycle' /\ Told'
  BY <1>1, ToldKept DEF HostInv, Lifecycle, Rests
<1>7. Armed'
  <2>1. \A i \in DOMAIN queue : i \in DOMAIN queue' /\ queue'[i] = queue[i]
    BY <1>1, <1>2 DEF HostInv, Types
  <2>2. now \in Int /\ now' \in Int /\ now <= now'
    BY <1>1, TimesAreNumbers DEF HostInv
  <2> QED
    BY <1>1, <2>1, <2>2, ArmedKept
<1> QED
  BY <1>1, <1>4, <1>5, <1>6, <1>7, QuietStep DEF Safe, HostInv

LEMMA TimerFiresIsSafe == ASSUME HostInv, TimerFires PROVE Safe
<1>1. /\ UNCHANGED <<now, sensor, phase, accepting, ws, disk, asked, told, cut, startup, worker,
                     handle, cleanup>>
      /\ timer # None /\ timer <= now /\ timer' = None /\ lost' = ~handle
      /\ queue' = IF handle /\ accepting THEN Append(queue, Op("deadline", "task", None)) ELSE queue
  <2>1. timer # None => timer \in Int
    BY DEF HostInv, Types, Maybe
  <2> QED
    BY <2>1, TimesAreNumbers DEF TimerFires, runtimeVars, HostInv
<1>2. Settled' = Settled /\ (Rescheduling' <=> Rescheduling)
  BY <1>1, SettledKept DEF Rescheduling
<1>3. Lifecycle' /\ Told'
  BY <1>1, ToldKept DEF HostInv, Lifecycle, Rests
<1>4. ArmedOrLost /\ ~handle => ArmedOrLost'
  BY <1>1, <1>2 DEF ArmedOrLost, Lost
<1>5. Rescheduling => ~handle /\ worker.out = <<>> /\ ArmedOrLost
  BY <1>1 DEF HostInv, Armed
<1>6. Rescheduling' => ~handle' /\ worker'.out = <<>> /\ ArmedOrLost'
  BY <1>1, <1>2, <1>4, <1>5
<1>7. queue' \in Seq(OpType) /\ QueueFits' /\ InOrder' /\ Current' /\ Armed'
  <2>1. CASE handle /\ accepting
    <3> DEFINE op == Op("deadline", "task", None)
    <3>1. op \in OpType /\ op.kind = "deadline" /\ op.obs = None /\ op.kind \notin Reads \cup Physical
      BY DEF Op, OpType, Kinds, Maybe, Reads, Physical
    <3>2. queue' = Append(queue, op)
      BY <1>1, <2>1
    <3> HIDE DEF op
    <3>3. \E i \in DOMAIN queue' : queue'[i].kind # "test"
      BY <3>1, <3>2 DEF HostInv, Types
    <3>4. Armed'
      BY <1>6, <3>3 DEF Armed
    <3> QED
      BY <1>1, <1>2, <2>1, <3>1, <3>2, <3>4, PlainQueued
  <2>2. CASE ~(handle /\ accepting)
    <3>1. now <= now' /\ now' \in Time
      BY <1>1, TimesAreNumbers DEF HostInv, Types
    <3>2. accepting' => ArmedOrLost' \/ (\E i \in DOMAIN queue' : queue'[i].kind # "test")
                        \/ (worker' # None /\ worker'.op.kind # "test")
      BY <1>1, <1>4, <2>2 DEF HostInv, Armed
    <3>3. Armed'
      BY <1>6, <3>2 DEF Armed
    <3> QED
      BY <1>1, <1>2, <2>2, <3>1, <3>3, ReadingsKept DEF HostInv, Types
  <2> QED
    BY <2>1, <2>2
<1>8. Types'
  BY <1>1, <1>7 DEF HostInv, Types, Maybe
<1> QED
  BY <1>1, <1>3, <1>7, <1>8, QuietStep DEF Safe, HostInv

-----------------------------------------------------------------------------
(* THE WORKER *)

LEMMA BeginOperationIsSafe == ASSUME HostInv, BeginOperation PROVE Safe
<1> DEFINE op == Head(queue)
           r == Outcome(op)
<1>1. /\ UNCHANGED <<now, sensor, phase, accepting, disk, asked, told, cut, startup, timer, handle, lost, cleanup>>
      /\ worker = None /\ queue # <<>> /\ op.kind \notin Physical \cup {"reschedule", "deadline"}
      /\ ws' = r.w /\ worker' = [op |-> op, out |-> r.out, saves |-> r.saves]
      /\ queue' = Tail(queue)
  BY DEF BeginOperation, timerVars
<1>2. /\ queue \in Seq(OpType) /\ queue' \in Seq(OpType) /\ Len(queue) \in Nat \ {0}
      /\ DOMAIN queue = 1 .. Len(queue) /\ op = queue[1] /\ 1 \in DOMAIN queue /\ op \in OpType
      /\ \A i \in DOMAIN queue' : i + 1 \in DOMAIN queue /\ queue'[i] = queue[i + 1] /\ i \in Int /\ 1 < i + 1
      /\ \A i \in DOMAIN queue : i # 1 => i - 1 \in DOMAIN queue' /\ queue'[i - 1] = queue[i]
  BY <1>1 DEF HostInv, Types
<1>3. /\ op.kind \in RuntimeKinds
      /\ op.kind \in Reads => op.obs \in Observation /\ op.obs # None
      /\ op.kind \notin Reads => op.obs = None
      /\ accepting
  <2>1. op.kind \in RuntimeKinds
    BY <1>1, <1>2 DEF OpType, Kinds, Physical, RuntimeKinds
  <2> QED
    BY <1>1, <1>2, <2>1, NoneIsNoData DEF HostInv, QueueFits
<1>4. op.obs # None /\ ws.latest # None => ws.latest.at <= op.obs.at
  BY <1>1, <1>2 DEF HostInv, InOrder, Settled
<1>5. Fit(ws) /\ now \in Time
  BY DEF HostInv, Types
<1>a. Settled = ws
  BY <1>1 DEF Settled
<1>6. Settles(ws, op, r)
  BY <1>2, <1>3, <1>4, <1>5, Outcomes
<1> HIDE DEF op, r
<1>7. worker' \in Working /\ worker' # None /\ worker'.op = op /\ worker'.out = r.out
  <2>1. r.out \in Seq(Waits) /\ r.saves \in BOOLEAN
    BY <1>6, Zenon DEF Settles, Performs, Script
  <2>2. worker' \in Working
    BY <1>1, <1>2, <2>1 DEF Working
  <2> QED
    BY <1>1, <2>2, NoneIsNoData
<1>b. Settled' = Final(r.w, r.out)
  BY <1>1, <1>7 DEF Settled
<1>8. Types'
  <2>1. Fit(ws') /\ Script(ws', worker'.out)
    BY <1>1, <1>6, <1>7 DEF Settles, Performs
  <2> QED
    BY <1>1, <1>2, <1>7, <2>1 DEF HostInv, Types, Maybe
<1>9. Lifecycle'
  BY <1>1 DEF HostInv, Lifecycle
<1>10. QueueFits'
  BY <1>1, <1>2 DEF HostInv, QueueFits
<1>11. Settled'.latest \in {Settled.latest, op.obs} /\ (op.obs = None => Settled'.latest = Settled.latest)
  BY <1>3, <1>6, <1>a, <1>b DEF KeepsVerdict, Settles, ReadingSettled
<1>12. InOrder'
  <2>1. Settled'.latest # None => Settled'.latest.at <= sensor.at
    BY <1>2, <1>11 DEF HostInv, InOrder
  <2>2. ASSUME NEW i \in DOMAIN queue', queue'[i].obs # None
        PROVE  /\ queue'[i].obs.at <= sensor.at
               /\ Settled'.latest # None => Settled'.latest.at <= queue'[i].obs.at
               /\ \A j \in DOMAIN queue' : i < j /\ queue'[j].obs # None =>
                    queue'[i].obs.at <= queue'[j].obs.at
    <3>1. Settled'.latest # None => Settled'.latest.at <= queue'[i].obs.at
      BY <1>2, <1>11, <2>2 DEF HostInv, InOrder
    <3>2. \A j \in DOMAIN queue' : i < j => i + 1 < j + 1
      BY <1>2
    <3> QED
      BY <1>2, <2>2, <3>1, <3>2 DEF HostInv, InOrder
  <2>3. startup # None => \A k \in DOMAIN startup :
          /\ Settled'.latest # None => Settled'.latest.at <= startup[k].at
          /\ \A i \in DOMAIN queue' : queue'[i].obs # None => queue'[i].obs.at <= startup[k].at
    BY <1>2, <1>11 DEF HostInv, InOrder
  <2> QED
    BY <1>1, <2>1, <2>2, <2>3 DEF HostInv, InOrder
<1>13. Current'
  <2>1. CASE Buffered /\ startup[Len(startup)] = sensor
    BY <1>1, <2>1 DEF Current, Buffered
  <2>2. CASE ~Buffered /\ \E i \in DOMAIN queue :
               queue[i].obs = sensor /\ \A j \in DOMAIN queue : i < j => queue[j].obs = None
    <3>1. PICK i \in DOMAIN queue :
               queue[i].obs = sensor /\ \A j \in DOMAIN queue : i < j => queue[j].obs = None
      BY <2>2
    <3>2. CASE i = 1
      <4>1. \A j \in DOMAIN queue' : queue'[j].obs = None
        BY <1>2, <3>1, <3>2
      <4>2. op.obs = sensor /\ op.obs # None
        BY <1>2, <3>1, <3>2, TimesAreNumbers DEF HostInv
      <4>3. Settled'.state = "disabled" \/ (Settled'.latest = sensor /\ Judged(Settled'))
        BY <1>3, <1>6, <1>b, <4>2 DEF Settles, ReadingSettled
      <4> QED
        BY <1>1, <2>2, <4>1, <4>3 DEF Current, Buffered, Judged
    <3>3. CASE i # 1
      <4>1. i - 1 \in DOMAIN queue' /\ queue'[i - 1].obs = sensor
        BY <1>2, <3>1, <3>3
      <4>2. \A j \in DOMAIN queue' : i - 1 < j => queue'[j].obs = None
        BY <1>2, <3>1
      <4> QED
        BY <1>1, <2>2, <4>1, <4>2 DEF Current, Buffered
    <3> QED
      BY <3>2, <3>3
  <2>3. CASE /\ ~Buffered /\ \A i \in DOMAIN queue : queue[i].obs = None
             /\ Settled.state = "disabled" \/ (Settled.latest = sensor /\ Judged(Settled))
    <3>1. \A i \in DOMAIN queue' : queue'[i].obs = None
      BY <1>2, <2>3
    <3>2. KeepsVerdict(ws, r)
      BY <1>2, <1>3, <1>6, <2>3 DEF Settles
    <3>3. Settled'.state = "disabled" \/ (Settled'.latest = sensor /\ Judged(Settled'))
      BY <1>a, <1>b, <2>3, <3>2 DEF KeepsVerdict
    <3> QED
      BY <1>1, <2>3, <3>1, <3>3 DEF Current, Buffered, Judged
  <2> QED
    BY <1>3, <2>1, <2>2, <2>3 DEF HostInv, Current
<1>14. Armed'
  <2>1. op.kind # "reschedule"
    BY <1>1
  <2>2. CASE op.kind # "test"
    BY <1>7, <2>1, <2>2 DEF Armed, Rescheduling
  <2>3. CASE op.kind = "test"
    <3>1. Settled' = Settled /\ UNCHANGED <<timer, lost, now>>
      BY <1>1, <1>6, <1>a, <1>b, <2>3 DEF Settles
    <3>2. (\E i \in DOMAIN queue : queue[i].kind # "test") => \E i \in DOMAIN queue' : queue'[i].kind # "test"
      BY <1>2, <2>3
    <3> QED
      BY <1>1, <1>3, <1>7, <2>1, <3>1, <3>2 DEF HostInv, Armed, ArmedOrLost, Lost, Rescheduling
  <2> QED
    BY <2>2, <2>3
<1>15. Told'
  <2>1. Announces(Settled, Settled', r.out)
    BY <1>6, <1>a, <1>b DEF Settles, Performs
  <2> QED
    BY <1>1, <1>7, <2>1 DEF HostInv, Told, Rescheduling, Announces
<1>16. StepKeepsAlarm
  BY <1>1, <1>6 DEF Settles, Performs, AlarmKept, StepKeepsAlarm
<1> QED
  BY <1>1, <1>3, <1>8, <1>9, <1>10, <1>12, <1>13, <1>14, <1>15, <1>16 DEF Safe, HostInv, StepIsFinal

LEMMA DispatchIsSafe == ASSUME HostInv, Dispatch PROVE Safe
<1> DEFINE wait == Head(worker.out)
<1>1. /\ UNCHANGED <<now, sensor, phase, accepting, disk, startup, queue, timer, handle, lost, cleanup>>
      /\ worker # None /\ worker.op.kind # "reschedule" /\ worker.out # <<>> /\ ws' = wait.w
      /\ asked' = IF accepting /\ wait.ask \in {"siren_on", "siren_off"} THEN wait.ask ELSE asked
      /\ told' = IF accepting /\ wait.ask = "notify_wet" THEN told \cup {ws.incident.id} ELSE told
      /\ cut' = IF ~accepting /\ wait.ask = "notify_wet" THEN cut \cup {ws.incident.id} ELSE cut
      /\ worker' = [worker EXCEPT !.out = Tail(@)]
  BY DEF Dispatch, timerVars
<1>2. worker \in Working /\ Script(ws, worker.out)
  BY <1>1 DEF HostInv, Types, Maybe
<1>3. /\ worker.out \in Seq(Waits) /\ wait = worker.out[1] /\ 1 \in DOMAIN worker.out
      /\ \A i \in DOMAIN worker.out : i # 1 => i - 1 \in DOMAIN Tail(worker.out)
                                               /\ Tail(worker.out)[i - 1] = worker.out[i]
  BY <1>1, <1>2 DEF Working
<1> HIDE DEF wait
<1>4. /\ Script(wait.w, Tail(worker.out)) /\ Final(wait.w, Tail(worker.out)) = Final(ws, worker.out)
      /\ Fit(wait.w) /\ AlarmKept(ws, wait.w) /\ Tail(worker.out) \in Seq(Waits)
      /\ wait.ask = "notify_wet" => ws.incident # None /\ ws.incident = Final(ws, worker.out).incident
  BY <1>1, <1>2, <1>3, ScriptGoesOn
<1>5. /\ worker' \in Working /\ worker' # None /\ worker'.op = worker.op
      /\ worker'.out = Tail(worker.out)
  <2>1. worker' \in Working /\ worker'.op = worker.op /\ worker'.out = Tail(worker.out)
    BY <1>1, <1>2, <1>4 DEF Working
  <2> QED
    BY <2>1, NoneIsNoData
<1>6. Settled' = Settled
  BY <1>1, <1>4, <1>5 DEF Settled
<1>7. wait.ask = "notify_wet" => Settled.incident # None /\ ws.incident.id = Settled.incident.id
                                 /\ ws.incident.id \in Nat
  <2>1. Settled = Final(ws, worker.out)
    BY <1>1 DEF Settled
  <2> QED
    BY <1>4, <2>1 DEF HostInv, Types, Fit, SnapshotType, Maybe, IncidentType
<1>8. Types'
  <2>1. told' \subseteq Nat /\ cut' \subseteq Nat /\ asked' \in {"siren_on", "siren_off"}
    BY <1>1, <1>7 DEF HostInv, Types
  <2>2. Fit(ws') /\ Script(ws', worker'.out)
    BY <1>1, <1>4, <1>5
  <2> QED
    BY <1>1, <1>5, <2>1, <2>2 DEF HostInv, Types, Maybe
<1>9. Lifecycle'
  BY <1>1 DEF HostInv, Lifecycle
<1>10. QueueFits' /\ InOrder' /\ Current'
  <2>1. now <= now' /\ now' \in Time
    BY <1>1, TimesAreNumbers DEF HostInv, Types
  <2> QED
    BY <1>1, <1>6, <2>1, ReadingsKept
<1>11. Armed'
  BY <1>1, <1>5, <1>6 DEF HostInv, Armed, ArmedOrLost, Lost, Rescheduling
<1>12. Told'
  <2>1. told \cup cut \subseteq told' \cup cut'
    BY <1>1
  <2>2. wait.ask = "notify_wet" => Settled.incident.id \in told' \cup cut'
    BY <1>1, <1>7
  <2>3. disk' # None /\ disk'.incident # None => disk'.incident.id \in told' \cup cut'
    BY <1>1, <2>1 DEF HostInv, Told
  <2>4. ASSUME Settled'.incident # None
        PROVE  \/ Settled'.incident.id \in told' \cup cut'
               \/ \E i \in DOMAIN worker'.out : worker'.out[i].ask = "notify_wet"
    <3>1. CASE Settled.incident.id \in told \cup cut
      BY <1>6, <2>1, <3>1
    <3>2. CASE \E i \in DOMAIN worker.out : worker.out[i].ask = "notify_wet"
      BY <1>3, <1>5, <1>6, <2>2, <3>2
    <3> QED
      BY <1>6, <2>4, <3>1, <3>2 DEF HostInv, Told
  <2> QED
    BY <1>1, <1>5, <2>3, <2>4 DEF Told, Rescheduling
<1>13. StepKeepsAlarm
  BY <1>1, <1>4 DEF AlarmKept, StepKeepsAlarm
<1>14. StepIsFinal
  BY <1>1, <1>5 DEF StepIsFinal
<1> QED
  BY <1>8, <1>9, <1>10, <1>11, <1>12, <1>13, <1>14 DEF Safe, HostInv

LEMMA FinishOperationIsSafe == ASSUME HostInv, FinishOperation PROVE Safe
<1>1. /\ UNCHANGED <<now, sensor, phase, accepting, ws, asked, told, cut, startup, timer, handle, lost, cleanup>>
      /\ worker # None /\ worker.out = <<>> /\ worker.op.kind # "reschedule" /\ worker' = None
      /\ queue' = IF accepting /\ worker.op.kind # "test"
                  THEN Append(queue, Op("reschedule", worker.op.by, None)) ELSE queue
  BY DEF FinishOperation, timerVars
<1>2. Settled = ws /\ Settled' = ws /\ disk' \in {Settled, disk}
  BY <1>1 DEF FinishOperation, Settled, Final
<1>3. worker.op.by \in {"init", "task", "stop"}
  BY <1>1 DEF HostInv, Types, Maybe, Working, OpType
<1>4. queue' \in Seq(OpType) /\ QueueFits' /\ InOrder' /\ Current' /\ Armed'
  <2>1. CASE accepting /\ worker.op.kind # "test"
    <3> DEFINE op == Op("reschedule", worker.op.by, None)
    <3>1. op \in OpType /\ op.kind = "reschedule" /\ op.obs = None /\ op.kind \notin Reads \cup Physical
      BY <1>3 DEF Op, OpType, Kinds, Maybe, Reads, Physical
    <3>2. queue' = Append(queue, op)
      BY <1>1, <2>1
    <3> HIDE DEF op
    <3>3. \E i \in DOMAIN queue' : queue'[i].kind # "test"
      BY <3>1, <3>2 DEF HostInv, Types
    <3> QED
      BY <1>1, <1>2, <2>1, <3>1, <3>2, <3>3, PlainQueued DEF Armed, Rescheduling
  <2>2. CASE ~(accepting /\ worker.op.kind # "test")
    <3>1. queue' = queue
      BY <1>1, <2>2
    <3>2. QueueFits' /\ InOrder' /\ Current'
      BY <1>1, <1>2, <3>1 DEF HostInv, QueueFits, InOrder, Current, Buffered
    <3> QED
      BY <1>1, <1>2, <2>2, <3>1, <3>2 DEF HostInv, Types, Armed, ArmedOrLost, Lost, Rescheduling
  <2> QED
    BY <2>1, <2>2
<1>5. Types'
  BY <1>1, <1>2, <1>4 DEF HostInv, Types, Maybe
<1>6. Lifecycle'
  BY <1>1 DEF HostInv, Lifecycle
<1>7. Told'
  <2>1. ~\E i \in DOMAIN worker.out : worker.out[i].ask = "notify_wet"
    BY <1>1
  <2>2. ws.incident # None => ws.incident.id \in told \cup cut
    BY <1>2, <2>1 DEF HostInv, Told
  <2>3. disk' # None /\ disk'.incident # None => disk'.incident.id \in told \cup cut
    BY <1>2, <2>2 DEF HostInv, Told
  <2> QED
    BY <1>1, <1>2, <2>2, <2>3 DEF Told, Rescheduling
<1> QED
  BY <1>1, <1>4, <1>5, <1>6, <1>7, QuietStep DEF Safe, HostInv

LEMMA RunDeadlineIsSafe == ASSUME HostInv, RunDeadline PROVE Safe
<1> DEFINE op == Op("tick", "task", None)
<1>1. /\ UNCHANGED <<now, sensor, phase, accepting, ws, disk, asked, told, cut, startup, worker,
                     timer, handle, lost, cleanup>>
      /\ queue # <<>> /\ Head(queue).kind = "deadline" /\ queue' = Append(Tail(queue), op)
  BY DEF RunDeadline, runtimeVars, timerVars
<1>2. /\ op \in OpType /\ op.kind = "tick" /\ op.obs = None
      /\ op.kind \notin Reads /\ op.kind \notin Physical
  BY DEF Op, OpType, Kinds, Maybe, Reads, Physical
<1> HIDE DEF op
<1>3. /\ queue \in Seq(OpType) /\ Len(queue) \in Nat \ {0} /\ 1 \in DOMAIN queue
      /\ DOMAIN queue = 1 .. Len(queue) /\ DOMAIN queue' = 1 .. Len(queue)
      /\ queue' \in Seq(OpType) /\ queue[1].kind = "deadline" /\ queue'[Len(queue)] = op
      /\ \A i \in 1 .. (Len(queue) - 1) : queue'[i] = queue[i + 1]
  BY <1>1, <1>2 DEF HostInv, Types
<1>4. accepting /\ queue[1].obs = None
  BY <1>3 DEF HostInv, QueueFits, Physical, Reads
<1>5. \A i \in DOMAIN queue : i # 1 => i - 1 \in DOMAIN queue' /\ queue'[i - 1] = queue[i]
  BY <1>3
<1>6. \A i \in DOMAIN queue' :
          \/ i + 1 \in DOMAIN queue /\ queue'[i] = queue[i + 1]
          \/ /\ i = Len(queue) /\ queue'[i].kind \notin Reads /\ queue'[i].obs = None
             /\ queue'[i].kind \in Physical <=> ~accepting
  BY <1>2, <1>3, <1>4
<1>7. QueueFits' /\ InOrder' /\ Current'
  <2>1. Settled' = Settled
    BY <1>1, SettledKept
  <2> QED
    BY <1>1, <1>3, <1>4, <1>5, <1>6, <2>1, QueueShifted
<1>8. Types'
  BY <1>1, <1>3 DEF HostInv, Types
<1>9. Lifecycle' /\ Told'
  BY <1>1, ToldKept DEF HostInv, Lifecycle, Rests
<1>10. Armed'
  <2>1. Len(queue) \in DOMAIN queue' /\ queue'[Len(queue)].kind # "test"
    BY <1>2, <1>3
  <2> QED
    BY <1>1, <2>1, ArmedOnTheWay
<1> QED
  BY <1>1, <1>7, <1>8, <1>9, <1>10, QuietStep DEF Safe, HostInv

LEMMA BeginRescheduleIsSafe == ASSUME HostInv, BeginReschedule PROVE Safe
<1> DEFINE install == Wait("install", ws)
<1>1. /\ UNCHANGED <<now, sensor, phase, accepting, ws, disk, asked, told, cut, startup, cleanup>>
      /\ worker = None /\ queue # <<>> /\ Head(queue).kind = "reschedule"
      /\ timer' = None /\ handle' = FALSE /\ lost' = FALSE
      /\ worker' = [op |-> Head(queue), out |-> <<install>>, saves |-> FALSE] /\ queue' = Tail(queue)
  BY DEF BeginReschedule, runtimeVars
<1>2. /\ Head(queue) \in OpType /\ Head(queue) = queue[1] /\ 1 \in DOMAIN queue
  BY <1>1 DEF HostInv, Types
<1>3. Head(queue).obs = None /\ accepting
  BY <1>1, <1>2 DEF HostInv, QueueFits, Reads, Physical
<1>4. Fit(ws) /\ install \in Waits /\ install.w = ws /\ install.ask = "install"
  BY DEF HostInv, Types, Fit, Waits, Wait
<1> HIDE DEF install
<1>5. /\ <<install>> \in Seq(Waits) /\ Len(<<install>>) = 1 /\ DOMAIN <<install>> = {1}
      /\ <<install>>[1] = install /\ <<install>> # <<>>
  BY <1>4
<1>6. worker' \in Working /\ worker' # None /\ worker'.op.kind = "reschedule" /\ worker'.out = <<install>>
  <2>1. worker' \in Working
    BY <1>1, <1>2, <1>5 DEF Working
  <2> QED
    BY <1>1, <2>1, NoneIsNoData
<1>7. Settled = ws /\ Settled' = ws
  BY <1>1, <1>4, <1>5, <1>6 DEF Settled, Final
<1>8. Script(ws, <<install>>)
  <2>1. AlarmKept(ws, ws) /\ Before(ws, <<install>>, 1) = ws
    BY DEF AlarmKept, Before
  <2> QED
    BY <1>4, <1>5, <2>1 DEF Script
<1>9. queue' \in Seq(OpType) /\ QueueFits' /\ InOrder' /\ Current'
  BY <1>1, <1>3, <1>7, PlainTaken
<1>10. Types'
  BY <1>1, <1>6, <1>8, <1>9 DEF HostInv, Types, Maybe
<1>11. Lifecycle'
  BY <1>1 DEF HostInv, Lifecycle
<1>12. Armed'
  BY <1>1, <1>5, <1>6, <1>7 DEF Armed, Rescheduling
<1>13. Told'
  BY <1>1, <1>4, <1>5, <1>6, <1>7 DEF HostInv, Told
<1> QED
  BY <1>1, <1>3, <1>9, <1>10, <1>11, <1>12, <1>13, QuietStep DEF Safe, HostInv

LEMMA InstallTimerIsSafe == ASSUME HostInv, InstallTimer PROVE Safe
<1>1. /\ UNCHANGED <<now, sensor, phase, accepting, ws, disk, asked, told, cut, startup, queue, handle,
                     lost, cleanup>>
      /\ Rescheduling /\ worker # None /\ worker.op.kind = "reschedule" /\ worker.out # <<>>
      /\ timer' = NextDeadline(ws) /\ worker' = [worker EXCEPT !.out = <<>>]
  BY DEF InstallTimer, Rescheduling, runtimeVars
<1>2. ~handle /\ Settled = ws
  BY <1>1 DEF HostInv, Armed
<1>3. /\ worker' \in Working /\ worker' # None /\ worker'.op = worker.op /\ worker'.out = <<>>
  <2>1. worker \in Working /\ <<>> \in Seq(Waits)
    BY <1>1 DEF HostInv, Types, Maybe
  <2>2. worker' \in Working /\ worker'.op = worker.op /\ worker'.out = <<>>
    BY <1>1, <2>1 DEF Working
  <2> QED
    BY <2>2, NoneIsNoData
<1>4. Settled' = ws
  BY <1>1, <1>3 DEF Settled, Final
<1>5. Types'
  <2>1. NextDeadline(ws) \in Maybe(Nat)
    BY NextDeadlineType DEF HostInv, Types
  <2>2. Script(ws', worker'.out)
    BY <1>3 DEF Script
  <2> QED
    BY <1>1, <1>3, <2>1, <2>2 DEF HostInv, Types, Maybe
<1>6. Lifecycle'
  BY <1>1 DEF HostInv, Lifecycle
<1>7. QueueFits' /\ InOrder' /\ Current'
  <2>1. now <= now' /\ now' \in Time
    BY <1>1, TimesAreNumbers DEF HostInv, Types
  <2> QED
    BY <1>1, <1>2, <1>4, <2>1, ReadingsKept
<1>8. Armed'
  <2>1. ArmedOrLost'
    BY <1>1, <1>4 DEF ArmedOrLost
  <2> QED
    BY <1>1, <1>2, <1>3, <2>1 DEF Armed
<1>9. Told'
  <2>1. ~\E i \in DOMAIN worker.out : worker.out[i].ask = "notify_wet"
    BY <1>1 DEF HostInv, Told
  <2> QED
    BY <1>1, <1>2, <1>3, <1>4, <2>1 DEF HostInv, Told
<1> QED
  BY <1>1, <1>3, <1>5, <1>6, <1>7, <1>8, <1>9, QuietStep DEF Safe, HostInv

LEMMA RescheduleEnds ==
    ASSUME HostInv, Rescheduling, worker' = None, handle' \in BOOLEAN,
           UNCHANGED <<now, sensor, phase, accepting, ws, disk, asked, told, cut, startup, queue, timer,
                       lost, cleanup>>,
           Settled = ws, accepting => ArmedOrLost
    PROVE  Safe
<1>1. worker # None /\ Settled' = Settled
  BY DEF Rescheduling, Settled
<1>2. Types'
  BY DEF HostInv, Types, Maybe
<1>3. Lifecycle'
  BY DEF HostInv, Lifecycle
<1>4. QueueFits' /\ InOrder' /\ Current'
  <2>1. now <= now' /\ now' \in Time
    BY TimesAreNumbers DEF HostInv, Types
  <2> QED
    BY <1>1, <2>1, ReadingsKept
<1>5. Armed'
  BY <1>1 DEF Armed, ArmedOrLost, Lost, Rescheduling
<1>6. Told'
  BY <1>1 DEF HostInv, Told, Rescheduling
<1> QED
  BY <1>1, <1>2, <1>3, <1>4, <1>5, <1>6, QuietStep DEF Safe, HostInv

LEMMA SkipTimerIsSafe == ASSUME HostInv, SkipTimer PROVE Safe
<1>1. /\ UNCHANGED <<now, sensor, phase, accepting, ws, disk, asked, told, cut, startup, queue, timer, handle,
                     lost, cleanup>>
      /\ Rescheduling /\ worker' = None /\ worker.out # <<>> /\ (accepting => NextDeadline(ws) = None)
  BY DEF SkipTimer, runtimeVars, timerVars
<1>2. timer = None /\ Settled = ws
  BY <1>1 DEF HostInv, Armed
<1>3. accepting => ArmedOrLost
  BY <1>1, <1>2 DEF ArmedOrLost
<1>4. handle' \in BOOLEAN
  BY <1>1 DEF HostInv, Types
<1> QED
  BY <1>1, <1>2, <1>3, <1>4, RescheduleEnds

LEMMA KeepHandleIsSafe == ASSUME HostInv, KeepHandle PROVE Safe
<1>1. /\ UNCHANGED <<now, sensor, phase, accepting, ws, disk, asked, told, cut, startup, queue, timer,
                     lost, cleanup>>
      /\ Rescheduling /\ worker' = None /\ worker.out = <<>> /\ handle' = TRUE
  BY DEF KeepHandle, runtimeVars
<1>2. Settled = ws
  BY <1>1 DEF Settled, Final
<1>3. ArmedOrLost
  BY <1>1 DEF HostInv, Armed
<1> QED
  BY <1>1, <1>2, <1>3, RescheduleEnds

LEMMA RunPhysicalIsSafe == ASSUME HostInv, RunPhysical PROVE Safe
<1>1. /\ UNCHANGED <<now, sensor, phase, accepting, ws, disk, asked, told, cut, startup, worker, lost>>
      /\ worker = None /\ queue # <<>> /\ Head(queue).kind \in Physical /\ queue' = Tail(queue) /\ timer' = None
      /\ handle' \in {FALSE, handle}
      /\ cleanup' \in {cleanup, [cleanup EXCEPT !.schedulerClosed = TRUE]}
  BY DEF RunPhysical, runtimeVars
<1>2. Head(queue) = queue[1] /\ 1 \in DOMAIN queue
  BY <1>1 DEF HostInv, Types
<1>3. Head(queue).obs = None /\ ~accepting
  BY <1>1, <1>2 DEF HostInv, QueueFits, Reads, Physical
<1>4. queue' \in Seq(OpType) /\ QueueFits' /\ InOrder' /\ Current'
  <2>1. Settled' = Settled
    BY <1>1, SettledKept
  <2> QED
    BY <1>1, <1>3, <2>1, PlainTaken
<1>5. cleanup' \in CleanupType /\ cleanup'.step = cleanup.step
  BY <1>1 DEF HostInv, Types, CleanupType
<1>6. Types'
  <2>1. handle' \in BOOLEAN
    BY <1>1 DEF HostInv, Types
  <2> QED
    BY <1>1, <1>4, <1>5, <2>1 DEF HostInv, Types, Maybe
<1>7. Lifecycle' /\ Armed' /\ Told'
  BY <1>1, <1>3, <1>5, ToldKept DEF HostInv, Lifecycle, Armed, Rescheduling, Rests
<1> QED
  BY <1>1, <1>4, <1>6, <1>7, QuietStep DEF Safe, HostInv

-----------------------------------------------------------------------------
(* STOP *)

LEMMA RequestStopIsSafe == ASSUME HostInv, RequestStop PROVE Safe
<1>1. /\ UNCHANGED <<now, sensor, ws, disk, asked, told, cut, worker, timer, handle, lost>>
      /\ phase' = "stopping" /\ accepting' = FALSE /\ startup' = None
      /\ queue' = IF accepting THEN <<>> ELSE queue
      /\ cleanup' = [cleanup EXCEPT !.step = "unsubscribe"]
  BY DEF RequestStop, runtimeVars, timerVars
<1>2. queue' \in Seq(OpType) /\ \A i \in DOMAIN queue' : i \in DOMAIN queue /\ queue'[i] = queue[i] /\ ~accepting
  BY <1>1 DEF HostInv, Types
<1>3. Types'
  <2>1. cleanup' \in CleanupType
    BY <1>1 DEF HostInv, Types, CleanupType
  <2> QED
    BY <1>1, <1>2, <2>1 DEF HostInv, Types, Maybe
<1>4. Lifecycle'
  BY <1>1 DEF Lifecycle
<1>a. Settled' = Settled
  BY <1>1, SettledKept
<1>5. QueueFits'
  BY <1>1, <1>2 DEF HostInv, QueueFits
<1>6. InOrder'
  BY <1>1, <1>2, <1>a DEF HostInv, InOrder
<1>7. Current' /\ Armed' /\ Told'
  <2>1. now \in Int /\ now' \in Int /\ now <= now'
    BY <1>1, TimesAreNumbers DEF HostInv
  <2> QED
    BY <1>1, <2>1, ArmedKept, ToldKept DEF HostInv, Current, Rests
<1> QED
  BY <1>1, <1>3, <1>4, <1>5, <1>6, <1>7, QuietStep DEF Safe, HostInv

(* A step of the cleanup leaves what was judged alone. *)
LEMMA CleanupIsSafe ==
    ASSUME HostInv,
           UNCHANGED <<now, sensor, accepting, ws, disk, asked, told, cut, startup, worker, timer, handle, lost>>,
           phase = "stopping", phase' \in {"stopping", "incomplete", "stopped"},
           cleanup' \in CleanupType, cleanup'.step # "none" => phase' = "stopping",
           \/ queue' = queue
           \/ \E kind \in Physical : queue' = Append(queue, Op(kind, "stop", None))
    PROVE  Safe
<1>1. ~accepting /\ startup = None
  BY DEF HostInv, Lifecycle
<1>a. Settled' = Settled
  BY SettledKept
<1>2. queue' \in Seq(OpType) /\ QueueFits' /\ InOrder' /\ Current'
  <2>1. CASE queue' = queue
    <3>1. now <= now' /\ now' \in Time
      BY TimesAreNumbers DEF HostInv, Types
    <3> QED
      BY <1>a, <2>1, <3>1, ReadingsKept DEF HostInv, Types
  <2>2. ASSUME NEW kind \in Physical, queue' = Append(queue, Op(kind, "stop", None))
        PROVE  queue' \in Seq(OpType) /\ QueueFits' /\ InOrder' /\ Current'
    <3> DEFINE op == Op(kind, "stop", None)
    <3>1. op \in OpType /\ op.kind \in Physical /\ op.kind \notin Reads /\ op.obs = None
      BY DEF Op, OpType, Kinds, Maybe, Reads, Physical
    <3>2. queue' = Append(queue, op)
      BY <2>2
    <3> HIDE DEF op
    <3> QED
      BY <1>1, <1>a, <3>1, <3>2, PlainQueued
  <2> QED
    BY <2>1, <2>2
<1>3. Types' /\ Lifecycle'
  BY <1>1, <1>2 DEF HostInv, Types, Lifecycle
<1>4. Armed' /\ Told'
  <2>1. now \in Int /\ now' \in Int /\ now <= now'
    BY TimesAreNumbers DEF HostInv
  <2> QED
    BY <1>1, <2>1, ArmedKept, ToldKept DEF HostInv, Rests
<1> QED
  BY <1>2, <1>3, <1>4, QuietStep DEF Safe, HostInv

LEMMA StopsAreSafe == ASSUME HostInv, CleanupStep PROVE Safe
<1>1. UNCHANGED <<now, sensor, accepting, ws, disk, asked, told, cut, startup, worker, timer, handle, lost>>
  BY DEF CleanupStep, Unsubscribe, CancelDeadline, CancelScheduler, Supervise, CloseExecutor, runtimeVars, timerVars
<1>2. cleanup \in CleanupType /\ phase = "stopping"
  BY DEF HostInv, Types, Lifecycle, CleanupStep, Unsubscribe, CancelDeadline, CancelScheduler, Supervise, CloseExecutor
<1>3. CASE Unsubscribe
  <2>1. cleanup' \in CleanupType
    BY <1>2, <1>3 DEF Unsubscribe, CleanupType
  <2>2. queue' = queue /\ phase' = phase
    BY <1>3 DEF Unsubscribe
  <2> QED
    BY <1>1, <1>2, <2>1, <2>2, CleanupIsSafe
<1>4. ASSUME NEW step, NEW next \in {"scheduler", "close"}, NEW kind \in Physical, NEW needed,
             Supervise(step, next, kind, needed)
      PROVE  Safe
  <2>1. /\ queue' = queue \/ queue' = Append(queue, Op(kind, "stop", None))
        /\ cleanup' \in {cleanup, [cleanup EXCEPT !.step = next]} /\ phase' = phase
    BY <1>4 DEF Supervise
  <2>2. cleanup' \in CleanupType
    BY <1>2, <2>1 DEF CleanupType
  <2> QED
    BY <1>1, <1>2, <2>1, <2>2, CleanupIsSafe
<1>5. CASE CancelDeadline
  BY <1>4, <1>5 DEF CancelDeadline, Physical
<1>6. CASE CancelScheduler
  BY <1>4, <1>6 DEF CancelScheduler, Physical
<1>7. CASE CloseExecutor
  <2>1. /\ queue' = queue /\ phase' \in {"stopped", "incomplete"}
        /\ cleanup' \in {[cleanup EXCEPT !.step = "none"],
                         [cleanup EXCEPT !.step = "none", !.executorClosed = TRUE]}
    BY <1>7 DEF CloseExecutor
  <2>2. cleanup' \in CleanupType /\ cleanup'.step = "none"
    BY <1>2, <2>1 DEF CleanupType
  <2> QED
    BY <1>1, <1>2, <2>1, <2>2, CleanupIsSafe
<1> QED
  BY <1>3, <1>5, <1>6, <1>7 DEF CleanupStep

-----------------------------------------------------------------------------
(* THE THEOREMS *)

LEMMA StepsAreSafe == ASSUME HostInv, [Next]_vars PROVE Safe
<1>1. CASE UNCHANGED vars
  <2>1. /\ UNCHANGED <<now, sensor, phase, accepting, ws, disk, asked, told, cut, startup, queue, worker,
                       timer, handle, lost, cleanup>>
    BY <1>1 DEF vars, runtimeVars, timerVars
  <2>2. Types' /\ Lifecycle'
    BY <2>1 DEF HostInv, Types, Lifecycle
  <2>3. QueueFits' /\ InOrder' /\ Current'
    <3>1. Settled' = Settled /\ now <= now' /\ now' \in Time
      BY <2>1, SettledKept, TimesAreNumbers DEF HostInv, Types
    <3> QED
      BY <2>1, <3>1, ReadingsKept
  <2>4. Armed' /\ Told'
    <3>1. now \in Int /\ now' \in Int /\ now <= now'
      BY <2>1, TimesAreNumbers DEF HostInv
    <3> QED
      BY <2>1, <3>1, ArmedKept, ToldKept DEF HostInv, Rests
  <2> QED
    BY <2>1, <2>2, <2>3, <2>4, QuietStep DEF Safe, HostInv
<1>2. CASE Next
  <2>1. CASE Work
    BY <2>1, BeginOperationIsSafe, DispatchIsSafe, FinishOperationIsSafe, RunDeadlineIsSafe,
       BeginRescheduleIsSafe, InstallTimerIsSafe, SkipTimerIsSafe, KeepHandleIsSafe,
       RunPhysicalIsSafe DEF Work
  <2>2. CASE ~Work
    BY <1>2, <2>2, StartHostIsSafe, DrainStartupIsSafe, GoLiveIsSafe, CrashIsSafe, AdvanceIsSafe,
       SensorChangesIsSafe, UserAsksIsSafe, TimerFiresIsSafe, RequestStopIsSafe, StopsAreSafe DEF Next
  <2> QED
    BY <2>1, <2>2
<1> QED
  BY <1>1, <1>2

(* The invariant: what the host may rely on between any two of its steps.  *)
LEMMA HostIsSound == Spec => []HostInv
<1>1. HostInv /\ [Next]_vars => HostInv'
  BY StepsAreSafe DEF Safe
<1> QED
  BY <1>1, InitIsSafe, PTL DEF Spec

(* Every snapshot that is in memory or saved, at any time, is one that     *)
(* WaterSafetySnapshot.__post_init__ accepts, so that no operation of the  *)
(* runtime can raise, and every variable has its type.                     *)
THEOREM SnapshotsAreAccepted == Spec => []TypeOK
<1>1. HostInv => TypeOK
  <2> SUFFICES ASSUME HostInv PROVE TypeOK
    OBVIOUS
  <2>1. ws \in SnapshotType /\ Coherent(ws)
    BY DEF HostInv, Types, Fit
  <2>2. disk \in Maybe(SnapshotType) /\ (disk # None => Coherent(disk))
    BY DEF HostInv, Types, Fit, Maybe
  <2> QED
    BY <2>1, <2>2 DEF HostInv, Types, TypeOK
<1> QED
  BY <1>1, HostIsSound, PTL

(* No event of the sensor is lost between the buffer of the start and the  *)
(* tasks of the live host (_on_state_change, async_initialize): a host     *)
(* with nothing left to do has judged the sensor's present state.          *)
THEOREM NoReadingIsLost == Spec => []EvidenceIsCurrent
<1>1. HostInv => EvidenceIsCurrent
  <2> SUFFICES ASSUME HostInv, Idle, ws.state # "disabled"
               PROVE  /\ ws.latest = sensor
                      /\ sensor.cond = "wet" <=> ws.state = "wet" /\ ws.deadline = None
                      /\ sensor.cond = "dry" => ws.incident = None
    BY DEF EvidenceIsCurrent
  <2>1. ws.latest = sensor /\ Judged(ws)
    BY DEF HostInv, Lifecycle, Current, Buffered, Idle, Settled
  <2>2. sensor.cond \in {"dry", "wet", "unknown"}
    BY DEF HostInv, Types, Observation, Conditions
  <2> QED
    BY <2>1, <2>2 DEF Judged
<1> QED
  BY <1>1, HostIsSound, PTL

(* However reschedules, fired timers and disables interleave, a host with  *)
(* nothing left to do has the runtime's deadline armed, or the deadline is *)
(* over and its timer came before schedule_at had the handle: there is no  *)
(* third way to be without it.                                             *)
THEOREM DeadlineIsArmedWhenIdle == Spec => []DeadlineIsArmed
<1>1. HostInv => DeadlineIsArmed
  BY DEF HostInv, Lifecycle, Armed, ArmedOrLost, Lost, DeadlineIsArmed, Idle, Settled
<1> QED
  BY <1>1, HostIsSound, PTL

(* The wet notice of every saved incident was sent, or refused by the stop *)
(* under way, whatever crash comes between a request and its save.         *)
THEOREM SavedIncidentsWereTold == Spec => []SavedMeansTold
<1>1. HostInv => SavedMeansTold
  BY DEF HostInv, Told, SavedMeansTold, Idle, Settled
<1> QED
  BY <1>1, HostIsSound, PTL

(* No operation, reading or deadline ends an incident but a dry reading no *)
(* older than its last wet one; silencing is not undone.                   *)
THEOREM AlarmEndsOnlyByDryReading == Spec => AlarmEndsByDryReading
<1>1. HostInv /\ [Next]_vars => StepKeepsAlarm
  BY StepsAreSafe DEF Safe
<1> QED
  BY <1>1, HostIsSound, PTL DEF Spec, AlarmEndsByDryReading, StepKeepsAlarm

(* After the synchronous head of async_stop no output is asked for,        *)
(* whatever was queued or half done.  Only the operation in progress goes  *)
(* on, through the changes and the save it still has to make; after it     *)
(* neither the runtime, what is saved nor the timer changes again, but for *)
(* the timer being cancelled.                                              *)
THEOREM NothingFollowsAStop == Spec => StopIsFinal
<1>1. HostInv /\ [Next]_vars => StepIsFinal
  BY StepsAreSafe DEF Safe
<1> QED
  BY <1>1, HostIsSound, PTL DEF Spec, StopIsFinal, StepIsFinal

==============================================================================
