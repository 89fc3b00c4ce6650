-------------------------------- MODULE ObservationProofs --------------------------------
(***************************************************************************)
(* What is proved of how the user is told (module Observation), for every  *)
(* capacity of the streams, every number of recipients and events, every   *)
(* scenario and every order in which worker, event loop and assessment     *)
(* thread take their steps: the cursors of composer and processor account  *)
(* for everything before them, an open notice of a lost measurement is of  *)
(* the loss that lasts, an active anomaly is of the episode being          *)
(* observed, and only confirmed recoveries end one.                        *)
(*                                                                         *)
(* Three chains are followed.  The recorder: every operation of it appends *)
(* events in which a loss is followed by its recovery, unless it is the    *)
(* incident that lasts.  The composer: a pass reads the stream in order,   *)
(* and each of its handlers either leaves the open notices alone, opens    *)
(* one of its own event's incident, or closes it.  The observer with the   *)
(* monitor: the snapshot that waits is the latest of an episode, and its   *)
(* counter of recoveries never exceeds the distinct normal assessments.    *)
(***************************************************************************)
EXTENDS Observation, SequenceTheorems, FiniteSetTheorems, TLAPS

-----------------------------------------------------------------------------
(* NUMBERS *)

(* A set of naturals has a least element.                                  *)
LEMMA LeastNatural ==
    ASSUME NEW T, T \subseteq Nat, T # {}
    PROVE  \E k \in T : \A j \in T : k <= j
<1> DEFINE R == OpToRel(<, Nat)
<1>1. IsWellFoundedOn(R, Nat)
  BY NatLessThanWellFounded DEF R
<1>2. PICK k \in T : \A j \in T : ~(<<j, k>> \in R)
  BY <1>1, WFMin
<1>3. \A j \in T : ~(j < k)
  BY <1>2 DEF R, OpToRel
<1> QED
  BY <1>3

-----------------------------------------------------------------------------
(* THE PLANNER *)

(* The accumulators of a pass over the first n recipients.                 *)
PlanRow(f, n, p, a) ==
    f = [i \in 0 .. n |-> IF i = 0 THEN [plan |-> p, intents |-> <<>>] ELSE Intend(f[i - 1], Recipients[i], a)]

LEMMA PlanRowExists == ASSUME NEW p, NEW a, NEW n \in Nat PROVE \E f : PlanRow(f, n, p, a)
<1> DEFINE T == {k \in Nat : ~\E f : PlanRow(f, k, p, a)}
           zero == [plan |-> p, intents |-> <<>>]
<1>1. SUFFICES ASSUME T # {} PROVE FALSE
  OBVIOUS
<1>2. PICK k \in T : \A j \in T : k <= j
  <2>1. T \subseteq Nat
    OBVIOUS
  <2> HIDE DEF T
  <2> QED
    BY <1>1, <2>1, LeastNatural
<1>3. CASE k = 0
  <2>1. PlanRow([i \in 0 .. 0 |-> zero], 0, p, a)
    BY DEF PlanRow
  <2> QED
    BY <1>3, <2>1
<1>4. CASE k # 0
  <2>1. k - 1 \in Nat /\ k - 1 \notin T
    BY <1>2, <1>4
  <2>2. PICK f : PlanRow(f, k - 1, p, a)
    BY <2>1
  <2> DEFINE last == Intend(f[k - 1], Recipients[k], a)
             g == [i \in 0 .. k |-> IF i = k THEN last ELSE f[i]]
  <2> HIDE DEF zero
  <2>3. \A i \in 0 .. k - 1 : f[i] = IF i = 0 THEN zero ELSE Intend(f[i - 1], Recipients[i], a)
    BY <2>2 DEF PlanRow, zero
  <2> HIDE DEF last
  <2>4. \A i \in 0 .. k : g[i] = IF i = 0 THEN zero ELSE Intend(g[i - 1], Recipients[i], a)
    <3> SUFFICES ASSUME NEW i \in 0 .. k
                 PROVE  g[i] = IF i = 0 THEN zero ELSE Intend(g[i - 1], Recipients[i], a)
      OBVIOUS
    <3>1. CASE i = k
      <4>1. g[i] = last /\ g[i - 1] = f[k - 1]
        BY <3>1, <1>4
      <4> QED
        BY <3>1, <4>1, <1>4 DEF last
    <3>2. CASE i # k
      <4>1. g[i] = f[i] /\ (i # 0 => g[i - 1] = f[i - 1])
        BY <3>2
      <4> HIDE DEF g
      <4> QED
        BY <3>2, <4>1, <2>3
    <3> QED
      BY <3>1, <3>2
  <2>5. PlanRow(g, k, p, a)
    <3>1. g = [i \in 0 .. k |-> g[i]]
      OBVIOUS
    <3> HIDE DEF g
    <3> QED
      BY <2>4, <3>1 DEF PlanRow, zero
  <2> QED
    BY <2>5
<1> QED
  BY <1>3, <1>4

(* What a plan leaves alone, and that its intents are a sequence.          *)
PlanOK(acc, p) ==
    /\ {"plan", "intents"} \subseteq DOMAIN acc
    /\ {"seen", "rate", "cursor", "missed", "overflows", "judged"} \subseteq DOMAIN acc.plan
    /\ acc.plan.cursor = p.cursor /\ acc.plan.missed = p.missed /\ acc.plan.judged = p.judged
    /\ \E S : acc.intents \in Seq(S)

LEMMA IntendKeeps ==
    ASSUME NEW acc, NEW p, PlanOK(acc, p), NEW recipient, NEW activity
    PROVE  PlanOK(Intend(acc, recipient, activity), p)
<1> DEFINE slot == <<recipient.name, Category(activity.type)>>
           key == Key(recipient.name, activity)
           bucket == Bucket(acc.plan, slot, activity.at)
           limited == Len(bucket) >= RateLimit
           kept == IF limited THEN bucket ELSE Append(bucket, activity.at)
           rates == [s \in DOMAIN acc.plan.rate \cup {slot} |-> IF s = slot THEN kept ELSE acc.plan.rate[s]]
           rated == [acc.plan EXCEPT !.rate = rates]
           shown == [rated EXCEPT !.seen = Remember(acc.plan.seen, key)]
<1>1. /\ {"plan", "intents"} \subseteq DOMAIN acc
      /\ {"seen", "rate", "cursor", "missed", "overflows", "judged"} \subseteq DOMAIN acc.plan
      /\ acc.plan.cursor = p.cursor /\ acc.plan.missed = p.missed /\ acc.plan.judged = p.judged
  BY DEF PlanOK
<1>2. PICK S : acc.intents \in Seq(S)
  BY DEF PlanOK
<1> DEFINE in == Intend(acc, recipient, activity)
<1>3. \/ in = acc
      \/ in = [acc EXCEPT !.plan = rated]
      \/ in = [plan |-> shown, intents |-> Append(acc.intents, key)]
  <2>1. rated.seen = acc.plan.seen
    <3> HIDE DEF rates
    <3> QED
      BY <1>1
  <2>2. [rated EXCEPT !.seen = Remember(@, key)] = shown
    <3> HIDE DEF rated, key
    <3> QED
      BY <2>1
  <2> QED
    BY <2>2 DEF Intend
<1> HIDE DEF rates, key, in
<1>4. /\ {"seen", "rate", "cursor", "missed", "overflows", "judged"} \subseteq DOMAIN rated
      /\ rated.cursor = p.cursor /\ rated.missed = p.missed /\ rated.judged = p.judged
  BY <1>1
<1>5. /\ {"seen", "rate", "cursor", "missed", "overflows", "judged"} \subseteq DOMAIN shown
      /\ shown.cursor = p.cursor /\ shown.missed = p.missed /\ shown.judged = p.judged
  <2> HIDE DEF rated
  <2> QED
    BY <1>4
<1> HIDE DEF rated, shown
<1>6. CASE in = acc
  BY <1>6 DEF in
<1>7. CASE in = [acc EXCEPT !.plan = rated]
  <2>1. {"plan", "intents"} \subseteq DOMAIN in /\ in.plan = rated /\ in.intents = acc.intents
    BY <1>1, <1>7
  <2>2. \E T : in.intents \in Seq(T)
    BY <1>2, <2>1
  <2> QED
    BY <1>4, <2>1, <2>2 DEF PlanOK, in
<1>8. CASE in = [plan |-> shown, intents |-> Append(acc.intents, key)]
  <2>1. {"plan", "intents"} \subseteq DOMAIN in /\ in.plan = shown /\ in.intents = Append(acc.intents, key)
    BY <1>8
  <2>2. acc.intents \in Seq(S \cup {key})
    BY <1>2
  <2>3. Append(acc.intents, key) \in Seq(S \cup {key})
    BY <2>2
  <2> QED
    BY <1>5, <2>1, <2>3 DEF PlanOK, in
<1> QED
  BY <1>3, <1>6, <1>7, <1>8 DEF in

(* plan keeps the cursor and what it counts.                               *)
LEMMA PlanKeeps ==
    ASSUME NEW p, {"seen", "rate", "cursor", "missed", "overflows", "judged"} \subseteq DOMAIN p, NEW activity
    PROVE  PlanOK(Plan(p, activity), p)
<1> DEFINE zero == [plan |-> p, intents |-> <<>>]
           n == Len(Recipients)
<1>1. PlanOK(zero, p)
  <2>1. <<>> \in Seq({})
    OBVIOUS
  <2> QED
    BY <2>1 DEF PlanOK
<1>2. CASE activity.status # NotifiableStatus(activity.type)
  BY <1>1, <1>2 DEF Plan
<1>3. CASE activity.status = NotifiableStatus(activity.type)
  <2> DEFINE f == CHOOSE g : PlanRow(g, n, p, activity)
             T == {i \in 0 .. n : ~PlanOK(f[i], p)}
  <2>1. n \in Nat
    BY NotificationPolicy
  <2>2. PlanRow(f, n, p, activity)
    <3>1. \E g : PlanRow(g, n, p, activity)
      BY <2>1, PlanRowExists
    <3> QED
      BY <3>1, Zenon
  <2>3. Plan(p, activity) = f[n]
    BY <1>3 DEF Plan, PlanRow
  <2> HIDE DEF f, zero
  <2>4. \A i \in 0 .. n : f[i] = IF i = 0 THEN zero ELSE Intend(f[i - 1], Recipients[i], activity)
    BY <2>2 DEF PlanRow, zero
  <2>5. ASSUME T # {} PROVE FALSE
    <3>1. T \subseteq Nat
      OBVIOUS
    <3>2. PICK k \in T : \A j \in T : k <= j
      <4> HIDE DEF T
      <4> QED
        BY <2>5, <3>1, LeastNatural
    <3>3. k # 0
      BY <1>1, <2>1, <2>4
    <3>4. k - 1 \in 0 .. n /\ PlanOK(f[k - 1], p)
      BY <2>1, <3>2, <3>3
    <3>5. f[k] = Intend(f[k - 1], Recipients[k], activity)
      BY <2>4, <3>3
    <3> QED
      BY <3>4, <3>5, IntendKeeps
  <2> QED
    BY <2>1, <2>3, <2>5
<1> QED
  BY <1>2, <1>3

-----------------------------------------------------------------------------
(* THE COMPOSER *)

(* Its record: each retained revision has a number of its own, and what    *)
(* lies before the cursor was composed or missed.                          *)
ActsFields == {"open", "cursor", "missed", "overflows", "composed", "stumbled", "activities", "revisions"}
ActivityFields == {"id", "type", "status", "of", "at", "outcome", "seq", "born"}
RevisionsOK(s) ==
    /\ s.revisions \in Nat
    /\ \A a \in s.activities : ActivityFields \subseteq DOMAIN a /\ a.seq \in 1 .. s.revisions
    /\ \A a, b \in s.activities : a.seq = b.seq => a = b
ActsOK(s) ==
    /\ ActsFields \subseteq DOMAIN s
    /\ s.cursor \in Nat /\ s.missed \in Nat /\ s.composed \in Nat
    /\ s.cursor = s.composed + s.missed
    /\ RevisionsOK(s)

(* What one event does to it, before the cursor moves.                     *)
Keeps(s, t) ==
    /\ ActsFields \subseteq DOMAIN t
    /\ t.cursor = s.cursor /\ t.missed = s.missed /\ t.composed = s.composed
    /\ t.revisions >= s.revisions
    /\ RevisionsOK(t)

(* The notices of a lost measurement, and what of them is left alone by an *)
(* operation that is not about a measurement.                              *)
Notices(s) == {a \in s.activities : a.type = "measurement_degraded" /\ a.status = "open"}
IsIncident(key) == key[1] = "measurement-incident"
Quiet(s, t) ==
    /\ Keeps(s, t)
    /\ ~t.stumbled =>
          /\ ~s.stumbled
          /\ Notices(t) \subseteq Notices(s)
          /\ \A key \in DOMAIN s.open : IsIncident(key) => key \in DOMAIN t.open

LEMMA KeptIsOK == ASSUME NEW s, ActsOK(s), NEW t, Keeps(s, t) PROVE ActsOK(t)
  BY DEF ActsOK, Keeps, RevisionsOK

LEMMA QuietGoesOn == ASSUME NEW s, NEW t, NEW u, ActsOK(s), Quiet(s, t), Quiet(t, u) PROVE Quiet(s, u)
<1>1. Keeps(s, u)
  BY DEF Quiet, Keeps, ActsOK, RevisionsOK
<1> QED
  BY <1>1 DEF Quiet

LEMMA NothingIsQuiet == ASSUME NEW s, ActsOK(s) PROVE Quiet(s, s)
  BY DEF Quiet, Keeps, ActsOK, RevisionsOK

(* A revision takes the place of the earlier one of its activity; others   *)
(* stay, but for one that may make room.                                   *)
LEMMA RetainFacts ==
    ASSUME NEW s, ActsOK(s), NEW new, ActivityFields \subseteq DOMAIN new
    PROVE  LET t == Retain(s, new) IN
           /\ Keeps(s, t) /\ t.open = s.open /\ t.stumbled = s.stumbled
           /\ \A b \in t.activities :
                 \/ b \in s.activities /\ b.id # new.id
                 \/ b.id = new.id /\ b.type = new.type /\ b.status = new.status /\ b.of = new.of
<1> DEFINE seq == s.revisions + 1
           earlier == Earlier(s, new.id)
           born == IF earlier = {} THEN seq ELSE Oldest(earlier).born
           gone == Displaced(s, new.id)
           rev == [new EXCEPT !.seq = seq, !.born = born]
           left == (s.activities \ gone) \cup {rev}
           t == Retain(s, new)
<1>1. /\ ActsFields \subseteq DOMAIN s /\ s.revisions \in Nat
      /\ \A a \in s.activities : ActivityFields \subseteq DOMAIN a /\ a.seq \in 1 .. s.revisions
      /\ \A a, b \in s.activities : a.seq = b.seq => a = b
  BY DEF ActsOK, RevisionsOK
<1>2. t = [s EXCEPT !.revisions = seq, !.activities = left]
  <2>1. t = [s EXCEPT !.revisions = seq, !.activities = (@ \ gone) \cup {rev}]
    BY DEF Retain
  <2> HIDE DEF t, rev, gone, seq
  <2> QED
    BY <1>1, <2>1 DEF ActsFields
<1>3. seq \in Nat /\ seq > s.revisions
  BY <1>1
<1> HIDE DEF born
<1>4. /\ ActivityFields \subseteq DOMAIN rev /\ rev.seq = seq
      /\ rev.id = new.id /\ rev.type = new.type /\ rev.status = new.status /\ rev.of = new.of
  BY DEF ActivityFields
<1>5. \A b \in left : (b \in s.activities /\ b.id # new.id) \/ b = rev
  BY DEF Displaced, Earlier
<1> HIDE DEF rev, left, seq, t
<1>6. /\ ActsFields \subseteq DOMAIN t /\ t.revisions = seq /\ t.activities = left
      /\ t.cursor = s.cursor /\ t.missed = s.missed /\ t.composed = s.composed
      /\ t.open = s.open /\ t.stumbled = s.stumbled
  BY <1>1, <1>2 DEF ActsFields
<1>7. RevisionsOK(t)
  <2>1. \A a \in left : ActivityFields \subseteq DOMAIN a /\ a.seq \in 1 .. seq
    BY <1>1, <1>3, <1>4, <1>5
  <2>2. \A a, b \in left : a.seq = b.seq => a = b
    BY <1>1, <1>3, <1>4, <1>5
  <2> QED
    BY <1>3, <1>6, <2>1, <2>2 DEF RevisionsOK
<1>8. Keeps(s, t)
  BY <1>1, <1>3, <1>6, <1>7 DEF Keeps
<1>9. \A b \in t.activities :
         \/ b \in s.activities /\ b.id # new.id
         \/ b.id = new.id /\ b.type = new.type /\ b.status = new.status /\ b.of = new.of
  BY <1>4, <1>5, <1>6
<1> QED
  BY <1>6, <1>8, <1>9 DEF t

LEMMA PublishFacts ==
    ASSUME NEW s, ActsOK(s), NEW key, NEW apart, NEW context, NEW type, NEW status, NEW at, NEW outcome
    PROVE  LET t == PublishApart(s, key, apart, context, type, status, at, outcome) IN
           /\ Keeps(s, t) /\ t.open = s.open
           /\ ~t.stumbled =>
                 /\ ~s.stumbled
                 /\ \A b \in t.activities :
                       \/ b \in s.activities /\ b.id # <<key, type, apart>>
                       \/ b.id = <<key, type, apart>> /\ b.type = type /\ b.status = status /\ b.of = key
<1> DEFINE new == [id |-> <<key, type, apart>>, type |-> type, status |-> status,
                   of |-> key, at |-> at, outcome |-> outcome, seq |-> 0, born |-> 0]
           t == PublishApart(s, key, apart, context, type, status, at, outcome)
<1>1. CASE s.stumbled
  <2>1. t = s
    BY <1>1 DEF PublishApart
  <2>2. Keeps(s, s)
    BY NothingIsQuiet DEF Quiet
  <2> QED
    BY <1>1, <2>1, <2>2
<1>2. CASE ~s.stumbled /\ at < context.started
  <2>1. t = [s EXCEPT !.stumbled = TRUE]
    BY <1>2 DEF PublishApart
  <2>2. ActsFields \subseteq DOMAIN s
    BY DEF ActsOK
  <2> HIDE DEF t
  <2>3. /\ ActsFields \subseteq DOMAIN t /\ t.stumbled /\ t.open = s.open
        /\ t.cursor = s.cursor /\ t.missed = s.missed /\ t.composed = s.composed
        /\ t.revisions = s.revisions /\ t.activities = s.activities
    BY <2>1, <2>2 DEF ActsFields
  <2>4. Keeps(s, t)
    BY <2>3 DEF Keeps, ActsOK, RevisionsOK
  <2> QED
    BY <2>3, <2>4 DEF t
<1>3. CASE ~s.stumbled /\ ~(at < context.started)
  <2>1. t = Retain(s, new)
    BY <1>3 DEF PublishApart
  <2>2. /\ ActivityFields \subseteq DOMAIN new /\ new.id = <<key, type, apart>>
        /\ new.type = type /\ new.status = status /\ new.of = key
    BY DEF ActivityFields
  <2> HIDE DEF t, new
  <2>3. /\ Keeps(s, t) /\ t.open = s.open
        /\ \A b \in t.activities :
              \/ b \in s.activities /\ b.id # new.id
              \/ b.id = new.id /\ b.type = new.type /\ b.status = new.status /\ b.of = new.of
    BY <2>1, <2>2, RetainFacts
  <2> QED
    BY <1>3, <2>2, <2>3 DEF t
<1> QED
  BY <1>1, <1>2, <1>3

(* What is published of another type is quiet.                             *)
LEMMA PublishIsQuiet ==
    ASSUME NEW s, ActsOK(s), NEW key, NEW apart, NEW context, NEW type, type # "measurement_degraded",
           NEW status, NEW at, NEW outcome
    PROVE  Quiet(s, PublishApart(s, key, apart, context, type, status, at, outcome))
  BY PublishFacts DEF Quiet, Notices

(* A change of the open lifecycles alone.                                  *)
LEMMA OpenIsQuiet ==
    ASSUME NEW s, ActsOK(s), NEW open, \A k \in DOMAIN s.open : IsIncident(k) => k \in DOMAIN open
    PROVE  Quiet(s, [s EXCEPT !.open = open])
<1> DEFINE t == [s EXCEPT !.open = open]
<1>1. ActsFields \subseteq DOMAIN s
  BY DEF ActsOK
<1>2. /\ ActsFields \subseteq DOMAIN t /\ t.open = open /\ t.stumbled = s.stumbled
      /\ t.cursor = s.cursor /\ t.missed = s.missed /\ t.composed = s.composed
      /\ t.revisions = s.revisions /\ t.activities = s.activities
  BY <1>1 DEF ActsFields
<1> HIDE DEF t
<1>3. Keeps(s, t)
  BY <1>2 DEF Keeps, ActsOK, RevisionsOK
<1>4. Quiet(s, t)
  BY <1>2, <1>3 DEF Quiet, Notices
<1> QED
  BY <1>4 DEF t

LEMMA StartedIsQuiet == ASSUME NEW s, ActsOK(s), NEW key, NEW at PROVE Quiet(s, Started(s, key, at))
<1>1. Quiet(s, s)
  BY NothingIsQuiet
<1> DEFINE open == [k \in DOMAIN s.open \cup {key} |-> IF k = key THEN Lifecycle(at) ELSE s.open[k]]
<1>2. Quiet(s, [s EXCEPT !.open = open])
  BY OpenIsQuiet
<1>3. Started(s, key, at) = s \/ Started(s, key, at) = [s EXCEPT !.open = open]
  BY DEF Started, ActsOK, ActsFields
<1> QED
  BY <1>1, <1>2, <1>3

LEMMA PoppedFacts ==
    ASSUME NEW s, ActsOK(s), NEW key
    PROVE  LET t == Popped(s, key) IN
           /\ Keeps(s, t) /\ t.activities = s.activities /\ t.stumbled = s.stumbled
           /\ DOMAIN t.open = DOMAIN s.open \ {key}
<1> DEFINE open == [k \in DOMAIN s.open \ {key} |-> s.open[k]]
           t == [s EXCEPT !.open = open]
<1>1. ActsFields \subseteq DOMAIN s
  BY DEF ActsOK
<1>2. Popped(s, key) = t
  BY <1>1 DEF Popped, ActsFields
<1>3. /\ ActsFields \subseteq DOMAIN t /\ t.open = open /\ t.stumbled = s.stumbled
      /\ t.cursor = s.cursor /\ t.missed = s.missed /\ t.composed = s.composed
      /\ t.revisions = s.revisions /\ t.activities = s.activities
  BY <1>1 DEF ActsFields
<1>4. DOMAIN open = DOMAIN s.open \ {key}
  OBVIOUS
<1> HIDE DEF t, open
<1>5. Keeps(s, t)
  BY <1>3 DEF Keeps, ActsOK, RevisionsOK
<1> QED
  BY <1>2, <1>3, <1>4, <1>5

LEMMA PoppedIsQuiet == ASSUME NEW s, ActsOK(s), NEW key, ~IsIncident(key) PROVE Quiet(s, Popped(s, key))
  BY PoppedFacts DEF Quiet, Notices

LEMMA CapturedIsQuiet == ASSUME NEW s, ActsOK(s), NEW event PROVE Quiet(s, Captured(s, event))
<1>1. Quiet(s, s)
  BY NothingIsQuiet
<1> DEFINE open == [s.open EXCEPT ![event.activity].outcome = CommandOutcome(event)]
<1>2. DOMAIN open = DOMAIN s.open
  OBVIOUS
<1>3. Quiet(s, [s EXCEPT !.open = open])
  <2> HIDE DEF open
  <2> QED
    BY <1>2, OpenIsQuiet
<1>4. Captured(s, event) = s \/ Captured(s, event) = [s EXCEPT !.open = open]
  BY DEF Captured, ActsOK, ActsFields
<1> QED
  BY <1>1, <1>3, <1>4

-----------------------------------------------------------------------------
(* THE HANDLERS *)

LEMMA CommandDispatchedIsQuiet ==
    ASSUME NEW s, ActsOK(s), NEW event PROVE Quiet(s, CommandDispatched(s, event))
<1> DEFINE key == event.activity
           open == [s.open EXCEPT ![key].heatingAt = event.at]
           began == [s EXCEPT !.open = open]
           on == Publish(began, key, Lifecycle(event.at), "heating_started", "completed", event.at, event.detail)
           shown == Publish(s, key, Lifecycle(event.at), "heating_stopped", "completed", event.at, event.detail)
<1>1. Quiet(s, s)
  BY NothingIsQuiet
<1>2. Quiet(s, on)
  <2>1. DOMAIN open = DOMAIN s.open
    OBVIOUS
  <2>2. Quiet(s, began)
    <3> HIDE DEF open
    <3> QED
      BY <2>1, OpenIsQuiet
  <2> HIDE DEF began
  <2>3. ActsOK(began)
    BY <2>2, KeptIsOK DEF Quiet
  <2>4. Quiet(began, on)
    BY <2>3, PublishIsQuiet DEF Publish
  <2> QED
    BY <2>2, <2>4, QuietGoesOn
<1>3. ASSUME ~IsIncident(key) PROVE Quiet(s, Popped(shown, key))
  <2>1. Quiet(s, shown)
    BY PublishIsQuiet DEF Publish
  <2> HIDE DEF shown
  <2>2. ActsOK(shown)
    BY <2>1, KeptIsOK DEF Quiet
  <2> QED
    BY <1>3, <2>1, <2>2, PoppedIsQuiet, QuietGoesOn
<1>4. \/ CommandDispatched(s, event) = s
      \/ CommandDispatched(s, event) = on
      \/ CommandDispatched(s, event) = Popped(shown, key) /\ key[1] = "heating-episode"
  <2>1. [s EXCEPT !.open[key].heatingAt = event.at] = began
    BY DEF ActsOK, ActsFields
  <2> HIDE DEF began
  <2> QED
    BY <2>1 DEF CommandDispatched
<1> QED
  BY <1>1, <1>2, <1>3, <1>4 DEF IsIncident

LEMMA CompleteReconciliationIsQuiet ==
    ASSUME NEW s, ActsOK(s), NEW event, ~IsIncident(event.activity)
    PROVE  Quiet(s, CompleteReconciliation(s, event))
<1> DEFINE popped == Popped(s, event.activity)
           shown == Publish(popped, event.activity, s.open[event.activity], "source_state_corrected",
                           "completed", event.at, event.detail)
<1>1. Quiet(s, popped)
  BY PoppedIsQuiet
<1>2. Quiet(popped, shown)
  <2>1. ActsOK(popped)
    BY <1>1, KeptIsOK DEF Quiet
  <2> HIDE DEF popped
  <2> QED
    BY <2>1, PublishIsQuiet DEF Publish
<1>3. CompleteReconciliation(s, event) \in {popped, shown}
  BY DEF CompleteReconciliation
<1> HIDE DEF popped, shown
<1> QED
  BY <1>1, <1>2, <1>3, QuietGoesOn

LEMMA RuntimeRecoveredIsQuiet ==
    ASSUME NEW s, ActsOK(s), NEW event, ~IsIncident(event.activity)
    PROVE  Quiet(s, RuntimeRecovered(s, event))
<1> DEFINE context == s.open[event.activity]
           popped == Popped(s, event.activity)
           closed == Publish(popped, event.activity, context,
                             "runtime_failsafe_entered", "recovered", event.at, "restored")
           shown == Publish(closed, event.activity, context, "runtime_recovered", "recovered", event.at, "restored")
<1>1. Quiet(s, popped) /\ ActsOK(popped)
  BY PoppedIsQuiet, KeptIsOK DEF Quiet
<1>2. Quiet(popped, closed) /\ ActsOK(closed)
  <2> HIDE DEF popped
  <2>1. Quiet(popped, closed)
    BY <1>1, PublishIsQuiet DEF Publish
  <2> QED
    BY <1>1, <2>1, KeptIsOK DEF Quiet
<1>3. Quiet(closed, shown)
  <2> HIDE DEF closed
  <2> QED
    BY <1>2, PublishIsQuiet DEF Publish
<1>4. RuntimeRecovered(s, event) = shown
  BY DEF RuntimeRecovered
<1> HIDE DEF popped, closed, shown
<1>5. Quiet(s, closed)
  BY <1>1, <1>2, QuietGoesOn
<1> QED
  BY <1>3, <1>4, <1>5, QuietGoesOn

LEMMA DemandCancelledIsQuiet ==
    ASSUME NEW s, ActsOK(s), NEW event, ~IsIncident(event.activity)
    PROVE  Quiet(s, DemandCancelled(s, event))
<1> DEFINE context == s.open[event.activity]
           shown == IF context.heatingAt # None THEN s
                   ELSE Publish(s, event.activity, context, "heat_demand_cancelled", "cancelled",
                                event.at, "cancelled")
<1>1. Quiet(s, shown) /\ ActsOK(shown)
  <2>1. Quiet(s, shown)
    BY NothingIsQuiet, PublishIsQuiet DEF Publish
  <2> QED
    BY <2>1, KeptIsOK DEF Quiet
<1>2. DemandCancelled(s, event) \in {shown, Popped(shown, event.activity)}
  BY DEF DemandCancelled
<1> HIDE DEF shown
<1>3. Quiet(s, Popped(shown, event.activity))
  BY <1>1, PoppedIsQuiet, QuietGoesOn
<1> QED
  BY <1>1, <1>2, <1>3

LEMMA TellFailureIsQuiet ==
    ASSUME NEW s, ActsOK(s), NEW event, NEW seq PROVE Quiet(s, TellFailure(s, event, seq))
<1> DEFINE key == event.activity
           context == IF IsOpen(s, key) THEN s.open[key] ELSE Lifecycle(event.at)
           popped == Popped(s, key)
<1>1. CASE key[1] = "source-reconciliation"
  <2>1. TellFailure(s, event, seq) =
          Publish(popped, key, context, "source_correction_failed", "failed", event.at, "command_failed")
    BY <1>1 DEF TellFailure
  <2>2. Quiet(s, popped) /\ ActsOK(popped)
    <3>1. Quiet(s, popped)
      BY <1>1, PoppedIsQuiet DEF IsIncident
    <3> QED
      BY <3>1, KeptIsOK DEF Quiet
  <2> HIDE DEF popped
  <2>3. Quiet(popped, TellFailure(s, event, seq))
    BY <2>1, <2>2, PublishIsQuiet DEF Publish
  <2> QED
    BY <2>2, <2>3, QuietGoesOn
<1>2. CASE key[1] # "source-reconciliation"
  <2>1. TellFailure(s, event, seq) =
          PublishApart(s, key, seq, context, "source_command_failed", "failed", event.at, "command_failed")
    BY <1>2 DEF TellFailure
  <2> QED
    BY <2>1, PublishIsQuiet
<1> QED
  BY <1>1, <1>2

-----------------------------------------------------------------------------
(* ONE EVENT *)

(* The events that tell of a lost measurement, and the scopes of those     *)
(* that end a lifecycle.                                                   *)
Losses == {"measurement_degraded", "safety_grace_started", "safety_grace_expired"}
Ends == {"source_reconciliation_completed", "runtime_recovered", "heat_demand_cancelled"}
EventOK(event) ==
    event.activity # None =>
        /\ event.code \in Losses => IsIncident(event.activity)
        /\ event.code \in Ends => ~IsIncident(event.activity)

(* A notice that is open belongs to a lifecycle that is open.              *)
OpenOK(s) ==
    \A a \in Notices(s) :
        /\ a.of \in DOMAIN s.open /\ a.of # None
        /\ a.id = <<a.of, "measurement_degraded", None>>
        /\ IsIncident(a.of)

(* A notice that is open after an event was so before, and the event was   *)
(* not its recovery, or the event tells of its incident.                   *)
Follows(s, t, event) ==
    ~t.stumbled =>
        /\ ~s.stumbled
        /\ OpenOK(s) =>
              /\ OpenOK(t)
              /\ \A a \in Notices(t) :
                    \/ a \in Notices(s) /\ ~(event.code = "measurement_recovered" /\ event.activity = a.of)
                    \/ event.code \in Losses /\ event.activity # None /\ a.of = event.activity

LEMMA QuietFollows ==
    ASSUME NEW s, NEW t, Quiet(s, t), NEW event,
           event.code = "measurement_recovered" => event.activity \notin DOMAIN s.open
    PROVE  Follows(s, t, event)
  BY DEF Quiet, Follows, OpenOK

(* The recovery closes the notice of its incident.                         *)
LEMMA MeasurementRecoveredFollows ==
    ASSUME NEW s, ActsOK(s), NEW event
    PROVE  Keeps(s, MeasurementRecovered(s, event)) /\ Follows(s, MeasurementRecovered(s, event), event)
<1> DEFINE key == event.activity
           context == s.open[key]
           popped == Popped(s, key)
           closed == Publish(popped, key, context, "measurement_degraded", "recovered", event.at, "recovered")
           shown == Publish(closed, key, context, "measurement_recovered", "recovered", event.at, "restored")
<1>1. MeasurementRecovered(s, event) = shown
  BY DEF MeasurementRecovered
<1>2. /\ Keeps(s, popped) /\ ActsOK(popped)
      /\ popped.activities = s.activities /\ popped.stumbled = s.stumbled
      /\ DOMAIN popped.open = DOMAIN s.open \ {key}
  BY PoppedFacts, KeptIsOK
<1> HIDE DEF popped
<1>3. /\ Keeps(popped, closed) /\ ActsOK(closed) /\ closed.open = popped.open
      /\ ~closed.stumbled =>
            /\ ~popped.stumbled
            /\ \A b \in closed.activities :
                  \/ b \in popped.activities /\ b.id # <<key, "measurement_degraded", None>>
                  \/ b.status = "recovered"
  <2>1. /\ Keeps(popped, closed) /\ closed.open = popped.open
        /\ ~closed.stumbled =>
              /\ ~popped.stumbled
              /\ \A b \in closed.activities :
                    \/ b \in popped.activities /\ b.id # <<key, "measurement_degraded", None>>
                    \/ b.status = "recovered"
    BY <1>2, PublishFacts DEF Publish
  <2> HIDE DEF closed
  <2> QED
    BY <1>2, <2>1, KeptIsOK
<1> HIDE DEF closed
<1>4. /\ Quiet(closed, shown) /\ shown.open = closed.open
  <2>1. Quiet(closed, shown)
    BY <1>3, PublishIsQuiet DEF Publish
  <2>2. shown.open = closed.open
    BY <1>3, PublishFacts DEF Publish
  <2> QED
    BY <2>1, <2>2
<1> HIDE DEF shown
<1>5. Keeps(s, shown)
  BY <1>2, <1>3, <1>4 DEF Quiet, Keeps, ActsOK, RevisionsOK
<1>6. ASSUME ~shown.stumbled
      PROVE  ~s.stumbled /\ (OpenOK(s) => \A a \in Notices(shown) : a \in Notices(s) /\ a.of # key)
  <2>1. ~closed.stumbled /\ ~s.stumbled /\ Notices(shown) \subseteq Notices(closed)
    BY <1>2, <1>3, <1>4, <1>6 DEF Quiet
  <2>2. \A a \in Notices(closed) : a \in s.activities /\ a.id # <<key, "measurement_degraded", None>>
    BY <1>2, <1>3, <2>1 DEF Notices
  <2>3. OpenOK(s) => \A a \in Notices(closed) : a \in Notices(s) /\ a.of # key
    BY <2>2 DEF Notices, OpenOK
  <2> QED
    BY <2>1, <2>3
<1>7. Follows(s, shown, event)
  <2>1. DOMAIN shown.open = DOMAIN s.open \ {key}
    BY <1>2, <1>3, <1>4
  <2> QED
    BY <1>6, <2>1 DEF Follows, OpenOK
<1> QED
  BY <1>1, <1>5, <1>7

(* A loss opens the notice of its incident, or leaves it open.             *)
LEMMA LossFollows ==
    ASSUME NEW s, ActsOK(s), NEW event, EventOK(event), event.code \in Losses, event.activity # None,
           event.activity \in DOMAIN s.open, NEW context,
           NEW t, t = Publish(s, event.activity, context, "measurement_degraded", "open", event.at, None)
    PROVE  Keeps(s, t) /\ Follows(s, t, event)
<1>1. /\ Keeps(s, t) /\ t.open = s.open
      /\ ~t.stumbled =>
            /\ ~s.stumbled
            /\ \A b \in t.activities :
                  \/ b \in s.activities
                  \/ b.id = <<event.activity, "measurement_degraded", None>> /\ b.of = event.activity
  BY PublishFacts DEF Publish
<1>2. IsIncident(event.activity)
  BY DEF EventOK
<1>3. "measurement_recovered" \notin Losses
  BY DEF Losses
<1>4. ASSUME ~t.stumbled, OpenOK(s), NEW a \in Notices(t)
      PROVE  /\ a.of \in DOMAIN t.open /\ a.of # None /\ a.id = <<a.of, "measurement_degraded", None>> /\ IsIncident(a.of)
             /\ a \in Notices(s) \/ a.of = event.activity
  BY <1>1, <1>2, <1>4 DEF OpenOK, Notices
<1>5. Follows(s, t, event)
  <2>1. ASSUME ~t.stumbled, OpenOK(s) PROVE OpenOK(t)
    BY <1>4, <2>1 DEF OpenOK
  <2>2. event.code # "measurement_recovered"
    BY <1>3
  <2> QED
    BY <1>1, <1>4, <2>1, <2>2 DEF Follows
<1> QED
  BY <1>1, <1>5

(* One event, whatever it is of.                                           *)
LEMMA ComposedFollows ==
    ASSUME NEW s, ActsOK(s), NEW event, EventOK(event), NEW seq
    PROVE  Keeps(s, Composed(s, event, seq)) /\ Follows(s, Composed(s, event, seq), event)
<1> DEFINE key == event.activity
           begun == IF event.code \in Starting \/ StartsHeating(event) THEN Started(s, key, event.at) ELSE s
           c == Captured(begun, event)
           t == Composed(s, event, seq)
           Tell(type, status) == Publish(c, key, c.open[key], type, status, event.at, None)
<1>1. Quiet(s, c) /\ ActsOK(c)
  <2>1. Quiet(s, begun)
    BY NothingIsQuiet, StartedIsQuiet
  <2>2. ActsOK(begun)
    BY <2>1, KeptIsOK DEF Quiet
  <2>3. Quiet(begun, c)
    <3> HIDE DEF begun
    <3> QED
      BY <2>2, CapturedIsQuiet
  <2>4. Quiet(s, c)
    <3> HIDE DEF begun, c
    <3> QED
      BY <2>1, <2>3, QuietGoesOn
  <2> HIDE DEF c
  <2> QED
    BY <2>4, KeptIsOK DEF Quiet
<1>2. t = IF event.code = "source_command_failed" THEN TellFailure(c, event, seq)
          ELSE IF key = None \/ ~IsOpen(c, key) THEN c
          ELSE CASE event.code = "source_command_dispatched" -> CommandDispatched(c, event)
                 [] event.code = "source_reconciliation_completed" -> CompleteReconciliation(c, event)
                 [] event.code = "measurement_recovered" -> MeasurementRecovered(c, event)
                 [] event.code = "runtime_recovered" -> RuntimeRecovered(c, event)
                 [] event.code = "heat_demand_cancelled" -> DemandCancelled(c, event)
                 [] event.code \in {"measurement_degraded", "safety_grace_started", "safety_grace_expired"} ->
                      Tell("measurement_degraded", "open")
                 [] event.code = "safety_disable_requested" -> Tell("safety_fallback_applied", "completed")
                 [] event.code = "failsafe_entered" -> Tell("runtime_failsafe_entered", "open")
                 [] event.code = "restart_budget_exhausted" -> Tell("runtime_restart_exhausted", "failed")
                 [] OTHER -> c
  BY DEF Composed
<1> HIDE DEF c, begun, t
<1>3. ASSUME Quiet(c, t), event.code = "measurement_recovered" => event.activity \notin DOMAIN c.open
      PROVE  Keeps(c, t) /\ Follows(c, t, event)
  BY <1>3, QuietFollows DEF Quiet
<1>4. Keeps(c, t) /\ Follows(c, t, event)
  <2>1. CASE event.code = "source_command_failed"
    BY <1>1, <1>2, <1>3, <2>1, TellFailureIsQuiet
  <2>2. CASE event.code # "source_command_failed" /\ (key = None \/ ~IsOpen(c, key))
    <3>1. t = c
      BY <1>2, <2>2
    <3>2. Quiet(c, c)
      BY <1>1, NothingIsQuiet
    <3>3. key \notin DOMAIN c.open \/ key = None
      BY <2>2 DEF IsOpen
    <3>4. OpenOK(c) => \A a \in Notices(c) : a.of # key
      BY <3>3 DEF OpenOK, IsIncident
    <3> QED
      BY <3>1, <3>2, <3>4 DEF Follows, Quiet
  <2>3. CASE event.code # "source_command_failed" /\ key # None /\ IsOpen(c, key)
    <3>1. key \in DOMAIN c.open
      BY <2>3 DEF IsOpen
    <3>2. CASE event.code = "source_command_dispatched"
      <4>1. t = CommandDispatched(c, event)
        BY <1>2, <2>3, <3>2
      <4> QED
        BY <1>1, <1>3, <3>2, <4>1, CommandDispatchedIsQuiet
    <3>3. CASE event.code \in Ends
      <4>1. ~IsIncident(key)
        BY <2>3, <3>3 DEF EventOK
      <4>2. \/ t = CompleteReconciliation(c, event)
            \/ t = RuntimeRecovered(c, event)
            \/ t = DemandCancelled(c, event)
        BY <1>2, <2>3, <3>3 DEF Ends
      <4>3. event.code # "measurement_recovered"
        BY <3>3 DEF Ends
      <4> QED
        BY <1>1, <1>3, <4>1, <4>2, <4>3, CompleteReconciliationIsQuiet, RuntimeRecoveredIsQuiet,
           DemandCancelledIsQuiet
    <3>4. CASE event.code = "measurement_recovered"
      <4>1. t = MeasurementRecovered(c, event)
        BY <1>2, <2>3, <3>4
      <4> QED
        BY <1>1, <4>1, MeasurementRecoveredFollows
    <3>5. CASE event.code \in Losses
      <4>1. t = Publish(c, key, c.open[key], "measurement_degraded", "open", event.at, None)
        BY <1>2, <2>3, <3>5 DEF Losses
      <4> QED
        BY <1>1, <2>3, <3>1, <3>5, <4>1, LossFollows
    <3>6. CASE event.code \in {"safety_disable_requested", "failsafe_entered", "restart_budget_exhausted"}
      <4>1. \/ t = Tell("safety_fallback_applied", "completed")
            \/ t = Tell("runtime_failsafe_entered", "open")
            \/ t = Tell("runtime_restart_exhausted", "failed")
        BY <1>2, <2>3, <3>6
      <4>2. Quiet(c, t)
        BY <1>1, <4>1, PublishIsQuiet DEF Publish
      <4> QED
        BY <1>3, <3>6, <4>2
    <3>7. CASE event.code \notin {"source_command_dispatched", "measurement_recovered", "safety_disable_requested",
                                  "failsafe_entered", "restart_budget_exhausted"} \cup Losses \cup Ends
      <4>1. t = c
        BY <1>2, <2>3, <3>7 DEF Losses, Ends
      <4>2. Quiet(c, c)
        BY <1>1, NothingIsQuiet
      <4> QED
        BY <1>3, <3>7, <4>1, <4>2
    <3> QED
      BY <3>2, <3>3, <3>4, <3>5, <3>6, <3>7
  <2> QED
    BY <2>1, <2>2, <2>3
<1>5. Keeps(s, t)
  BY <1>1, <1>4 DEF Quiet, Keeps, ActsOK, RevisionsOK
<1>6. Follows(s, t, event)
  <2>1. ~c.stumbled => ~s.stumbled /\ Notices(c) \subseteq Notices(s) /\ (OpenOK(s) => OpenOK(c))
    BY <1>1 DEF Quiet, OpenOK
  <2> QED
    BY <1>4, <2>1 DEF Follows
<1> QED
  BY <1>5, <1>6 DEF t

-----------------------------------------------------------------------------
(* A PASS OF THE COMPOSER *)

(* The stream as the composer finds it: the retained events are the last   *)
(* of all; each loss is of the incident that lasts, or its recovery comes  *)
(* later.                                                                  *)
First(str) == str.total - Len(str.retained) + 1
Recovers(event, key) == event.code = "measurement_recovered" /\ event.activity = key
StreamOK(str, incident) ==
    /\ {"retained", "total"} \subseteq DOMAIN str
    /\ str.total \in Nat
    /\ \E S : str.retained \in Seq(S)
    /\ Len(str.retained) <= str.total
    /\ str.retained = <<>> => str.total = 0
    /\ \A i \in DOMAIN str.retained : EventOK(str.retained[i])
    /\ \A i \in DOMAIN str.retained :
          LET event == str.retained[i]
          IN  (event.code \in Losses /\ event.activity # None) =>
                  \/ event.activity = incident
                  \/ \E j \in DOMAIN str.retained : j > i /\ Recovers(str.retained[j], event.activity)

(* An incident's recovery is retained and was not read yet; every open     *)
(* notice is of the incident that lasts, or of one that will be closed.    *)
Closes(str, cursor, key) ==
    \E j \in DOMAIN str.retained : First(str) + j - 1 > cursor /\ Recovers(str.retained[j], key)
Current(s, str, incident) ==
    OpenOK(s) /\ \A a \in Notices(s) : a.of = incident \/ Closes(str, s.cursor, a.of)

LEMMA PassStep ==
    ASSUME NEW str, NEW incident, StreamOK(str, incident), NEW s, ActsOK(s), s.cursor <= str.total,
           NEW i \in DOMAIN str.retained, ~s.stumbled => s.cursor >= First(str) + i - 2
    PROVE  LET t == ComposeNext(s, str.retained[i], First(str) + i - 1) IN
           /\ ActsOK(t) /\ t.revisions >= s.revisions /\ t.cursor <= str.total
           /\ ~t.stumbled =>
                 /\ t.cursor >= First(str) + i - 1
                 /\ ~s.stumbled
                 /\ Current(s, str, incident) => Current(t, str, incident)
<1> DEFINE event == str.retained[i]
           seq == First(str) + i - 1
           done == Composed(s, event, seq)
           t == ComposeNext(s, event, seq)
<1>1. PICK S : str.retained \in Seq(S)
  BY DEF StreamOK
<1>2. /\ str.total \in Nat /\ Len(str.retained) \in Nat /\ Len(str.retained) <= str.total
      /\ i \in 1 .. Len(str.retained) /\ EventOK(event)
  BY <1>1 DEF StreamOK
<1>3. seq \in Nat /\ seq <= str.total /\ s.cursor \in Nat
  BY <1>2 DEF First, ActsOK
<1>4. Keeps(s, done) /\ Follows(s, done, event) /\ ActsOK(done)
  <2>1. Keeps(s, done) /\ Follows(s, done, event)
    BY <1>2, ComposedFollows
  <2> HIDE DEF done
  <2> QED
    BY <2>1, KeptIsOK
<1>5. t = IF s.stumbled \/ seq <= s.cursor THEN s
          ELSE IF done.stumbled THEN done
          ELSE [done EXCEPT !.cursor = seq, !.composed = @ + 1]
  BY DEF ComposeNext
<1> HIDE DEF t, done
<1>6. s.revisions >= s.revisions /\ s.revisions \in Nat
  BY DEF ActsOK, RevisionsOK
<1>7. CASE s.stumbled \/ seq <= s.cursor
  BY <1>5, <1>6, <1>7 DEF t
<1>8. CASE ~s.stumbled /\ ~(seq <= s.cursor) /\ done.stumbled
  BY <1>4, <1>5, <1>8 DEF t, Keeps
<1>9. CASE ~s.stumbled /\ ~(seq <= s.cursor) /\ ~done.stumbled
  <2>1. t = [done EXCEPT !.cursor = seq, !.composed = @ + 1]
    BY <1>5, <1>9
  <2>2. ActsFields \subseteq DOMAIN done
    BY <1>4 DEF Keeps
  <2>3. /\ ActsFields \subseteq DOMAIN t /\ t.cursor = seq /\ t.composed = done.composed + 1
        /\ t.missed = done.missed /\ t.open = done.open /\ t.activities = done.activities
        /\ t.revisions = done.revisions /\ t.stumbled = done.stumbled
    BY <2>1, <2>2 DEF ActsFields
  <2>4. seq = s.cursor + 1
    <3>1. First(str) \in Int /\ i \in Int
      BY <1>2 DEF First
    <3>2. s.cursor >= First(str) + i - 2
      BY <1>9
    <3> QED
      BY <1>3, <1>9, <3>1, <3>2
  <2>5. ActsOK(t)
    <3>1. t.cursor = t.composed + t.missed /\ t.composed \in Nat /\ t.missed \in Nat
      <4>1. done.composed = s.composed /\ done.missed = s.missed
        BY <1>4 DEF Keeps
      <4>2. s.composed \in Nat /\ s.missed \in Nat /\ s.cursor = s.composed + s.missed
        BY DEF ActsOK
      <4> QED
        BY <2>3, <2>4, <4>1, <4>2
    <3> QED
      BY <1>3, <1>4, <2>3, <3>1 DEF ActsOK, RevisionsOK
  <2>6. t.revisions >= s.revisions
    BY <1>4, <2>3 DEF Keeps
  <2>7. ASSUME Current(s, str, incident) PROVE Current(t, str, incident)
    <3>1. OpenOK(s) /\ \A a \in Notices(s) : a.of = incident \/ Closes(str, s.cursor, a.of)
      BY <2>7 DEF Current
    <3>2. /\ OpenOK(done)
          /\ \A a \in Notices(done) :
                \/ a \in Notices(s) /\ ~Recovers(event, a.of)
                \/ event.code \in Losses /\ event.activity # None /\ a.of = event.activity
      BY <1>4, <1>9, <3>1 DEF Follows, Recovers
    <3>3. OpenOK(t) /\ Notices(t) = Notices(done)
      BY <2>3, <3>2 DEF OpenOK, Notices
    <3>4. ASSUME NEW a \in Notices(t) PROVE a.of = incident \/ Closes(str, t.cursor, a.of)
      <4>1. CASE a \in Notices(s) /\ ~Recovers(event, a.of)
        <5>1. CASE a.of = incident
          BY <5>1
        <5>2. CASE Closes(str, s.cursor, a.of)
          <6>1. PICK j \in DOMAIN str.retained : First(str) + j - 1 > s.cursor /\ Recovers(str.retained[j], a.of)
            BY <5>2 DEF Closes
          <6>2. j # i
            BY <4>1, <6>1
          <6>3. First(str) \in Int /\ j \in Int
            BY <1>1, <1>2 DEF First
          <6>4. First(str) + j - 1 > t.cursor
            BY <1>2, <1>3, <2>3, <2>4, <6>1, <6>2, <6>3
          <6> QED
            BY <6>1, <6>4 DEF Closes
        <5> QED
          BY <3>1, <4>1, <5>1, <5>2
      <4>2. CASE event.code \in Losses /\ event.activity # None /\ a.of = event.activity
        <5>1. \/ event.activity = incident
              \/ \E j \in DOMAIN str.retained : j > i /\ Recovers(str.retained[j], event.activity)
          BY <4>2 DEF StreamOK
        <5>2. ASSUME NEW j \in DOMAIN str.retained, j > i PROVE First(str) + j - 1 > t.cursor
          <6>1. First(str) \in Int /\ j \in Int
            BY <1>1, <1>2 DEF First
          <6> QED
            BY <1>2, <2>3, <5>2, <6>1
        <5> QED
          BY <4>2, <5>1, <5>2 DEF Closes
      <4> QED
        BY <3>2, <3>3, <4>1, <4>2
    <3> QED
      BY <3>3, <3>4 DEF Current
  <2>8. t.cursor <= str.total /\ t.cursor >= First(str) + i - 1
    BY <1>2, <1>3, <2>3 DEF First
  <2> QED
    BY <1>9, <2>5, <2>6, <2>7, <2>8 DEF t
<1> QED
  BY <1>7, <1>8, <1>9

(* What was pushed out of the stream is counted, and what was open before  *)
(* is given up.                                                            *)
LEMMA OverrunFacts ==
    ASSUME NEW s, ActsOK(s), NEW first \in Int, first >= 1
    PROVE  LET t == Overrun(s, first) IN
           /\ ActsOK(t) /\ t.revisions = s.revisions /\ t.stumbled = s.stumbled
           /\ t.cursor >= first - 1
           /\ t.cursor = s.cursor \/ t.cursor = first - 1
           /\ s.cursor + 1 >= first => t = s
           /\ OpenOK(s) /\ ~(s.cursor + 1 >= first) => Notices(t) = {}
<1> DEFINE t == Overrun(s, first)
           moved == [s EXCEPT !.missed = @ + first - (s.cursor + 1), !.overflows = @ + 1,
                              !.cursor = first - 1, !.open = <<>>]
<1>1. /\ ActsFields \subseteq DOMAIN s /\ s.cursor \in Nat /\ s.missed \in Nat /\ s.composed \in Nat
      /\ s.cursor = s.composed + s.missed /\ RevisionsOK(s)
  BY DEF ActsOK
<1>2. CASE s.cursor + 1 >= first
  <2>1. t = s
    BY <1>2 DEF Overrun
  <2> QED
    BY <1>1, <1>2, <2>1
<1>3. CASE ~(s.cursor + 1 >= first)
  <2>1. t = [moved EXCEPT !.activities = {a \in @ : a.of \notin DOMAIN s.open}]
    BY <1>3 DEF Overrun, Discard
  <2>2. /\ ActsFields \subseteq DOMAIN moved /\ moved.missed = s.missed + first - (s.cursor + 1)
        /\ moved.cursor = first - 1 /\ moved.composed = s.composed /\ moved.revisions = s.revisions
        /\ moved.stumbled = s.stumbled /\ moved.activities = s.activities
    BY <1>1 DEF ActsFields
  <2> HIDE DEF moved, t
  <2>3. /\ ActsFields \subseteq DOMAIN t /\ t.missed = s.missed + first - (s.cursor + 1)
        /\ t.cursor = first - 1 /\ t.composed = s.composed /\ t.revisions = s.revisions
        /\ t.stumbled = s.stumbled
    BY <2>1, <2>2 DEF ActsFields
  <2>4. t.activities = {a \in s.activities : a.of \notin DOMAIN s.open}
    BY <2>1, <2>2 DEF ActsFields
  <2>5. RevisionsOK(t)
    BY <1>1, <2>3, <2>4 DEF RevisionsOK
  <2>6. t.missed \in Nat /\ t.cursor \in Nat /\ t.cursor = t.composed + t.missed
    BY <1>1, <1>3, <2>3
  <2>7. ActsOK(t)
    BY <1>1, <2>3, <2>5, <2>6 DEF ActsOK
  <2>8. OpenOK(s) => Notices(t) = {}
    BY <2>4 DEF OpenOK, Notices
  <2> QED
    BY <1>3, <2>3, <2>6, <2>7, <2>8 DEF t
<1> QED
  BY <1>2, <1>3

(* The composer after each event of a pass.                                *)
PassRow(f, n, begun, str) ==
    f = [i \in 0 .. n |-> IF i = 0 THEN begun
                          ELSE ComposeNext(f[i - 1], str.retained[i], First(str) + i - 1)]

LEMMA PassRowExists == ASSUME NEW begun, NEW str, NEW n \in Nat PROVE \E f : PassRow(f, n, begun, str)
<1> DEFINE T == {k \in Nat : ~\E f : PassRow(f, k, begun, str)}
<1>1. SUFFICES ASSUME T # {} PROVE FALSE
  OBVIOUS
<1>2. PICK k \in T : \A j \in T : k <= j
  <2>1. T \subseteq Nat
    OBVIOUS
  <2> HIDE DEF T
  <2> QED
    BY <1>1, <2>1, LeastNatural
<1>3. CASE k = 0
  <2>1. PassRow([i \in 0 .. 0 |-> begun], 0, begun, str)
    BY DEF PassRow
  <2> QED
    BY <1>3, <2>1
<1>4. CASE k # 0
  <2>1. k - 1 \in Nat /\ k - 1 \notin T
    BY <1>2, <1>4
  <2>2. PICK f : PassRow(f, k - 1, begun, str)
    BY <2>1
  <2> DEFINE After(s, i) == ComposeNext(s, str.retained[i], First(str) + i - 1)
             last == After(f[k - 1], k)
             g == [i \in 0 .. k |-> IF i = k THEN last ELSE f[i]]
  <2>3. \A i \in 0 .. k - 1 : f[i] = IF i = 0 THEN begun ELSE After(f[i - 1], i)
    BY <2>2 DEF PassRow
  <2> HIDE DEF last, After
  <2>4. \A i \in 0 .. k : g[i] = IF i = 0 THEN begun ELSE After(g[i - 1], i)
    <3> SUFFICES ASSUME NEW i \in 0 .. k
                 PROVE  g[i] = IF i = 0 THEN begun ELSE After(g[i - 1], i)
      OBVIOUS
    <3>1. CASE i = k
      <4>1. g[i] = last /\ g[i - 1] = f[k - 1]
        BY <3>1, <1>4
      <4> QED
        BY <3>1, <4>1, <1>4 DEF last
    <3>2. CASE i # k
      <4>1. g[i] = f[i] /\ (i # 0 => g[i - 1] = f[i - 1])
        BY <3>2
      <4> HIDE DEF g
      <4> QED
        BY <3>2, <4>1, <2>3
    <3> QED
      BY <3>1, <3>2
  <2>5. PassRow(g, k, begun, str)
    <3>1. g = [i \in 0 .. k |-> g[i]]
      OBVIOUS
    <3> HIDE DEF g
    <3> QED
      BY <2>4, <3>1 DEF PassRow, After
  <2> QED
    BY <2>5
<1> QED
  BY <1>3, <1>4

(* The whole pass: what may be lost of the stream is counted, and the open *)
(* notices are current again.                                              *)
Fresh(s, str, incident) == OpenOK(s) /\ (s.cursor + 1 < First(str) \/ Current(s, str, incident))
Passed(s, t, n, str, incident) ==
    /\ ActsOK(t) /\ t.revisions >= s.revisions /\ t.cursor <= str.total
    /\ ~t.stumbled => t.cursor >= First(str) + n - 1 /\ (Fresh(s, str, incident) => Current(t, str, incident))

LEMMA PassBegins ==
    ASSUME NEW str, NEW incident, StreamOK(str, incident), NEW s, ActsOK(s), s.cursor <= str.total
    PROVE  LET start == [s EXCEPT !.stumbled = FALSE]
               begun == IF str.retained = <<>> THEN start ELSE Overrun(start, First(str))
           IN  Passed(s, begun, 0, str, incident)
<1> DEFINE start == [s EXCEPT !.stumbled = FALSE]
           begun == IF str.retained = <<>> THEN start ELSE Overrun(start, First(str))
<1>1. /\ str.total \in Nat /\ Len(str.retained) \in Nat /\ First(str) \in Int /\ First(str) >= 1
      /\ str.retained = <<>> => First(str) = 1
  <2>1. PICK S : str.retained \in Seq(S)
    BY DEF StreamOK
  <2>2. str.total \in Nat /\ Len(str.retained) <= str.total /\ Len(str.retained) \in Nat
    BY <2>1 DEF StreamOK
  <2>3. str.retained = <<>> => str.total = 0 /\ Len(str.retained) = 0
    BY DEF StreamOK
  <2> QED
    BY <2>2, <2>3 DEF First
<1>2. /\ ActsFields \subseteq DOMAIN s /\ s.cursor \in Nat /\ s.revisions \in Nat
  BY DEF ActsOK, RevisionsOK
<1>3. /\ ActsFields \subseteq DOMAIN start /\ start.cursor = s.cursor /\ start.missed = s.missed
      /\ start.composed = s.composed /\ start.revisions = s.revisions /\ start.open = s.open
      /\ start.activities = s.activities
  BY <1>2 DEF ActsFields
<1> HIDE DEF start
<1>4. ActsOK(start)
  BY <1>3 DEF ActsOK, RevisionsOK
<1>5. Notices(start) = Notices(s) /\ (OpenOK(s) => OpenOK(start))
  BY <1>3 DEF Notices, OpenOK
<1>6. Current(s, str, incident) => Current(start, str, incident)
  BY <1>3, <1>5 DEF Current
<1>7. CASE str.retained = <<>>
  <2>1. start.cursor >= First(str) + 0 - 1 /\ ~(s.cursor + 1 < First(str))
    BY <1>1, <1>2, <1>3, <1>7
  <2>2. Passed(s, start, 0, str, incident)
    BY <1>2, <1>3, <1>4, <1>6, <2>1 DEF Passed, Fresh
  <2>3. begun = start
    BY <1>7
  <2> QED
    BY <2>2, <2>3 DEF start
<1>8. CASE str.retained # <<>>
  <2> DEFINE t == Overrun(start, First(str))
  <2>1. /\ ActsOK(t) /\ t.revisions = start.revisions
        /\ t.cursor >= First(str) - 1
        /\ t.cursor = start.cursor \/ t.cursor = First(str) - 1
        /\ start.cursor + 1 >= First(str) => t = start
        /\ OpenOK(start) /\ ~(start.cursor + 1 >= First(str)) => Notices(t) = {}
    BY <1>1, <1>4, OverrunFacts
  <2>2. begun = t
    BY <1>8
  <2> HIDE DEF t
  <2>3. t.cursor <= str.total
    <3>1. First(str) - 1 <= str.total
      <4>1. Len(str.retained) \in Nat /\ str.total \in Nat
        BY <1>1
      <4> QED
        BY <4>1 DEF First
    <3> QED
      BY <1>3, <2>1, <3>1
  <2>4. t.revisions >= s.revisions /\ t.cursor >= First(str) + 0 - 1
    BY <1>1, <1>2, <1>3, <2>1
  <2>5. ASSUME Fresh(s, str, incident) PROVE Current(t, str, incident)
    <3>1. CASE start.cursor + 1 >= First(str)
      <4>1. ~(s.cursor + 1 < First(str))
        BY <1>1, <1>2, <1>3, <3>1
      <4> QED
        BY <1>6, <2>1, <2>5, <3>1, <4>1 DEF Fresh
    <3>2. CASE ~(start.cursor + 1 >= First(str))
      <4>1. Notices(t) = {}
        BY <1>5, <2>1, <2>5, <3>2 DEF Fresh
      <4> QED
        BY <4>1 DEF Current, OpenOK
    <3> QED
      BY <3>1, <3>2
  <2>6. Passed(s, t, 0, str, incident)
    BY <2>1, <2>3, <2>4, <2>5 DEF Passed
  <2> QED
    BY <2>2, <2>6 DEF start
<1> QED
  BY <1>7, <1>8

LEMMA PassFacts ==
    ASSUME NEW str, NEW incident, StreamOK(str, incident), NEW s, ActsOK(s), s.cursor <= str.total
    PROVE  Passed(s, ProcessAvailable(s, str.retained, str.total), Len(str.retained), str, incident)
<1> DEFINE start == [s EXCEPT !.stumbled = FALSE]
           begun == IF str.retained = <<>> THEN start ELSE Overrun(start, First(str))
           n == Len(str.retained)
           f == CHOOSE g : PassRow(g, n, begun, str)
           T == {i \in 0 .. n : ~Passed(s, f[i], i, str, incident)}
<1>1. Passed(s, begun, 0, str, incident)
  BY PassBegins
<1>2. PICK S : str.retained \in Seq(S)
  BY DEF StreamOK
<1>3. n \in Nat /\ DOMAIN str.retained = 1 .. n /\ First(str) \in Int
  <2>1. str.total \in Nat
    BY DEF StreamOK
  <2> QED
    BY <1>2, <2>1 DEF First
<1>4. PassRow(f, n, begun, str)
  <2>1. \E g : PassRow(g, n, begun, str)
    <3> HIDE DEF begun
    <3> QED
      BY <1>3, PassRowExists
  <2> QED
    BY <2>1, Zenon
<1>5. ProcessAvailable(s, str.retained, str.total) = f[n]
  BY DEF ProcessAvailable, PassRow, First
<1> HIDE DEF f, begun
<1>6. \A i \in 0 .. n : f[i] = IF i = 0 THEN begun
                               ELSE ComposeNext(f[i - 1], str.retained[i], First(str) + i - 1)
  BY <1>4 DEF PassRow
<1>7. ASSUME T # {} PROVE FALSE
  <2>1. T \subseteq Nat
    OBVIOUS
  <2>2. PICK k \in T : \A j \in T : k <= j
    <3> HIDE DEF T
    <3> QED
      BY <1>7, <2>1, LeastNatural
  <2>3. k # 0
    BY <1>1, <1>3, <1>6
  <2>4. k - 1 \in 0 .. n /\ Passed(s, f[k - 1], k - 1, str, incident) /\ k \in DOMAIN str.retained
    BY <1>3, <2>2, <2>3
  <2>5. f[k] = ComposeNext(f[k - 1], str.retained[k], First(str) + k - 1)
    BY <1>6, <2>3
  <2> DEFINE u == f[k - 1]
             t == f[k]
  <2>6. ActsOK(u) /\ u.cursor <= str.total /\ (~u.stumbled => u.cursor >= First(str) + k - 2)
    <3>1. ActsOK(u) /\ u.cursor <= str.total
      BY <2>4 DEF Passed
    <3>2. ~u.stumbled => u.cursor >= First(str) + (k - 1) - 1
      BY <2>4 DEF Passed
    <3>3. First(str) + (k - 1) - 1 = First(str) + k - 2
      BY <1>3
    <3> QED
      BY <3>1, <3>2, <3>3
  <2>7. /\ ActsOK(t) /\ t.revisions >= u.revisions /\ t.cursor <= str.total
        /\ ~t.stumbled =>
              /\ t.cursor >= First(str) + k - 1
              /\ ~u.stumbled
              /\ Current(u, str, incident) => Current(t, str, incident)
    <3> HIDE DEF u
    <3>1. LET v == ComposeNext(u, str.retained[k], First(str) + k - 1) IN
          /\ ActsOK(v) /\ v.revisions >= u.revisions /\ v.cursor <= str.total
          /\ ~v.stumbled =>
                /\ v.cursor >= First(str) + k - 1
                /\ ~u.stumbled
                /\ Current(u, str, incident) => Current(v, str, incident)
      BY <2>4, <2>6, PassStep
    <3>2. t = ComposeNext(u, str.retained[k], First(str) + k - 1)
      BY <2>5 DEF u
    <3> QED
      BY <3>1, <3>2
  <2>8. t.revisions >= s.revisions
    <3>1. u.revisions >= s.revisions /\ t.revisions >= u.revisions
      BY <2>4, <2>7 DEF Passed
    <3>2. {s.revisions, u.revisions, t.revisions} \subseteq Nat
      BY <2>6, <2>7 DEF ActsOK, RevisionsOK
    <3> QED
      BY <3>1, <3>2
  <2>9. Passed(s, t, k, str, incident)
    BY <2>4, <2>7, <2>8 DEF Passed
  <2> QED
    BY <2>2, <2>9
<1> QED
  BY <1>3, <1>5, <1>7

-----------------------------------------------------------------------------
(* THE RECORDER *)

(* What it remembers, and the events of an operation that began while the  *)
(* incident was `old': a loss is of the incident that lasts, or its        *)
(* recovery follows, and an incident ends with its recovery.               *)
RecFields == {"measurement", "incident", "phase", "demand", "safety", "reported", "reconciliation",
              "campaign", "episode", "permitted", "deferred", "supervision", "fatal", "ids", "out"}
IsLoss(event) == event.code \in Losses /\ event.activity # None
OutOK(out, old, new) ==
    /\ \E S : out \in Seq(S)
    /\ \A i \in DOMAIN out : EventOK(out[i])
    /\ \A i \in DOMAIN out :
          IsLoss(out[i]) => \/ out[i].activity = new
                            \/ \E j \in DOMAIN out : j > i /\ Recovers(out[j], out[i].activity)
    /\ old = None \/ old = new \/ \E j \in DOMAIN out : Recovers(out[j], old)
NoAnomaly(out) == \A i \in DOMAIN out : out[i].code # "heating_anomaly"
Recorded(r, old) ==
    /\ RecFields \subseteq DOMAIN r
    /\ r.ids \in Nat
    /\ r.incident # None => IsIncident(r.incident)
    /\ r.campaign # None => ~IsIncident(r.campaign)
    /\ r.episode # None => ~IsIncident(r.episode)
    /\ OutOK(r.out, old, r.incident)
    /\ NoAnomaly(r.out)
SameRecord(r, t) ==
    /\ RecFields \subseteq DOMAIN t
    /\ t.ids = r.ids /\ t.incident = r.incident /\ t.campaign = r.campaign /\ t.episode = r.episode /\ t.out = r.out

LEMMA SameIsRecorded == ASSUME NEW r, NEW old, Recorded(r, old), NEW t, SameRecord(r, t) PROVE Recorded(t, old)
  BY DEF Recorded, SameRecord

LEMMA EventFields ==
    ASSUME NEW code, NEW at, NEW activity, NEW detail
    PROVE  LET e == Event(code, at, activity, detail) IN
           e.code = code /\ e.at = at /\ e.activity = activity /\ e.detail = detail
  BY DEF Event

(* More events, none of which tells of another incident.                   *)
LEMMA EmittingKeeps ==
    ASSUME NEW r, NEW old, Recorded(r, old), NEW S, NEW events \in Seq(S),
           \A i \in DOMAIN events : EventOK(events[i]) /\ (IsLoss(events[i]) => events[i].activity = r.incident),
           NoAnomaly(events)
    PROVE  Recorded(Emitting(r, events), old) /\ Emitting(r, events).incident = r.incident
           /\ Emitting(r, events).campaign = r.campaign /\ Emitting(r, events).episode = r.episode
<1> DEFINE t == Emitting(r, events)
           all == r.out \o events
<1>1. RecFields \subseteq DOMAIN r
  BY DEF Recorded
<1>2. t = [r EXCEPT !.out = all]
  BY <1>1 DEF Emitting, RecFields
<1> HIDE DEF t
<1>3. /\ RecFields \subseteq DOMAIN t /\ t.ids = r.ids /\ t.incident = r.incident
      /\ t.campaign = r.campaign /\ t.episode = r.episode /\ t.out = all
  <2> HIDE DEF all
  <2> QED
    BY <1>1, <1>2 DEF RecFields
<1>4. PICK R : r.out \in Seq(R)
  BY DEF Recorded, OutOK
<1>5. /\ all \in Seq(R \cup S) /\ Len(all) = Len(r.out) + Len(events)
      /\ \A i \in 1 .. Len(r.out) : all[i] = r.out[i]
      /\ \A i \in 1 .. Len(events) : all[Len(r.out) + i] = events[i]
  <2>1. r.out \in Seq(R \cup S) /\ events \in Seq(R \cup S)
    BY <1>4
  <2> QED
    BY <2>1, ConcatProperties
<1> HIDE DEF all
<1>6. /\ DOMAIN all = 1 .. Len(r.out) + Len(events) /\ DOMAIN r.out = 1 .. Len(r.out)
      /\ DOMAIN events = 1 .. Len(events) /\ Len(r.out) \in Nat /\ Len(events) \in Nat
  BY <1>4, <1>5
<1>7. ASSUME NEW i \in DOMAIN all
      PROVE  /\ EventOK(all[i])
             /\ IsLoss(all[i]) => \/ all[i].activity = r.incident
                                  \/ \E j \in DOMAIN all : j > i /\ Recovers(all[j], all[i].activity)
  <2>1. CASE i \in DOMAIN r.out
    <3>1. all[i] = r.out[i]
      BY <1>5, <1>6, <2>1
    <3>2. /\ EventOK(r.out[i])
          /\ IsLoss(r.out[i]) => \/ r.out[i].activity = r.incident
                                 \/ \E j \in DOMAIN r.out : j > i /\ Recovers(r.out[j], r.out[i].activity)
      BY <2>1 DEF Recorded, OutOK
    <3>3. \A j \in DOMAIN r.out : j \in DOMAIN all /\ all[j] = r.out[j]
      BY <1>5, <1>6
    <3> QED
      BY <3>1, <3>2, <3>3
  <2>2. CASE i \notin DOMAIN r.out
    <3>1. i - Len(r.out) \in DOMAIN events /\ i = Len(r.out) + (i - Len(r.out))
      BY <1>6, <2>2
    <3>2. all[i] = events[i - Len(r.out)]
      BY <1>5, <1>6, <3>1
    <3> QED
      BY <3>1, <3>2
  <2> QED
    BY <2>1, <2>2
<1>8. old = None \/ old = r.incident \/ \E j \in DOMAIN all : Recovers(all[j], old)
  <2>1. old = None \/ old = r.incident \/ \E j \in DOMAIN r.out : Recovers(r.out[j], old)
    BY DEF Recorded, OutOK
  <2>2. \A j \in DOMAIN r.out : j \in DOMAIN all /\ all[j] = r.out[j]
    BY <1>5, <1>6
  <2> QED
    BY <2>1, <2>2
<1>9. OutOK(all, old, r.incident)
  <2>1. \E Q : all \in Seq(Q)
    BY <1>5
  <2> QED
    BY <1>7, <1>8, <2>1 DEF OutOK
<1>10. NoAnomaly(all)
  <2>1. ASSUME NEW i \in DOMAIN all PROVE all[i].code # "heating_anomaly"
    <3>1. CASE i \in DOMAIN r.out
      BY <1>5, <1>6, <3>1 DEF Recorded, NoAnomaly
    <3>2. CASE i \notin DOMAIN r.out
      <4>1. i - Len(r.out) \in DOMAIN events /\ i = Len(r.out) + (i - Len(r.out))
        BY <1>6, <3>2
      <4>2. all[i] = events[i - Len(r.out)]
        BY <1>5, <1>6, <4>1
      <4> QED
        BY <4>1, <4>2 DEF NoAnomaly
    <3> QED
      BY <3>1, <3>2
  <2> QED
    BY <2>1 DEF NoAnomaly
<1>11. Recorded(t, old)
  BY <1>3, <1>9, <1>10 DEF Recorded
<1> QED
  BY <1>3, <1>11 DEF t

(* One event.                                                              *)
Tells(r, old, t) ==
    Recorded(t, old) /\ t.incident = r.incident /\ t.campaign = r.campaign /\ t.episode = r.episode
LEMMA EmitKeeps ==
    ASSUME NEW r, NEW old, Recorded(r, old), NEW code, NEW at, NEW activity, NEW detail,
           code \in Losses => activity = r.incident, code # "heating_anomaly",
           code \in Ends /\ activity # None => ~IsIncident(activity)
    PROVE  Tells(r, old, Emit(r, code, at, activity, detail))
<1> DEFINE e == Event(code, at, activity, detail)
<1>1. e.code = code /\ e.activity = activity
  BY EventFields
<1>2. r.incident # None => IsIncident(r.incident)
  BY DEF Recorded
<1> HIDE DEF e
<1>3. EventOK(e) /\ (IsLoss(e) => e.activity = r.incident)
  BY <1>1, <1>2 DEF EventOK, IsLoss
<1>4. <<e>> \in Seq({e}) /\ \A i \in DOMAIN <<e>> : <<e>>[i] = e
  OBVIOUS
<1>5. Tells(r, old, Emitting(r, <<e>>))
  <2>1. NoAnomaly(<<e>>)
    BY <1>1, <1>4 DEF NoAnomaly
  <2> QED
    BY <1>3, <1>4, <2>1, EmittingKeeps DEF Tells
<1> QED
  BY <1>5 DEF Emit, e

LEMMA EmitIfKeeps ==
    ASSUME NEW r, NEW old, Recorded(r, old), NEW cond, NEW code, NEW at, NEW activity, NEW detail,
           code \in Losses => activity = r.incident, code # "heating_anomaly",
           code \in Ends /\ activity # None => ~IsIncident(activity)
    PROVE  Tells(r, old, EmitIf(cond, r, code, at, activity, detail))
  BY EmitKeeps DEF EmitIf, Tells

(* Two events that are neither a loss nor an end.                          *)
LEMMA EmittingTwoKeeps ==
    ASSUME NEW r, NEW old, Recorded(r, old), NEW a, NEW b,
           a.code \notin Losses \cup Ends, b.code \notin Losses, "heating_anomaly" \notin {a.code, b.code},
           b.code \in Ends /\ b.activity # None => ~IsIncident(b.activity)
    PROVE  Tells(r, old, Emitting(r, <<a, b>>))
<1>1. EventOK(a) /\ EventOK(b) /\ ~IsLoss(a) /\ ~IsLoss(b)
  BY DEF EventOK, IsLoss
<1>2. <<a, b>> \in Seq({a, b}) /\ \A i \in DOMAIN <<a, b>> : <<a, b>>[i] \in {a, b}
  <2>1. \A i \in 1 .. 2 : <<a, b>>[i] \in {a, b}
    OBVIOUS
  <2> QED
    BY <2>1
<1>3. \A i \in DOMAIN <<a, b>> : EventOK(<<a, b>>[i]) /\ ~IsLoss(<<a, b>>[i])
  BY <1>1, <1>2
<1>4. NoAnomaly(<<a, b>>)
  BY <1>2 DEF NoAnomaly
<1> QED
  BY <1>2, <1>3, <1>4, EmittingKeeps DEF Tells

(* A lifecycle is opened; only the measurement's is an incident.           *)
LEMMA OpenedKeeps ==
    ASSUME NEW r, NEW old, Recorded(r, old)
    PROVE  /\ Recorded(Opened(r, "campaign", "source-reconciliation"), old)
           /\ Recorded(Opened(r, "episode", "heating-episode"), old)
           /\ Recorded(Opened(r, "incident", "measurement-incident"), old)
           /\ Opened(r, "campaign", "source-reconciliation").incident = r.incident
           /\ Opened(r, "episode", "heating-episode").incident = r.incident
<1>1. /\ RecFields \subseteq DOMAIN r /\ r.ids \in Nat
      /\ r.incident # None => IsIncident(r.incident)
      /\ r.campaign # None => ~IsIncident(r.campaign)
      /\ r.episode # None => ~IsIncident(r.episode)
      /\ OutOK(r.out, old, r.incident) /\ NoAnomaly(r.out)
  BY DEF Recorded
<1> DEFINE n == r.ids + 1
<1>2. n \in Nat /\ r.ids + 1 = n
  BY <1>1
<1> HIDE DEF n
<1>3. /\ ~IsIncident(<<"source-reconciliation", n>>) /\ ~IsIncident(<<"heating-episode", n>>)
      /\ IsIncident(<<"measurement-incident", n>>)
  BY DEF IsIncident
<1>4. /\ Recorded(Opened(r, "campaign", "source-reconciliation"), old)
      /\ Opened(r, "campaign", "source-reconciliation").incident = r.incident
  <2> DEFINE id == <<"source-reconciliation", n>>
             u == [r EXCEPT !.campaign = id, !.ids = n]
             t == Opened(r, "campaign", "source-reconciliation")
  <2>1. t = IF r.campaign # None THEN r ELSE u
    BY <1>1, <1>2 DEF Opened, RecFields
  <2>2. ~IsIncident(id)
    BY <1>3
  <2> HIDE DEF id
  <2>3. /\ RecFields \subseteq DOMAIN u /\ u.ids = n /\ u.incident = r.incident /\ u.campaign = id
        /\ u.episode = r.episode /\ u.out = r.out
    BY <1>1 DEF RecFields
  <2> HIDE DEF t, u
  <2>4. Recorded(u, old)
    BY <1>1, <1>2, <2>2, <2>3 DEF Recorded
  <2> QED
    BY <2>1, <2>3, <2>4 DEF t
<1>5. /\ Recorded(Opened(r, "episode", "heating-episode"), old)
      /\ Opened(r, "episode", "heating-episode").incident = r.incident
  <2> DEFINE id == <<"heating-episode", n>>
             u == [r EXCEPT !.episode = id, !.ids = n]
             t == Opened(r, "episode", "heating-episode")
  <2>1. t = IF r.episode # None THEN r ELSE u
    BY <1>1, <1>2 DEF Opened, RecFields
  <2>2. ~IsIncident(id)
    BY <1>3
  <2> HIDE DEF id
  <2>3. /\ RecFields \subseteq DOMAIN u /\ u.ids = n /\ u.incident = r.incident /\ u.campaign = r.campaign
        /\ u.episode = id /\ u.out = r.out
    BY <1>1 DEF RecFields
  <2> HIDE DEF t, u
  <2>4. Recorded(u, old)
    BY <1>1, <1>2, <2>2, <2>3 DEF Recorded
  <2> QED
    BY <2>1, <2>3, <2>4 DEF t
<1>6. Recorded(Opened(r, "incident", "measurement-incident"), old)
  <2> DEFINE id == <<"measurement-incident", n>>
             u == [r EXCEPT !.incident = id, !.ids = n]
             t == Opened(r, "incident", "measurement-incident")
  <2>1. t = IF r.incident # None THEN r ELSE u
    BY <1>1, <1>2 DEF Opened, RecFields
  <2>2. IsIncident(id)
    BY <1>3
  <2> HIDE DEF id
  <2>3. /\ RecFields \subseteq DOMAIN u /\ u.ids = n /\ u.incident = id /\ u.campaign = r.campaign
        /\ u.episode = r.episode /\ u.out = r.out
    BY <1>1 DEF RecFields
  <2> HIDE DEF t, u
  <2>4. ASSUME r.incident = None PROVE OutOK(r.out, old, id)
    BY <1>1, <2>4 DEF OutOK, IsLoss
  <2>5. ASSUME r.incident = None PROVE Recorded(u, old)
    BY <1>1, <1>2, <2>2, <2>3, <2>4, <2>5 DEF Recorded
  <2> QED
    BY <2>1, <2>5 DEF t
<1> QED
  BY <1>4, <1>5, <1>6

LEMMA MeasuredIsRecorded ==
    ASSUME NEW r, NEW old, Recorded(r, old), NEW condition, NEW at
    PROVE  Recorded(Measured(r, condition, at), old)
<1>1. /\ RecFields \subseteq DOMAIN r /\ r.ids \in Nat
      /\ r.incident # None => IsIncident(r.incident)
      /\ r.campaign # None => ~IsIncident(r.campaign)
      /\ r.episode # None => ~IsIncident(r.episode)
      /\ OutOK(r.out, old, r.incident) /\ NoAnomaly(r.out)
  BY DEF Recorded
<1>2. CASE condition = r.measurement
  BY <1>2 DEF Measured
<1>3. CASE condition # r.measurement /\ condition = "valid"
  <2> DEFINE m == [r EXCEPT !.measurement = condition, !.incident = @]
             u == [r EXCEPT !.measurement = condition, !.incident = None]
             e == Event("measurement_recovered", at, r.incident, None)
             t == Emit(m, "measurement_became_valid", at, r.incident, None)
             v == Emit(u, "measurement_recovered", at, r.incident, None)
  <2>1. Measured(r, condition, at) \in {t, v}
    BY <1>3 DEF Measured
  <2>2. Recorded(t, old)
    <3>1. SameRecord(r, m)
      BY <1>1 DEF SameRecord, RecFields
    <3>2. Recorded(m, old)
      BY <3>1, SameIsRecorded
    <3> HIDE DEF m
    <3> QED
      BY <3>2, EmitKeeps DEF Tells, Losses, Ends
  <2>3. Recorded(v, old)
    <3> DEFINE all == Append(r.out, e)
    <3>1. /\ RecFields \subseteq DOMAIN u /\ u.ids = r.ids /\ u.incident = None
          /\ u.campaign = r.campaign /\ u.episode = r.episode /\ u.out = r.out
      BY <1>1 DEF RecFields
    <3>2. PICK S : r.out \in Seq(S)
      BY <1>1 DEF OutOK
    <3>3. v = [u EXCEPT !.out = all]
      <4>1. r.out \o <<e>> = all
        <5> HIDE DEF e
        <5>1. r.out \in Seq(S \cup {e}) /\ e \in S \cup {e}
          BY <3>2
        <5> QED
          BY <5>1, AppendIsConcat
      <4>2. v = [u EXCEPT !.out = r.out \o <<e>>]
        <5>1. v = [u EXCEPT !.out = @ \o <<e>>]
          BY DEF Emit, Emitting
        <5> HIDE DEF u, e
        <5> QED
          BY <3>1, <5>1 DEF RecFields
      <4> HIDE DEF all
      <4> QED
        BY <4>1, <4>2
    <3>4. e.code = "measurement_recovered" /\ e.activity = r.incident
      BY EventFields
    <3> HIDE DEF u, v, e
    <3>5. /\ RecFields \subseteq DOMAIN v /\ v.ids = r.ids /\ v.incident = None
          /\ v.campaign = r.campaign /\ v.episode = r.episode /\ v.out = all
      <4> HIDE DEF all
      <4> QED
        BY <3>1, <3>3 DEF RecFields
    <3>6. /\ all \in Seq(S \cup {e}) /\ DOMAIN all = 1 .. Len(r.out) + 1 /\ DOMAIN r.out = 1 .. Len(r.out)
          /\ Len(r.out) \in Nat /\ all[Len(r.out) + 1] = e /\ \A i \in 1 .. Len(r.out) : all[i] = r.out[i]
      BY <3>2
    <3> HIDE DEF all
    <3>7. EventOK(e) /\ ~IsLoss(e) /\ Recovers(e, r.incident)
      BY <3>4 DEF EventOK, IsLoss, Losses, Ends, Recovers
    <3>8. \A i \in DOMAIN all : (i \in DOMAIN r.out /\ all[i] = r.out[i]) \/ all[i] = e
      BY <3>6
    <3>9. \A i \in DOMAIN r.out : i \in DOMAIN all /\ all[i] = r.out[i] /\ Len(r.out) + 1 > i
      BY <3>6
    <3>10. Len(r.out) + 1 \in DOMAIN all
      BY <3>6
    <3>11. ASSUME NEW i \in DOMAIN all, IsLoss(all[i])
           PROVE  \E j \in DOMAIN all : j > i /\ Recovers(all[j], all[i].activity)
      <4>1. i \in DOMAIN r.out /\ all[i] = r.out[i]
        BY <3>7, <3>8, <3>11
      <4>2. \/ all[i].activity = r.incident
            \/ \E j \in DOMAIN r.out : j > i /\ Recovers(r.out[j], all[i].activity)
        BY <1>1, <3>11, <4>1 DEF OutOK
      <4> QED
        BY <3>6, <3>7, <3>9, <3>10, <4>1, <4>2
    <3>12. old = None \/ \E j \in DOMAIN all : Recovers(all[j], old)
      <4>1. old = None \/ old = r.incident \/ \E j \in DOMAIN r.out : Recovers(r.out[j], old)
        BY <1>1 DEF OutOK
      <4> QED
        BY <3>6, <3>7, <3>9, <3>10, <4>1
    <3>13. \A i \in DOMAIN all : EventOK(all[i])
      BY <1>1, <3>7, <3>8 DEF OutOK
    <3>14. OutOK(all, old, None)
      <4>1. \E Q : all \in Seq(Q)
        BY <3>6
      <4> QED
        BY <3>11, <3>12, <3>13, <4>1 DEF OutOK
    <3>15. NoAnomaly(all)
      BY <1>1, <3>4, <3>8 DEF NoAnomaly
    <3> QED
      BY <1>1, <3>5, <3>14, <3>15 DEF Recorded
  <2> QED
    BY <2>1, <2>2, <2>3
<1>4. CASE condition # r.measurement /\ condition # "valid"
  <2> DEFINE m == [r EXCEPT !.measurement = condition]
             o == Opened(m, "incident", "measurement-incident")
  <2>1. SameRecord(r, m)
    BY <1>1 DEF SameRecord, RecFields
  <2>2. Recorded(m, old)
    BY <2>1, SameIsRecorded
  <2>3. Measured(r, condition, at) = Emit(o, "measurement_degraded", at, o.incident, None)
    BY <1>4 DEF Measured
  <2>4. Recorded(o, old)
    <3> HIDE DEF m
    <3> QED
      BY <2>2, OpenedKeeps
  <2> HIDE DEF o
  <2> QED
    BY <2>3, <2>4, EmitKeeps DEF Tells, Ends
<1> QED
  BY <1>2, <1>3, <1>4

LEMMA RecordDemandTells ==
    ASSUME NEW r, NEW old, Recorded(r, old), NEW e PROVE Tells(r, old, RecordDemand(r, e))
<1> DEFINE was == r.phase
           begins == e.phase = "pending" /\ was # "pending"
           confirms == e.phase = "confirmed" /\ was # "confirmed"
           cancels == was = "pending" /\ e.phase \in {"no_heat", "indeterminate"}
           satisfied == r.demand = "heat" /\ e.demand = "no_heat"
           r0 == [r EXCEPT !.phase = e.phase, !.demand = e.demand]
           r1 == EmitIf(begins \/ (confirms /\ was # "pending"), r0, "heat_demand_started", e.at, r.episode, None)
           r2 == EmitIf(confirms, r1, "heat_demand_confirmed", e.at, r.episode, None)
           r3 == EmitIf(cancels, r2, "heat_demand_cancelled", e.at, r.episode,
                        IF e.demand = "no_heat" THEN "building_episode_cancelled" ELSE None)
           r4 == EmitIf(satisfied, r3, "heat_demand_satisfied", e.at, r.episode, None)
<1>1. RecordDemand(r, e) = r4
  BY DEF RecordDemand
<1>2. r.episode # None => ~IsIncident(r.episode)
  BY DEF Recorded
<1>3. Tells(r, old, r0)
  <2>1. RecFields \subseteq DOMAIN r
    BY DEF Recorded
  <2>2. SameRecord(r, r0)
    BY <2>1 DEF SameRecord, RecFields
  <2> HIDE DEF r0
  <2> QED
    BY <2>2, SameIsRecorded DEF Tells, SameRecord
<1> HIDE DEF r0, begins, confirms, cancels, satisfied
<1>4. Tells(r0, old, r1)
  BY <1>3, EmitIfKeeps DEF Tells, Losses, Ends
<1> HIDE DEF r1
<1>5. Tells(r1, old, r2)
  BY <1>4, EmitIfKeeps DEF Tells, Losses, Ends
<1> HIDE DEF r2
<1>6. Tells(r2, old, r3)
  <2>1. "heat_demand_cancelled" \notin Losses
    BY DEF Losses
  <2>2. Recorded(r2, old)
    BY <1>5 DEF Tells
  <2> QED
    BY <1>2, <2>1, <2>2, EmitIfKeeps
<1> HIDE DEF r3
<1>7. Tells(r3, old, r4)
  BY <1>6, EmitIfKeeps DEF Tells, Losses, Ends
<1> HIDE DEF r4
<1> QED
  BY <1>1, <1>3, <1>4, <1>5, <1>6, <1>7 DEF Tells

LEMMA RecordSafetyTells ==
    ASSUME NEW r, NEW old, Recorded(r, old), NEW e PROVE Tells(r, old, RecordSafety(r, e))
<1> DEFINE s == [r EXCEPT !.safety = e.safety]
           expired == Emit(s, "safety_grace_expired", e.at, r.incident, None)
           grace == Emit(s, "safety_grace_started", e.at, r.incident, None)
           off == Emit(expired, "safety_disable_requested", e.at, r.incident, None)
<1>1. RecordSafety(r, e) \in {s, grace, off}
  BY DEF RecordSafety
<1>2. Tells(r, old, s)
  <2>1. RecFields \subseteq DOMAIN r
    BY DEF Recorded
  <2>2. SameRecord(r, s)
    BY <2>1 DEF SameRecord, RecFields
  <2> HIDE DEF s
  <2> QED
    BY <2>2, SameIsRecorded DEF Tells, SameRecord
<1> HIDE DEF s
<1>3. Tells(s, old, grace) /\ Tells(s, old, expired)
  BY <1>2, EmitKeeps DEF Tells, Ends
<1> HIDE DEF grace, expired
<1>4. Tells(expired, old, off)
  BY <1>3, EmitKeeps DEF Tells, Losses, Ends
<1> HIDE DEF off
<1> QED
  BY <1>1, <1>2, <1>3, <1>4 DEF Tells

(* The campaign of a drift.                                                *)
LEMMA RecordReconciliationIsRecorded ==
    ASSUME NEW r, NEW old, Recorded(r, old), NEW e
    PROVE  Recorded(RecordReconciliation(r, e), old) /\ RecordReconciliation(r, e).incident = r.incident
<1> DEFINE was == r.reconciliation
           drifts == e.reconciliation \in Drift /\ was \notin Drift
           settles == was \in Drift /\ e.reconciliation \notin Drift
           s == [r EXCEPT !.reconciliation = e.reconciliation]
           opened == Opened(s, "campaign", "source-reconciliation")
           o == IF drifts THEN opened ELSE s
           r1 == EmitIf(drifts, o, "source_drift_detected", e.at, o.campaign, None)
           r2 == EmitIf(e.reconciliation = "correction_required" /\ was # e.reconciliation,
                        r1, "source_reconciliation_started", e.at, o.campaign, None)
           over == [r2 EXCEPT !.campaign = None]
           settled == Emit(over, "source_reconciliation_completed", e.at,
                           o.campaign, IF e.reconciliation = "agreed" THEN "reported_agreement" ELSE None)
           r3 == IF settles THEN settled ELSE r2
           r4 == EmitIf(e.fate = "held" /\ was # e.reconciliation, r3,
                        "corrective_action_held", e.at, r3.campaign, None)
           Fine(t) == Recorded(t, old) /\ t.incident = r.incident
<1>1. RecordReconciliation(r, e) = r \/ RecordReconciliation(r, e) = r4
  BY DEF RecordReconciliation
<1>2. Fine(s)
  <2>1. RecFields \subseteq DOMAIN r
    BY DEF Recorded
  <2>2. SameRecord(r, s)
    BY <2>1 DEF SameRecord, RecFields
  <2> HIDE DEF s
  <2> QED
    BY <2>2, SameIsRecorded DEF SameRecord
<1> HIDE DEF s, drifts, settles
<1>3. Fine(opened)
  BY <1>2, OpenedKeeps
<1> HIDE DEF opened
<1>4. Fine(o)
  BY <1>2, <1>3
<1> HIDE DEF o
<1>5. o.campaign # None => ~IsIncident(o.campaign)
  BY <1>4 DEF Recorded
<1>6. Fine(r1)
  <2>1. Tells(o, old, r1)
    BY <1>4, EmitIfKeeps DEF Losses, Ends
  <2> QED
    BY <1>4, <2>1 DEF Tells
<1> HIDE DEF r1
<1>7. Fine(r2)
  <2>1. Tells(r1, old, r2)
    BY <1>6, EmitIfKeeps DEF Losses, Ends
  <2> QED
    BY <1>6, <2>1 DEF Tells
<1> HIDE DEF r2
<1>8. Fine(over)
  <2>1. RecFields \subseteq DOMAIN r2
    BY <1>7 DEF Recorded
  <2>2. /\ RecFields \subseteq DOMAIN over /\ over.ids = r2.ids /\ over.incident = r2.incident
        /\ over.campaign = None /\ over.episode = r2.episode /\ over.out = r2.out
    BY <2>1 DEF RecFields
  <2> HIDE DEF over
  <2> QED
    BY <1>7, <2>2 DEF Recorded
<1> HIDE DEF over
<1>9. Fine(settled)
  <2>1. "source_reconciliation_completed" \notin Losses
    BY DEF Losses
  <2>2. Tells(over, old, settled)
    BY <1>5, <1>8, <2>1, EmitKeeps
  <2> QED
    BY <1>8, <2>2 DEF Tells
<1> HIDE DEF settled
<1>10. Fine(r3)
  BY <1>7, <1>9
<1> HIDE DEF r3
<1>11. Fine(r4)
  <2>1. Tells(r3, old, r4)
    BY <1>10, EmitIfKeeps DEF Losses, Ends
  <2> QED
    BY <1>10, <2>1 DEF Tells
<1> QED
  BY <1>1, <1>11

LEMMA CommandedTells ==
    ASSUME NEW r, NEW old, Recorded(r, old), NEW action, NEW at, NEW activity
    PROVE  Tells(r, old, Commanded(r, action, at, activity))
<1> DEFINE a == Event("source_requested", at, activity, action)
           b == Event("source_command_dispatched", at, activity, action)
<1>1. /\ a.code \notin Losses \cup Ends /\ b.code \notin Losses /\ b.code \notin Ends
      /\ "heating_anomaly" \notin {a.code, b.code}
  BY EventFields DEF Losses, Ends
<1>2. Commanded(r, action, at, activity) = Emitting(r, <<a, b>>)
  BY DEF Commanded
<1> HIDE DEF a, b
<1> QED
  BY <1>1, <1>2, EmittingTwoKeeps

LEMMA RecordCommandTells ==
    ASSUME NEW r, NEW old, Recorded(r, old), NEW e PROVE Tells(r, old, RecordCommand(r, e))
<1> DEFINE activity == ActivityOf(r, e)
           clear == [r EXCEPT !.deferred = None]
           held == [r EXCEPT !.deferred = <<e.command, e.until>>]
           r1 == Commanded(clear, e.command, e.at, activity)
           later == EmitIf(r.deferred # <<e.command, e.until>>, held,
                           "source_command_deferred", e.at, activity, e.command)
           done == EmitIf(e.by = "resilience", r1, "corrective_action_dispatched", e.at, activity, e.command)
<1>1. RecordCommand(r, e) \in {clear, later, done}
  BY DEF RecordCommand
<1>2. Tells(r, old, clear) /\ Tells(r, old, held)
  <2>1. RecFields \subseteq DOMAIN r
    BY DEF Recorded
  <2>2. SameRecord(r, clear) /\ SameRecord(r, held)
    BY <2>1 DEF SameRecord, RecFields
  <2> HIDE DEF clear, held
  <2> QED
    BY <2>2, SameIsRecorded DEF Tells, SameRecord
<1> HIDE DEF clear, held, activity
<1>3. Tells(clear, old, r1)
  BY <1>2, CommandedTells DEF Tells
<1> HIDE DEF r1
<1>4. Tells(r1, old, done)
  BY <1>3, EmitIfKeeps DEF Tells, Losses, Ends
<1>5. Tells(held, old, later)
  BY <1>2, EmitIfKeeps DEF Tells, Losses, Ends
<1> HIDE DEF done, later
<1> QED
  BY <1>1, <1>2, <1>3, <1>4, <1>5 DEF Tells

(* Nothing but a measurement changes the incident.                         *)
Good(r, old, t) == Recorded(t, old) /\ t.incident = r.incident
LEMMA EvaluatedIsRecorded ==
    ASSUME NEW r, NEW old, Recorded(r, old), NEW e PROVE Good(r, old, Evaluated(r, e))
<1> DEFINE r0 == IF e.demand = "heat" THEN Opened(r, "episode", "heating-episode") ELSE r
           a == RecordDemand(r0, e)
           b == RecordSafety(a, e)
           c == RecordReconciliation(b, e)
           d == RecordCommand(c, e)
           on == [d EXCEPT !.permitted = TRUE]
           off == [d EXCEPT !.permitted = FALSE, !.episode = None]
           over == [d EXCEPT !.episode = None]
<1>1. Evaluated(r, e) \in {on, off, over, d}
  BY DEF Evaluated
<1>2. Good(r, old, r0)
  BY OpenedKeeps DEF Good
<1> HIDE DEF r0
<1>3. Good(r, old, a)
  BY <1>2, RecordDemandTells DEF Good, Tells
<1> HIDE DEF a
<1>4. Good(r, old, b)
  BY <1>3, RecordSafetyTells DEF Good, Tells
<1> HIDE DEF b
<1>5. Good(r, old, c)
  BY <1>4, RecordReconciliationIsRecorded DEF Good
<1> HIDE DEF c
<1>6. Good(r, old, d)
  BY <1>5, RecordCommandTells DEF Good, Tells
<1> HIDE DEF d
<1>7. RecFields \subseteq DOMAIN d
  BY <1>6 DEF Good, Recorded
<1>8. SameRecord(d, on)
  BY <1>7 DEF SameRecord, RecFields
<1>9. /\ RecFields \subseteq DOMAIN off /\ off.ids = d.ids /\ off.incident = d.incident
      /\ off.campaign = d.campaign /\ off.episode = None /\ off.out = d.out
  BY <1>7 DEF RecFields
<1>10. /\ RecFields \subseteq DOMAIN over /\ over.ids = d.ids /\ over.incident = d.incident
       /\ over.campaign = d.campaign /\ over.episode = None /\ over.out = d.out
  BY <1>7 DEF RecFields
<1> HIDE DEF on, off, over
<1>11. Good(r, old, on)
  BY <1>6, <1>8, SameIsRecorded DEF Good, SameRecord
<1>12. Good(r, old, off) /\ Good(r, old, over)
  BY <1>6, <1>9, <1>10 DEF Good, Recorded
<1> QED
  BY <1>1, <1>6, <1>11, <1>12

LEMMA ReportedIsRecorded ==
    ASSUME NEW r, NEW old, Recorded(r, old), NEW state, NEW at
    PROVE  Good(r, old, ReportedSource(r, state, at))
<1> DEFINE s == [r EXCEPT !.reported = state]
<1>1. Good(r, old, s)
  <2>1. RecFields \subseteq DOMAIN r
    BY DEF Recorded
  <2>2. SameRecord(r, s)
    BY <2>1 DEF SameRecord, RecFields
  <2> HIDE DEF s
  <2> QED
    BY <2>2, SameIsRecorded DEF Good, SameRecord
<1> HIDE DEF s
<1>2. Tells(s, old, EmitIf(r.reported \notin {None, state}, s, "reported_source_state_changed", at, r.campaign, None))
  BY <1>1, EmitIfKeeps DEF Good, Losses, Ends
<1> QED
  BY <1>1, <1>2 DEF ReportedSource, Good, Tells, s

LEMMA CommandFailedIsRecorded ==
    ASSUME NEW r, NEW old, Recorded(r, old), NEW action, NEW at, NEW corrective
    PROVE  Good(r, old, CommandFailed(r, action, at, corrective))
<1> DEFINE o == Opened(r, "campaign", "source-reconciliation")
           n == [r EXCEPT !.ids = @ + 1]
           Failed(s, activity) == Emitting(s, <<Event("source_requested", at, activity, action),
                                                Event("source_command_failed", at, activity, action)>>)
           own == <<"source-command-incident", r.ids + 1>>
<1>1. CommandFailed(r, action, at, corrective) \in {Failed(o, o.campaign), Failed(n, own)}
  BY DEF CommandFailed
<1>2. Good(r, old, o)
  BY OpenedKeeps DEF Good
<1>3. Good(r, old, n)
  <2>1. RecFields \subseteq DOMAIN r /\ r.ids \in Nat
    BY DEF Recorded
  <2>2. /\ RecFields \subseteq DOMAIN n /\ n.ids = r.ids + 1 /\ n.incident = r.incident
        /\ n.campaign = r.campaign /\ n.episode = r.episode /\ n.out = r.out
    BY <2>1 DEF RecFields
  <2>3. n.ids \in Nat
    BY <2>1, <2>2
  <2> HIDE DEF n
  <2> QED
    BY <2>2, <2>3 DEF Good, Recorded
<1> HIDE DEF o, n, own
<1>4. ASSUME NEW s, Good(r, old, s), NEW activity PROVE Good(r, old, Failed(s, activity))
  <2> DEFINE a == Event("source_requested", at, activity, action)
             b == Event("source_command_failed", at, activity, action)
  <2>1. /\ a.code \notin Losses \cup Ends /\ b.code \notin Losses /\ b.code \notin Ends
        /\ "heating_anomaly" \notin {a.code, b.code}
    BY EventFields DEF Losses, Ends
  <2>2. Failed(s, activity) = Emitting(s, <<a, b>>)
    OBVIOUS
  <2> HIDE DEF a, b, Failed
  <2>3. Tells(s, old, Failed(s, activity))
    BY <1>4, <2>1, <2>2, EmittingTwoKeeps DEF Good
  <2> QED
    BY <1>4, <2>3 DEF Good, Tells
<1> HIDE DEF Failed
<1> QED
  BY <1>1, <1>2, <1>3, <1>4

LEMMA SupervisionIsRecorded ==
    ASSUME NEW r, NEW old, Recorded(r, old), NEW s, NEW at
    PROVE  Good(r, old, Supervision(r, s, at))
<1> DEFINE was == r.supervision
           activity == <<"supervision", s.generation>>
           recovers == was.phase # "normal" /\ s.phase = "normal"
           r0 == [r EXCEPT !.supervision = s]
           r1 == EmitIf(was.authority # s.authority, r0, "command_authority_changed", at, activity, s.authority)
           r2 == EmitIf(was.phase # "failsafe" /\ s.phase = "failsafe", r1, "failsafe_entered", at, activity, None)
           calm == [r2 EXCEPT !.fatal = FALSE]
           a == Event("failsafe_exited", at, activity, None)
           b == Event("runtime_recovered", at, activity, None)
           back == Emitting(calm, <<a, b>>)
           r3 == IF recovers THEN back ELSE r2
           r4 == EmitIf(~was.exhausted /\ s.exhausted, r3, "restart_budget_exhausted", at, activity, None)
<1>1. Supervision(r, s, at) \in {r0, r4}
  BY DEF Supervision
<1>2. Good(r, old, r0)
  <2>1. RecFields \subseteq DOMAIN r
    BY DEF Recorded
  <2>2. SameRecord(r, r0)
    BY <2>1 DEF SameRecord, RecFields
  <2> HIDE DEF r0
  <2> QED
    BY <2>2, SameIsRecorded DEF Good, SameRecord
<1>3. ~IsIncident(activity)
  BY DEF IsIncident
<1> HIDE DEF r0, activity, recovers
<1>4. Good(r, old, r1)
  <2>1. Tells(r0, old, r1)
    BY <1>2, EmitIfKeeps DEF Good, Losses, Ends
  <2> QED
    BY <1>2, <2>1 DEF Good, Tells
<1> HIDE DEF r1
<1>5. Good(r, old, r2)
  <2>1. Tells(r1, old, r2)
    BY <1>4, EmitIfKeeps DEF Good, Losses, Ends
  <2> QED
    BY <1>4, <2>1 DEF Good, Tells
<1> HIDE DEF r2
<1>6. Good(r, old, calm)
  <2>1. RecFields \subseteq DOMAIN r2
    BY <1>5 DEF Good, Recorded
  <2>2. SameRecord(r2, calm)
    BY <2>1 DEF SameRecord, RecFields
  <2> HIDE DEF calm
  <2> QED
    BY <1>5, <2>2, SameIsRecorded DEF Good, SameRecord
<1> HIDE DEF calm
<1>7. Good(r, old, back)
  <2>1. /\ a.code \notin Losses \cup Ends /\ b.code \notin Losses /\ b.activity = activity
        /\ "heating_anomaly" \notin {a.code, b.code}
    BY EventFields DEF Losses, Ends
  <2> HIDE DEF a, b
  <2>2. Tells(calm, old, back)
    BY <1>3, <1>6, <2>1, EmittingTwoKeeps DEF Good
  <2> QED
    BY <1>6, <2>2 DEF Good, Tells
<1> HIDE DEF back
<1>8. Good(r, old, r3)
  BY <1>5, <1>7
<1> HIDE DEF r3
<1>9. Good(r, old, r4)
  <2>1. Tells(r3, old, r4)
    BY <1>8, EmitIfKeeps DEF Good, Losses, Ends
  <2> QED
    BY <1>8, <2>1 DEF Good, Tells
<1> HIDE DEF r4
<1> QED
  BY <1>1, <1>2, <1>9

LEMMA LifecycleIsRecorded ==
    ASSUME NEW r, NEW old, Recorded(r, old), NEW at, NEW activity, NEW generation
    PROVE  /\ Good(r, old, RuntimeStarted(r, at)) /\ Good(r, old, RuntimeStopped(r, at))
           /\ Good(r, old, RuntimeFatal(r, at, activity))
           /\ Good(r, old, RestartAttemptStarted(r, at, generation))
           /\ Good(r, old, RestartAttemptFailed(r, at, generation))
<1>1. ASSUME NEW s, Good(r, old, s), NEW code, code \notin Losses \cup Ends, code # "heating_anomaly", NEW id
      PROVE  Good(r, old, Emit(s, code, at, id, None))
  <2>1. Tells(s, old, Emit(s, code, at, id, None))
    BY <1>1, EmitKeeps DEF Good
  <2> QED
    BY <1>1, <2>1 DEF Good, Tells
<1>2. Good(r, old, r)
  BY DEF Good
<1>3. Good(r, old, [r EXCEPT !.fatal = TRUE])
  <2> DEFINE s == [r EXCEPT !.fatal = TRUE]
  <2>1. RecFields \subseteq DOMAIN r
    BY DEF Recorded
  <2>2. SameRecord(r, s)
    BY <2>1 DEF SameRecord, RecFields
  <2> HIDE DEF s
  <2>3. Good(r, old, s)
    BY <2>2, SameIsRecorded DEF Good, SameRecord
  <2> QED
    BY <2>3 DEF s
<1>4. {"runtime_started", "runtime_stopped", "runtime_fatal", "restart_attempt_started",
       "restart_attempt_failed"} \cap (Losses \cup Ends) = {}
  BY DEF Losses, Ends
<1>5. Good(r, old, RuntimeStarted(r, at)) /\ Good(r, old, RuntimeStopped(r, at))
  BY <1>1, <1>2, <1>4 DEF RuntimeStarted, RuntimeStopped
<1>6. Good(r, old, RuntimeFatal(r, at, activity))
  BY <1>1, <1>2, <1>3, <1>4 DEF RuntimeFatal
<1>7. Good(r, old, RestartAttemptStarted(r, at, generation)) /\ Good(r, old, RestartAttemptFailed(r, at, generation))
  BY <1>1, <1>2, <1>4 DEF RestartAttemptStarted, RestartAttemptFailed
<1> QED
  BY <1>5, <1>6, <1>7

-----------------------------------------------------------------------------
(* THE STREAM *)

(* The last n of a sequence, by position.                                  *)
LEMMA LastOfFacts ==
    ASSUME NEW S, NEW events \in Seq(S), NEW n \in Nat \ {0}
    PROVE  LET k == IF Len(events) > n THEN Len(events) - n ELSE 0
               last == LastOf(events, n)
           IN  /\ k \in Nat /\ k <= Len(events)
               /\ last \in Seq(S) /\ Len(last) = Len(events) - k
               /\ \A i \in 1 .. Len(events) - k : last[i] = events[i + k]
               /\ last = <<>> => events = <<>>
<1>1. Len(events) \in Nat
  OBVIOUS
<1>2. CASE Len(events) > n
  <2> DEFINE k == Len(events) - n
             last == SubSeq(events, k + 1, Len(events))
  <2>1. k \in Nat /\ k + 1 \in 1 .. Len(events) + 1 /\ k <= Len(events) /\ Len(events) - k = n
    BY <1>1, <1>2
  <2>2. LastOf(events, n) = last
    BY <1>2 DEF LastOf
  <2>3. \A i \in k + 1 .. Len(events) : events[i] \in S
    BY <2>1
  <2>4. /\ last \in Seq(S)
        /\ Len(last) = IF k + 1 <= Len(events) THEN Len(events) - (k + 1) + 1 ELSE 0
        /\ \A i \in 1 .. Len(events) - (k + 1) + 1 : last[i] = events[(k + 1) + i - 1]
    <3>1. k + 1 \in Int /\ Len(events) \in Int
      BY <1>1, <2>1
    <3> QED
      BY <2>3, <3>1, <2>1, SubSeqProperties
  <2>5. Len(last) = Len(events) - k /\ Len(last) # 0
    BY <1>1, <1>2, <2>1, <2>4
  <2>6. \A i \in 1 .. Len(events) - k : last[i] = events[i + k]
    <3> HIDE DEF last
    <3>1. ASSUME NEW i \in 1 .. Len(events) - k PROVE (k + 1) + i - 1 = i + k /\ i \in 1 .. Len(events) - (k + 1) + 1
      BY <1>1, <2>1
    <3> QED
      BY <2>4, <3>1
  <2>7. last # <<>>
    <3> HIDE DEF last
    <3> QED
      BY <2>5
  <2> HIDE DEF last
  <2> QED
    BY <1>2, <2>1, <2>2, <2>4, <2>5, <2>6, <2>7
<1>3. CASE ~(Len(events) > n)
  BY <1>1, <1>3 DEF LastOf
<1> QED
  BY <1>2, <1>3

(* What is emitted keeps the stream in order, and every open notice of an  *)
(* incident that lasts, or of one whose recovery is there to be read.      *)
LEMMA StreamGrows ==
    ASSUME NEW str, NEW old, StreamOK(str, old), NEW out, NEW new, OutOK(out, old, new),
           NEW str2, str2 = [retained |-> LastOf(str.retained \o out, EventCapacity), total |-> str.total + Len(out)]
    PROVE  /\ StreamOK(str2, new) /\ str2.total >= str.total
           /\ \A s : ActsOK(s) /\ s.cursor <= str.total /\ Fresh(s, str, old) => Fresh(s, str2, new)
<1> DEFINE all == str.retained \o out
           k == IF Len(all) > EventCapacity THEN Len(all) - EventCapacity ELSE 0
           last == LastOf(all, EventCapacity)
           m == Len(str.retained)
<1>1. PICK S : str.retained \in Seq(S)
  BY DEF StreamOK
<1>2. PICK R : out \in Seq(R)
  BY DEF OutOK
<1>3. EventCapacity \in Nat \ {0}
  BY ObservationConstants
<1>4. /\ str.total \in Nat /\ m \in Nat /\ Len(out) \in Nat /\ m <= str.total
      /\ DOMAIN str.retained = 1 .. m /\ DOMAIN out = 1 .. Len(out)
  BY <1>1, <1>2 DEF StreamOK
<1>5. /\ all \in Seq(S \cup R) /\ Len(all) = m + Len(out)
      /\ \A i \in 1 .. m : all[i] = str.retained[i]
      /\ \A i \in 1 .. Len(out) : all[m + i] = out[i]
  <2>1. str.retained \in Seq(S \cup R) /\ out \in Seq(S \cup R)
    BY <1>1, <1>2
  <2> QED
    BY <2>1, ConcatProperties
<1>6. /\ k \in Nat /\ k <= Len(all)
      /\ last \in Seq(S \cup R) /\ Len(last) = Len(all) - k
      /\ \A i \in 1 .. Len(all) - k : last[i] = all[i + k]
      /\ last = <<>> => all = <<>>
  <2> HIDE DEF all
  <2> QED
    BY <1>3, <1>5, LastOfFacts
<1>7. /\ str2.retained = last /\ str2.total = str.total + Len(out)
      /\ {"retained", "total"} \subseteq DOMAIN str2
  <2> HIDE DEF last
  <2>1. str2 = [retained |-> last, total |-> str.total + Len(out)]
    BY DEF last
  <2> QED
    BY <2>1
<1> HIDE DEF all, last, k
<1>8. ASSUME NEW i \in 1 .. Len(all)
      PROVE  /\ EventOK(all[i])
             /\ IsLoss(all[i]) => \/ all[i].activity = new
                                  \/ \E j \in 1 .. Len(all) : j > i /\ Recovers(all[j], all[i].activity)
  <2>1. CASE i <= m
    <3>1. i \in 1 .. m /\ all[i] = str.retained[i]
      BY <1>4, <1>5, <2>1
    <3>2. /\ EventOK(str.retained[i])
          /\ IsLoss(str.retained[i]) =>
                \/ str.retained[i].activity = old
                \/ \E j \in 1 .. m : j > i /\ Recovers(str.retained[j], str.retained[i].activity)
      BY <1>4, <3>1 DEF StreamOK, IsLoss
    <3>3. old = None \/ old = new \/ \E j \in 1 .. Len(out) : Recovers(out[j], old)
      BY <1>4 DEF OutOK
    <3>4. \A j \in 1 .. m : j \in 1 .. Len(all) /\ all[j] = str.retained[j]
      BY <1>4, <1>5
    <3>5. \A j \in 1 .. Len(out) : m + j \in 1 .. Len(all) /\ all[m + j] = out[j] /\ m + j > i
      BY <1>4, <1>5, <3>1
    <3>6. ASSUME IsLoss(all[i]), all[i].activity = old, old # new
          PROVE  \E j \in 1 .. Len(all) : j > i /\ Recovers(all[j], all[i].activity)
      <4>1. old # None
        BY <3>6 DEF IsLoss
      <4>2. PICK j \in 1 .. Len(out) : Recovers(out[j], old)
        BY <3>3, <3>6, <4>1
      <4> QED
        BY <3>5, <3>6, <4>2
    <3> QED
      BY <3>1, <3>2, <3>4, <3>6
  <2>2. CASE ~(i <= m)
    <3>1. i - m \in 1 .. Len(out) /\ m + (i - m) = i
      BY <1>4, <1>5, <2>2
    <3>2. all[i] = out[i - m]
      BY <1>5, <3>1
    <3>3. /\ EventOK(out[i - m])
          /\ IsLoss(out[i - m]) =>
                \/ out[i - m].activity = new
                \/ \E j \in 1 .. Len(out) : j > i - m /\ Recovers(out[j], out[i - m].activity)
      BY <1>4, <3>1 DEF OutOK
    <3>4. \A j \in 1 .. Len(out) : m + j \in 1 .. Len(all) /\ all[m + j] = out[j] /\ (j > i - m => m + j > i)
      BY <1>4, <1>5
    <3> QED
      BY <3>2, <3>3, <3>4
  <2> QED
    BY <2>1, <2>2
<1>9. DOMAIN last = 1 .. Len(all) - k /\ Len(all) \in Nat /\ Len(all) - k \in Nat
  BY <1>4, <1>5, <1>6
<1>10. ASSUME NEW i \in DOMAIN last PROVE i + k \in 1 .. Len(all) /\ last[i] = all[i + k]
  BY <1>6, <1>9
<1>11. ASSUME NEW j \in 1 .. Len(all), j > k PROVE j - k \in DOMAIN last /\ last[j - k] = all[j]
  <2>1. j - k \in 1 .. Len(all) - k /\ (j - k) + k = j
    BY <1>6, <1>9, <1>11
  <2> QED
    BY <1>6, <1>9, <2>1
<1>12. StreamOK(str2, new)
  <2>1. \E Q : str2.retained \in Seq(Q)
    BY <1>6, <1>7
  <2>2. str2.total \in Nat /\ Len(str2.retained) <= str2.total
    BY <1>4, <1>5, <1>6, <1>7
  <2>3. \A i \in DOMAIN last : EventOK(last[i])
    BY <1>8, <1>10
  <2>4. str2.retained = <<>> => str2.total = 0
    <3>1. ASSUME last = <<>> PROVE str.total = 0 /\ Len(out) = 0
      <4>1. Len(all) = 0
        BY <1>6, <3>1
      <4>2. m = 0 /\ Len(out) = 0
        <5>1. m \in Nat /\ Len(out) \in Nat /\ m + Len(out) = 0
          BY <1>4, <1>5, <4>1
        <5> HIDE DEF m
        <5> QED
          BY <5>1
      <4>3. str.retained = <<>>
        BY <1>1, <4>2
      <4> QED
        BY <4>2, <4>3 DEF StreamOK
    <3> QED
      BY <1>7, <3>1
  <2>5. ASSUME NEW i \in DOMAIN last, IsLoss(last[i])
        PROVE  last[i].activity = new \/ \E j \in DOMAIN last : j > i /\ Recovers(last[j], last[i].activity)
    <3>1. i + k \in 1 .. Len(all) /\ last[i] = all[i + k]
      BY <1>10
    <3>2. CASE last[i].activity = new
      BY <3>2
    <3>3. CASE \E j \in 1 .. Len(all) : j > i + k /\ Recovers(all[j], last[i].activity)
      <4>1. PICK j \in 1 .. Len(all) : j > i + k /\ Recovers(all[j], last[i].activity)
        BY <3>3
      <4>2. j > k /\ j - k > i
        BY <1>6, <1>9, <4>1
      <4> QED
        BY <1>11, <4>1, <4>2
    <3> QED
      BY <1>8, <2>5, <3>1, <3>2, <3>3
  <2> QED
    BY <1>7, <2>1, <2>2, <2>3, <2>4, <2>5 DEF StreamOK, IsLoss
<1>13. First(str2) = First(str) + k /\ First(str) \in Int
  <2>1. str2.total = str.total + Len(out) /\ Len(str2.retained) = m + Len(out) - k
    BY <1>5, <1>6, <1>7
  <2>2. First(str2) = (str.total + Len(out)) - (m + Len(out) - k) + 1 /\ First(str) = str.total - m + 1
    BY <2>1 DEF First
  <2>3. str.total \in Nat /\ m \in Nat /\ Len(out) \in Nat /\ k \in Nat
    BY <1>4, <1>6
  <2> HIDE DEF m
  <2> QED
    BY <2>2, <2>3
<1>14. ASSUME NEW s, ActsOK(s), s.cursor <= str.total, Fresh(s, str, old) PROVE Fresh(s, str2, new)
  <2>1. OpenOK(s) /\ s.cursor \in Nat
    BY <1>14 DEF Fresh, ActsOK
  <2>2. CASE s.cursor + 1 < First(str)
    <3>1. s.cursor + 1 < First(str2)
      BY <1>6, <1>13, <2>1, <2>2
    <3> QED
      BY <2>1, <3>1 DEF Fresh
  <2>3. CASE Current(s, str, old) /\ ~(s.cursor + 1 < First(str2))
    <3>1. ASSUME NEW j \in 1 .. Len(all), First(str) + j - 1 > s.cursor, NEW key, Recovers(all[j], key)
          PROVE  Closes(str2, s.cursor, key)
      <4>1. j > k
        BY <1>6, <1>9, <1>13, <2>1, <2>3, <3>1
      <4>2. First(str2) + (j - k) - 1 > s.cursor
        BY <1>6, <1>9, <1>13, <2>1, <3>1
      <4> QED
        BY <1>7, <1>11, <3>1, <4>1, <4>2 DEF Closes
    <3>2. ASSUME NEW a \in Notices(s) PROVE a.of = new \/ Closes(str2, s.cursor, a.of)
      <4>1. a.of # None
        BY <2>1 DEF OpenOK
      <4>2. CASE a.of = old
        <5>1. old = new \/ \E j \in 1 .. Len(out) : Recovers(out[j], old)
          BY <1>4, <4>1, <4>2 DEF OutOK
        <5>2. ASSUME NEW j \in 1 .. Len(out), Recovers(out[j], old) PROVE Closes(str2, s.cursor, old)
          <6>1. m + j \in 1 .. Len(all) /\ all[m + j] = out[j]
            BY <1>4, <1>5
          <6>2. First(str) + (m + j) - 1 > s.cursor
            <7>1. First(str) + m = str.total + 1
              BY <1>4 DEF First
            <7> QED
              BY <1>4, <1>13, <1>14, <2>1, <7>1
          <6> QED
            BY <3>1, <5>2, <6>1, <6>2
        <5> QED
          BY <4>2, <5>1, <5>2
      <4>3. CASE Closes(str, s.cursor, a.of)
        <5>1. PICK j \in 1 .. m : First(str) + j - 1 > s.cursor /\ Recovers(str.retained[j], a.of)
          BY <1>4, <4>3 DEF Closes
        <5>2. j \in 1 .. Len(all) /\ all[j] = str.retained[j]
          BY <1>4, <1>5
        <5> QED
          BY <3>1, <5>1, <5>2
      <4> QED
        BY <2>3, <4>2, <4>3 DEF Current
    <3> QED
      BY <2>1, <3>2 DEF Fresh, Current
  <2> QED
    BY <1>14, <2>1, <2>2, <2>3 DEF Fresh
<1>15. str2.total >= str.total
  BY <1>4, <1>7
<1> QED
  BY <1>12, <1>14, <1>15

-----------------------------------------------------------------------------
(* THE RECORDER AND THE STREAM IN EVERY STEP *)

StreamInv == StreamOK(stream, rec.incident) /\ Recorded(rec, rec.incident) /\ rec.out = <<>>
ActsInv == ActsOK(acts) /\ acts.cursor <= stream.total /\ (~stumbles => Fresh(acts, stream, rec.incident))

(* Whatever the worker does, it records it in order.                       *)
LEMMA OperationRecords ==
    ASSUME StreamInv, Operation PROVE \E r, p : Recorded(r, rec.incident) /\ Finishes(r, p)
<1> DEFINE old == rec.incident
<1>1. Recorded(rec, old)
  BY DEF StreamInv
<1>2. ASSUME NEW r, Recorded(r, old), NEW e, NEW latest, Evaluates(r, e, latest)
      PROVE  \E s, p : Recorded(s, old) /\ Finishes(s, p)
  <2>1. Finishes(Evaluated(r, e), Seen(e, latest))
    BY <1>2 DEF Evaluates
  <2>2. Recorded(Evaluated(r, e), old)
    BY <1>2, EvaluatedIsRecorded DEF Good
  <2> QED
    BY <2>1, <2>2
<1>3. CASE Reading
  <2>1. PICK r \in Readings, e \in ValidResults : Evaluates(Measured(rec, "valid", r.at), e, r)
    BY <1>3 DEF Reading
  <2>2. Recorded(Measured(rec, "valid", r.at), old)
    BY <1>1, MeasuredIsRecorded
  <2> QED
    BY <1>2, <2>1, <2>2
<1>4. CASE Loss
  <2>1. PICK condition \in {"stale", "unavailable"}, e \in LostResults :
            Evaluates(Measured(rec, condition, now), e, reading)
    BY <1>4 DEF Loss
  <2>2. Recorded(Measured(rec, condition, now), old)
    BY <1>1, MeasuredIsRecorded
  <2> QED
    BY <1>2, <2>1, <2>2
<1>5. CASE Reevaluation
  <2>1. PICK e : Evaluates(rec, e, reading)
    BY <1>5 DEF Reevaluation
  <2> QED
    BY <1>1, <1>2, <2>1
<1>6. CASE Report
  <2>1. PICK state \in {"enabled", "disabled"}, e \in ResilienceResults :
            Evaluates(ReportedSource(rec, state, now), e, reading)
    BY <1>6 DEF Report
  <2>2. Recorded(ReportedSource(rec, state, now), old)
    BY <1>1, ReportedIsRecorded DEF Good
  <2> QED
    BY <1>2, <2>1, <2>2
<1>7. CASE CommandFails
  <2> DEFINE corrective == scenario = "resilience" /\ rec.reconciliation = "correction_required"
  <2>1. Finishes(CommandFailed(rec, "disable", now, corrective), perf)
    BY <1>7 DEF CommandFails
  <2>2. Recorded(CommandFailed(rec, "disable", now, corrective), old)
    BY <1>1, CommandFailedIsRecorded DEF Good
  <2> QED
    BY <2>1, <2>2
<1>8. CASE Fatal
  <2> DEFINE generation == rec.supervision.generation + 1
             activity == <<"supervision", generation>>
             fatal == RuntimeFatal(rec, now, activity)
             stopped == IF rec.supervision.authority = "normal" THEN RuntimeStopped(fatal, now) ELSE fatal
             failsafe == Supervision(stopped, Supervise("failsafe", "failsafe", generation, FALSE), now)
             off == Commanded(failsafe, "disable", now, activity)
  <2>1. Finishes(off, perf) \/ Finishes(failsafe, perf)
    BY <1>8 DEF Fatal
  <2>2. Recorded(fatal, old)
    BY <1>1, LifecycleIsRecorded DEF Good
  <2> HIDE DEF fatal
  <2>3. Recorded(stopped, old)
    BY <2>2, LifecycleIsRecorded DEF Good
  <2> HIDE DEF stopped
  <2>4. Recorded(failsafe, old)
    BY <2>3, SupervisionIsRecorded DEF Good
  <2> HIDE DEF failsafe
  <2>5. Recorded(off, old)
    BY <2>4, CommandedTells DEF Tells
  <2> HIDE DEF off
  <2> QED
    BY <2>1, <2>4, <2>5
<1>9. CASE Restart
  <2> DEFINE generation == rec.supervision.generation
             started == RestartAttemptStarted(rec, now, generation)
             failed == RestartAttemptFailed(started, now, generation)
             ran == RuntimeStarted(started, now)
             a == Supervision(ran, Supervise("normal", "normal", generation, FALSE), now)
             b == Supervision(failed, Supervise("restart_wait", "failsafe", generation, FALSE), now)
             c == Supervision(failed, Supervise("restart_exhausted", "failsafe", generation, TRUE), now)
  <2>1. Finishes(a, perf) \/ Finishes(b, perf) \/ Finishes(c, perf)
    BY <1>9 DEF Restart
  <2>2. Recorded(started, old)
    BY <1>1, LifecycleIsRecorded DEF Good
  <2> HIDE DEF started
  <2>3. Recorded(failed, old) /\ Recorded(ran, old)
    BY <2>2, LifecycleIsRecorded DEF Good
  <2> HIDE DEF failed, ran
  <2>4. Recorded(a, old) /\ Recorded(b, old) /\ Recorded(c, old)
    BY <2>3, SupervisionIsRecorded DEF Good
  <2> HIDE DEF a, b, c
  <2> QED
    BY <2>1, <2>4
<1> QED
  BY <1>3, <1>4, <1>5, <1>6, <1>7, <1>8, <1>9 DEF Operation

(* What was recorded is in the stream, in its place.                       *)
Emitted(out) ==
    /\ stream' = Streamed(out)
    /\ UNCHANGED <<acts, stumbles>>

LEMMA EmittedKeeps ==
    ASSUME StreamInv, ActsInv, NEW out, OutOK(out, rec.incident, rec'.incident), Emitted(out)
    PROVE  StreamOK(stream', rec'.incident) /\ stream'.total >= stream.total /\ ActsInv'
<1>1. stream' = [retained |-> LastOf(stream.retained \o out, EventCapacity), total |-> stream.total + Len(out)]
  BY DEF Emitted, Streamed
<1>2. StreamOK(stream, rec.incident)
  BY DEF StreamInv
<1>3. /\ StreamOK(stream', rec'.incident) /\ stream'.total >= stream.total
      /\ \A s : ActsOK(s) /\ s.cursor <= stream.total /\ Fresh(s, stream, rec.incident)
                   => Fresh(s, stream', rec'.incident)
  BY <1>1, <1>2, StreamGrows
<1>4. acts' = acts /\ stumbles' = stumbles
  BY DEF Emitted
<1>5. acts.cursor <= stream'.total
  <2>1. acts.cursor \in Nat /\ stream.total \in Nat /\ stream'.total \in Nat
    BY <1>2, <1>3 DEF ActsInv, ActsOK, StreamOK
  <2> QED
    BY <1>3, <2>1 DEF ActsInv
<1> QED
  BY <1>3, <1>4, <1>5 DEF ActsInv

LEMMA NothingToRecord == ASSUME NEW incident PROVE OutOK(<<>>, incident, incident)
<1>1. <<>> \in Seq({})
  OBVIOUS
<1> QED
  BY <1>1 DEF OutOK

LEMMA FinishesKeeps ==
    ASSUME StreamInv, ActsInv, NEW r, Recorded(r, rec.incident), NEW p, Finishes(r, p)
    PROVE  StreamInv' /\ ActsInv' /\ stream'.total >= stream.total
<1> DEFINE t == [r EXCEPT !.out = <<>>]
<1>1. RecFields \subseteq DOMAIN r /\ OutOK(r.out, rec.incident, r.incident)
  BY DEF Recorded
<1>2. rec' = t
  BY DEF Finishes
<1>3. /\ RecFields \subseteq DOMAIN t /\ t.ids = r.ids /\ t.incident = r.incident
      /\ t.campaign = r.campaign /\ t.episode = r.episode /\ t.out = <<>>
  BY <1>1 DEF RecFields
<1> HIDE DEF t
<1>4. Recorded(t, t.incident)
  BY <1>3, NothingToRecord DEF Recorded, NoAnomaly
<1>5. Emitted(r.out)
  BY DEF Finishes, Emitted, told, marks
<1>6. rec'.incident = r.incident
  BY <1>2, <1>3
<1>7. StreamOK(stream', rec'.incident) /\ stream'.total >= stream.total /\ ActsInv'
  BY <1>1, <1>5, <1>6, EmittedKeeps
<1> QED
  BY <1>2, <1>3, <1>4, <1>7 DEF StreamInv

(* The transitions of an anomaly are events of no other kind.              *)
LEMMA AssessedOut == ASSUME NEW p, NEW episode PROVE \E S : Assessed(p, episode).out \in Seq(S)
<1>1. ASSUME NEW q, NEW id, NEW raw, NEW recovered, NEW active
      PROVE  \E S : ObserveAnomaly(q, id, raw, recovered, active).out \in Seq(S)
  <2> DEFINE replaced == q.anomaly # None /\ q.anomaly # id[1]
             current == IF replaced THEN None ELSE q.anomaly
             over == current # None /\ (recovered \/ ~active)
             starts == current = None /\ active /\ raw = "anomalous"
             x == Anomaly(q.anomaly, "observation_ended", id[2])
             y == Anomaly(current, IF recovered THEN "cleared" ELSE "observation_ended", id[2])
             z == Anomaly(id[1], "started", id[2])
             first == IF replaced THEN <<x>> ELSE <<>>
             second == IF over THEN <<y>> ELSE IF starts THEN <<z>> ELSE <<>>
  <2>1. ObserveAnomaly(q, id, raw, recovered, active).out = first \o second
    BY DEF ObserveAnomaly
  <2> HIDE DEF replaced, over, starts, x, y, z
  <2>2. first \in Seq({x, y, z}) /\ second \in Seq({x, y, z})
    <3> DEFINE T == {x, y, z}
    <3>1. x \in T /\ y \in T /\ z \in T
      OBVIOUS
    <3> HIDE DEF T
    <3>2. <<>> \in Seq(T) /\ <<x>> \in Seq(T) /\ <<y>> \in Seq(T) /\ <<z>> \in Seq(T)
      BY <3>1
    <3>3. first \in {<<>>, <<x>>} /\ second \in {<<>>, <<y>>, <<z>>}
      OBVIOUS
    <3> HIDE DEF first, second
    <3>4. first \in Seq(T) /\ second \in Seq(T)
      BY <3>2, <3>3
    <3> QED
      BY <3>4 DEF T
  <2> HIDE DEF first, second
  <2>3. first \o second \in Seq({x, y, z})
    BY <2>2, ConcatProperties
  <2> QED
    BY <2>1, <2>3
<1> QED
  BY <1>1 DEF Assessed

LEMMA AnomalyEvent ==
    ASSUME NEW anomaly
    PROVE  LET event == HeatingAnomaly(NoRecord, anomaly).out[1] IN
           event.code = "heating_anomaly" /\ event.detail = anomaly.lifecycle
<1> DEFINE e == Event("heating_anomaly", anomaly.at, <<"anomaly", anomaly.episode>>, anomaly.lifecycle)
           t == HeatingAnomaly(NoRecord, anomaly)
<1>1. e.code = "heating_anomaly" /\ e.detail = anomaly.lifecycle
  BY EventFields
<1>2. t = [NoRecord EXCEPT !.out = @ \o <<e>>]
  BY DEF HeatingAnomaly, Emit, Emitting
<1> HIDE DEF e, t
<1>3. NoRecord.out = <<>> /\ "out" \in DOMAIN NoRecord
  BY DEF NoRecord
<1>4. <<>> \o <<e>> = <<e>>
  OBVIOUS
<1>5. t.out = <<e>>
  BY <1>2, <1>3, <1>4
<1> QED
  BY <1>1, <1>5 DEF t

LEMMA OutOfOther ==
    ASSUME NEW out, NEW S, out \in Seq(S), \A i \in DOMAIN out : out[i].code \notin Losses \cup Ends, NEW incident
    PROVE  OutOK(out, incident, incident)
  BY DEF OutOK, EventOK, IsLoss

LEMMA AssessEmits ==
    ASSUME StreamInv, Assess
    PROVE  LET done == Assessed([perf EXCEPT !.pending = None], perf.pending) IN
           \E out : /\ OutOK(out, rec.incident, rec'.incident) /\ Emitted(out) /\ rec' = rec
                    /\ (\E i \in DOMAIN out : out[i].detail = "cleared")
                          => \E i \in DOMAIN done.out : done.out[i].lifecycle = "cleared"
<1> DEFINE done == Assessed([perf EXCEPT !.pending = None], perf.pending)
           out == [i \in DOMAIN done.out |-> HeatingAnomaly(NoRecord, done.out[i]).out[1]]
           r == [rec EXCEPT !.out = out]
<1>1. stream' = Streamed(r.out) /\ rec' = rec /\ acts' = acts /\ stumbles' = stumbles
  BY DEF Assess, runtime, told, marks
<1>2. PICK S : done.out \in Seq(S)
  BY AssessedOut
<1> HIDE DEF done
<1>3. DOMAIN out = DOMAIN done.out
      /\ \A i \in DOMAIN out : out[i].code = "heating_anomaly" /\ out[i].detail = done.out[i].lifecycle
  BY AnomalyEvent
<1>4. \E T : out \in Seq(T)
  <2> DEFINE T == {HeatingAnomaly(NoRecord, done.out[i]).out[1] : i \in DOMAIN done.out}
  <2>1. DOMAIN done.out = 1 .. Len(done.out) /\ Len(done.out) \in Nat
    BY <1>2
  <2>2. out \in [1 .. Len(done.out) -> T]
    BY <2>1
  <2>3. [1 .. Len(done.out) -> T] \subseteq Seq(T)
    BY <2>1
  <2> QED
    BY <2>2, <2>3
<1> HIDE DEF out
<1>5. OutOK(out, rec.incident, rec.incident)
  BY <1>3, <1>4, OutOfOther DEF Losses, Ends
<1>6. r.out = out
  BY DEF StreamInv, Recorded, RecFields
<1> HIDE DEF r
<1> QED
  BY <1>1, <1>3, <1>5, <1>6 DEF Emitted, done

LEMMA StopEmits ==
    ASSUME StreamInv, Stop
    PROVE  \E out : OutOK(out, rec.incident, rec'.incident) /\ NoAnomaly(out) /\ Emitted(out) /\ rec' = rec
<1> DEFINE r == [rec EXCEPT !.out = <<>>]
           t == RuntimeStopped(r, now)
<1>1. stream' = Streamed(t.out) /\ rec' = rec /\ acts' = acts /\ stumbles' = stumbles
  BY DEF Stop, runtime, told, marks
<1>2. Recorded(r, rec.incident) /\ r.incident = rec.incident
  <2>1. RecFields \subseteq DOMAIN rec /\ rec.out = <<>>
    BY DEF StreamInv, Recorded
  <2>2. SameRecord(rec, r)
    BY <2>1 DEF SameRecord, RecFields
  <2> HIDE DEF r
  <2> QED
    BY <2>2, SameIsRecorded DEF SameRecord, StreamInv
<1> HIDE DEF r
<1>3. Recorded(t, rec.incident) /\ t.incident = rec.incident
  BY <1>2, LifecycleIsRecorded DEF Good
<1> HIDE DEF t
<1> QED
  BY <1>1, <1>3 DEF Recorded, Emitted

LEMMA ComposeKeeps ==
    ASSUME StreamInv, ActsInv, Compose
    PROVE  ActsInv' /\ ActsOK(acts') /\ acts'.revisions >= acts.revisions
<1> DEFINE t == ProcessAvailable(acts, stream.retained, stream.total)
           n == Len(stream.retained)
<1>1. acts' = t /\ stumbles' = (stumbles \/ t.stumbled) /\ stream' = stream /\ rec' = rec
  BY DEF Compose, runtime
<1>2. Passed(acts, t, n, stream, rec.incident)
  BY PassFacts DEF StreamInv, ActsInv
<1> HIDE DEF t
<1>3. ActsOK(t) /\ t.revisions >= acts.revisions /\ t.cursor <= stream.total
  BY <1>2 DEF Passed
<1>4. ASSUME ~stumbles' PROVE Fresh(t, stream, rec.incident)
  <2>1. ~stumbles /\ ~t.stumbled
    BY <1>1, <1>4
  <2>2. Current(t, stream, rec.incident)
    BY <1>2, <2>1 DEF Passed, ActsInv
  <2> QED
    BY <2>2 DEF Fresh, Current
<1> QED
  BY <1>1, <1>3, <1>4 DEF ActsInv

-----------------------------------------------------------------------------
(* THE PROCESSOR *)

NoticeFields == {"seen", "rate", "cursor", "missed", "overflows", "judged"}
NoticesOK(p) ==
    /\ NoticeFields \subseteq DOMAIN p
    /\ p.cursor \in Nat /\ p.missed \in Nat /\ p.judged \in Nat
    /\ p.cursor = p.judged + p.missed

(* What is left of a snapshot lies after the cursor; while intents wait    *)
(* for their answers, the cursor is just before their revision.            *)
LeftOK(left, cursor, total) ==
    /\ \A a \in left : a.seq \in Nat /\ cursor < a.seq /\ a.seq <= total
    /\ \A a, b \in left : a.seq = b.seq => a = b
DrainFields == {"left", "intents", "gap", "total", "fresh"}
DrainOK(d, cursor, revisions) ==
    /\ DrainFields \subseteq DOMAIN d
    /\ d.total \in Nat /\ d.total <= revisions
    /\ LeftOK(d.left, cursor, d.total)
    /\ \E S : d.intents \in Seq(S)
    /\ d.intents # <<>> => d.left # {} /\ cursor = NextIn(d.left).seq - 1
NoticesInv ==
    /\ acts.revisions \in Nat
    /\ NoticesOK(notices) /\ notices.cursor <= acts.revisions
    /\ drain # None => DrainOK(drain, notices.cursor, acts.revisions)

LEMMA NextInFacts ==
    ASSUME NEW left, left # {}, NEW cursor, NEW total, LeftOK(left, cursor, total)
    PROVE  NextIn(left) \in left /\ \A b \in left : NextIn(left).seq <= b.seq
<1> DEFINE T == {a.seq : a \in left}
<1>1. T \subseteq Nat /\ T # {}
  BY DEF LeftOK
<1>2. PICK k \in T : \A j \in T : k <= j
  <2> HIDE DEF T
  <2> QED
    BY <1>1, LeastNatural
<1>3. \E a \in left : \A b \in left : a.seq <= b.seq
  BY <1>2
<1> QED
  BY <1>3, Zenon DEF NextIn

(* The next revision leaves the rest, which lies after it.                 *)
LEMMA NextGoes ==
    ASSUME NEW left, left # {}, NEW cursor \in Nat, NEW total, LeftOK(left, cursor, total)
    PROVE  LeftOK(left \ {NextIn(left)}, NextIn(left).seq, total)
<1>1. NextIn(left) \in left /\ \A b \in left : NextIn(left).seq <= b.seq
  BY NextInFacts
<1>2. ASSUME NEW b \in left \ {NextIn(left)} PROVE NextIn(left).seq < b.seq
  <2>1. NextIn(left).seq # b.seq
    BY <1>1, <1>2 DEF LeftOK
  <2>2. NextIn(left).seq \in Nat /\ b.seq \in Nat
    BY <1>1, <1>2 DEF LeftOK
  <2> QED
    BY <1>1, <2>1, <2>2
<1> QED
  BY <1>2 DEF LeftOK

LEMMA NoWorkOK == ASSUME NEW cursor, NEW revisions \in Nat PROVE DrainOK(NoWork, cursor, revisions)
<1>1. <<>> \in Seq({})
  OBVIOUS
<1>2. /\ DrainFields \subseteq DOMAIN NoWork /\ NoWork.total = 0 /\ NoWork.left = {} /\ NoWork.intents = <<>>
  BY DEF NoWork, DrainFields
<1> QED
  BY <1>1, <1>2 DEF DrainOK, LeftOK

LEMMA SkipFacts ==
    ASSUME NEW p, NoticesOK(p), NEW seq \in Nat, seq > p.cursor + 1
    PROVE  NoticesOK(Skip(p, seq)) /\ Skip(p, seq).cursor = seq - 1
<1> DEFINE t == Skip(p, seq)
<1>1. t = [p EXCEPT !.missed = @ + seq - (p.cursor + 1), !.cursor = seq - 1]
  BY DEF Skip
<1>2. NoticeFields \subseteq DOMAIN p
  BY DEF NoticesOK
<1> HIDE DEF t
<1>3. /\ NoticeFields \subseteq DOMAIN t /\ t.missed = p.missed + seq - (p.cursor + 1)
      /\ t.cursor = seq - 1 /\ t.judged = p.judged
  BY <1>1, <1>2 DEF NoticeFields
<1>4. p.cursor \in Nat /\ p.missed \in Nat /\ p.judged \in Nat /\ p.cursor = p.judged + p.missed
  BY DEF NoticesOK
<1>5. t.missed \in Nat /\ t.cursor \in Nat /\ t.cursor = t.judged + t.missed
  BY <1>3, <1>4
<1> QED
  BY <1>3, <1>4, <1>5 DEF NoticesOK, t

LEMMA EndPassFacts ==
    ASSUME NEW p, NoticesOK(p), NEW total \in Nat, NEW gap
    PROVE  NoticesOK(EndPass(p, total, gap)) /\ EndPass(p, total, gap).cursor \in {p.cursor, total}
<1> DEFINE rest == p.cursor < total
           moved == [p EXCEPT !.missed = @ + total - p.cursor, !.cursor = total]
           p1 == IF rest THEN moved ELSE p
           counted == [p1 EXCEPT !.overflows = @ + 1]
<1>1. EndPass(p, total, gap) \in {p1, counted}
  BY DEF EndPass
<1>2. /\ NoticeFields \subseteq DOMAIN p
      /\ p.cursor \in Nat /\ p.missed \in Nat /\ p.judged \in Nat /\ p.cursor = p.judged + p.missed
  BY DEF NoticesOK
<1>3. /\ NoticeFields \subseteq DOMAIN moved /\ moved.missed = p.missed + total - p.cursor
      /\ moved.cursor = total /\ moved.judged = p.judged
  BY <1>2 DEF NoticeFields
<1> HIDE DEF moved
<1>4. rest => NoticesOK(moved)
  <2>1. rest => moved.missed \in Nat /\ moved.cursor = moved.judged + moved.missed
    BY <1>2, <1>3
  <2> QED
    BY <1>2, <1>3, <2>1 DEF NoticesOK
<1>5. NoticesOK(p1) /\ p1.cursor \in {p.cursor, total}
  BY <1>3, <1>4
<1> HIDE DEF p1
<1>6. /\ NoticeFields \subseteq DOMAIN counted /\ counted.missed = p1.missed
      /\ counted.cursor = p1.cursor /\ counted.judged = p1.judged
  BY <1>5 DEF NoticesOK, NoticeFields
<1> HIDE DEF counted
<1>7. NoticesOK(counted)
  BY <1>5, <1>6 DEF NoticesOK
<1> QED
  BY <1>1, <1>5, <1>6, <1>7

(* The cursor moves to a revision that was just before it.                 *)
LEMMA JudgedOK ==
    ASSUME NEW p, NoticesOK(p), p.cursor + 1 \in Nat, NEW seq, seq = p.cursor + 1,
           NEW t, t = [p EXCEPT !.cursor = seq, !.judged = @ + 1]
    PROVE  NoticesOK(t) /\ t.cursor = seq
<1>1. /\ NoticeFields \subseteq DOMAIN p
      /\ p.cursor \in Nat /\ p.missed \in Nat /\ p.judged \in Nat /\ p.cursor = p.judged + p.missed
  BY DEF NoticesOK
<1>2. /\ NoticeFields \subseteq DOMAIN t /\ t.missed = p.missed /\ t.cursor = seq /\ t.judged = p.judged + 1
  BY <1>1 DEF NoticeFields
<1>3. t.judged \in Nat /\ t.cursor \in Nat /\ t.cursor = t.judged + t.missed
  BY <1>1, <1>2
<1> QED
  BY <1>1, <1>2, <1>3 DEF NoticesOK

LEMMA JudgeKeeps == ASSUME NoticesInv, Judge PROVE NoticesInv'
<1> DEFINE revision == NextIn(drain.left)
           gap == revision.seq > notices.cursor + 1
           s == IF gap THEN Skip(notices, revision.seq) ELSE notices
           planned == Plan(s, revision)
           done == [planned.plan EXCEPT !.cursor = revision.seq, !.judged = @ + 1]
<1>1. /\ DrainOK(drain, notices.cursor, acts.revisions) /\ drain.left # {} /\ acts' = acts
      /\ NoticesOK(notices) /\ acts.revisions \in Nat
  BY DEF Judge, NoticesInv
<1>2. \/ /\ notices' = done
         /\ drain' = [drain EXCEPT !.left = @ \ {revision}, !.gap = @ \/ gap]
         /\ drain.intents = <<>>
      \/ /\ notices' = planned.plan
         /\ drain' = [drain EXCEPT !.intents = planned.intents, !.gap = @ \/ gap]
  BY DEF Judge
<1>3. /\ DrainFields \subseteq DOMAIN drain /\ drain.total \in Nat /\ drain.total <= acts.revisions
      /\ LeftOK(drain.left, notices.cursor, drain.total)
  BY <1>1 DEF DrainOK
<1>4. revision \in drain.left
  BY <1>1, <1>3, NextInFacts
<1>5. /\ revision.seq \in Nat /\ notices.cursor < revision.seq /\ revision.seq <= drain.total
      /\ notices.cursor \in Nat
  BY <1>1, <1>3, <1>4 DEF LeftOK, NoticesOK
<1>6. LeftOK(drain.left \ {revision}, revision.seq, drain.total)
  BY <1>1, <1>3, <1>5, NextGoes
<1> HIDE DEF revision
<1>7. NoticesOK(s) /\ s.cursor + 1 = revision.seq
  <2>1. CASE gap
    <3>1. NoticesOK(s) /\ s.cursor = revision.seq - 1
      BY <1>1, <1>5, <2>1, SkipFacts
    <3> HIDE DEF s
    <3> QED
      BY <1>5, <3>1
  <2>2. CASE ~gap
    BY <1>1, <1>5, <2>2
  <2> QED
    BY <2>1, <2>2
<1> HIDE DEF s, gap
<1>8. PlanOK(planned, s)
  BY <1>7, PlanKeeps DEF NoticesOK, NoticeFields
<1> HIDE DEF planned
<1>9. NoticesOK(planned.plan) /\ planned.plan.cursor + 1 = revision.seq
  BY <1>7, <1>8 DEF PlanOK, NoticesOK, NoticeFields
<1>10. revision.seq <= acts.revisions
  BY <1>1, <1>3, <1>5
<1>11. CASE /\ notices' = done
            /\ drain' = [drain EXCEPT !.left = @ \ {revision}, !.gap = @ \/ gap]
            /\ drain.intents = <<>>
  <2>1. NoticesOK(notices') /\ notices'.cursor = revision.seq
    <3>1. notices' = [planned.plan EXCEPT !.cursor = revision.seq, !.judged = @ + 1]
      BY <1>11
    <3> QED
      BY <1>5, <1>9, <3>1, JudgedOK
  <2>2. /\ DrainFields \subseteq DOMAIN drain' /\ drain'.left = drain.left \ {revision}
        /\ drain'.intents = <<>> /\ drain'.total = drain.total
    BY <1>3, <1>11 DEF DrainFields
  <2>3. \E S : drain'.intents \in Seq(S)
    <3>1. <<>> \in Seq({})
      OBVIOUS
    <3> QED
      BY <2>2, <3>1
  <2>4. DrainOK(drain', notices'.cursor, acts'.revisions)
    BY <1>1, <1>3, <1>6, <2>1, <2>2, <2>3 DEF DrainOK
  <2> QED
    BY <1>1, <1>10, <2>1, <2>4 DEF NoticesInv
<1>12. CASE /\ notices' = planned.plan
            /\ drain' = [drain EXCEPT !.intents = planned.intents, !.gap = @ \/ gap]
  <2>1. notices'.cursor = revision.seq - 1 /\ notices'.cursor < revision.seq
    <3>1. planned.plan.cursor \in Nat
      BY <1>9 DEF NoticesOK
    <3> QED
      BY <1>5, <1>9, <1>12, <3>1
  <2>2. /\ DrainFields \subseteq DOMAIN drain' /\ drain'.left = drain.left
        /\ drain'.intents = planned.intents /\ drain'.total = drain.total
    BY <1>3, <1>12 DEF DrainFields
  <2>3. \E S : drain'.intents \in Seq(S)
    BY <1>8, <2>2 DEF PlanOK
  <2>4. LeftOK(drain.left, notices'.cursor, drain.total)
    <3>1. \A b \in drain.left : revision.seq <= b.seq
      BY <1>1, <1>3, NextInFacts DEF revision
    <3>2. ASSUME NEW b \in drain.left PROVE b.seq \in Nat /\ notices'.cursor < b.seq /\ b.seq <= drain.total
      <4>1. b.seq \in Nat /\ b.seq <= drain.total
        BY <1>3 DEF LeftOK
      <4> QED
        BY <1>5, <2>1, <3>1, <4>1
    <3> QED
      BY <1>3, <3>2 DEF LeftOK
  <2>5. notices'.cursor = NextIn(drain'.left).seq - 1
    BY <2>1, <2>2 DEF revision
  <2>6. DrainOK(drain', notices'.cursor, acts'.revisions)
    BY <1>1, <1>3, <2>2, <2>3, <2>4, <2>5 DEF DrainOK
  <2>7. notices'.cursor <= acts.revisions /\ NoticesOK(notices')
    <3>1. notices'.cursor \in Nat
      BY <1>9, <1>12 DEF NoticesOK
    <3> QED
      BY <1>1, <1>5, <1>9, <1>10, <1>12, <2>1, <3>1
  <2> QED
    BY <1>1, <2>6, <2>7 DEF NoticesInv
<1> QED
  BY <1>2, <1>11, <1>12

LEMMA AnswerKeeps == ASSUME NoticesInv, Answer PROVE NoticesInv'
<1> DEFINE revision == NextIn(drain.left)
           last == Len(drain.intents) = 1
<1>1. /\ DrainOK(drain, notices.cursor, acts.revisions) /\ drain.intents # <<>> /\ acts' = acts
      /\ NoticesOK(notices) /\ acts.revisions \in Nat /\ notices.cursor <= acts.revisions
  BY DEF Answer, NoticesInv
<1>2. /\ drain' = [drain EXCEPT !.intents = Tail(@), !.left = IF last THEN @ \ {revision} ELSE @]
      /\ notices' = IF last THEN [notices EXCEPT !.cursor = revision.seq, !.judged = @ + 1] ELSE notices
  BY DEF Answer
<1>3. /\ DrainFields \subseteq DOMAIN drain /\ drain.total \in Nat /\ drain.total <= acts.revisions
      /\ LeftOK(drain.left, notices.cursor, drain.total)
      /\ drain.left # {} /\ notices.cursor = revision.seq - 1
  BY <1>1 DEF DrainOK
<1>4. revision \in drain.left
  BY <1>3, NextInFacts
<1>5. /\ revision.seq \in Nat /\ revision.seq <= drain.total /\ notices.cursor \in Nat
  BY <1>1, <1>3, <1>4 DEF LeftOK, NoticesOK
<1>6. LeftOK(drain.left \ {revision}, revision.seq, drain.total)
  BY <1>3, <1>5, NextGoes
<1>7. PICK S : drain.intents \in Seq(S)
  BY <1>1 DEF DrainOK
<1>8. Tail(drain.intents) \in Seq(S) /\ (last => Tail(drain.intents) = <<>>)
  <2>1. Tail(drain.intents) \in Seq(S) /\ Len(Tail(drain.intents)) = Len(drain.intents) - 1
    BY <1>1, <1>7, HeadTailProperties
  <2> DEFINE rest == Tail(drain.intents)
  <2> HIDE DEF rest
  <2>2. ASSUME last PROVE rest = <<>>
    <3>1. rest \in Seq(S) /\ Len(rest) = 0
      BY <2>1, <2>2 DEF rest
    <3> QED
      BY <3>1, EmptySeq
  <2> QED
    BY <2>1, <2>2 DEF rest
<1> HIDE DEF revision
<1>9. CASE last
  <2>1. /\ DrainFields \subseteq DOMAIN drain' /\ drain'.left = drain.left \ {revision}
        /\ drain'.intents = <<>> /\ drain'.total = drain.total
    <3>1. /\ DrainFields \subseteq DOMAIN drain' /\ drain'.left = drain.left \ {revision}
          /\ drain'.intents = Tail(drain.intents) /\ drain'.total = drain.total
      BY <1>2, <1>3, <1>9 DEF DrainFields
    <3> QED
      BY <1>8, <1>9, <3>1
  <2>2. NoticesOK(notices') /\ notices'.cursor = revision.seq
    <3>1. notices.cursor + 1 \in Nat /\ revision.seq = notices.cursor + 1
      BY <1>3, <1>5
    <3>2. notices' = [notices EXCEPT !.cursor = revision.seq, !.judged = @ + 1]
      BY <1>2, <1>9
    <3> HIDE DEF last
    <3> QED
      BY <1>1, <3>1, <3>2, JudgedOK
  <2>3. \E T : drain'.intents \in Seq(T)
    <3>1. <<>> \in Seq({})
      OBVIOUS
    <3> QED
      BY <2>1, <3>1
  <2>4. DrainOK(drain', notices'.cursor, acts'.revisions)
    BY <1>1, <1>3, <1>6, <2>1, <2>2, <2>3 DEF DrainOK
  <2>5. revision.seq <= acts.revisions
    BY <1>1, <1>3, <1>5
  <2> QED
    BY <1>1, <2>2, <2>4, <2>5 DEF NoticesInv
<1>10. CASE ~last
  <2>1. /\ DrainFields \subseteq DOMAIN drain' /\ drain'.left = drain.left
        /\ drain'.intents = Tail(drain.intents) /\ drain'.total = drain.total /\ notices' = notices
    BY <1>2, <1>3, <1>10 DEF DrainFields
  <2>2. DrainOK(drain', notices'.cursor, acts'.revisions)
    BY <1>1, <1>3, <1>8, <2>1 DEF DrainOK, revision
  <2> QED
    BY <1>1, <2>1, <2>2 DEF NoticesInv
<1> QED
  BY <1>9, <1>10

LEMMA FinishKeeps == ASSUME NoticesInv, Finish PROVE NoticesInv'
<1>1. /\ DrainOK(drain, notices.cursor, acts.revisions) /\ acts' = acts
      /\ NoticesOK(notices) /\ acts.revisions \in Nat /\ notices.cursor <= acts.revisions
      /\ notices' \in {notices, EndPass(notices, drain.total, drain.gap)}
      /\ drain' \in {NoWork, None}
  BY DEF Finish, NoticesInv
<1>2. drain.total \in Nat /\ drain.total <= acts.revisions
  BY <1>1 DEF DrainOK
<1>3. NoticesOK(notices') /\ notices'.cursor <= acts.revisions
  BY <1>1, <1>2, EndPassFacts
<1>4. drain' # None => DrainOK(drain', notices'.cursor, acts'.revisions)
  BY <1>1, NoWorkOK
<1> QED
  BY <1>1, <1>3, <1>4 DEF NoticesInv

(* A snapshot is taken: what is unread of it lies after the cursor.        *)
LEMMA SnapshotKeeps ==
    ASSUME NoticesInv, Compose, ActsOK(acts'), acts'.revisions >= acts.revisions
    PROVE  NoticesInv'
<1> DEFINE snapshot == [NoWork EXCEPT !.fresh = FALSE, !.total = acts'.revisions,
                                      !.left = Unread(notices, acts'.activities)]
<1>1. /\ NoticesOK(notices) /\ notices.cursor <= acts.revisions /\ acts.revisions \in Nat /\ notices' = notices
      /\ drain' \in {NoWork, snapshot}
  BY DEF Compose, NoticesInv
<1>2. /\ acts'.revisions \in Nat
      /\ \A a \in acts'.activities : a.seq \in 1 .. acts'.revisions
      /\ \A a, b \in acts'.activities : a.seq = b.seq => a = b
  BY DEF ActsOK, RevisionsOK
<1>3. notices.cursor <= acts'.revisions
  <2>1. notices.cursor \in Nat
    BY <1>1 DEF NoticesOK
  <2> QED
    BY <1>1, <1>2, <2>1
<1>4. LeftOK(Unread(notices, acts'.activities), notices.cursor, acts'.revisions)
  <2>1. notices.cursor \in Nat
    BY <1>1 DEF NoticesOK
  <2>2. ASSUME NEW a \in Unread(notices, acts'.activities)
        PROVE  a.seq \in Nat /\ notices.cursor < a.seq /\ a.seq <= acts'.revisions
    <3>1. a.seq \in 1 .. acts'.revisions /\ a.seq > notices.cursor
      BY <1>2 DEF Unread
    <3> QED
      BY <1>2, <2>1, <3>1
  <2> QED
    BY <1>2, <2>2 DEF LeftOK, Unread
<1>5. /\ DrainFields \subseteq DOMAIN snapshot /\ snapshot.total = acts'.revisions
      /\ snapshot.left = Unread(notices, acts'.activities) /\ snapshot.intents = <<>>
  BY DEF NoWork, DrainFields
<1> HIDE DEF snapshot
<1>6. DrainOK(snapshot, notices.cursor, acts'.revisions)
  <2>1. <<>> \in Seq({})
    OBVIOUS
  <2>2. \E S : snapshot.intents \in Seq(S)
    BY <1>5, <2>1
  <2> QED
    BY <1>2, <1>4, <1>5, <2>2 DEF DrainOK
<1> QED
  BY <1>1, <1>2, <1>3, <1>6, NoWorkOK DEF NoticesInv

-----------------------------------------------------------------------------
(* ACCOUNTING *)

ObservationInv == StreamInv /\ ActsInv /\ NoticesInv

LEMMA ObservationInit == Init => ObservationInv
<1> SUFFICES ASSUME Init PROVE ObservationInv
  OBVIOUS
<1> DEFINE supervised == [phase |-> "normal", authority |-> "normal", generation |-> 1, exhausted |-> FALSE]
<1>1. /\ rec = [NoRecord EXCEPT !.supervision = supervised]
      /\ stream = [retained |-> <<>>, total |-> 0] /\ drain = None
      /\ acts = NoActivities /\ notices = NoNotices
  BY DEF Init
<1> HIDE DEF supervised
<1>2. /\ RecFields \subseteq DOMAIN rec /\ rec.ids = 0 /\ rec.incident = None /\ rec.campaign = None
      /\ rec.episode = None /\ rec.out = <<>>
  BY <1>1 DEF NoRecord, RecFields
<1>3. StreamInv
  <2>1. Recorded(rec, rec.incident)
    BY <1>2, NothingToRecord DEF Recorded, NoAnomaly
  <2>2. stream.retained = <<>> /\ stream.total = 0 /\ {"retained", "total"} \subseteq DOMAIN stream
    BY <1>1
  <2>3. <<>> \in Seq({}) /\ Len(<<>>) = 0 /\ DOMAIN <<>> = {}
    OBVIOUS
  <2>4. StreamOK(stream, rec.incident)
    BY <2>2, <2>3 DEF StreamOK
  <2> QED
    BY <1>2, <2>1, <2>4 DEF StreamInv
<1>4. /\ ActsFields \subseteq DOMAIN acts /\ acts.cursor = 0 /\ acts.missed = 0 /\ acts.composed = 0
      /\ acts.activities = {} /\ acts.revisions = 0
  BY <1>1 DEF NoActivities, ActsFields
<1>5. ActsInv
  <2>1. ActsOK(acts)
    BY <1>4 DEF ActsOK, RevisionsOK
  <2>2. Fresh(acts, stream, rec.incident)
    BY <1>4 DEF Fresh, Current, OpenOK, Notices
  <2> QED
    BY <1>1, <1>4, <2>1, <2>2 DEF ActsInv
<1>6. NoticesInv
  <2>1. NoticeFields \subseteq DOMAIN notices /\ notices.cursor = 0 /\ notices.missed = 0 /\ notices.judged = 0
    BY <1>1 DEF NoNotices, NoticeFields
  <2> QED
    BY <1>1, <1>4, <2>1 DEF NoticesInv, NoticesOK
<1> QED
  BY <1>3, <1>5, <1>6 DEF ObservationInv

LEMMA ObservationStep == ObservationInv /\ [Next]_vars => ObservationInv'
<1> SUFFICES ASSUME ObservationInv, [Next]_vars PROVE ObservationInv'
  OBVIOUS
<1>1. StreamInv /\ ActsInv /\ NoticesInv
  BY DEF ObservationInv
<1>2. ASSUME rec' = rec, UNCHANGED <<stream, acts, stumbles>> PROVE StreamInv' /\ ActsInv'
  BY <1>1, <1>2 DEF StreamInv, ActsInv
<1>3. ASSUME UNCHANGED <<acts, notices>>, drain' \in {drain, NoWork, None} PROVE NoticesInv'
  <2>1. acts.revisions \in Nat
    BY <1>1 DEF NoticesInv
  <2>2. DrainOK(NoWork, notices.cursor, acts.revisions)
    BY <2>1, NoWorkOK
  <2> QED
    BY <1>1, <1>3, <2>2 DEF NoticesInv
<1>4. ASSUME NEW out, OutOK(out, rec.incident, rec'.incident), Emitted(out), rec' = rec PROVE StreamInv' /\ ActsInv'
  <2>1. StreamOK(stream', rec'.incident) /\ ActsInv'
    BY <1>1, <1>4, EmittedKeeps
  <2> QED
    BY <1>1, <1>4, <2>1 DEF StreamInv
<1>5. CASE Tick
  BY <1>2, <1>3, <1>5 DEF Tick, told, marks, ObservationInv
<1>6. CASE Operation
  <2>1. PICK r, p : Recorded(r, rec.incident) /\ Finishes(r, p)
    BY <1>1, <1>6, OperationRecords
  <2>2. StreamInv' /\ ActsInv'
    BY <1>1, <2>1, FinishesKeeps
  <2>3. NoticesInv'
    BY <1>3, <2>1 DEF Finishes, told
  <2> QED
    BY <2>2, <2>3 DEF ObservationInv
<1>7. CASE Return
  BY <1>2, <1>3, <1>7 DEF Return, runtime, told, ObservationInv
<1>8. CASE Compose
  <2>1. ActsInv' /\ ActsOK(acts') /\ acts'.revisions >= acts.revisions
    BY <1>1, <1>8, ComposeKeeps
  <2>2. NoticesInv'
    BY <1>1, <1>8, <2>1, SnapshotKeeps
  <2>3. StreamInv'
    BY <1>1, <1>8 DEF Compose, runtime, StreamInv
  <2> QED
    BY <2>1, <2>2, <2>3 DEF ObservationInv
<1>9. CASE Judge
  <2>1. NoticesInv'
    BY <1>1, <1>9, JudgeKeeps
  <2> QED
    BY <1>2, <1>9, <2>1 DEF Judge, runtime, marks, ObservationInv
<1>10. CASE Answer
  <2>1. NoticesInv'
    BY <1>1, <1>10, AnswerKeeps
  <2> QED
    BY <1>2, <1>10, <2>1 DEF Answer, runtime, marks, ObservationInv
<1>11. CASE Finish
  <2>1. NoticesInv'
    BY <1>1, <1>11, FinishKeeps
  <2> QED
    BY <1>2, <1>11, <2>1 DEF Finish, runtime, marks, ObservationInv
<1>12. CASE Stop
  <2>1. PICK out : OutOK(out, rec.incident, rec'.incident) /\ Emitted(out) /\ rec' = rec
    BY <1>1, <1>12, StopEmits
  <2>2. StreamInv' /\ ActsInv'
    BY <1>4, <2>1
  <2>3. NoticesInv'
    BY <1>3, <1>12 DEF Stop, told
  <2> QED
    BY <2>2, <2>3 DEF ObservationInv
<1>13. CASE Assess
  <2>1. PICK out : OutOK(out, rec.incident, rec'.incident) /\ Emitted(out) /\ rec' = rec
    BY <1>1, <1>13, AssessEmits
  <2>2. StreamInv' /\ ActsInv'
    BY <1>4, <2>1
  <2>3. NoticesInv'
    BY <1>3, <1>13 DEF Assess, told
  <2> QED
    BY <2>2, <2>3 DEF ObservationInv
<1>14. CASE AssessEnds
  BY <1>2, <1>3, <1>14 DEF AssessEnds, runtime, told, marks, ObservationInv
<1>15. CASE UNCHANGED vars
  BY <1>2, <1>3, <1>15 DEF vars, runtime, told, marks, ObservationInv
<1> QED
  BY <1>5, <1>6, <1>7, <1>8, <1>9, <1>10, <1>11, <1>12, <1>13, <1>14, <1>15 DEF Next, Drain

LEMMA ObservationInvHolds == Spec => []ObservationInv
  BY ObservationInit, ObservationStep, PTL DEF Spec

(* Every event before the composer's cursor and every revision before the  *)
(* processor's was read or counted as missed, once: the gap a bounded      *)
(* buffer leaves is exactly what was pushed out of it, and a snapshot that *)
(* grows old while its intents are answered is never read twice            *)
(* (process_available, async_process_new_events).                          *)
THEOREM AccountingIsAlwaysExact == Spec => []AccountingIsExact
<1>1. ObservationInv => AccountingIsExact
  BY DEF ObservationInv, ActsInv, ActsOK, NoticesInv, NoticesOK, AccountingIsExact
<1> QED
  BY <1>1, ObservationInvHolds, PTL

(* A composer that read everything shows no lost measurement but the one   *)
(* that lasts: a loss and its recovery leave the stream in their order, so *)
(* what is pushed out unread takes the notices it could have closed along  *)
(* (process_available, UserActivityStream.discard_correlations).           *)
THEOREM OpenNoticesAreCurrent == Spec => []OpenNoticeIsCurrent
<1>1. ObservationInv => OpenNoticeIsCurrent
  <2> SUFFICES ASSUME ObservationInv, acts.cursor = stream.total, ~stumbles,
                      NEW a \in acts.activities, a.type = "measurement_degraded", a.status = "open"
               PROVE  a.of = rec.incident
    BY DEF OpenNoticeIsCurrent
  <2>1. Fresh(acts, stream, rec.incident) /\ StreamOK(stream, rec.incident) /\ a \in Notices(acts)
    BY DEF ObservationInv, ActsInv, StreamInv, Notices
  <2>2. PICK S : stream.retained \in Seq(S)
    BY <2>1 DEF StreamOK
  <2>3. /\ stream.total \in Nat /\ Len(stream.retained) \in Nat
        /\ DOMAIN stream.retained = 1 .. Len(stream.retained)
    BY <2>1, <2>2 DEF StreamOK
  <2>4. ~(acts.cursor + 1 < First(stream))
    <3>1. First(stream) = stream.total - Len(stream.retained) + 1
      BY DEF First
    <3> QED
      BY <2>3, <3>1
  <2>5. ~Closes(stream, acts.cursor, a.of)
    <3> SUFFICES ASSUME NEW j \in 1 .. Len(stream.retained), First(stream) + j - 1 > acts.cursor PROVE FALSE
      BY <2>3 DEF Closes
    <3>1. First(stream) = stream.total - Len(stream.retained) + 1
      BY DEF First
    <3> QED
      BY <2>3, <3>1
  <2> QED
    BY <2>1, <2>4, <2>5 DEF Fresh, Current
<1> QED
  BY <1>1, ObservationInvHolds, PTL

-----------------------------------------------------------------------------
(* THE OBSERVER AND THE MONITOR *)

Last(episode) == episode.samples[Len(episode.samples)].at
PerfFields == {"episode", "pending", "problem", "recoveries", "counted", "anomaly"}

(* An episode is known up to its last sample.                              *)
EpisodeOK(episode) == episode \in Episodes /\ episode.samples # <<>> /\ Last(episode) \in Int

(* The latest snapshot is that of the episode that is observed, or of one  *)
(* that ended; the anomaly is of the last snapshot that was assessed.      *)
PerfOK(p) ==
    /\ PerfFields \subseteq DOMAIN p
    /\ p.episode # None => EpisodeOK(p.episode)
    /\ p.pending # None => EpisodeOK(p.pending) /\ p.episode = (IF p.pending.active THEN p.pending ELSE None)
    /\ (p.pending = None /\ p.anomaly # None) => p.episode # None /\ p.episode.started = p.anomaly

(* The normal assessments in a row are of the problem's episode, in their  *)
(* order, and the one counted last is the latest.                          *)
StreakOK(p, row) ==
    /\ IsFiniteSet(row)
    /\ row \subseteq Int \X Int
    /\ p.recoveries \in Nat
    /\ p.problem # None =>
          /\ \A id \in row : id[1] = p.problem[1]
          /\ p.recoveries <= Cardinality(row)
          /\ row # {} => p.counted \in row /\ \A id \in row : id[2] <= p.counted[2]

(* Nothing was assessed after the last sample, no sample lies ahead.       *)
TimesOK(p, row, time) ==
    /\ \A id \in row : id[2] <= time
    /\ \A episode \in {p.episode, p.pending} \ {None} :
          /\ Last(episode) <= time
          /\ \A id \in row : id[2] <= Last(episode)

WatchInv ==
    /\ now \in Int
    /\ source # None => source.at \in Int
    /\ reading \in Maybe([value : Int, at : Int])
    /\ PerfOK(perf)
    /\ StreakOK(perf, streak)
    /\ TimesOK(perf, streak, now)

LEMMA LaterFacts ==
    ASSUME NEW samples \in Seq(Samples), NEW sample \in Samples
    PROVE  LET t == Later(samples, sample) IN t \in Seq(Samples) /\ t # <<>> /\ t[Len(t)] = sample
<1> DEFINE all == Append(samples, sample)
<1>1. /\ all \in Seq(Samples) /\ Len(all) = Len(samples) + 1 /\ Len(samples) \in Nat
      /\ all[Len(samples) + 1] = sample /\ all # <<>>
  OBVIOUS
<1>2. MaxSamples \in Nat \ {0}
  BY PerformanceCriteria
<1>3. Later(samples, sample) = IF Len(all) > MaxSamples THEN Tail(all) ELSE all
  BY DEF Later
<1> HIDE DEF all
<1>4. CASE Len(all) > MaxSamples
  <2> DEFINE t == Tail(all)
  <2>1. /\ t \in Seq(Samples) /\ Len(t) = Len(all) - 1
        /\ \A i \in 1 .. Len(t) : t[i] = all[i + 1]
    BY <1>1, HeadTailProperties
  <2> HIDE DEF t
  <2>2. Len(t) = Len(samples) /\ Len(t) \in 1 .. Len(t)
    BY <1>1, <1>2, <1>4, <2>1
  <2>3. t # <<>>
    BY <2>1, <2>2
  <2>4. t[Len(t)] = sample
    BY <1>1, <2>1, <2>2
  <2> QED
    BY <1>3, <1>4, <2>1, <2>3, <2>4 DEF t
<1>5. CASE ~(Len(all) > MaxSamples)
  BY <1>1, <1>3, <1>5
<1> QED
  BY <1>4, <1>5

(* What the observer makes of an evaluation.                               *)
LEMMA ObserveFacts ==
    ASSUME NEW p, PerfOK(p), NEW demand, NEW sample \in Samples
    PROVE  LET t == Observe(p, demand, sample) IN
           \/ t = p
           \/ /\ PerfOK(t) /\ t.pending # None /\ Last(t.pending) = sample.at
              /\ t.problem = p.problem /\ t.recoveries = p.recoveries /\ t.counted = p.counted
<1> DEFINE known == p.episode
           begun == [started |-> sample.at, active |-> TRUE, truncated |-> FALSE, samples |-> <<sample>>]
           heard == Later(known.samples, sample)
           cut == known.truncated \/ Len(known.samples) = MaxSamples
           updated == [known EXCEPT !.samples = heard, !.truncated = cut, !.active = demand = "heat"]
           shown == IF known = None THEN begun ELSE updated
           t == [p EXCEPT !.episode = IF shown.active THEN shown ELSE None, !.pending = shown]
<1>1. PerfFields \subseteq DOMAIN p /\ (known # None => EpisodeOK(known))
  BY DEF PerfOK
<1>2. Observe(p, demand, sample) \in {p, t}
  <2>1. known # None => updated = [known EXCEPT !.samples = Later(@, sample),
                                 !.truncated = @ \/ Len(known.samples) = MaxSamples,
                                 !.active = demand = "heat"]
    <3> SUFFICES ASSUME known # None PROVE updated = [known EXCEPT !.samples = Later(@, sample),
                                 !.truncated = @ \/ Len(known.samples) = MaxSamples,
                                 !.active = demand = "heat"]
      OBVIOUS
    <3>1. {"started", "active", "truncated", "samples"} \subseteq DOMAIN known
      BY <1>1 DEF EpisodeOK, Episodes
    <3> QED
      BY <3>1
  <2> HIDE DEF updated
  <2> QED
    BY <2>1 DEF Observe
<1>3. sample.at \in Int
  BY DEF Samples
<1>4. CASE known = None
  <2>1. shown = begun
    BY <1>4
  <2>2. /\ begun \in Episodes /\ begun.samples = <<sample>> /\ begun.active = TRUE
    <3>1. <<sample>> \in Seq(Samples)
      OBVIOUS
    <3> QED
      BY <1>3, <3>1 DEF Episodes
  <2>3. <<sample>> # <<>> /\ Len(<<sample>>) = 1 /\ <<sample>>[1] = sample
    OBVIOUS
  <2>4. Last(begun) = sample.at
    <3> HIDE DEF begun
    <3> QED
      BY <2>2, <2>3 DEF Last
  <2>5. EpisodeOK(begun)
    <3> HIDE DEF begun
    <3> QED
      BY <1>3, <2>2, <2>3, <2>4 DEF EpisodeOK
  <2> HIDE DEF begun
  <2>6. /\ PerfFields \subseteq DOMAIN t /\ t.pending = begun /\ t.episode = begun /\ t.anomaly = p.anomaly
        /\ t.problem = p.problem /\ t.recoveries = p.recoveries /\ t.counted = p.counted
    BY <1>1, <2>1, <2>2 DEF PerfFields
  <2>7. t.pending # None
    BY <2>2, <2>6, NoneIsNoEpisode
  <2> HIDE DEF t, shown
  <2>8. PerfOK(t)
    BY <2>2, <2>5, <2>6, <2>7 DEF PerfOK
  <2> QED
    BY <1>2, <2>4, <2>6, <2>7, <2>8
<1>5. CASE known # None
  <2>1. shown = updated /\ EpisodeOK(known)
    BY <1>1, <1>5
  <2>2. known \in [started : Int, active : BOOLEAN, truncated : BOOLEAN, samples : Seq(Samples)]
    BY <2>1 DEF EpisodeOK, Episodes
  <2>3. heard \in Seq(Samples) /\ heard # <<>> /\ heard[Len(heard)] = sample
    <3>1. known.samples \in Seq(Samples)
      BY <2>2
    <3> QED
      BY <3>1, LaterFacts
  <2>4. cut \in BOOLEAN /\ (demand = "heat") \in BOOLEAN
    BY <2>2
  <2> HIDE DEF heard, cut
  <2>5. /\ updated \in [started : Int, active : BOOLEAN, truncated : BOOLEAN, samples : Seq(Samples)]
        /\ updated.samples = heard
    BY <2>2, <2>3, <2>4
  <2> HIDE DEF updated
  <2>6. Last(updated) = sample.at
    BY <2>3, <2>5 DEF Last
  <2>7. EpisodeOK(updated) /\ updated # None
    BY <1>3, <2>3, <2>5, <2>6, NoneIsNoEpisode DEF EpisodeOK, Episodes
  <2>8. /\ PerfFields \subseteq DOMAIN t /\ t.pending = updated /\ t.anomaly = p.anomaly
        /\ t.episode = (IF updated.active THEN updated ELSE None)
        /\ t.problem = p.problem /\ t.recoveries = p.recoveries /\ t.counted = p.counted
    BY <1>1, <2>1 DEF PerfFields
  <2> HIDE DEF t, shown
  <2>9. PerfOK(t)
    BY <2>7, <2>8 DEF PerfOK
  <2> QED
    BY <1>2, <2>6, <2>7, <2>8, <2>9
<1> QED
  BY <1>4, <1>5

LEMMA ObserveKeeps ==
    ASSUME NEW p, PerfOK(p), NEW row, StreakOK(p, row), now \in Int, TimesOK(p, row, now), NEW demand,
           NEW sample \in Samples, sample.at = now
    PROVE  LET t == Observe(p, demand, sample) IN PerfOK(t) /\ StreakOK(t, row) /\ TimesOK(t, row, now)
<1> DEFINE t == Observe(p, demand, sample)
<1>1. \/ t = p
      \/ /\ PerfOK(t) /\ t.pending # None /\ Last(t.pending) = now
         /\ t.problem = p.problem /\ t.recoveries = p.recoveries /\ t.counted = p.counted
  BY ObserveFacts
<1> HIDE DEF t
<1>2. CASE t = p
  BY <1>2 DEF t
<1>3. CASE /\ PerfOK(t) /\ t.pending # None /\ Last(t.pending) = now
           /\ t.problem = p.problem /\ t.recoveries = p.recoveries /\ t.counted = p.counted
  <2>1. StreakOK(t, row)
    BY <1>3 DEF StreakOK
  <2>2. t.episode \in {t.pending, None}
    BY <1>3 DEF PerfOK
  <2>3. TimesOK(t, row, now)
    BY <1>3, <2>2 DEF TimesOK
  <2> QED
    BY <1>3, <2>1, <2>3 DEF t
<1> QED
  BY <1>1, <1>2, <1>3

LEMMA TerminateKeeps ==
    ASSUME NEW p, PerfOK(p), NEW row, StreakOK(p, row), TimesOK(p, row, now)
    PROVE  LET t == Terminate(p) IN PerfOK(t) /\ StreakOK(t, row) /\ TimesOK(t, row, now)
<1> DEFINE ended == [p.episode EXCEPT !.active = FALSE]
           t == [p EXCEPT !.episode = None, !.pending = ended]
<1>1. CASE p.episode = None
  BY <1>1 DEF Terminate
<1>2. CASE p.episode # None
  <2>1. Terminate(p) = t
    BY <1>2 DEF Terminate
  <2>2. PerfFields \subseteq DOMAIN p /\ EpisodeOK(p.episode)
    BY <1>2 DEF PerfOK
  <2>3. /\ ended \in [started : Int, active : BOOLEAN, truncated : BOOLEAN, samples : Seq(Samples)]
        /\ ended.samples = p.episode.samples /\ ended.active = FALSE
    BY <2>2 DEF EpisodeOK, Episodes
  <2> HIDE DEF ended
  <2>4. EpisodeOK(ended) /\ ended # None /\ Last(ended) = Last(p.episode)
    BY <2>2, <2>3, NoneIsNoEpisode DEF EpisodeOK, Episodes, Last
  <2>5. /\ PerfFields \subseteq DOMAIN t /\ t.pending = ended /\ t.episode = None
        /\ t.problem = p.problem /\ t.recoveries = p.recoveries /\ t.counted = p.counted
    BY <2>2 DEF PerfFields
  <2> HIDE DEF t
  <2>6. PerfOK(t)
    BY <2>3, <2>4, <2>5 DEF PerfOK
  <2>7. StreakOK(t, row)
    BY <2>5 DEF StreakOK
  <2>8. TimesOK(t, row, now)
    BY <1>2, <2>4, <2>5 DEF TimesOK
  <2> QED
    BY <2>1, <2>6, <2>7, <2>8
<1> QED
  BY <1>1, <1>2

-----------------------------------------------------------------------------
(* ONE ASSESSMENT *)

Raws == {"insufficient_evidence", "normal", "anomalous", "degraded"}
LEMMA ProgressIsRaw == ASSUME NEW episode PROVE Progress(episode) \in Raws
  BY DEF Progress, Raws

(* The normal assessments in a row after one more.                         *)
NextRow(row, id, raw) == IF raw # "normal" THEN {} ELSE {x \in row : x[1] = id[1]} \cup {id}

LEMMA NextRowFacts ==
    ASSUME NEW row, IsFiniteSet(row), row \subseteq Int \X Int, NEW id \in Int \X Int, NEW raw
    PROVE  IsFiniteSet(NextRow(row, id, raw)) /\ NextRow(row, id, raw) \subseteq Int \X Int
           /\ Cardinality(NextRow(row, id, raw)) \in Nat
<1>1. CASE raw # "normal"
  BY <1>1, FS_EmptySet DEF NextRow
<1>2. CASE raw = "normal"
  <2> DEFINE same == {x \in row : x[1] = id[1]}
  <2>1. IsFiniteSet(same)
    BY FS_Subset
  <2>2. IsFiniteSet(same \cup {id})
    <3> HIDE DEF same
    <3> QED
      BY <2>1, FS_AddElement
  <2>3. Cardinality(same \cup {id}) \in Nat
    BY <2>2, FS_CardinalityType
  <2> QED
    BY <1>2, <2>2, <2>3 DEF NextRow
<1> QED
  BY <1>1, <1>2

(* A problem is declared over by enough distinct normal assessments.       *)
LEMMA RecoveryCounts ==
    ASSUME NEW p, PerfFields \subseteq DOMAIN p, NEW row, StreakOK(p, row), NEW id \in Int \X Int,
           \A x \in row : x[2] <= id[2], NEW raw \in Raws
    PROVE  LET q == ApplyRecovery(p, id, raw)
               next == NextRow(row, id, raw)
           IN  /\ StreakOK(q, next) /\ PerfFields \subseteq DOMAIN q
               /\ q.episode = p.episode /\ q.pending = p.pending /\ q.anomaly = p.anomaly
               /\ (raw = "normal" /\ OfEpisode(p, id[1]).problem # None /\ q.problem = None)
                     => Cardinality(next) >= Confirmations
<1> DEFINE o == OfEpisode(p, id[1])
           count == IF o.counted = id THEN o.recoveries ELSE o.recoveries + 1
           next == NextRow(row, id, raw)
           q == ApplyRecovery(p, id, raw)
           bad == [o EXCEPT !.problem = <<id[1], raw>>, !.recoveries = 0, !.counted = None]
           unsure == [o EXCEPT !.recoveries = 0, !.counted = None]
           fine == [o EXCEPT !.recoveries = 0]
           better == [o EXCEPT !.recoveries = count, !.counted = id]
           over == [o EXCEPT !.problem = None, !.recoveries = 0, !.counted = None]
<1>1. q = IF raw \in {"degraded", "anomalous"} THEN bad
          ELSE IF raw = "insufficient_evidence" THEN unsure
          ELSE IF o.problem = None THEN fine
          ELSE IF count < Confirmations THEN better ELSE over
  BY DEF ApplyRecovery
<1>2. /\ IsFiniteSet(row) /\ row \subseteq Int \X Int /\ p.recoveries \in Nat
  BY DEF StreakOK
<1>3. IsFiniteSet(next) /\ next \subseteq Int \X Int /\ Cardinality(next) \in Nat
  BY <1>2, NextRowFacts
<1>4. Cardinality({}) = 0 /\ (raw # "normal" => next = {})
  BY FS_EmptySet DEF NextRow
<1>5. /\ PerfFields \subseteq DOMAIN o /\ o.recoveries \in Nat
      /\ o.episode = p.episode /\ o.pending = p.pending /\ o.anomaly = p.anomaly
      /\ o.problem # None => o = p /\ p.problem[1] = id[1]
  <2> DEFINE dropped == [p EXCEPT !.problem = None, !.recoveries = 0, !.counted = None]
  <2>1. o = IF p.problem # None /\ p.problem[1] # id[1] THEN dropped ELSE p
    BY DEF OfEpisode
  <2>2. /\ PerfFields \subseteq DOMAIN dropped /\ dropped.recoveries = 0 /\ dropped.problem = None
        /\ dropped.episode = p.episode /\ dropped.pending = p.pending /\ dropped.anomaly = p.anomaly
    BY DEF PerfFields
  <2> HIDE DEF o, dropped
  <2> QED
    BY <1>2, <2>1, <2>2
<1> HIDE DEF o, next, q
<1>6. /\ PerfFields \subseteq DOMAIN bad /\ bad.recoveries = 0
      /\ bad.episode = o.episode /\ bad.pending = o.pending /\ bad.anomaly = o.anomaly
  BY <1>5 DEF PerfFields
<1>7. /\ PerfFields \subseteq DOMAIN unsure /\ unsure.recoveries = 0 /\ unsure.problem = o.problem
      /\ unsure.episode = o.episode /\ unsure.pending = o.pending /\ unsure.anomaly = o.anomaly
  BY <1>5 DEF PerfFields
<1>8. /\ PerfFields \subseteq DOMAIN fine /\ fine.recoveries = 0 /\ fine.problem = o.problem
      /\ fine.episode = o.episode /\ fine.pending = o.pending /\ fine.anomaly = o.anomaly
  BY <1>5 DEF PerfFields
<1>9. /\ PerfFields \subseteq DOMAIN over /\ over.recoveries = 0 /\ over.problem = None
      /\ over.episode = o.episode /\ over.pending = o.pending /\ over.anomaly = o.anomaly
  BY <1>5 DEF PerfFields
<1> HIDE DEF count
<1>10. /\ PerfFields \subseteq DOMAIN better /\ better.recoveries = count /\ better.counted = id
       /\ better.problem = o.problem
       /\ better.episode = o.episode /\ better.pending = o.pending /\ better.anomaly = o.anomaly
  BY <1>5 DEF PerfFields
<1> HIDE DEF bad, unsure, fine, over, better
<1>11. CASE raw \in {"degraded", "anomalous"}
  <2>1. q = bad /\ raw # "normal" /\ next = {}
    BY <1>1, <1>4, <1>11
  <2>2. StreakOK(q, next)
    BY <1>3, <1>4, <1>6, <2>1 DEF StreakOK
  <2> QED
    BY <1>5, <1>6, <2>1, <2>2 DEF q, next, o
<1>12. CASE raw = "insufficient_evidence"
  <2>1. q = unsure /\ raw # "normal" /\ next = {}
    BY <1>1, <1>4, <1>12
  <2>2. StreakOK(q, next)
    BY <1>3, <1>4, <1>7, <2>1 DEF StreakOK
  <2> QED
    BY <1>5, <1>7, <2>1, <2>2 DEF q, next, o
<1>13. CASE raw = "normal" /\ o.problem = None
  <2>1. q = fine
    BY <1>1, <1>13
  <2>2. StreakOK(q, next)
    BY <1>3, <1>8, <1>13, <2>1 DEF StreakOK
  <2> QED
    BY <1>5, <1>8, <1>13, <2>1, <2>2 DEF q, next, o
<1>14. CASE raw = "normal" /\ o.problem # None
  <2>1. /\ o = p /\ p.problem # None /\ p.problem[1] = id[1]
        /\ \A x \in row : x[1] = id[1]
        /\ p.recoveries <= Cardinality(row)
        /\ row # {} => p.counted \in row /\ \A x \in row : x[2] <= p.counted[2]
    BY <1>5, <1>14 DEF StreakOK
  <2>2. next = row \cup {id}
    <3>1. {x \in row : x[1] = id[1]} = row
      BY <2>1
    <3> QED
      BY <1>14, <3>1 DEF NextRow, next
  <2>3. Cardinality(next) = IF id \in row THEN Cardinality(row) ELSE Cardinality(row) + 1
    BY <1>2, <2>2, FS_AddElement
  <2>4. Cardinality(row) \in Nat
    BY <1>2, FS_CardinalityType
  <2>5. ASSUME id \in row PROVE o.counted = id
    <3>1. o.counted \in row /\ id[2] <= o.counted[2] /\ o.counted[2] <= id[2] /\ o.counted[1] = id[1]
      BY <2>1, <2>5
    <3>2. o.counted \in Int \X Int
      BY <1>2, <3>1
    <3> QED
      BY <3>1, <3>2
  <2>6. count \in Nat /\ count <= Cardinality(next)
    <3>1. o.recoveries \in Nat /\ o.recoveries <= Cardinality(row)
      BY <1>5, <2>1
    <3>2. count = IF o.counted = id THEN o.recoveries ELSE o.recoveries + 1
      BY DEF count
    <3>3. CASE id \in row
      BY <2>3, <2>4, <2>5, <3>1, <3>2, <3>3
    <3>4. CASE id \notin row
      <4>1. Cardinality(next) = Cardinality(row) + 1
        BY <2>3, <3>4
      <4>2. count = o.recoveries \/ count = o.recoveries + 1
        BY <3>2
      <4> QED
        BY <2>4, <3>1, <4>1, <4>2
    <3> QED
      BY <3>3, <3>4
  <2>7. CASE count < Confirmations
    <3>1. q = better
      BY <1>1, <1>14, <2>7
    <3>2. id \in next /\ \A x \in next : x[1] = id[1] /\ x[2] <= id[2]
      <4>1. id[2] \in Int
        OBVIOUS
      <4> QED
        BY <2>1, <2>2, <4>1
    <3>3. StreakOK(q, next)
      BY <1>3, <1>10, <2>1, <2>6, <3>1, <3>2 DEF StreakOK
    <3> QED
      BY <1>5, <1>10, <1>14, <3>1, <3>3 DEF q, next, o
  <2>8. CASE ~(count < Confirmations)
    <3>1. q = over
      BY <1>1, <1>14, <2>8
    <3>2. StreakOK(q, next)
      BY <1>3, <1>9, <3>1 DEF StreakOK
    <3>3. Confirmations \in Nat
      BY PerformanceCriteria
    <3>4. Cardinality(next) >= Confirmations
      BY <1>3, <2>6, <2>8, <3>3
    <3> QED
      BY <1>5, <1>9, <3>1, <3>2, <3>4 DEF q, next, o
  <2> QED
    BY <2>7, <2>8
<1> QED
  BY <1>11, <1>12, <1>13, <1>14 DEF Raws

(* A transition says "cleared" only of a recovery, and the anomaly that is *)
(* left is of the episode that was assessed.                               *)
LEMMA ObserveAnomalyFacts ==
    ASSUME NEW p, NEW id, NEW raw, NEW recovered, NEW active
    PROVE  LET seen == ObserveAnomaly(p, id, raw, recovered, active) IN
           /\ \A i \in DOMAIN seen.out : seen.out[i].lifecycle = "cleared" => recovered
           /\ seen.anomaly # None => active /\ seen.anomaly = id[1]
<1> DEFINE replaced == p.anomaly # None /\ p.anomaly # id[1]
           current == IF replaced THEN None ELSE p.anomaly
           over == current # None /\ (recovered \/ ~active)
           starts == current = None /\ active /\ raw = "anomalous"
           x == Anomaly(p.anomaly, "observation_ended", id[2])
           y == Anomaly(current, IF recovered THEN "cleared" ELSE "observation_ended", id[2])
           z == Anomaly(id[1], "started", id[2])
           first == IF replaced THEN <<x>> ELSE <<>>
           second == IF over THEN <<y>> ELSE IF starts THEN <<z>> ELSE <<>>
           seen == ObserveAnomaly(p, id, raw, recovered, active)
<1>1. /\ seen.out = first \o second
      /\ seen.anomaly = IF starts THEN id[1] ELSE IF over THEN None ELSE current
  BY DEF ObserveAnomaly
<1>2. x.lifecycle # "cleared" /\ z.lifecycle # "cleared" /\ (y.lifecycle = "cleared" => recovered)
  BY DEF Anomaly
<1>3. seen.anomaly # None => active /\ seen.anomaly = id[1]
  BY <1>1
<1> DEFINE T == {x, y, z}
<1>4. x \in T /\ y \in T /\ z \in T
  OBVIOUS
<1>5. \A u \in T : u.lifecycle = "cleared" => recovered
  BY <1>2
<1> HIDE DEF T, x, y, z, replaced, over, starts, seen
<1>6. first \o second \in Seq(T)
  <2>1. <<>> \in Seq(T) /\ <<x>> \in Seq(T) /\ <<y>> \in Seq(T) /\ <<z>> \in Seq(T)
    BY <1>4
  <2>2. first \in {<<>>, <<x>>} /\ second \in {<<>>, <<y>>, <<z>>}
    OBVIOUS
  <2> HIDE DEF first, second
  <2>3. first \in Seq(T) /\ second \in Seq(T)
    BY <2>1, <2>2
  <2> QED
    BY <2>3, ConcatProperties
<1> HIDE DEF first, second
<1>7. \A i \in DOMAIN seen.out : seen.out[i] \in T
  BY <1>1, <1>6
<1> QED
  BY <1>3, <1>5, <1>7 DEF seen

(* What an assessment leaves.                                              *)
LEMMA AssessKeeps ==
    ASSUME WatchInv, Assess
    PROVE  /\ WatchInv'
           /\ LET done == Assessed([perf EXCEPT !.pending = None], perf.pending) IN
              (\E i \in DOMAIN done.out : done.out[i].lifecycle = "cleared") => Cardinality(streak') >= Confirmations
<1> DEFINE episode == perf.pending
           p == [perf EXCEPT !.pending = None]
           id == <<episode.started, Last(episode)>>
           raw == Progress(episode)
           q == ApplyRecovery(p, id, raw)
           recovered == raw = "normal" /\ OfEpisode(p, id[1]).problem # None /\ q.problem = None
           seen == ObserveAnomaly(q, id, raw, recovered, episode.active)
           done == Assessed(p, episode)
           next == NextRow(streak, id, raw)
           t == [q EXCEPT !.anomaly = seen.anomaly]
<1>1. done.perf = t /\ done.out = seen.out /\ done.id = id /\ done.raw = raw
  BY DEF Assessed, Last
<1>2. episode # None /\ perf' = done.perf /\ now' = now /\ source' = source /\ reading' = reading
      /\ streak' = IF done.raw # "normal" THEN {} ELSE {x \in streak : x[1] = done.id[1]} \cup {done.id}
  BY DEF Assess, runtime
<1>3. /\ now \in Int /\ PerfOK(perf) /\ StreakOK(perf, streak) /\ TimesOK(perf, streak, now)
  BY DEF WatchInv
<1>4. /\ PerfFields \subseteq DOMAIN perf /\ EpisodeOK(episode)
      /\ perf.episode = (IF episode.active THEN episode ELSE None)
  BY <1>2, <1>3 DEF PerfOK
<1>5. id \in Int \X Int /\ id[1] = episode.started /\ id[2] = Last(episode)
  BY <1>4 DEF EpisodeOK, Episodes
<1>6. /\ PerfFields \subseteq DOMAIN p /\ p.pending = None /\ p.episode = perf.episode /\ p.anomaly = perf.anomaly
      /\ p.problem = perf.problem /\ p.recoveries = perf.recoveries /\ p.counted = perf.counted
  BY <1>4 DEF PerfFields
<1>7. Last(episode) <= now /\ \A x \in streak : x[2] <= Last(episode)
  BY <1>2, <1>3 DEF TimesOK
<1> HIDE DEF p, id, raw, episode
<1>8. StreakOK(p, streak)
  BY <1>3, <1>6 DEF StreakOK
<1>9. raw \in Raws
  BY ProgressIsRaw DEF raw
<1>10. /\ StreakOK(q, next) /\ PerfFields \subseteq DOMAIN q
       /\ q.episode = p.episode /\ q.pending = p.pending
       /\ recovered => Cardinality(next) >= Confirmations
  BY <1>5, <1>6, <1>7, <1>8, <1>9, RecoveryCounts
<1>11. streak' = next
  BY <1>1, <1>2 DEF NextRow
<1> HIDE DEF q, recovered, done
<1>12. /\ \A i \in DOMAIN seen.out : seen.out[i].lifecycle = "cleared" => recovered
       /\ seen.anomaly # None => episode.active /\ seen.anomaly = id[1]
  BY ObserveAnomalyFacts
<1> HIDE DEF seen
<1>13. /\ PerfFields \subseteq DOMAIN t /\ t.episode = perf.episode /\ t.pending = None /\ t.anomaly = seen.anomaly
       /\ t.problem = q.problem /\ t.recoveries = q.recoveries /\ t.counted = q.counted
  BY <1>6, <1>10 DEF PerfFields
<1> HIDE DEF t
<1>14. PerfOK(t)
  <2>1. t.episode # None => EpisodeOK(t.episode)
    BY <1>3, <1>13 DEF PerfOK
  <2>2. t.anomaly # None => t.episode # None /\ t.episode.started = t.anomaly
    BY <1>2, <1>4, <1>5, <1>12, <1>13
  <2> QED
    BY <1>13, <2>1, <2>2 DEF PerfOK
<1>15. StreakOK(t, next)
  BY <1>10, <1>13 DEF StreakOK
<1>16. TimesOK(t, next, now)
  <2>1. \A x \in next : x[2] <= Last(episode)
    <3>1. Last(episode) \in Int
      BY <1>4 DEF EpisodeOK
    <3>2. \A x \in next : x \in streak \/ x = id
      BY DEF NextRow
    <3> QED
      BY <1>5, <1>7, <3>1, <3>2
  <2>2. \A x \in next : x[2] <= now
    <3>1. Last(episode) \in Int
      BY <1>4 DEF EpisodeOK
    <3>2. next \subseteq Int \X Int
      BY <1>10 DEF StreakOK
    <3> HIDE DEF next
    <3>3. ASSUME NEW x \in next PROVE x[2] <= now
      <4>1. x[2] \in Int /\ x[2] <= Last(episode)
        BY <2>1, <3>2
      <4> QED
        BY <1>3, <1>7, <3>1, <4>1
    <3> QED
      BY <3>3
  <2>3. t.episode \in {episode, None}
    BY <1>4, <1>13
  <2> HIDE DEF next
  <2> QED
    BY <1>7, <1>13, <2>1, <2>2, <2>3 DEF TimesOK
<1>17. WatchInv'
  BY <1>1, <1>2, <1>11, <1>14, <1>15, <1>16 DEF WatchInv
<1>18. (\E i \in DOMAIN done.out : done.out[i].lifecycle = "cleared") => Cardinality(streak') >= Confirmations
  BY <1>1, <1>10, <1>11, <1>12
<1> QED
  BY <1>17, <1>18 DEF done, p, episode

-----------------------------------------------------------------------------
(* ANOMALIES *)

LEMMA WatchInit == Init => WatchInv
<1> SUFFICES ASSUME Init PROVE WatchInv
  OBVIOUS
<1>1. now = 1 /\ source = None /\ reading = None /\ perf = NotObserved /\ streak = {}
  BY DEF Init
<1>2. /\ PerfFields \subseteq DOMAIN perf /\ perf.episode = None /\ perf.pending = None /\ perf.problem = None
      /\ perf.recoveries = 0 /\ perf.anomaly = None
  BY <1>1 DEF NotObserved, PerfFields
<1>3. PerfOK(perf)
  BY <1>2 DEF PerfOK
<1>4. StreakOK(perf, streak)
  BY <1>1, <1>2, FS_EmptySet DEF StreakOK
<1>5. TimesOK(perf, streak, now)
  BY <1>1, <1>2 DEF TimesOK
<1> QED
  BY <1>1, <1>3, <1>4, <1>5 DEF WatchInv, Maybe

(* An evaluation hands the observer a sample of this moment.               *)
LEMMA EvaluationWatches ==
    ASSUME WatchInv, NEW r, NEW e, NEW latest \in Maybe([value : Int, at : Int]), Evaluates(r, e, latest)
    PROVE  WatchInv'
<1> DEFINE applied == Applied(e)
           permitted == IF applied # None /\ applied.action = "enable" THEN applied.at ELSE None
           sample == Sample(now, latest, permitted)
<1>1. /\ now \in Int /\ PerfOK(perf) /\ StreakOK(perf, streak) /\ TimesOK(perf, streak, now)
      /\ source # None => source.at \in Int
  BY DEF WatchInv
<1>2. /\ perf' = Seen(e, latest) /\ source' = applied /\ reading' = latest /\ now' = now /\ streak' = streak
  BY DEF Evaluates, Finishes
<1>3. applied # None => applied.at \in Int
  BY <1>1 DEF Applied
<1>4. Seen(e, latest) = IF ~Watching THEN perf ELSE Observe(perf, e.demand, sample)
  BY DEF Seen
<1> HIDE DEF applied
<1>5. permitted \in Maybe(Int)
  BY <1>3 DEF Maybe
<1> HIDE DEF permitted
<1>6. sample \in Samples /\ sample.at = now
  BY <1>1, <1>5 DEF Sample, Samples
<1> HIDE DEF sample
<1>7. /\ PerfOK(perf') /\ StreakOK(perf', streak) /\ TimesOK(perf', streak, now)
  BY <1>1, <1>2, <1>4, <1>6, ObserveKeeps
<1> QED
  BY <1>1, <1>2, <1>3, <1>7 DEF WatchInv

LEMMA OperationWatches == ASSUME WatchInv, Operation PROVE WatchInv'
<1>1. now \in Int /\ reading \in Maybe([value : Int, at : Int])
  BY DEF WatchInv
<1>2. ASSUME NEW r, Finishes(r, perf), UNCHANGED <<source, reading>> PROVE WatchInv'
  <2>1. perf' = perf /\ now' = now /\ streak' = streak
    BY <1>2 DEF Finishes
  <2> QED
    BY <1>2, <2>1 DEF WatchInv
<1>3. CASE Reading
  <2>1. PICK r \in Readings, e \in ValidResults : Evaluates(Measured(rec, "valid", r.at), e, r)
    BY <1>3 DEF Reading
  <2>2. r \in [value : Int, at : Int]
    <3>1. Temperatures \subseteq Int /\ Target \in Int
      BY ObservationConstants, PerformanceCriteria
    <3>2. \/ r \in [value : Temperatures, at : {now}]
          \/ r \in [value : {Target}, at : {now}]
          \/ r \in [value : {Target}, at : {now - 1, now} \ {0}]
      BY DEF Readings
    <3>3. r \in [value : Temperatures \cup {Target}, at : {now - 1, now}]
      BY <3>2
    <3>4. {now - 1, now} \subseteq Int /\ Temperatures \cup {Target} \subseteq Int
      BY <1>1, <3>1
    <3> QED
      BY <3>3, <3>4
  <2>3. r \in Maybe([value : Int, at : Int])
    BY <2>2 DEF Maybe
  <2> QED
    BY <2>1, <2>3, EvaluationWatches
<1>4. CASE Loss
  BY <1>1, <1>4, EvaluationWatches DEF Loss
<1>5. CASE Reevaluation
  BY <1>1, <1>5, EvaluationWatches DEF Reevaluation
<1>6. CASE Report
  BY <1>1, <1>6, EvaluationWatches DEF Report
<1>7. CASE CommandFails
  BY <1>2, <1>7 DEF CommandFails
<1>8. CASE Fatal
  BY <1>2, <1>8 DEF Fatal
<1>9. CASE Restart
  BY <1>2, <1>9 DEF Restart
<1> QED
  BY <1>3, <1>4, <1>5, <1>6, <1>7, <1>8, <1>9 DEF Operation

LEMMA WatchStep == WatchInv /\ [Next]_vars => WatchInv'
<1> SUFFICES ASSUME WatchInv, [Next]_vars PROVE WatchInv'
  OBVIOUS
<1>1. /\ now \in Int /\ PerfOK(perf) /\ StreakOK(perf, streak) /\ TimesOK(perf, streak, now)
  BY DEF WatchInv
<1>2. ASSUME UNCHANGED <<now, source, reading, perf, streak>> PROVE WatchInv'
  BY <1>2 DEF WatchInv
<1>3. CASE Tick
  <2>1. now' = now + 1 /\ UNCHANGED <<source, reading, perf, streak>>
    BY <1>3 DEF Tick, watched
  <2>2. now + 1 \in Int /\ \A t \in Int : t <= now => t <= now + 1
    BY <1>1
  <2>3. \A id \in streak : id[2] \in Int
    BY <1>1 DEF StreakOK
  <2>4. \A episode \in {perf.episode, perf.pending} \ {None} : Last(episode) \in Int
    BY <1>1 DEF PerfOK, EpisodeOK
  <2>5. TimesOK(perf, streak, now + 1)
    BY <1>1, <2>2, <2>3, <2>4 DEF TimesOK
  <2> QED
    BY <2>1, <2>2, <2>5 DEF WatchInv
<1>4. CASE Operation
  BY <1>4, OperationWatches
<1>5. CASE Stop
  <2>1. perf' = Terminate(perf) /\ UNCHANGED <<now, source, reading, streak>>
    BY <1>5 DEF Stop, runtime
  <2>2. PerfOK(perf') /\ StreakOK(perf', streak) /\ TimesOK(perf', streak, now)
    BY <1>1, <2>1, TerminateKeeps
  <2> QED
    BY <2>1, <2>2 DEF WatchInv
<1>6. CASE Assess
  BY <1>6, AssessKeeps
<1>7. CASE Return \/ Compose \/ Judge \/ Answer \/ Finish \/ AssessEnds \/ UNCHANGED vars
  BY <1>2, <1>7 DEF Return, Compose, Judge, Answer, Finish, AssessEnds, vars, runtime, watched
<1> QED
  BY <1>3, <1>4, <1>5, <1>6, <1>7 DEF Next, Drain

LEMMA WatchInvHolds == Spec => []WatchInv
  BY WatchInit, WatchStep, PTL DEF Spec

(* When nothing waits to be assessed, an active anomaly is one of the      *)
(* episode being observed: the snapshot of its end is never lost to the    *)
(* first of the next, and an assessment ends what it replaces              *)
(* (submit_observation, _observe_anomaly, terminate_all).                  *)
THEOREM AnomaliesAreOfThisEpisode == Spec => []AnomalyIsOfThisEpisode
<1>1. WatchInv => AnomalyIsOfThisEpisode
  BY DEF WatchInv, PerfOK, AnomalyIsOfThisEpisode
<1> QED
  BY <1>1, WatchInvHolds, PTL

(* The last of the stream after a step are the events of that step.        *)
LEMMA NewEvents ==
    ASSUME NEW str, NEW incident, StreamOK(str, incident), NEW S, NEW out \in Seq(S), NEW str2,
           str2 = [retained |-> LastOf(str.retained \o out, EventCapacity), total |-> str.total + Len(out)],
           str2.total > str.total,
           NEW i \in DOMAIN LastOf(str2.retained, str2.total - str.total)
    PROVE  \E j \in DOMAIN out : LastOf(str2.retained, str2.total - str.total)[i] = out[j]
<1> DEFINE m == Len(str.retained)
           n == Len(out)
           all == str.retained \o out
           k == IF Len(all) > EventCapacity THEN Len(all) - EventCapacity ELSE 0
           kept == LastOf(all, EventCapacity)
           h == IF Len(kept) > n THEN Len(kept) - n ELSE 0
           new == LastOf(kept, n)
<1>1. PICK R : str.retained \in Seq(R)
  BY DEF StreamOK
<1>2. str.total \in Nat /\ m \in Nat /\ n \in Nat
  BY <1>1 DEF StreamOK
<1>3. str2.retained = kept /\ str2.total = str.total + n
  <2> HIDE DEF kept, n
  <2>1. str2 = [retained |-> kept, total |-> str.total + n]
    BY DEF kept, n
  <2> QED
    BY <2>1
<1>4. n \in Nat \ {0} /\ str2.total - str.total = n
  <2> HIDE DEF n
  <2> QED
    BY <1>2, <1>3
<1>5. /\ all \in Seq(R \cup S) /\ Len(all) = m + n
      /\ \A j \in 1 .. n : all[m + j] = out[j]
  <2>1. str.retained \in Seq(R \cup S) /\ out \in Seq(R \cup S)
    BY <1>1
  <2> QED
    BY <2>1, ConcatProperties
<1>6. /\ k \in Nat /\ k <= Len(all) /\ kept \in Seq(R \cup S) /\ Len(kept) = Len(all) - k
      /\ \A j \in 1 .. Len(all) - k : kept[j] = all[j + k]
  <2>1. EventCapacity \in Nat \ {0}
    BY ObservationConstants
  <2> HIDE DEF all
  <2> QED
    BY <1>5, <2>1, LastOfFacts
<1>7. /\ h \in Nat /\ h <= Len(kept) /\ new \in Seq(R \cup S) /\ Len(new) = Len(kept) - h
      /\ \A j \in 1 .. Len(kept) - h : new[j] = kept[j + h]
  <2> HIDE DEF kept, n
  <2> QED
    BY <1>4, <1>6, LastOfFacts
<1>8. h = IF Len(kept) > n THEN Len(kept) - n ELSE 0
  OBVIOUS
<1>9. DOMAIN new = 1 .. Len(new) /\ DOMAIN out = 1 .. n
  <2>1. DOMAIN out = 1 .. n
    OBVIOUS
  <2>2. new \in Seq(R \cup S)
    BY <1>7
  <2> HIDE DEF new
  <2>3. DOMAIN new = 1 .. Len(new)
    BY <2>2
  <2> QED
    BY <2>1, <2>3 DEF new
<1> HIDE DEF all, kept, k, h, new, m, n
<1>10. i \in 1 .. Len(kept) - h /\ new[i] = kept[i + h]
  BY <1>3, <1>4, <1>7, <1>9 DEF new
<1>11. i + h \in 1 .. Len(all) - k /\ new[i] = all[(i + h) + k]
  <2>1. Len(kept) \in Nat
    BY <1>6
  <2>2. i + h \in 1 .. Len(kept)
    BY <1>7, <1>10, <2>1
  <2> QED
    BY <1>6, <1>10, <2>2
<1> DEFINE g == (i + h) + k
<1>12. g - m \in 1 .. n /\ m + (g - m) = g
  <2>1. /\ m \in Nat /\ n \in Nat /\ k \in Nat /\ h \in Nat /\ i \in Nat /\ i >= 1
        /\ i <= Len(kept) - h /\ Len(kept) = (m + n) - k /\ k <= m + n
    BY <1>2, <1>5, <1>6, <1>7, <1>10
  <2>2. g \in Nat /\ g <= m + n
    BY <2>1
  <2>3. g > m
    <3>1. CASE Len(kept) > n
      <4>1. h = ((m + n) - k) - n
        BY <1>8, <2>1, <3>1
      <4>2. g = i + m
        BY <2>1, <4>1
      <4> QED
        BY <2>1, <4>2
    <3>2. CASE ~(Len(kept) > n)
      <4>1. h = 0 /\ k >= m
        BY <1>8, <2>1, <3>2
      <4> QED
        BY <2>1, <4>1
    <3> QED
      BY <3>1, <3>2
  <2> HIDE DEF g
  <2> QED
    BY <2>1, <2>2, <2>3
<1>13. new[i] = all[g]
  BY <1>11
<1> HIDE DEF g
<1> QED
  BY <1>3, <1>4, <1>5, <1>9, <1>12, <1>13 DEF new

(* An anomaly is declared over only by enough distinct assessments in a    *)
(* row that found nothing wrong: the counter the monitor keeps never runs  *)
(* ahead of the assessments it stands for (_apply_recovery), and nothing   *)
(* else emits the transition.                                              *)
THEOREM RecoveriesAreConfirmed == Spec => RecoveryIsConfirmed
<1>1. ObservationInv /\ WatchInv /\ [Next]_vars =>
        [(stream'.total > stream.total /\ Cleared(LastOf(stream'.retained, stream'.total - stream.total)))
            => Cardinality(streak') >= Confirmations]_vars
  <2> SUFFICES ASSUME ObservationInv, WatchInv, Next, stream'.total > stream.total,
                      Cleared(LastOf(stream'.retained, stream'.total - stream.total))
               PROVE  Cardinality(streak') >= Confirmations
    OBVIOUS
  <2> DEFINE new == LastOf(stream'.retained, stream'.total - stream.total)
  <2>0. ASSUME NEW S, NEW out \in Seq(S), StreamOK(stream, rec.incident), stream' = Streamed(out), NEW i \in DOMAIN new
        PROVE  \E j \in DOMAIN out : new[i] = out[j]
    <3>1. stream' = [retained |-> LastOf(stream.retained \o out, EventCapacity), total |-> stream.total + Len(out)]
      BY <2>0 DEF Streamed
    <3> QED
      BY <2>0, <3>1, NewEvents
  <2> HIDE DEF new
  <2>1. StreamInv /\ StreamOK(stream, rec.incident) /\ stream.total \in Nat
    BY DEF ObservationInv, StreamInv, StreamOK
  <2>2. PICK i \in DOMAIN new : new[i].code = "heating_anomaly" /\ new[i].detail = "cleared"
    BY DEF Cleared, new
  <2>3. ASSUME NEW out, NEW S, out \in Seq(S), stream' = Streamed(out)
        PROVE  \E j \in DOMAIN out : out[j].code = "heating_anomaly" /\ out[j].detail = "cleared"
    <3>1. \E j \in DOMAIN out : new[i] = out[j]
      BY <2>0, <2>1, <2>2, <2>3
    <3> QED
      BY <2>2, <3>1
  <2>4. ASSUME NEW out, NEW incident, OutOK(out, rec.incident, incident), NoAnomaly(out), stream' = Streamed(out)
        PROVE  FALSE
    BY <2>3, <2>4 DEF OutOK, NoAnomaly
  <2>5. CASE Operation
    <3>1. PICK r, p : Recorded(r, rec.incident) /\ Finishes(r, p)
      BY <2>1, <2>5, OperationRecords
    <3> QED
      BY <2>4, <3>1 DEF Recorded, Finishes
  <2>6. CASE Stop
    <3>1. PICK out : OutOK(out, rec.incident, rec'.incident) /\ NoAnomaly(out) /\ Emitted(out)
      BY <2>1, <2>6, StopEmits
    <3> QED
      BY <2>4, <3>1 DEF Emitted
  <2>7. CASE Assess
    <3> DEFINE done == Assessed([perf EXCEPT !.pending = None], perf.pending)
    <3>1. /\ (\E j \in DOMAIN done.out : done.out[j].lifecycle = "cleared")
                => Cardinality(streak') >= Confirmations
      BY <2>7, AssessKeeps
    <3>2. PICK out : /\ OutOK(out, rec.incident, rec'.incident) /\ Emitted(out)
                     /\ (\E j \in DOMAIN out : out[j].detail = "cleared")
                           => \E j \in DOMAIN done.out : done.out[j].lifecycle = "cleared"
      BY <2>1, <2>7, AssessEmits
    <3> HIDE DEF done
    <3>3. \E j \in DOMAIN out : out[j].detail = "cleared"
      BY <2>3, <3>2 DEF OutOK, Emitted
    <3> QED
      BY <3>1, <3>2, <3>3
  <2>8. CASE Tick \/ Return \/ Compose \/ Judge \/ Answer \/ Finish \/ AssessEnds
    <3>1. stream' = stream
      BY <2>8 DEF Tick, Return, Compose, Judge, Answer, Finish, AssessEnds
    <3> QED
      BY <2>1, <3>1
  <2> QED
    BY <2>5, <2>6, <2>7, <2>8 DEF Next, Drain
<1> QED
  BY <1>1, ObservationInvHolds, WatchInvHolds, PTL DEF Spec, RecoveryIsConfirmed
==============================================================================
