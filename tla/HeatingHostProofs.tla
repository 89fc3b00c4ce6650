------------------------------ MODULE HeatingHostProofs ------------------------------
(***************************************************************************)
(* What is proved of the host around the control runtime, for every number *)
(* of states, timers and failures: the temperature states keep their order *)
(* through setup and the switch to live processing, a timer that is armed  *)
(* still comes, nothing happens after a stop, and an actuator is set to    *)
(* what was asked of it unless its failure is shown.                       *)
(***************************************************************************)
EXTENDS HeatingHost, SequenceTheorems, WellFoundedInduction, TLAPS

-----------------------------------------------------------------------------
(* SUFFIXES *)

(* s is the end of t, by index. *)
Trails(s, t) ==
    /\ Len(s) <= Len(t)
    /\ \A i \in 1 .. Len(s) : s[i] = t[Len(t) - Len(s) + i]

LEMMA TrailsIsSuffix ==
    ASSUME NEW S, NEW s \in Seq(S), NEW t \in Seq(S), Trails(s, t)
    PROVE  IsSuffix(s, t)
<1> DEFINE r == Reverse(s)
           q == Reverse(t)
<1>1. Len(s) \in Nat /\ Len(t) \in Nat /\ Len(s) <= Len(t)
  BY DEF Trails
<1>2. /\ \A i \in 1 .. Len(s) : s[i] \in S
      /\ \A i \in 1 .. Len(t) : t[i] \in S
  OBVIOUS
<1>3. /\ r \in Seq(S) /\ Len(r) = Len(s)
      /\ \A i \in 1 .. Len(s) : r[i] = s[(Len(s) - i) + 1]
  BY <1>1, <1>2 DEF Reverse
<1>4. /\ q \in Seq(S) /\ Len(q) = Len(t)
      /\ \A i \in 1 .. Len(t) : q[i] = t[(Len(t) - i) + 1]
  BY <1>1, <1>2 DEF Reverse
<1> HIDE DEF r, q
<1>5. ASSUME NEW i \in 1 .. Len(s) PROVE r[i] = q[i]
  <2>1. (Len(s) - i) + 1 \in 1 .. Len(s) /\ i \in 1 .. Len(t)
    BY <1>1
  <2>2. s[(Len(s) - i) + 1] = t[Len(t) - Len(s) + ((Len(s) - i) + 1)]
    BY <2>1 DEF Trails
  <2>3. Len(t) - Len(s) + ((Len(s) - i) + 1) = (Len(t) - i) + 1
    BY <1>1
  <2> QED
    BY <1>3, <1>4, <2>1, <2>2, <2>3
<1>6. SubSeq(r, 1, Len(s)) = SubSeq(q, 1, Len(s))
  <2> DEFINE a == SubSeq(r, 1, Len(s))
             b == SubSeq(q, 1, Len(s))
  <2>1. /\ a \in Seq(S) /\ Len(a) = Len(s)
        /\ \A i \in 1 .. Len(s) : a[i] = r[i]
    BY <1>1, <1>3
  <2>2. /\ b \in Seq(S) /\ Len(b) = Len(s)
        /\ \A i \in 1 .. Len(s) : b[i] = q[i]
    BY <1>1, <1>4
  <2> HIDE DEF a, b
  <2>3. a = b
    BY <1>5, <2>1, <2>2, SeqEqual
  <2> QED
    BY <2>3 DEF a, b
<1> QED
  BY <1>1, <1>3, <1>4, <1>6 DEF IsSuffix, IsPrefix, r, q

LEMMA TrailsTransitive ==
    ASSUME NEW S, NEW s \in Seq(S), NEW t \in Seq(S), NEW u \in Seq(S), Trails(s, t), Trails(t, u)
    PROVE  Trails(s, u)
<1>1. /\ Len(s) \in Nat /\ Len(t) \in Nat /\ Len(u) \in Nat
      /\ Len(s) <= Len(t) /\ Len(t) <= Len(u)
  BY DEF Trails
<1>2. ASSUME NEW i \in 1 .. Len(s) PROVE s[i] = u[Len(u) - Len(s) + i]
  <2>1. Len(t) - Len(s) + i \in 1 .. Len(t)
    BY <1>1
  <2>2. s[i] = t[Len(t) - Len(s) + i]
    BY DEF Trails
  <2>3. t[Len(t) - Len(s) + i] = u[Len(u) - Len(t) + (Len(t) - Len(s) + i)]
    BY <2>1 DEF Trails
  <2>4. Len(u) - Len(t) + (Len(t) - Len(s) + i) = Len(u) - Len(s) + i
    BY <1>1
  <2> QED
    BY <2>2, <2>3, <2>4
<1> QED
  BY <1>1, <1>2 DEF Trails

LEMMA TrailsAppend ==
    ASSUME NEW S, NEW s \in Seq(S), NEW t \in Seq(S), NEW e \in S, Trails(s, t)
    PROVE  Trails(Append(s, e), Append(t, e))
<1>1. /\ Len(s) \in Nat /\ Len(t) \in Nat /\ Len(s) <= Len(t)
      /\ Len(Append(s, e)) = Len(s) + 1 /\ Len(Append(t, e)) = Len(t) + 1
  BY DEF Trails
<1>2. ASSUME NEW i \in 1 .. Len(s) + 1
      PROVE  Append(s, e)[i] = Append(t, e)[(Len(t) + 1) - (Len(s) + 1) + i]
  <2>1. CASE i = Len(s) + 1
    <3>1. (Len(t) + 1) - (Len(s) + 1) + i = Len(t) + 1
      BY <1>1, <2>1
    <3>2. Append(s, e)[Len(s) + 1] = e /\ Append(t, e)[Len(t) + 1] = e
      BY <1>1
    <3> QED
      BY <2>1, <3>1, <3>2
  <2>2. CASE i \in 1 .. Len(s)
    <3>1. Append(s, e)[i] = s[i] /\ s[i] = t[Len(t) - Len(s) + i]
      BY <1>1, <2>2 DEF Trails
    <3>2. Len(t) - Len(s) + i \in 1 .. Len(t)
      BY <1>1, <2>2
    <3>3. Append(t, e)[Len(t) - Len(s) + i] = t[Len(t) - Len(s) + i]
      BY <1>1, <3>2
    <3>4. (Len(t) + 1) - (Len(s) + 1) + i = Len(t) - Len(s) + i
      BY <1>1, <2>2
    <3> QED
      BY <3>1, <3>3, <3>4
  <2> QED
    BY <1>1, <2>1, <2>2
<1>3. Len(Append(s, e)) <= Len(Append(t, e))
  BY <1>1
<1> QED
  BY <1>1, <1>2, <1>3 DEF Trails

(* Every sequence is the end of itself, and the empty one of every other.  *)
LEMMA TrailsItself == ASSUME NEW S, NEW s \in Seq(S) PROVE Trails(s, s) /\ Trails(<<>>, s)
BY DEF Trails

LEMMA TrailsTail ==
    ASSUME NEW S, NEW s \in Seq(S), s # <<>>
    PROVE  Tail(s) \in Seq(S) /\ Head(s) \in S /\ Trails(Tail(s), s)
<1>1. /\ Tail(s) \in Seq(S) /\ Head(s) \in S /\ Len(Tail(s)) = Len(s) - 1
      /\ \A i \in 1 .. Len(Tail(s)) : Tail(s)[i] = s[i + 1]
  BY HeadTailProperties
<1> QED
  BY <1>1 DEF Trails

(* What is left without the duplicates of the last state is an end of what *)
(* there was.                                                              *)
LEMMA FreshTrails ==
    ASSUME NEW list \in Seq(Reading), NEW version
    PROVE  Fresh(list, version) \in Seq(Reading) /\ Trails(Fresh(list, version), list)
<1> DEFINE D == {k \in 0 .. Len(list) : \A i \in 1 .. k : list[i].version = version}
           C == CHOOSE k \in D : \A j \in D : j <= k
           R == OpToRel(<, Nat)
           E == {n \in Nat : Len(list) - n \in D}
<1>1. Len(list) \in Nat /\ 0 \in D
  OBVIOUS
<1>2. IsWellFoundedOn(R, Nat)
  BY NatLessThanWellFounded DEF R
<1>3. R = {ss \in Nat \X Nat : ss[1] < ss[2]}
  BY Zenon DEF OpToRel
<1> HIDE DEF R
<1>4. D \subseteq 0 .. Len(list)
  OBVIOUS
<1> HIDE DEF D
<1>5. Len(list) \in E /\ E \subseteq Nat
  BY <1>1
<1>6. PICK n \in E : \A u \in E : ~(<<u, n>> \in R)
  BY <1>2, <1>5, WFMin
<1>7. \A u \in E : n <= u
  <2>1. ASSUME NEW u \in E PROVE n <= u
    <3>1. u \in Nat /\ n \in Nat /\ ~(<<u, n>> \in R)
      BY <1>5, <1>6
    <3> QED
      BY <1>3, <3>1
  <2> QED
    BY <2>1
<1>8. Len(list) - n \in D /\ \A j \in D : j <= Len(list) - n
  <2>1. ASSUME NEW j \in D PROVE j <= Len(list) - n
    <3>1. j \in 0 .. Len(list) /\ n \in Nat
      BY <1>4, <1>5
    <3>2. Len(list) - j \in Nat /\ Len(list) - (Len(list) - j) = j
      BY <1>1, <3>1
    <3>3. Len(list) - j \in E
      BY <3>2
    <3>4. n <= Len(list) - j
      BY <1>7, <3>3
    <3> QED
      BY <1>1, <3>1, <3>4
  <2> QED
    BY <1>5, <2>1
<1>9. C \in D
  BY <1>8
<1>10. Fresh(list, version) = SubSeq(list, 1 + C, Len(list))
  BY DEF Fresh, D
<1> HIDE DEF C
<1> DEFINE F == SubSeq(list, 1 + C, Len(list))
<1>11. /\ F \in Seq(Reading) /\ Len(F) = Len(list) - C
       /\ \A i \in 1 .. Len(list) - C : F[i] = list[1 + C + i - 1]
  <2>1. C \in 0 .. Len(list)
    BY <1>4, <1>9
  <2>2. \A i \in 1 + C .. Len(list) : list[i] \in Reading
    BY <1>1, <2>1
  <2> QED
    BY <1>1, <2>1, <2>2, SubSeqProperties
<1> HIDE DEF F
<1>12. Trails(F, list)
  <2>1. C \in 0 .. Len(list)
    BY <1>4, <1>9
  <2> QED
    BY <1>1, <1>11, <2>1 DEF Trails
<1> QED
  BY <1>10, <1>11, <1>12 DEF F

-----------------------------------------------------------------------------
(* THE HOST'S OWN STATE *)

(* An operation of the queue carries what its coroutine submits it with,   *)
(* and only a stop stops.                                                  *)
Proper(e) ==
    /\ e \in Entry
    /\ e.op \in {"report_supervisor", "report_runtime", "timer"} => e.of \in Nat
    /\ e.op \in {"trust", "process", "mark", "mark_again"} => e.of \in Reading
    /\ e.by = "reader" => e.op \in {"trust", "process", "mark", "mark_again"}
    /\ e.by = "init" => e.op \in {"begin", "report_supervisor", "report_runtime"}
    /\ e.by = "stop" <=> e.op \in {"stop", "cancel_all"}

AllProper(q) == \A i \in DOMAIN q : Proper(q[i])
NoneOf(q, by) == \A i \in DOMAIN q : q[i].by # by
OneAtMost(q, by) == \A i, j \in DOMAIN q : q[i].by = by /\ q[j].by = by => i = j
Only(q, op) == Len(q) = 1 /\ q[1].by = "stop" /\ q[1].op = op

(* Past the tasks that were accepted before the stop. *)
Quiet(h) == h.stop \in {"runtime", "timers", "close", "stopped"}

(* One coroutine sets the host up, before it is ready; a stop waits for    *)
(* that and for everything accepted before, and is alone from then on.     *)
OneSetup(h) ==
    /\ OneAtMost(h.queue, "init")
    /\ h.init # "begin" => NoneOf(h.queue, "init")
    /\ h.init \in {"new", "begin", "reading"} => h.buffering = TRUE
    /\ h.init \in {"new", "begin"} => NoneOf(h.queue, "reader")
StopsAlone(h) ==
    /\ Stopping(h) => h.accepting = FALSE /\ h.init \in {"done", "failed"}
    /\ ~Quiet(h) => NoneOf(h.queue, "stop")
    /\ h.stop = "runtime" => Only(h.queue, "stop")
    /\ h.stop = "timers" => Only(h.queue, "cancel_all")
    /\ h.stop \in {"close", "stopped"} => h.queue = <<>>
(* States are either buffered or live. *)
OneList(h) ==
    /\ h.buffering = TRUE => h.live = <<>>
    /\ h.buffering = FALSE => h.buffer = <<>>

Coherent(h) ==
    /\ h \in HostType
    /\ AllProper(h.queue)
    /\ OneSetup(h)
    /\ StopsAlone(h)
    /\ OneList(h)

Pending(h) == h.buffer \o h.live

(* What an event or a result may do to the queue: add one operation of a   *)
(* coroutine that is not the stop.                                         *)
Extends(q, r) ==
    \/ r = q
    \/ \E e \in Entry : Proper(e) /\ e.by \notin {"stop"} /\ r = Append(q, e)

(* The host goes on from h to g without taking in anything new.            *)
Continues(h, g) ==
    /\ Coherent(g)
    /\ g.accepting = h.accepting /\ (Quiet(g) => Quiet(h))
    /\ Extends(h.queue, g.queue)
    /\ Trails(Pending(g), Pending(h))

LEMMA PendingIsSeq == ASSUME NEW h, h \in HostType PROVE Pending(h) \in Seq(Reading)
BY DEF HostType, Pending

LEMMA AppendedEntry ==
    ASSUME NEW q \in Seq(Entry), NEW e \in Entry
    PROVE  /\ Append(q, e) \in Seq(Entry)
           /\ Len(Append(q, e)) = Len(q) + 1
           /\ DOMAIN Append(q, e) = 1 .. Len(q) + 1
           /\ DOMAIN q = 1 .. Len(q)
           /\ \A i \in DOMAIN q : Append(q, e)[i] = q[i]
           /\ Append(q, e)[Len(q) + 1] = e
OBVIOUS

(* What a coroutine may submit, and when. *)
MaySubmit(h, by, op, of) ==
    /\ Proper([by |-> by, op |-> op, of |-> of, runtime |-> 0])
    /\ by # "stop" /\ ~Quiet(h)
    /\ by = "init" => h.init = "begin" /\ NoneOf(h.queue, "init")
    /\ by = "reader" => h.init \notin {"new", "begin"}

LEMMA SubmitContinues ==
    ASSUME NEW h, Coherent(h), NEW by, NEW op, NEW of, MaySubmit(h, by, op, of), rt.latest \in Nat
    PROVE  /\ Continues(h, Submit(h, by, op, of))
           /\ Pending(Submit(h, by, op, of)) = Pending(h)
           /\ Submit(h, by, op, of).stop = h.stop
           /\ Submit(h, by, op, of).init = h.init
           /\ by # "init" /\ NoneOf(h.queue, "init") => NoneOf(Submit(h, by, op, of).queue, "init")
<1> DEFINE e == [by |-> by, op |-> op, of |-> of, runtime |-> rt.latest]
           g == Submit(h, by, op, of)
<1>1. Proper(e) /\ e \in Entry /\ e.by = by
  BY DEF MaySubmit, Proper, Entry
<1>2. h \in HostType /\ h.queue \in Seq(Entry)
  BY DEF Coherent, HostType
<1>3. g = [h EXCEPT !.queue = Append(h.queue, e)]
  BY DEF Submit
<1> HIDE DEF e
<1>4. Append(h.queue, e) \in Seq(Entry)
  BY <1>1, <1>2
<1>5. /\ g \in HostType /\ g.queue = Append(h.queue, e)
      /\ g.init = h.init /\ g.stop = h.stop /\ g.accepting = h.accepting
      /\ g.buffering = h.buffering /\ g.buffer = h.buffer /\ g.live = h.live
  BY <1>2, <1>3, <1>4 DEF HostType
<1> HIDE DEF g
<1>6. /\ DOMAIN g.queue = 1 .. Len(h.queue) + 1 /\ DOMAIN h.queue = 1 .. Len(h.queue)
      /\ \A i \in DOMAIN h.queue : g.queue[i] = h.queue[i]
      /\ g.queue[Len(h.queue) + 1] = e /\ Len(h.queue) \in Nat
  BY <1>1, <1>2, <1>5, AppendedEntry
<1>7. \A i \in DOMAIN g.queue : i \in DOMAIN h.queue \/ i = Len(h.queue) + 1
  BY <1>6
<1>8. AllProper(g.queue)
  BY <1>1, <1>6, <1>7 DEF AllProper, Coherent
<1>9. OneSetup(g)
  <2>1. OneSetup(h)
    BY DEF Coherent
  <2>2. OneAtMost(g.queue, "init") /\ (g.init # "begin" => NoneOf(g.queue, "init"))
    <3>1. CASE by = "init"
      BY <1>1, <1>5, <1>6, <1>7, <2>1, <3>1 DEF OneSetup, OneAtMost, NoneOf, MaySubmit
    <3>2. CASE by # "init"
      BY <1>1, <1>5, <1>6, <1>7, <2>1, <3>2 DEF OneSetup, OneAtMost, NoneOf
    <3> QED
      BY <3>1, <3>2
  <2>3. g.init \in {"new", "begin"} => NoneOf(g.queue, "reader")
    BY <1>1, <1>5, <1>6, <1>7, <2>1 DEF OneSetup, NoneOf, MaySubmit
  <2> QED
    BY <1>5, <2>1, <2>2, <2>3 DEF OneSetup
<1>10. StopsAlone(g)
  <2>1. StopsAlone(h) /\ ~Quiet(h) /\ by # "stop"
    BY DEF Coherent, MaySubmit
  <2>2. NoneOf(g.queue, "stop")
    BY <1>1, <1>6, <1>7, <2>1 DEF StopsAlone, NoneOf
  <2> QED
    BY <1>5, <2>1, <2>2 DEF StopsAlone, Quiet, Stopping
<1>11. OneList(g) /\ Pending(g) = Pending(h)
  BY <1>5 DEF OneList, Coherent, Pending
<1>12. Extends(h.queue, g.queue)
  BY <1>1, <1>5 DEF Extends, MaySubmit
<1>13. Trails(Pending(g), Pending(h))
  BY <1>2, <1>11, PendingIsSeq, TrailsItself
<1>14. by # "init" /\ NoneOf(h.queue, "init") => NoneOf(g.queue, "init")
  BY <1>1, <1>6, <1>7 DEF NoneOf
<1> QED
  BY <1>5, <1>8, <1>9, <1>10, <1>11, <1>12, <1>13, <1>14 DEF Continues, Coherent, Quiet, g

(* The host with fewer states still to be processed, or none fewer.        *)
Shortened(h, g) ==
    /\ Coherent(g)
    /\ g.queue = h.queue /\ g.accepting = h.accepting /\ (Quiet(g) => Quiet(h))
    /\ Trails(Pending(g), Pending(h))

LEMMA ShortenedThenContinues ==
    ASSUME NEW h, NEW g, NEW f, Coherent(h), Shortened(h, g), Continues(g, f)
    PROVE  Continues(h, f)
<1>1. h \in HostType /\ g \in HostType /\ f \in HostType
  BY DEF Coherent, Shortened, Continues
<1>2. Pending(h) \in Seq(Reading) /\ Pending(g) \in Seq(Reading) /\ Pending(f) \in Seq(Reading)
  BY <1>1, PendingIsSeq
<1>3. Trails(Pending(g), Pending(h)) /\ Trails(Pending(f), Pending(g))
  BY DEF Shortened, Continues
<1>4. Trails(Pending(f), Pending(h))
  BY <1>2, <1>3, TrailsTransitive
<1> QED
  BY <1>4 DEF Shortened, Continues

(* The rest of a list after the state taken from it.                       *)
LEMMA RestTrails ==
    ASSUME NEW list \in Seq(Reading), NEW version
    PROVE  LET fresh == Fresh(list, version)
               rest == IF fresh = <<>> THEN <<>> ELSE Tail(fresh)
           IN  /\ rest \in Seq(Reading) /\ Trails(rest, list)
               /\ fresh # <<>> => Head(fresh) \in Reading
               /\ list = <<>> => fresh = <<>>
<1> DEFINE fresh == Fresh(list, version)
<1>1. fresh \in Seq(Reading) /\ Trails(fresh, list)
  BY FreshTrails
<1> HIDE DEF fresh
<1>2. CASE fresh = <<>>
  <2>1. <<>> \in Seq(Reading) /\ Trails(<<>>, list)
    BY TrailsItself
  <2> QED
    BY <1>2, <2>1 DEF fresh
<1>3. CASE fresh # <<>>
  <2>1. Tail(fresh) \in Seq(Reading) /\ Head(fresh) \in Reading /\ Trails(Tail(fresh), fresh)
    BY <1>1, <1>3, TrailsTail
  <2>2. Trails(Tail(fresh), list)
    BY <1>1, <2>1, TrailsTransitive
  <2>3. list # <<>>
    BY <1>1, <1>3 DEF Trails
  <2> QED
    BY <1>3, <2>1, <2>2, <2>3 DEF fresh
<1> QED
  BY <1>2, <1>3

LEMMA NextReadingContinues ==
    ASSUME NEW h, Coherent(h), h.init \notin {"new", "begin"}, ~Quiet(h), rt.latest \in Nat
    PROVE  Continues(h, NextReading(h))
<1>1. /\ h \in HostType /\ h.queue \in Seq(Entry)
      /\ h.buffer \in Seq(Reading) /\ h.live \in Seq(Reading)
      /\ Pending(h) \in Seq(Reading)
  BY PendingIsSeq DEF Coherent, HostType
<1>2. CASE h.init = "reading"
  <2> DEFINE fresh == Fresh(h.buffer, h.version)
             left == IF fresh = <<>> THEN <<>> ELSE Tail(fresh)
             rest == [h EXCEPT !.buffer = left]
  <2>1. /\ left \in Seq(Reading) /\ Trails(left, h.buffer)
        /\ fresh # <<>> => Head(fresh) \in Reading
        /\ h.buffer = <<>> => fresh = <<>>
    BY <1>1, RestTrails
  <2>2. fresh = <<>> => left = <<>>
    OBVIOUS
  <2>3. NextReading(h) =
          IF fresh # <<>>
          THEN Submit([rest EXCEPT !.version = Head(fresh).version], "reader", "trust", Head(fresh))
          ELSE [rest EXCEPT !.buffering = FALSE, !.init = "done"]
    BY <1>2 DEF NextReading
  <2> HIDE DEF fresh, left
  <2>4. ~Stopping(h)
    BY <1>2 DEF Coherent, StopsAlone
  <2>5. h.live = <<>>
        \/ (h.buffer = <<>> /\ h.buffering = FALSE)
    BY <1>1 DEF Coherent, OneList, HostType
  <2>6. CASE fresh # <<>>
    <3> DEFINE g == [rest EXCEPT !.version = Head(fresh).version]
    <3>1. Head(fresh).version \in Nat
      BY <2>1, <2>6 DEF Reading
    <3>2. /\ g \in HostType /\ g.queue = h.queue
          /\ g.init = h.init /\ g.stop = h.stop /\ g.accepting = h.accepting
          /\ g.buffering = h.buffering /\ g.buffer = left /\ g.live = h.live
      BY <1>1, <2>1, <3>1 DEF HostType
    <3> HIDE DEF g
    <3>3. h.buffer # <<>> /\ h.live = <<>> /\ h.buffering = TRUE
      BY <1>1, <2>1, <2>5, <2>6 DEF Coherent, OneList, HostType
    <3>4. Coherent(g)
      BY <1>2, <2>4, <3>2, <3>3 DEF Coherent, OneSetup, StopsAlone, OneList, Stopping, Quiet
    <3>5. Pending(g) = left /\ Pending(h) = h.buffer
      BY <1>1, <2>1, <3>2, <3>3 DEF Pending
    <3>6. Shortened(h, g)
      BY <2>1, <3>2, <3>4, <3>5 DEF Shortened, Quiet
    <3>7. MaySubmit(g, "reader", "trust", Head(fresh))
      BY <1>2, <2>1, <2>6, <3>2 DEF MaySubmit, Quiet, Proper, Entry
    <3>8. Continues(g, Submit(g, "reader", "trust", Head(fresh)))
      BY <3>4, <3>7, SubmitContinues
    <3>9. NextReading(h) = Submit(g, "reader", "trust", Head(fresh))
      BY <2>3, <2>6 DEF g
    <3> QED
      BY <3>6, <3>8, <3>9, ShortenedThenContinues
  <2>7. CASE fresh = <<>>
    <3> DEFINE g == [rest EXCEPT !.buffering = FALSE, !.init = "done"]
    <3>1. /\ g \in HostType /\ g.queue = h.queue
          /\ g.init = "done" /\ g.stop = h.stop /\ g.accepting = h.accepting
          /\ g.buffering = FALSE /\ g.buffer = <<>> /\ g.live = h.live
      BY <1>1, <2>1, <2>2, <2>7 DEF HostType
    <3> HIDE DEF g
    <3>2. Coherent(g)
      BY <1>2, <2>4, <3>1 DEF Coherent, OneSetup, StopsAlone, OneList, Stopping, Quiet
    <3>3. Trails(Pending(g), Pending(h))
      <4>1. Pending(g) = h.live
        BY <1>1, <3>1 DEF Pending
      <4>2. CASE h.live = <<>>
        BY <1>1, <4>1, <4>2, TrailsItself
      <4>3. CASE h.buffer = <<>>
        BY <1>1, <4>1, <4>3, TrailsItself DEF Pending
      <4> QED
        BY <2>5, <4>2, <4>3
    <3>4. Continues(h, g)
      BY <3>1, <3>2, <3>3 DEF Continues, Extends, Quiet
    <3>5. NextReading(h) = g
      BY <2>3, <2>7 DEF g
    <3> QED
      BY <3>4, <3>5
  <2> QED
    BY <2>6, <2>7
<1>3. CASE h.init # "reading"
  <2> DEFINE fresh == Fresh(h.live, h.version)
             left == IF fresh = <<>> THEN <<>> ELSE Tail(fresh)
             rest == [h EXCEPT !.live = left]
  <2>1. /\ left \in Seq(Reading) /\ Trails(left, h.live)
        /\ fresh # <<>> => Head(fresh) \in Reading
        /\ h.live = <<>> => fresh = <<>>
    BY <1>1, RestTrails
  <2>2. fresh = <<>> => left = <<>>
    OBVIOUS
  <2>3. NextReading(h) =
          IF fresh # <<>>
          THEN Submit([rest EXCEPT !.version = Head(fresh).version], "reader", "trust", Head(fresh))
          ELSE rest
    BY <1>3 DEF NextReading
  <2> HIDE DEF fresh, left
  <2>4. CASE fresh # <<>>
    <3> DEFINE g == [rest EXCEPT !.version = Head(fresh).version]
    <3>1. Head(fresh).version \in Nat
      BY <2>1, <2>4 DEF Reading
    <3>2. /\ g \in HostType /\ g.queue = h.queue
          /\ g.init = h.init /\ g.stop = h.stop /\ g.accepting = h.accepting
          /\ g.buffering = h.buffering /\ g.buffer = h.buffer /\ g.live = left
      BY <1>1, <2>1, <3>1 DEF HostType
    <3> HIDE DEF g
    <3>3. h.live # <<>> /\ h.buffer = <<>> /\ h.buffering = FALSE
      BY <1>1, <2>1, <2>4 DEF Coherent, OneList, HostType
    <3>4. Coherent(g)
      BY <3>2, <3>3 DEF Coherent, OneSetup, StopsAlone, OneList, Stopping, Quiet
    <3>5. Pending(g) = left /\ Pending(h) = h.live
      BY <1>1, <2>1, <3>2, <3>3 DEF Pending
    <3>6. Shortened(h, g)
      BY <2>1, <3>2, <3>4, <3>5 DEF Shortened, Quiet
    <3>7. MaySubmit(g, "reader", "trust", Head(fresh))
      BY <2>1, <2>4, <3>2 DEF MaySubmit, Quiet, Proper, Entry
    <3>8. Continues(g, Submit(g, "reader", "trust", Head(fresh)))
      BY <3>4, <3>7, SubmitContinues
    <3>9. NextReading(h) = Submit(g, "reader", "trust", Head(fresh))
      BY <2>3, <2>4 DEF g
    <3> QED
      BY <3>6, <3>8, <3>9, ShortenedThenContinues
  <2>5. CASE fresh = <<>>
    <3>1. /\ rest \in HostType /\ rest.queue = h.queue
          /\ rest.init = h.init /\ rest.stop = h.stop /\ rest.accepting = h.accepting
          /\ rest.buffering = h.buffering /\ rest.buffer = h.buffer /\ rest.live = <<>>
      BY <1>1, <2>1, <2>2, <2>5 DEF HostType
    <3> HIDE DEF rest
    <3>2. Coherent(rest)
      BY <3>1 DEF Coherent, OneSetup, StopsAlone, OneList, Stopping, Quiet
    <3>3. Trails(Pending(rest), Pending(h))
      <4>1. Pending(rest) = h.buffer
        BY <1>1, <3>1 DEF Pending
      <4>2. h.live = <<>> \/ h.buffer = <<>>
        BY <1>1 DEF Coherent, OneList, HostType
      <4>3. CASE h.live = <<>>
        BY <1>1, <4>1, <4>3, TrailsItself DEF Pending
      <4>4. CASE h.buffer = <<>>
        BY <1>1, <4>1, <4>4, TrailsItself
      <4> QED
        BY <4>2, <4>3, <4>4
    <3>4. Continues(h, rest)
      BY <3>1, <3>2, <3>3 DEF Continues, Extends, Quiet
    <3>5. NextReading(h) = rest
      BY <2>3, <2>5
    <3> QED
      BY <3>4, <3>5
  <2> QED
    BY <2>4, <2>5
<1> QED
  BY <1>2, <1>3

LEMMA ContinuesThenShortened ==
    ASSUME NEW h, NEW g, NEW f, Coherent(h), Continues(h, g), Shortened(g, f)
    PROVE  Continues(h, f)
<1>1. h \in HostType /\ g \in HostType /\ f \in HostType
  BY DEF Coherent, Shortened, Continues
<1>2. Pending(h) \in Seq(Reading) /\ Pending(g) \in Seq(Reading) /\ Pending(f) \in Seq(Reading)
  BY <1>1, PendingIsSeq
<1>3. Trails(Pending(g), Pending(h)) /\ Trails(Pending(f), Pending(g))
  BY DEF Shortened, Continues
<1>4. Trails(Pending(f), Pending(h))
  BY <1>2, <1>3, TrailsTransitive
<1> QED
  BY <1>4 DEF Shortened, Continues

LEMMA ContinuesItself == ASSUME NEW h, Coherent(h) PROVE Continues(h, h)
<1>1. Pending(h) \in Seq(Reading)
  BY PendingIsSeq DEF Coherent
<1> QED
  BY <1>1, TrailsItself DEF Continues, Extends, Quiet

(* A host in setup fails once the operation of its setup is done.          *)
LEMMA InitFailsShortens ==
    ASSUME NEW h, Coherent(h), ~Stopping(h), NoneOf(h.queue, "init")
    PROVE  Shortened(h, InitFails(h))
<1> DEFINE g == InitFails(h)
<1>1. h \in HostType /\ Pending(h) \in Seq(Reading)
  BY PendingIsSeq DEF Coherent
<1>2. /\ g \in HostType /\ g.queue = h.queue
      /\ g.init = "failed" /\ g.stop = "asked" /\ g.accepting = h.accepting
      /\ g.buffering = h.buffering /\ g.buffer = h.buffer /\ g.live = h.live
  BY <1>1 DEF InitFails, HostType
<1> HIDE DEF g
<1>3. ~Quiet(h)
  BY DEF Quiet, Stopping
<1>4. Coherent(g)
  BY <1>2, <1>3 DEF Coherent, OneSetup, StopsAlone, OneList, Stopping, Quiet
<1>5. Trails(Pending(g), Pending(h))
  BY <1>1, <1>2, TrailsItself DEF Pending
<1> QED
  BY <1>2, <1>4, <1>5 DEF Shortened, Quiet, g

LEMMA RequestFatalShutdownContinues ==
    ASSUME NEW h, Coherent(h), rt.latest \in Nat
    PROVE  /\ Continues(h, RequestFatalShutdown(h))
           /\ RequestFatalShutdown(h).stop = h.stop
           /\ RequestFatalShutdown(h).init = h.init
           /\ NoneOf(h.queue, "init") => NoneOf(RequestFatalShutdown(h).queue, "init")
<1>1. CASE Stopping(h)
  BY <1>1, ContinuesItself DEF RequestFatalShutdown
<1>2. CASE ~Stopping(h)
  <2>1. MaySubmit(h, "callback", "fatal", None)
    BY <1>2 DEF MaySubmit, Proper, Entry, Maybe, Quiet, Stopping
  <2> QED
    BY <1>2, <2>1, SubmitContinues DEF RequestFatalShutdown
<1> QED
  BY <1>1, <1>2

LEMMA ReaderDiesContinues ==
    ASSUME NEW h, NEW g, Coherent(h), Continues(h, g), g.init = h.init, g.stop = h.stop
    PROVE  Continues(h, ReaderDies(g))
<1>1. CASE g.init = "reading"
  <2>1. Coherent(g) /\ ~Stopping(g) /\ NoneOf(g.queue, "init")
    BY <1>1 DEF Continues, Coherent, StopsAlone, OneSetup
  <2> QED
    BY <1>1, <2>1, InitFailsShortens, ContinuesThenShortened DEF ReaderDies
<1>2. CASE g.init # "reading"
  BY <1>2 DEF ReaderDies
<1> QED
  BY <1>1, <1>2

-----------------------------------------------------------------------------
(* A COROUTINE GOES ON *)

(* The host after the worker is done with the head of the queue.           *)
Popped(h) == [h EXCEPT !.queue = Tail(@)]

(* What is known of it while it is not the stop's turn.                    *)
Ready(h, e) ==
    /\ Coherent(h) /\ ~Quiet(h) /\ Proper(e) /\ e.by # "stop"
    /\ e.by = "init" => h.init = "begin" /\ NoneOf(h.queue, "init")
    /\ e.by = "reader" => h.init \notin {"new", "begin"}

LEMMA PoppedIsReady ==
    ASSUME NEW h, Coherent(h), h.queue # <<>>, Head(h.queue).by # "stop"
    PROVE  /\ Ready(Popped(h), Head(h.queue))
           /\ Pending(Popped(h)) = Pending(h)
           /\ Popped(h).accepting = h.accepting /\ Popped(h).queue = Tail(h.queue)
<1> DEFINE g == Popped(h)
           e == Head(h.queue)
           q == h.queue
<1>1. h \in HostType /\ q \in Seq(Entry) /\ q # <<>>
  BY DEF Coherent, HostType
<1>2. /\ Tail(q) \in Seq(Entry) /\ Len(q) \in Nat \ {0} /\ Len(Tail(q)) = Len(q) - 1
      /\ DOMAIN q = 1 .. Len(q) /\ DOMAIN Tail(q) = 1 .. Len(q) - 1
      /\ \A i \in DOMAIN Tail(q) : i + 1 \in DOMAIN q /\ Tail(q)[i] = q[i + 1]
      /\ e = q[1] /\ 1 \in DOMAIN q
  BY <1>1, HeadTailProperties
<1>3. /\ g \in HostType /\ g.queue = Tail(q)
      /\ g.init = h.init /\ g.stop = h.stop /\ g.accepting = h.accepting
      /\ g.buffering = h.buffering /\ g.buffer = h.buffer /\ g.live = h.live
  BY <1>1, <1>2 DEF HostType, Popped
<1> HIDE DEF g
<1>4. Proper(e) /\ AllProper(g.queue)
  BY <1>2, <1>3 DEF AllProper, Coherent
<1>5. \A by : NoneOf(q, by) => NoneOf(Tail(q), by) /\ e.by # by
  BY <1>2 DEF NoneOf
<1>6. OneAtMost(q, "init") => OneAtMost(Tail(q), "init") /\ (e.by = "init" => NoneOf(Tail(q), "init"))
  <2>1. SUFFICES ASSUME OneAtMost(q, "init")
                 PROVE  OneAtMost(Tail(q), "init") /\ (e.by = "init" => NoneOf(Tail(q), "init"))
    OBVIOUS
  <2>2. ASSUME NEW i \in DOMAIN Tail(q), NEW j \in DOMAIN Tail(q),
               Tail(q)[i].by = "init", Tail(q)[j].by = "init"
        PROVE  i = j
    <3>1. i + 1 = j + 1
      BY <1>2, <2>1, <2>2 DEF OneAtMost
    <3> QED
      BY <1>2, <3>1
  <2>3. ASSUME e.by = "init", NEW i \in DOMAIN Tail(q) PROVE Tail(q)[i].by # "init"
    <3>1. q[i + 1].by = "init" => i + 1 = 1
      BY <1>2, <2>1, <2>3 DEF OneAtMost
    <3> QED
      BY <1>2, <3>1
  <2> QED
    BY <2>2, <2>3 DEF OneAtMost, NoneOf
<1>7. OneSetup(h) /\ StopsAlone(h)
  BY DEF Coherent
<1>8. /\ OneSetup(g)
      /\ e.by = "init" => g.init = "begin" /\ NoneOf(g.queue, "init")
      /\ e.by = "reader" => g.init \notin {"new", "begin"}
  BY <1>3, <1>5, <1>6, <1>7 DEF OneSetup
<1>9. ~Quiet(h)
  BY <1>1, <1>2, <1>7 DEF StopsAlone, Quiet, Only
<1>10. StopsAlone(g) /\ ~Quiet(g)
  <2>1. NoneOf(g.queue, "stop")
    BY <1>3, <1>5, <1>7, <1>9 DEF StopsAlone
  <2> QED
    BY <1>3, <1>7, <1>9, <2>1 DEF StopsAlone, Quiet, Stopping
<1>11. OneList(g) /\ Pending(g) = Pending(h)
  BY <1>3 DEF OneList, Coherent, Pending
<1> QED
  BY <1>3, <1>4, <1>8, <1>10, <1>11 DEF Coherent, Ready, g

LEMMA ResumeInitContinues ==
    ASSUME NEW h, NEW e, NEW result, Ready(h, e), e.by = "init", rt.latest \in Nat
    PROVE  Continues(h, ResumeInit(h, e, result))
<1>1. /\ Coherent(h) /\ ~Quiet(h) /\ Proper(e) /\ h.init = "begin" /\ NoneOf(h.queue, "init")
      /\ h \in HostType /\ ~Stopping(h) /\ h.buffering = TRUE
  BY DEF Ready, Coherent, OneSetup, StopsAlone
<1>2. CASE result = "fatal"
  <2> DEFINE g == RequestFatalShutdown(h)
  <2>1. /\ Continues(h, g) /\ g.stop = h.stop /\ NoneOf(g.queue, "init")
    BY <1>1, RequestFatalShutdownContinues
  <2>2. Coherent(g) /\ ~Stopping(g)
    BY <1>1, <2>1 DEF Continues, Stopping
  <2>3. ResumeInit(h, e, result) = InitFails(g)
    BY <1>2 DEF ResumeInit
  <2> HIDE DEF g
  <2> QED
    BY <1>1, <2>1, <2>2, <2>3, InitFailsShortens, ContinuesThenShortened
<1>3. CASE result # "fatal" /\ e.op = "begin" /\ h.snapshot > 0
  <2> DEFINE g == [h EXCEPT !.reported = h.snapshot]
  <2>1. h.snapshot \in Nat
    BY <1>1 DEF HostType
  <2>2. /\ g \in HostType /\ g.queue = h.queue
        /\ g.init = h.init /\ g.stop = h.stop /\ g.accepting = h.accepting
        /\ g.buffering = h.buffering /\ g.buffer = h.buffer /\ g.live = h.live
    BY <1>1, <2>1 DEF HostType
  <2>3. ResumeInit(h, e, result) = Submit(g, "init", "report_supervisor", h.snapshot)
    BY <1>3 DEF ResumeInit
  <2> HIDE DEF g
  <2>4. Coherent(g)
    BY <1>1, <2>2 DEF Coherent, OneSetup, StopsAlone, OneList, Stopping, Quiet
  <2>5. Pending(g) = Pending(h)
    BY <2>2 DEF Pending
  <2>6. Shortened(h, g)
    BY <1>1, <2>2, <2>4, <2>5, PendingIsSeq, TrailsItself DEF Shortened, Quiet
  <2>7. MaySubmit(g, "init", "report_supervisor", h.snapshot)
    BY <1>1, <2>1, <2>2 DEF MaySubmit, Proper, Entry, Maybe, Quiet
  <2>8. Continues(g, Submit(g, "init", "report_supervisor", h.snapshot))
    BY <2>4, <2>7, SubmitContinues
  <2> QED
    BY <1>1, <2>3, <2>6, <2>8, ShortenedThenContinues
<1>4. CASE result # "fatal" /\ e.op = "report_supervisor"
  <2>1. ResumeInit(h, e, result) = Submit(h, "init", "report_runtime", e.of)
    BY <1>4 DEF ResumeInit
  <2>2. MaySubmit(h, "init", "report_runtime", e.of)
    BY <1>1, <1>4 DEF MaySubmit, Proper, Entry, Maybe
  <2> QED
    BY <1>1, <2>1, <2>2, SubmitContinues
<1>5. CASE result # "fatal" /\ ~(e.op = "begin" /\ h.snapshot > 0) /\ e.op # "report_supervisor"
  <2> DEFINE g == [h EXCEPT !.init = "reading"]
  <2>1. /\ g \in HostType /\ g.queue = h.queue
        /\ g.init = "reading" /\ g.stop = h.stop /\ g.accepting = h.accepting
        /\ g.buffering = h.buffering /\ g.buffer = h.buffer /\ g.live = h.live
    BY <1>1 DEF HostType
  <2>2. ResumeInit(h, e, result) = NextReading(g)
    BY <1>5 DEF ResumeInit, StartReading
  <2> HIDE DEF g
  <2>3. Coherent(g) /\ ~Quiet(g)
    BY <1>1, <2>1 DEF Coherent, OneSetup, StopsAlone, OneList, Stopping, Quiet
  <2>4. Pending(g) = Pending(h)
    BY <2>1 DEF Pending
  <2>5. Shortened(h, g)
    BY <1>1, <2>1, <2>3, <2>4, PendingIsSeq, TrailsItself DEF Shortened, Quiet
  <2>6. Continues(g, NextReading(g))
    BY <2>1, <2>3, NextReadingContinues
  <2> QED
    BY <1>1, <2>2, <2>5, <2>6, ShortenedThenContinues
<1> QED
  BY <1>2, <1>3, <1>4, <1>5

LEMMA ResumeReaderContinues ==
    ASSUME NEW h, NEW e, NEW result, Ready(h, e), e.by = "reader", rt.latest \in Nat
    PROVE  Continues(h, ResumeReader(h, e, result))
<1>1. /\ Coherent(h) /\ ~Quiet(h) /\ Proper(e) /\ h.init \notin {"new", "begin"}
      /\ e.of \in Reading
  BY DEF Ready, Proper
<1>2. Continues(h, NextReading(h))
  BY <1>1, NextReadingContinues
<1>3. Continues(h, ReaderDies(h)) /\ Continues(h, ReaderDies(RequestFatalShutdown(h)))
  BY <1>1, ContinuesItself, RequestFatalShutdownContinues, ReaderDiesContinues
<1>4. \A op \in {"process", "mark", "mark_again"} : Continues(h, Submit(h, "reader", op, e.of))
  <2>1. ASSUME NEW op \in {"process", "mark", "mark_again"}
        PROVE  Continues(h, Submit(h, "reader", op, e.of))
    <3>1. MaySubmit(h, "reader", op, e.of)
      BY <1>1 DEF MaySubmit, Proper, Entry
    <3> QED
      BY <1>1, <3>1, SubmitContinues
  <2> QED
    BY <2>1
<1>5. CASE e.op = "trust"
  BY <1>2, <1>4, <1>5 DEF ResumeReader
<1>6. CASE e.op = "process"
  BY <1>2, <1>3, <1>4, <1>6 DEF ResumeReader
<1>7. CASE e.op \notin {"trust", "process"}
  BY <1>2, <1>3, <1>7 DEF ResumeReader
<1> QED
  BY <1>5, <1>6, <1>7

LEMMA ResumeCallbackContinues ==
    ASSUME NEW h, NEW e, NEW result, Ready(h, e), rt.latest \in Nat
    PROVE  Continues(h, ResumeCallback(h, e, result))
<1>1. Coherent(h) /\ ~Quiet(h) /\ Proper(e)
  BY DEF Ready
<1>2. CASE e.op = "report_supervisor"
  <2>1. MaySubmit(h, "callback", "report_runtime", e.of)
    BY <1>1, <1>2 DEF MaySubmit, Proper, Entry, Maybe
  <2> QED
    BY <1>1, <1>2, <2>1, SubmitContinues DEF ResumeCallback
<1>3. CASE e.op # "report_supervisor"
  BY <1>1, <1>3, ContinuesItself, RequestFatalShutdownContinues DEF ResumeCallback
<1> QED
  BY <1>2, <1>3

(* The coroutine of any operation but the stop's.                          *)
LEMMA ResumeContinues ==
    ASSUME Coherent(host), host.queue # <<>>, Head(host.queue).by # "stop",
           NEW result, rt.latest \in Nat
    PROVE  Continues(Popped(host), Resume(Head(host.queue), result))
<1> DEFINE h == Popped(host)
           e == Head(host.queue)
<1>1. Ready(h, e)
  BY PoppedIsReady
<1>2. Resume(e, result) =
        CASE e.by = "init" -> ResumeInit(h, e, result)
          [] e.by = "reader" -> ResumeReader(h, e, result)
          [] e.by = "callback" -> ResumeCallback(h, e, result)
          [] e.by = "stop" -> ResumeStop(h, e, result)
  BY DEF Resume, Popped
<1>3. e.by \in {"init", "reader", "callback"}
  BY <1>1 DEF Ready, Proper, Entry
<1> HIDE DEF h, e
<1>4. CASE e.by = "init"
  BY <1>1, <1>2, <1>4, ResumeInitContinues DEF h, e
<1>5. CASE e.by = "reader"
  BY <1>1, <1>2, <1>5, ResumeReaderContinues DEF h, e
<1>6. CASE e.by = "callback"
  BY <1>1, <1>2, <1>6, ResumeCallbackContinues DEF h, e
<1> QED
  BY <1>3, <1>4, <1>5, <1>6 DEF h, e

-----------------------------------------------------------------------------
(* EVENTS AND THE STOP *)

(* A new state is behind those that wait.                                  *)
Takes(h, g, reading) ==
    /\ Coherent(g)
    /\ g.accepting = h.accepting
    /\ Extends(h.queue, g.queue)
    /\ Trails(Pending(g), Append(Pending(h), reading))

LEMMA TakeTakes ==
    ASSUME NEW h, Coherent(h), h.init # "new", h.accepting = TRUE, NEW reading \in Reading,
           rt.latest \in Nat
    PROVE  Takes(h, Take(h, reading), reading)
<1>1. /\ h \in HostType /\ h.buffer \in Seq(Reading) /\ h.live \in Seq(Reading)
      /\ ~Stopping(h) /\ ~Quiet(h)
  BY DEF Coherent, HostType, StopsAlone, Stopping, Quiet
<1>2. Append(h.buffer, reading) \in Seq(Reading) /\ Append(h.live, reading) \in Seq(Reading)
  BY <1>1
<1>3. CASE h.buffering = TRUE
  <2> DEFINE g == [h EXCEPT !.buffer = Append(h.buffer, reading)]
  <2>1. /\ g \in HostType /\ g.queue = h.queue
        /\ g.init = h.init /\ g.stop = h.stop /\ g.accepting = h.accepting
        /\ g.buffering = TRUE /\ g.buffer = Append(h.buffer, reading) /\ g.live = <<>>
        /\ h.live = <<>>
    BY <1>1, <1>2, <1>3 DEF HostType, Coherent, OneList
  <2>2. Take(h, reading) = g
    BY <1>3 DEF Take
  <2> HIDE DEF g
  <2>3. Coherent(g)
    BY <1>1, <2>1 DEF Coherent, OneSetup, StopsAlone, OneList, Stopping, Quiet
  <2>4. Pending(g) = Append(h.buffer, reading) /\ Pending(h) = h.buffer
    BY <1>1, <1>2, <2>1 DEF Pending
  <2>5. Trails(Pending(g), Append(Pending(h), reading))
    BY <1>2, <2>4, TrailsItself
  <2> QED
    BY <2>1, <2>2, <2>3, <2>5 DEF Takes, Extends
<1>4. CASE h.buffering = FALSE
  <2> DEFINE g == [h EXCEPT !.live = Append(h.live, reading)]
  <2>1. /\ g \in HostType /\ g.queue = h.queue
        /\ g.init = h.init /\ g.stop = h.stop /\ g.accepting = h.accepting
        /\ g.buffering = FALSE /\ g.buffer = <<>> /\ g.live = Append(h.live, reading)
        /\ h.buffer = <<>>
    BY <1>1, <1>2, <1>4 DEF HostType, Coherent, OneList
  <2>2. Take(h, reading) = IF Waits(h, "reader") THEN g ELSE NextReading(g)
    BY <1>4 DEF Take
  <2> HIDE DEF g
  <2>3. Coherent(g) /\ ~Quiet(g)
    BY <1>1, <1>4, <2>1 DEF Coherent, OneSetup, StopsAlone, OneList, Stopping, Quiet
  <2>4. Pending(g) = Append(h.live, reading) /\ Pending(h) = h.live
    BY <1>1, <1>2, <2>1 DEF Pending
  <2>5. Continues(g, g)
    BY <2>3, ContinuesItself
  <2>6. Continues(g, NextReading(g))
    <3>1. g.init \notin {"new", "begin"}
      BY <1>4, <2>1 DEF Coherent, OneSetup
    <3> QED
      BY <2>3, <3>1, NextReadingContinues
  <2>7. Continues(g, Take(h, reading))
    BY <2>2, <2>5, <2>6
  <2> QED
    BY <2>1, <2>4, <2>7 DEF Takes, Continues
<1> QED
  BY <1>1, <1>3, <1>4 DEF HostType

(* Once everything accepted before is done, the queue is empty.            *)
LEMMA GatheredIsEmpty ==
    ASSUME Coherent(host), host.stop = "gather", Gathered
    PROVE  host.queue = <<>>
<1>1. /\ host.queue \in Seq(Entry) /\ AllProper(host.queue)
      /\ NoneOf(host.queue, "init") /\ NoneOf(host.queue, "stop")
  BY DEF Coherent, HostType, OneSetup, StopsAlone, Stopping, Quiet
<1>2. \A i \in DOMAIN host.queue : FALSE
  BY <1>1 DEF AllProper, Proper, Entry, NoneOf, Gathered, Waits
<1>3. Len(host.queue) \in Nat /\ DOMAIN host.queue = 1 .. Len(host.queue)
  BY <1>1
<1>4. Len(host.queue) = 0
  <2>1. Len(host.queue) > 0 => 1 \in DOMAIN host.queue
    BY <1>3
  <2> QED
    BY <1>2, <1>3, <2>1
<1> QED
  BY <1>1, <1>4, EmptySeq

(* The stop is alone: it submits its next operation to an empty queue.     *)
StopsWith(h, op, stop) == Submit([h EXCEPT !.queue = <<>>, !.stop = stop], "stop", op, None)
StopGoesOn(h, g) == Coherent(g) /\ Pending(g) = Pending(h) /\ g.accepting = FALSE

LEMMA StopSubmits ==
    ASSUME NEW h, Coherent(h), Stopping(h), NEW op \in {"stop", "cancel_all"}, rt.latest \in Nat,
           NEW stop, stop = IF op = "stop" THEN "runtime" ELSE "timers"
    PROVE  StopGoesOn(h, StopsWith(h, op, stop)) /\ StopsWith(h, op, stop).stop = stop
<1> DEFINE e == [by |-> "stop", op |-> op, of |-> None, runtime |-> rt.latest]
           g == StopsWith(h, op, stop)
<1>1. e \in Entry /\ Proper(e) /\ e.by = "stop" /\ e.op = op
  BY DEF Entry, Proper, Maybe
<1>2. h \in HostType /\ h.accepting = FALSE /\ h.init \in {"done", "failed"}
  BY DEF Coherent, StopsAlone
<1> HIDE DEF e
<1>3. <<e>> \in Seq(Entry) /\ Len(<<e>>) = 1 /\ <<e>>[1] = e /\ DOMAIN <<e>> = {1}
  BY <1>1
<1>4. g = [h EXCEPT !.queue = <<e>>, !.stop = stop]
  <2>1. Append(<<>>, e) = <<e>>
    OBVIOUS
  <2> QED
    BY <1>2, <2>1 DEF StopsWith, Submit, HostType, e
<1>5. /\ g \in HostType /\ g.queue = <<e>> /\ g.stop = stop
      /\ g.init = h.init /\ g.accepting = h.accepting
      /\ g.buffering = h.buffering /\ g.buffer = h.buffer /\ g.live = h.live
  BY <1>2, <1>3, <1>4 DEF HostType
<1> HIDE DEF g
<1>6. AllProper(g.queue) /\ OneAtMost(g.queue, "init") /\ NoneOf(g.queue, "init") /\ Only(g.queue, op)
  BY <1>1, <1>3, <1>5 DEF AllProper, OneAtMost, NoneOf, Only
<1>7. Coherent(g)
  <2>1. OneSetup(g)
    BY <1>2, <1>5, <1>6 DEF OneSetup
  <2>2. StopsAlone(g)
    BY <1>2, <1>5, <1>6 DEF StopsAlone, Stopping, Quiet
  <2> QED
    BY <1>5, <1>6, <2>1, <2>2 DEF Coherent, OneList
<1> QED
  BY <1>2, <1>5, <1>7 DEF StopGoesOn, Pending, g

(* The stop goes on after its operation.                                   *)
LEMMA ResumeStopCloses ==
    ASSUME Coherent(host), host.queue # <<>>, Head(host.queue).by = "stop", NEW result,
           rt.latest \in Nat
    PROVE  /\ StopGoesOn(host, Resume(Head(host.queue), result))
           /\ host.stop = IF Head(host.queue).op = "stop" THEN "runtime" ELSE "timers"
           /\ Resume(Head(host.queue), result).stop
                = IF Head(host.queue).op = "stop" THEN "timers" ELSE "close"
<1> DEFINE e == Head(host.queue)
           h == Popped(host)
           g == Resume(e, result)
<1>1. host \in HostType /\ host.queue \in Seq(Entry) /\ StopsAlone(host)
  BY DEF Coherent, HostType
<1>2. e = host.queue[1] /\ 1 \in DOMAIN host.queue
  BY <1>1
<1>3. Quiet(host) /\ host.stop \notin {"close", "stopped"}
  BY <1>1, <1>2 DEF StopsAlone, NoneOf
<1>4. /\ Stopping(host) /\ Len(host.queue) = 1
      /\ host.stop = IF e.op = "stop" THEN "runtime" ELSE "timers"
      /\ e.op \in {"stop", "cancel_all"}
  BY <1>1, <1>2, <1>3 DEF StopsAlone, Quiet, Stopping, Only
<1>5. Tail(host.queue) = <<>>
  <2>1. Tail(host.queue) \in Seq(Entry) /\ Len(Tail(host.queue)) = 0
    BY <1>1, <1>4, HeadTailProperties
  <2> QED
    BY <2>1, EmptySeq
<1>6. e.by = "stop" /\ g = ResumeStop(h, e, result)
  BY DEF Resume, Popped
<1>7. CASE e.op = "stop"
  <2>1. g = Submit([[host EXCEPT !.queue = <<>>] EXCEPT !.stop = "timers"], "stop", "cancel_all", None)
    BY <1>5, <1>6, <1>7 DEF ResumeStop, Popped
  <2>2. [[host EXCEPT !.queue = <<>>] EXCEPT !.stop = "timers"]
        = [host EXCEPT !.queue = <<>>, !.stop = "timers"]
    BY <1>1 DEF HostType
  <2>3. g = StopsWith(host, "cancel_all", "timers")
    BY <2>1, <2>2 DEF StopsWith
  <2> HIDE DEF g
  <2>4. "timers" = IF "cancel_all" = "stop" THEN "runtime" ELSE "timers"
    OBVIOUS
  <2>5. StopGoesOn(host, g) /\ g.stop = "timers"
    BY <1>4, <2>3, <2>4, StopSubmits
  <2> QED
    BY <1>4, <1>7, <2>5 DEF g
<1>8. CASE e.op # "stop"
  <2>1. g = [[host EXCEPT !.queue = <<>>] EXCEPT !.stop = "close"]
    BY <1>5, <1>6, <1>8 DEF ResumeStop, Popped
  <2>2. /\ g \in HostType /\ g.queue = <<>> /\ g.stop = "close"
        /\ g.init = host.init /\ g.accepting = host.accepting
        /\ g.buffering = host.buffering /\ g.buffer = host.buffer /\ g.live = host.live
    <3>1. <<>> \in Seq(Entry)
      OBVIOUS
    <3> QED
      BY <1>1, <2>1, <3>1 DEF HostType
  <2> HIDE DEF g
  <2>3. host.accepting = FALSE /\ host.init \in {"done", "failed"}
    BY <1>1, <1>4 DEF StopsAlone
  <2>4. AllProper(g.queue) /\ OneAtMost(g.queue, "init") /\ NoneOf(g.queue, "init")
    BY <2>2 DEF AllProper, OneAtMost, NoneOf
  <2>5. OneSetup(g) /\ StopsAlone(g)
    BY <2>2, <2>3, <2>4 DEF OneSetup, StopsAlone, Stopping, Quiet
  <2>6. Coherent(g) /\ Pending(g) = Pending(host)
    BY <2>2, <2>4, <2>5 DEF Coherent, OneList, Pending
  <2> QED
    BY <1>4, <1>8, <2>2, <2>3, <2>6 DEF StopGoesOn, g
<1> QED
  BY <1>7, <1>8

-----------------------------------------------------------------------------
(* THE INVARIANT *)

OnItsWay(q, t) == \E i \in DOMAIN q : q[i].op = "timer" /\ q[i].of = t

Shapes ==
    /\ arrived \in Seq(Reading) /\ source \in Nat
    /\ rt \in RuntimeType
    /\ worker \in Maybe(Nat) /\ timers \in SUBSET Nat /\ lost \in SUBSET Nat
    /\ used \in [timers : Nat, failures : Nat, hands : Nat]

(* Timers are numbered as they are installed, and the one that is being    *)
(* installed is nobody's yet.                                              *)
Numbered ==
    /\ \A t \in timers : t <= used.timers
    /\ rt.deadline # None => rt.deadline <= used.timers /\ rt.deadline # worker
    /\ rt.restart # None => rt.restart <= used.timers /\ rt.restart # worker
    /\ worker # None => worker = used.timers /\ worker \in timers \cup lost
    /\ rt.deadline # None => rt.deadline # rt.restart

Ordered == Trails(Pending(host), arrived)
Ended == host.stop \in {"close", "stopped"} => timers = {}

HostInv ==
    /\ Coherent(host) /\ Shapes /\ Ordered
    /\ Numbered /\ ArmedTimerComes /\ Ended

ComesIn(t, ts, ls, q) == t \in ts \cup ls \/ OnItsWay(q, t)

LEMMA ExtendedKeeps ==
    ASSUME NEW q \in Seq(Entry), NEW r, Extends(q, r), NEW t, OnItsWay(q, t)
    PROVE  OnItsWay(r, t)
<1>1. CASE r = q
  BY <1>1
<1>2. CASE r # q
  <2>1. PICK e \in Entry : r = Append(q, e)
    BY <1>2 DEF Extends
  <2>2. PICK i \in DOMAIN q : q[i].op = "timer" /\ q[i].of = t
    BY DEF OnItsWay
  <2>3. i \in DOMAIN r /\ r[i] = q[i]
    BY <2>1, AppendedEntry
  <2> QED
    BY <2>2, <2>3 DEF OnItsWay
<1> QED
  BY <1>1, <1>2

LEMMA PoppedKeeps ==
    ASSUME NEW q \in Seq(Entry), q # <<>>, NEW t, OnItsWay(q, t),
           ~(Head(q).op = "timer" /\ Head(q).of = t)
    PROVE  OnItsWay(Tail(q), t)
<1>1. /\ Tail(q) \in Seq(Entry) /\ Len(Tail(q)) = Len(q) - 1 /\ Len(q) \in Nat
      /\ \A i \in 1 .. Len(Tail(q)) : Tail(q)[i] = q[i + 1]
      /\ Head(q) = q[1] /\ DOMAIN q = 1 .. Len(q) /\ DOMAIN Tail(q) = 1 .. Len(q) - 1
  BY HeadTailProperties
<1>2. PICK i \in DOMAIN q : q[i].op = "timer" /\ q[i].of = t
  BY DEF OnItsWay
<1>3. i # 1 /\ i \in 1 .. Len(q)
  BY <1>1, <1>2
<1>4. i - 1 \in DOMAIN Tail(q) /\ Tail(q)[i - 1] = q[i]
  BY <1>1, <1>3
<1> QED
  BY <1>2, <1>4 DEF OnItsWay

(* What the end of an operation leaves, whatever its result.               *)
Done(e) ==
    /\ Coherent(host') /\ Ordered'
    /\ worker' = None /\ arrived' = arrived /\ source' = source
    /\ host'.accepting = TRUE =>
         \A t \in {rt.deadline, rt.restart} \ {None} :
             ~(e.op = "timer" /\ e.of = t) => ComesIn(t, timers, lost, host'.queue)
    /\ e.by # "stop" => host'.stop \notin {"close", "stopped"}
    /\ e.by = "stop" => host'.accepting = FALSE
    /\ Proper(e)

LEMMA CompletedIsDone ==
    ASSUME HostInv, host.queue # <<>>, NEW result, Completed(Head(host.queue), result)
    PROVE  Done(Head(host.queue))
<1> DEFINE e == Head(host.queue)
           h == Popped(host)
<1>1. /\ Coherent(host) /\ host \in HostType /\ host.queue \in Seq(Entry) /\ rt.latest \in Nat
      /\ arrived \in Seq(Reading) /\ Pending(host) \in Seq(Reading)
      /\ Trails(Pending(host), arrived)
  BY PendingIsSeq DEF HostInv, Shapes, Coherent, HostType, RuntimeType, Ordered
<1>2. /\ host' = Resume(e, result) /\ worker' = None /\ arrived' = arrived /\ source' = source
  BY DEF Completed, environment
<1>3. Proper(e)
  <2>1. 1 \in DOMAIN host.queue /\ e = host.queue[1]
    BY <1>1
  <2> QED
    BY <1>1, <2>1 DEF Coherent, AllProper
<1>4. CASE e.by = "stop"
  <2>1. StopGoesOn(host, Resume(e, result))
    BY <1>1, <1>4, ResumeStopCloses
  <2>2. Coherent(host') /\ Pending(host') = Pending(host) /\ host'.accepting = FALSE
    BY <1>2, <2>1 DEF StopGoesOn
  <2>3. Ordered'
    BY <1>1, <1>2, <2>2 DEF Ordered
  <2> QED
    BY <1>2, <1>3, <1>4, <2>2, <2>3 DEF Done
<1>5. CASE e.by # "stop"
  <2>1. Continues(h, Resume(e, result))
    BY <1>1, <1>5, ResumeContinues
  <2>2. /\ Ready(h, e) /\ Pending(h) = Pending(host)
        /\ h.accepting = host.accepting /\ h.queue = Tail(host.queue)
    BY <1>1, <1>5, PoppedIsReady
  <2> HIDE DEF h
  <2>3. Continues(h, host')
    BY <1>2, <2>1
  <2>4. Coherent(host') /\ host'.accepting = host.accepting /\ ~Quiet(host')
    BY <2>2, <2>3 DEF Continues, Ready
  <2>5. Ordered'
    <3>1. Pending(host') \in Seq(Reading)
      BY <2>4, PendingIsSeq DEF Coherent
    <3>2. Trails(Pending(host'), Pending(host))
      BY <2>2, <2>3 DEF Continues
    <3>3. Trails(Pending(host'), arrived)
      BY <1>1, <3>1, <3>2, TrailsTransitive
    <3> QED
      BY <1>2, <3>3 DEF Ordered
  <2>6. ASSUME host'.accepting = TRUE, NEW t \in {rt.deadline, rt.restart} \ {None},
               ~(e.op = "timer" /\ e.of = t)
        PROVE  ComesIn(t, timers, lost, host'.queue)
    <3>1. host.accepting
      BY <2>4, <2>6
    <3>2. t \in timers \cup lost \/ OnItsWay(host.queue, t)
      BY <2>6, <3>1 DEF HostInv, ArmedTimerComes, OnItsWay
    <3>3. CASE t \in timers \cup lost
      BY <3>3 DEF ComesIn
    <3>4. CASE OnItsWay(host.queue, t)
      <4>1. OnItsWay(Tail(host.queue), t)
        BY <1>1, <2>6, <3>4, PoppedKeeps
      <4>2. Tail(host.queue) \in Seq(Entry)
        BY <1>1
      <4>3. Extends(Tail(host.queue), host'.queue)
        BY <2>2, <2>3 DEF Continues
      <4>4. OnItsWay(host'.queue, t)
        BY <4>1, <4>2, <4>3, ExtendedKeeps
      <4> QED
        BY <4>4 DEF ComesIn
    <3> QED
      BY <3>2, <3>3, <3>4
  <2> QED
    BY <1>2, <1>3, <1>5, <2>4, <2>5, <2>6 DEF Done, Quiet
<1> QED
  BY <1>4, <1>5

-----------------------------------------------------------------------------
(* THE WORKER KEEPS THE INVARIANT *)

(* The timers after a step, without their arithmetic: nothing but new      *)
(* timers is added, and what is armed is armed already or is the worker's. *)
Rearmed(e) ==
    /\ rt' \in RuntimeType /\ used'.timers = used.timers
    /\ used' \in [timers : Nat, failures : Nat, hands : Nat]
    /\ timers' \subseteq timers /\ lost' = lost
    /\ rt'.deadline \in {None, rt.deadline, worker}
    /\ rt'.restart \in {None, rt.restart, worker}
    /\ rt'.deadline # None => rt'.deadline # rt'.restart
    /\ \A t \in {rt'.deadline, rt'.restart} \ {None} :
          /\ t \in timers => t \in timers'
          /\ t = worker \/ ~(e.op = "timer" /\ e.of = t)

LEMMA RearmedIsGood ==
    ASSUME HostInv, NEW e, Done(e), Rearmed(e), Ended'
    PROVE  HostInv'
<1>1. Coherent(host') /\ Ordered'
  BY DEF Done
<1>2. Shapes'
  BY DEF HostInv, Shapes, Done, Rearmed, Maybe
<1>3. Numbered'
  <2>1. /\ worker' = None /\ timers' \subseteq timers /\ used'.timers = used.timers
        /\ rt'.deadline \in {None, rt.deadline, worker} /\ rt'.restart \in {None, rt.restart, worker}
        /\ rt'.deadline # None => rt'.deadline # rt'.restart
    BY DEF Done, Rearmed
  <2>2. /\ worker \in Maybe(Nat) /\ used.timers \in Nat
        /\ Numbered
    BY DEF HostInv, Shapes
  <2>3. worker # None => worker <= used.timers
    BY <2>2 DEF Numbered, Maybe
  <2> QED
    BY <2>1, <2>2, <2>3 DEF Numbered
<1>4. ASSUME host'.accepting, NEW t \in {rt'.deadline, rt'.restart} \ {None}
      PROVE  t \in timers' \cup lost' \/ OnItsWay(host'.queue, t)
  <2>1. host'.accepting = TRUE
    BY <1>1, <1>4 DEF Coherent, HostType
  <2>2. CASE t = worker
    <3>1. t \in timers \cup lost
      BY <1>4, <2>2 DEF HostInv, Numbered
    <3> QED
      BY <1>4, <3>1 DEF Rearmed
  <2>3. CASE t # worker
    <3>1. t \in {rt.deadline, rt.restart} \ {None}
      BY <1>4, <2>3 DEF Rearmed
    <3>2. ~(e.op = "timer" /\ e.of = t)
      BY <1>4, <2>3 DEF Rearmed
    <3>3. ComesIn(t, timers, lost, host'.queue)
      BY <2>1, <3>1, <3>2 DEF Done
    <3> QED
      BY <1>4, <3>3 DEF ComesIn, Rearmed
  <2> QED
    BY <2>2, <2>3
<1>5. ArmedTimerComes'
  BY <1>4 DEF ArmedTimerComes, OnItsWay
<1> QED
  BY <1>1, <1>2, <1>3, <1>5 DEF HostInv

LEMMA FailsCounts ==
    ASSUME HostInv, NEW result, Fails(result)
    PROVE  used'.timers = used.timers /\ used' \in [timers : Nat, failures : Nat, hands : Nat]
BY DEF Fails, HostInv, Shapes

(* What the proofs of the operations use of the invariant.                 *)
LEMMA InvFacts ==
    ASSUME HostInv
    PROVE  /\ rt \in RuntimeType /\ rt.deadline \in Maybe(Nat) /\ rt.restart \in Maybe(Nat)
           /\ None \notin Nat /\ None \notin timers
           /\ rt.deadline # None => rt.deadline # worker /\ rt.deadline # rt.restart
           /\ rt.restart # None => rt.restart # worker
           /\ used \in [timers : Nat, failures : Nat, hands : Nat]
           /\ worker \in Maybe(Nat)
<1>1. /\ rt \in RuntimeType /\ worker \in Maybe(Nat) /\ timers \subseteq Nat
      /\ used \in [timers : Nat, failures : Nat, hands : Nat]
  BY DEF HostInv, Shapes
<1>2. rt.deadline \in Maybe(Nat) /\ rt.restart \in Maybe(Nat)
  BY <1>1 DEF RuntimeType
<1>3. None \notin Nat /\ None \notin timers
  <2>1. \A n \in Nat : n \in Int
    OBVIOUS
  <2>2. None \notin Nat
    BY <2>1, NoneIsNoTime, Zenon
  <2> QED
    BY <1>1, <2>2
<1>4. /\ rt.deadline # None => rt.deadline # worker /\ rt.deadline # rt.restart
      /\ rt.restart # None => rt.restart # worker
  BY DEF HostInv, Numbered
<1> QED
  BY <1>1, <1>2, <1>3, <1>4

LEMMA EvaluateIsGood ==
    ASSUME HostInv, host.queue # <<>>, Evaluate(Head(host.queue))
    PROVE  HostInv'
<1> DEFINE e == Head(host.queue)
<1>1. PICK result \in {"ok", "service", "fatal"} : Fails(result) /\ Completed(e, result)
  BY DEF Evaluate
<1>2. Done(e)
  BY <1>1, CompletedIsDone
<1>3. used'.timers = used.timers /\ used' \in [timers : Nat, failures : Nat, hands : Nat]
  BY <1>1, FailsCounts
<1>4. Evaluates(e) /\ lost' = lost
  BY DEF Evaluate
<1> HIDE DEF e
<1> DEFINE old == IF IsDeadline(e) THEN None ELSE rt.deadline
<1>5. PICK deadline \in (IF worker # None THEN {worker} ELSE {None, old}) :
         /\ rt' = [rt EXCEPT !.deadline = deadline,
                             !.report = IF e.op = "report_runtime" THEN e.of ELSE @]
         /\ timers' = IF deadline = old THEN timers ELSE timers \ {old}
  BY DEF Evaluate, e
<1>6. e.by # "stop" /\ Proper(e)
  BY <1>2, <1>4 DEF Done, Proper, Evaluates, IsDeadline
<1>7. old \in {None, rt.deadline} /\ (old = None \/ ~IsDeadline(e))
  OBVIOUS
<1>8. IsDeadline(e) => old = None
  OBVIOUS
<1> HIDE DEF old
<1>9. /\ rt' \in RuntimeType /\ rt'.deadline = deadline /\ rt'.restart = rt.restart
  <2>1. deadline \in Maybe(Nat)
    BY <1>7, InvFacts DEF Maybe
  <2>2. e.op = "report_runtime" => e.of \in Nat
    BY <1>6 DEF Proper
  <2> QED
    BY <1>5, <2>1, <2>2, InvFacts DEF RuntimeType
<1>10. /\ rt'.deadline \in {None, rt.deadline, worker}
       /\ rt'.deadline # None => rt'.deadline # rt'.restart
       /\ timers' \subseteq timers
  BY <1>5, <1>7, <1>9, InvFacts
<1>11. ASSUME NEW t \in {rt'.deadline, rt'.restart} \ {None}
       PROVE  (t \in timers => t \in timers') /\ (t = worker \/ ~(e.op = "timer" /\ e.of = t))
  <2>1. CASE t = rt.restart
    <3>1. t # old /\ t # rt.deadline
      BY <1>7, <1>11, <2>1, InvFacts
    <3>2. e.op = "timer" => e.of = rt.deadline
      BY <1>4 DEF Evaluates, IsDeadline
    <3> QED
      BY <1>5, <3>1, <3>2
  <2>2. CASE t = deadline /\ worker # None
    <3>1. t = worker /\ t # old
      BY <1>5, <1>7, <1>11, <2>2, InvFacts
    <3> QED
      BY <1>5, <3>1
  <2>3. CASE t = deadline /\ worker = None
    <3>1. t = old /\ t = rt.deadline /\ ~IsDeadline(e)
      BY <1>5, <1>7, <1>11, <2>3
    <3> QED
      BY <1>5, <2>3, <3>1 DEF IsDeadline
  <2> QED
    BY <1>9, <1>11, <2>1, <2>2, <2>3
<1>12. Rearmed(e)
  BY <1>3, <1>4, <1>9, <1>10, <1>11 DEF Rearmed
<1>13. Ended'
  BY <1>2, <1>6 DEF Done, Ended
<1> QED
  BY <1>2, <1>12, <1>13, RearmedIsGood

LEMMA BeginIsGood ==
    ASSUME HostInv, host.queue # <<>>, Begin(Head(host.queue))
    PROVE  HostInv'
<1> DEFINE e == Head(host.queue)
<1>1. e.op = "begin" /\ timers' = timers /\ lost' = lost
  BY DEF Begin
<1>2. Done(e) /\ used'.timers = used.timers /\ used' \in [timers : Nat, failures : Nat, hands : Nat]
  BY CompletedIsDone, FailsCounts, InvFacts DEF Begin
<1>3. \/ worker # None /\ rt' = [rt EXCEPT !.deadline = worker]
      \/ rt' = rt
  BY DEF Begin
<1> HIDE DEF e
<1>4. e.by # "stop"
  BY <1>1, <1>2 DEF Done, Proper
<1>5. /\ rt' \in RuntimeType /\ rt'.restart = rt.restart
      /\ rt'.deadline = rt.deadline \/ (rt'.deadline = worker /\ worker # None)
  BY <1>3, InvFacts DEF RuntimeType, Maybe
<1>6. Rearmed(e)
  BY <1>1, <1>2, <1>5, InvFacts DEF Rearmed
<1>7. Ended'
  BY <1>2, <1>4 DEF Done, Ended
<1> QED
  BY <1>2, <1>6, <1>7, RearmedIsGood

LEMMA ReportFatalIsGood ==
    ASSUME HostInv, host.queue # <<>>, ReportFatal(Head(host.queue))
    PROVE  HostInv'
<1> DEFINE e == Head(host.queue)
<1>1. /\ e.op = "fatal" /\ lost' = lost /\ used' = used /\ worker # None
      /\ timers' = timers \ {rt.deadline, rt.restart}
      /\ rt' = [rt EXCEPT !.stopped = TRUE, !.authority = "failsafe", !.deadline = None,
                          !.restart = worker]
  BY DEF ReportFatal
<1>2. Done(e)
  BY CompletedIsDone DEF ReportFatal
<1> HIDE DEF e
<1>3. e.by # "stop"
  BY <1>1, <1>2 DEF Done, Proper
<1>4. rt' \in RuntimeType /\ rt'.deadline = None /\ rt'.restart = worker
  <2>1. rt \in RuntimeType /\ worker \in Maybe(Nat) /\ None \in Maybe(Nat)
    BY InvFacts DEF Maybe
  <2> QED
    BY <1>1, <2>1 DEF RuntimeType
<1>5. rt.deadline # worker /\ rt.restart # worker
  BY <1>1, InvFacts
<1>6. Rearmed(e)
  BY <1>1, <1>4, <1>5, InvFacts DEF Rearmed
<1>7. Ended'
  BY <1>2, <1>3 DEF Done, Ended
<1> QED
  BY <1>2, <1>6, <1>7, RearmedIsGood

LEMMA RestartIsGood ==
    ASSUME HostInv, host.queue # <<>>, Restart(Head(host.queue))
    PROVE  HostInv'
<1> DEFINE e == Head(host.queue)
           tried == [rt EXCEPT !.attempts = @ + 1, !.restart = None]
<1>1. IsRestart(e) /\ lost' = lost /\ used' = used /\ timers' = timers
  BY DEF Restart
<1>2. Done(e)
  BY CompletedIsDone DEF Restart
<1>3. \/ /\ worker # None
         /\ rt' = [tried EXCEPT !.latest = @ + 1, !.stopped = FALSE, !.authority = "normal",
                                !.deadline = worker]
      \/ worker # None /\ rt' = [tried EXCEPT !.restart = worker]
      \/ rt' = tried
  BY DEF Restart
<1>4. tried \in RuntimeType /\ tried.deadline = rt.deadline /\ tried.restart = None
  <2>1. rt \in RuntimeType /\ None \in Maybe(Nat)
    BY InvFacts DEF Maybe
  <2>2. rt.attempts + 1 \in Nat
    BY <2>1 DEF RuntimeType
  <2> QED
    BY <2>1, <2>2 DEF RuntimeType
<1> HIDE DEF e, tried
<1>5. e.by # "stop" /\ e.op = "timer" /\ e.of = rt.restart /\ e.of \in Nat
  BY <1>1, <1>2 DEF Done, Proper, IsRestart
<1>6. /\ rt' \in RuntimeType
      /\ \/ rt'.deadline = worker /\ worker # None /\ rt'.restart = None
         \/ rt'.deadline = rt.deadline /\ worker # None /\ rt'.restart = worker
         \/ rt'.deadline = rt.deadline /\ rt'.restart = None
  <2>1. CASE worker # None /\ rt' = [tried EXCEPT !.latest = @ + 1, !.stopped = FALSE,
                                                  !.authority = "normal", !.deadline = worker]
    <3>1. tried.latest + 1 \in Nat /\ worker \in Maybe(Nat)
      BY <1>4, InvFacts DEF RuntimeType
    <3> QED
      BY <1>4, <2>1, <3>1 DEF RuntimeType
  <2>2. CASE worker # None /\ rt' = [tried EXCEPT !.restart = worker]
    BY <1>4, <2>2, InvFacts DEF RuntimeType
  <2>3. CASE rt' = tried
    BY <1>4, <2>3
  <2> QED
    BY <1>3, <2>1, <2>2, <2>3
<1>7. rt.restart # None /\ rt.deadline # rt.restart
  BY <1>5, InvFacts
<1>8. Rearmed(e)
  BY <1>1, <1>5, <1>6, <1>7, InvFacts DEF Rearmed
<1>9. Ended'
  BY <1>2, <1>5 DEF Done, Ended
<1> QED
  BY <1>2, <1>8, <1>9, RearmedIsGood

(* An operation that leaves the runtime and its timers as they are.        *)
LEMMA NothingArmedIsGood ==
    ASSUME HostInv, NEW e, Done(e), UNCHANGED <<rt, timers, lost, used>>, e.by # "stop",
           ~IsDeadline(e), ~IsRestart(e)
    PROVE  HostInv'
<1>1. Rearmed(e)
  BY InvFacts DEF Rearmed, IsDeadline, IsRestart
<1>2. Ended'
  BY DEF Done, Ended
<1> QED
  BY <1>1, <1>2, RearmedIsGood

LEMMA RefuseIsGood ==
    ASSUME HostInv, host.queue # <<>>, Refuse(Head(host.queue))
    PROVE  HostInv'
<1> DEFINE e == Head(host.queue)
<1>1. Done(e) /\ e.op = "process" /\ UNCHANGED <<rt, timers, lost, used>>
  BY CompletedIsDone DEF Refuse
<1> HIDE DEF e
<1>2. e.by # "stop" /\ ~IsDeadline(e) /\ ~IsRestart(e)
  BY <1>1 DEF Done, Proper, IsDeadline, IsRestart
<1> QED
  BY <1>1, <1>2, NothingArmedIsGood

LEMMA NoEffectIsGood ==
    ASSUME HostInv, host.queue # <<>>, NoEffect(Head(host.queue))
    PROVE  HostInv'
<1> DEFINE e == Head(host.queue)
<1>1. /\ Done(e) /\ UNCHANGED <<rt, timers, lost, used>>
      /\ \/ e.op \in {"trust", "report_supervisor", "process", "mark", "mark_again", "report_runtime"}
         \/ e.op = "timer" /\ ~IsDeadline(e) /\ ~IsRestart(e)
  BY CompletedIsDone DEF NoEffect
<1> HIDE DEF e
<1>2. e.by # "stop" /\ ~IsDeadline(e) /\ ~IsRestart(e)
  BY <1>1 DEF Done, Proper, IsDeadline, IsRestart
<1> QED
  BY <1>1, <1>2, NothingArmedIsGood

LEMMA StopIsGood ==
    ASSUME HostInv, host.queue # <<>>, Stop(Head(host.queue))
    PROVE  HostInv'
<1> DEFINE e == Head(host.queue)
<1>1. /\ e.by = "stop" /\ used' = used /\ lost' = lost
      /\ \/ /\ e.op = "stop" /\ rt' = [rt EXCEPT !.stopped = TRUE, !.deadline = None]
            /\ timers' = timers \ {rt.deadline}
         \/ e.op # "stop" /\ timers' = {} /\ rt' = rt
  BY DEF Stop
<1>2. Done(e) /\ Coherent(host) /\ rt.latest \in Nat
  BY CompletedIsDone DEF Stop, HostInv, Shapes, RuntimeType
<1>3. host' = Resume(e, "ok")
  BY DEF Stop, Completed
<1>4. host'.stop = IF e.op = "stop" THEN "timers" ELSE "close"
  BY <1>1, <1>2, <1>3, ResumeStopCloses
<1> HIDE DEF e
<1>5. /\ Coherent(host') /\ Ordered' /\ worker' = None /\ arrived' = arrived /\ source' = source
      /\ host'.accepting = FALSE
  BY <1>1, <1>2 DEF Done
<1>6. rt' \in RuntimeType /\ rt'.deadline \in {None, rt.deadline} /\ rt'.restart = rt.restart
      /\ timers' \subseteq timers
  BY <1>1, InvFacts DEF RuntimeType, Maybe
<1>7. Shapes'
  BY <1>1, <1>5, <1>6 DEF HostInv, Shapes, Maybe
<1>8. Numbered'
  BY <1>1, <1>5, <1>6 DEF HostInv, Numbered
<1>9. ArmedTimerComes'
  BY <1>5 DEF ArmedTimerComes
<1>10. Ended'
  BY <1>1, <1>4 DEF Ended
<1> QED
  BY <1>5, <1>7, <1>8, <1>9, <1>10 DEF HostInv

LEMMA InstallIsGood ==
    ASSUME HostInv, host.queue # <<>>, Install(Head(host.queue))
    PROVE  HostInv'
<1>1. /\ worker = None /\ worker' = used.timers + 1
      /\ timers' = timers \cup {used.timers + 1}
      /\ used' = [used EXCEPT !.timers = @ + 1]
      /\ UNCHANGED <<host, arrived, source, rt, lost>>
  BY DEF Install, environment
<1>2. used.timers \in Nat /\ used'.timers = used.timers + 1 /\ timers \subseteq Nat
  BY <1>1 DEF HostInv, Shapes
<1>3. Shapes'
  BY <1>1, <1>2 DEF HostInv, Shapes, Maybe
<1>4. Numbered'
  <2>1. /\ \A t \in timers : t <= used.timers /\ t \in Nat
        /\ rt.deadline # None => rt.deadline <= used.timers /\ rt.deadline \in Nat
        /\ rt.restart # None => rt.restart <= used.timers /\ rt.restart \in Nat
        /\ rt.deadline # None => rt.deadline # rt.restart
    BY <1>2, InvFacts DEF HostInv, Numbered, Maybe
  <2> QED
    BY <1>1, <1>2, <2>1 DEF Numbered
<1>5. Coherent(host') /\ Ordered' /\ ArmedTimerComes'
  BY <1>1 DEF HostInv, Ordered, ArmedTimerComes
<1>6. Ended'
  BY <1>1 DEF HostInv, Coherent, StopsAlone, Ended
<1> QED
  BY <1>3, <1>4, <1>5, <1>6 DEF HostInv

LEMMA WorkIsGood == ASSUME HostInv, Work PROVE HostInv'
BY InstallIsGood, EvaluateIsGood, BeginIsGood, ReportFatalIsGood, RestartIsGood, RefuseIsGood,
   StopIsGood, NoEffectIsGood DEF Work

-----------------------------------------------------------------------------
(* THE EVENT LOOP KEEPS THE INVARIANT *)

(* A step of the event loop that arms nothing.                             *)
LoopStep ==
    /\ Coherent(host') /\ Ordered' /\ arrived' \in Seq(Reading) /\ source' \in Nat
    /\ UNCHANGED <<rt, worker, used>>
    /\ timers' \subseteq timers /\ lost' \in SUBSET Nat
    /\ worker # None => worker \in timers' \cup lost'
    /\ host'.accepting = TRUE =>
         \A t \in {rt.deadline, rt.restart} \ {None} :
             ComesIn(t, timers, lost, host.queue) => ComesIn(t, timers', lost', host'.queue)
    /\ host'.accepting = TRUE => host.accepting = TRUE

LEMMA LoopStepIsGood ==
    ASSUME HostInv, LoopStep, Ended'
    PROVE  HostInv'
<1>1. Shapes'
  BY DEF HostInv, Shapes, LoopStep
<1>2. Numbered'
  <2>1. /\ timers' \subseteq timers /\ UNCHANGED <<rt, worker, used>>
        /\ worker # None => worker \in timers' \cup lost'
    BY DEF LoopStep
  <2> QED
    BY <2>1 DEF HostInv, Numbered
<1>3. ArmedTimerComes'
  <2>1. host' \in HostType
    BY DEF LoopStep, Coherent
  <2>2. host'.accepting => host'.accepting = TRUE
    BY <2>1 DEF HostType
  <2>3. ASSUME host'.accepting, NEW t \in {rt.deadline, rt.restart} \ {None}
        PROVE  t \in timers' \cup lost' \/ OnItsWay(host'.queue, t)
    <3>1. host.accepting
      BY <2>2, <2>3 DEF LoopStep
    <3>2. ComesIn(t, timers, lost, host.queue)
      BY <2>3, <3>1 DEF HostInv, ArmedTimerComes, OnItsWay, ComesIn
    <3> QED
      BY <2>2, <2>3, <3>2 DEF LoopStep, ComesIn
  <2> QED
    BY <2>3 DEF LoopStep, ArmedTimerComes, OnItsWay
<1> QED
  BY <1>1, <1>2, <1>3 DEF HostInv, LoopStep

(* A step that leaves the timers alone and adds to the queue at most.      *)
LEMMA QueueingIsLoopStep ==
    ASSUME HostInv, Coherent(host'), Ordered', arrived' \in Seq(Reading), source' \in Nat,
           UNCHANGED <<rt, worker, timers, lost, used>>,
           Extends(host.queue, host'.queue) \/ host'.accepting = FALSE,
           host'.accepting = TRUE => host.accepting = TRUE
    PROVE  LoopStep
<1>1. /\ host.queue \in Seq(Entry) /\ timers' \subseteq timers /\ lost' \in SUBSET Nat
      /\ worker # None => worker \in timers' \cup lost'
  BY DEF HostInv, Coherent, HostType, Shapes, Numbered
<1>2. ASSUME host'.accepting = TRUE, NEW t, ComesIn(t, timers, lost, host.queue)
      PROVE  ComesIn(t, timers', lost', host'.queue)
  <2>1. Extends(host.queue, host'.queue)
    BY <1>2
  <2>2. OnItsWay(host.queue, t) => OnItsWay(host'.queue, t)
    BY <1>1, <2>1, ExtendedKeeps
  <2> QED
    BY <1>2, <2>2 DEF ComesIn
<1> QED
  BY <1>1, <1>2 DEF LoopStep

LEMMA InitializeIsGood ==
    ASSUME HostInv, Initialize
    PROVE  HostInv'
<1>1. PICK snapshot \in {<<>>} \cup {<<[version |-> 1, usable |-> usable]>> : usable \in BOOLEAN},
           reported \in {0, 1} :
         /\ source' = reported
         /\ arrived' = snapshot
         /\ host' = Submit([host EXCEPT !.init = "begin", !.buffer = snapshot,
                                        !.snapshot = reported], "init", "begin", None)
  BY DEF Initialize
<1>2. UNCHANGED <<rt, worker, timers, lost, used>> /\ host.init = "new"
  BY DEF Initialize, Outside
<1>3. snapshot \in Seq(Reading) /\ reported \in Nat
  <2>1. CASE snapshot = <<>>
    <3>1. <<>> \in Seq(Reading)
      OBVIOUS
    <3> QED
      BY <2>1, <3>1
  <2>2. CASE snapshot # <<>>
    <3>1. PICK usable \in BOOLEAN : snapshot = <<[version |-> 1, usable |-> usable]>>
      BY <2>2
    <3> DEFINE x == [version |-> 1, usable |-> usable]
    <3>2. x \in Reading
      BY DEF Reading
    <3> HIDE DEF x
    <3>3. <<x>> \in Seq(Reading)
      BY <3>2
    <3> QED
      BY <3>1, <3>3 DEF x
  <2> QED
    BY <2>1, <2>2
<1> DEFINE g == [host EXCEPT !.init = "begin", !.buffer = snapshot, !.snapshot = reported]
<1>4. /\ Coherent(host) /\ host \in HostType /\ rt.latest \in Nat /\ ~Stopping(host)
      /\ host.buffering = TRUE /\ host.live = <<>>
      /\ NoneOf(host.queue, "init") /\ NoneOf(host.queue, "reader")
  BY <1>2 DEF HostInv, Coherent, OneSetup, OneList, StopsAlone, Shapes, RuntimeType
<1>5. /\ g \in HostType /\ g.queue = host.queue
      /\ g.init = "begin" /\ g.stop = host.stop /\ g.accepting = host.accepting
      /\ g.buffering = TRUE /\ g.buffer = snapshot /\ g.live = <<>>
  BY <1>3, <1>4 DEF HostType
<1>6. host' = Submit(g, "init", "begin", None)
  BY <1>1
<1> HIDE DEF g
<1>7. Coherent(g)
  BY <1>4, <1>5 DEF Coherent, OneSetup, StopsAlone, OneList, Stopping, Quiet
<1>8. MaySubmit(g, "init", "begin", None)
  BY <1>4, <1>5 DEF MaySubmit, Proper, Entry, Maybe, Quiet, Stopping
<1>9. /\ Continues(g, host') /\ Pending(host') = Pending(g)
      /\ host'.stop = host.stop
  BY <1>4, <1>5, <1>6, <1>7, <1>8, SubmitContinues
<1>10. Pending(g) = snapshot
  BY <1>3, <1>5 DEF Pending
<1>11. Ordered'
  BY <1>1, <1>3, <1>9, <1>10, TrailsItself DEF Ordered
<1>12. LoopStep
  BY <1>1, <1>2, <1>3, <1>5, <1>9, <1>11, QueueingIsLoopStep DEF Continues
<1>13. Ended'
  BY <1>4, <1>9 DEF Ended, Stopping
<1> QED
  BY <1>12, <1>13, LoopStepIsGood

LEMMA ReadingArrivesIsGood ==
    ASSUME HostInv, ReadingArrives
    PROVE  HostInv'
<1>1. PICK reading \in {Last(arrived) : x \in DOMAIN arrived}
                      \cup {[version |-> Len(arrived) + 1, usable |-> usable] : usable \in BOOLEAN} :
         /\ arrived' = Append(arrived, reading)
         /\ host' = Take(host, reading)
  BY DEF ReadingArrives
<1>2. /\ UNCHANGED <<source, rt, worker, timers, lost, used>>
      /\ host.init # "new" /\ host.accepting
  BY DEF ReadingArrives, Outside
<1>3. /\ Coherent(host) /\ host \in HostType /\ rt.latest \in Nat /\ host.accepting = TRUE
      /\ arrived \in Seq(Reading) /\ source \in Nat /\ Pending(host) \in Seq(Reading)
      /\ Trails(Pending(host), arrived)
  BY <1>2, PendingIsSeq DEF HostInv, Coherent, HostType, Shapes, RuntimeType, Ordered
<1>4. reading \in Reading
  <2>1. CASE reading \in {Last(arrived) : x \in DOMAIN arrived}
    <3>1. Len(arrived) \in DOMAIN arrived
      BY <1>3, <2>1
    <3> QED
      BY <1>3, <2>1, <3>1 DEF Last
  <2>2. CASE reading \in {[version |-> Len(arrived) + 1, usable |-> usable] : usable \in BOOLEAN}
    <3>1. Len(arrived) + 1 \in Nat
      BY <1>3
    <3> QED
      BY <2>2, <3>1 DEF Reading
  <2> QED
    BY <2>1, <2>2
<1>5. Takes(host, host', reading)
  BY <1>1, <1>2, <1>3, <1>4, TakeTakes
<1>6. Ordered'
  <2>1. Pending(host') \in Seq(Reading)
    BY <1>5, PendingIsSeq DEF Takes, Coherent
  <2>2. Append(Pending(host), reading) \in Seq(Reading) /\ Append(arrived, reading) \in Seq(Reading)
    BY <1>3, <1>4
  <2>3. Trails(Append(Pending(host), reading), Append(arrived, reading))
    BY <1>3, <1>4, TrailsAppend
  <2>4. Trails(Pending(host'), Append(Pending(host), reading))
    BY <1>5 DEF Takes
  <2>5. Trails(Pending(host'), Append(arrived, reading))
    BY <2>1, <2>2, <2>3, <2>4, TrailsTransitive
  <2> QED
    BY <1>1, <2>5 DEF Ordered
<1>7. arrived' \in Seq(Reading)
  BY <1>1, <1>3, <1>4
<1>8. LoopStep
  BY <1>2, <1>3, <1>5, <1>6, <1>7, QueueingIsLoopStep DEF Takes
<1>9. Ended'
  BY <1>3, <1>5 DEF Ended, Takes, Coherent, StopsAlone, Stopping
<1> QED
  BY <1>8, <1>9, LoopStepIsGood

(* Callbacks submit while the host accepts them.                           *)
LEMMA CallbackContinues ==
    ASSUME NEW h, Coherent(h), h.accepting = TRUE, NEW op \in {"report_supervisor", "timer"},
           NEW of \in Nat, rt.latest \in Nat
    PROVE  /\ Continues(h, Submit(h, "callback", op, of))
           /\ Pending(Submit(h, "callback", op, of)) = Pending(h)
           /\ Submit(h, "callback", op, of).stop = h.stop
<1>1. ~Quiet(h)
  BY DEF Coherent, StopsAlone, Stopping, Quiet
<1>2. MaySubmit(h, "callback", op, of)
  BY <1>1 DEF MaySubmit, Proper, Entry, Maybe
<1> QED
  BY <1>2, SubmitContinues

LEMMA SourceReportsIsGood ==
    ASSUME HostInv, SourceReports
    PROVE  HostInv'
<1> DEFINE g == [host EXCEPT !.reported = source + 1]
<1>1. /\ UNCHANGED <<arrived, rt, worker, timers, lost, used>> /\ source' = source + 1
      /\ host.accepting /\ host' = Submit(g, "callback", "report_supervisor", source + 1)
  BY DEF SourceReports, Outside
<1>2. /\ Coherent(host) /\ host \in HostType /\ rt.latest \in Nat /\ host.accepting = TRUE
      /\ arrived \in Seq(Reading) /\ source + 1 \in Nat /\ Trails(Pending(host), arrived)
  BY <1>1 DEF HostInv, Coherent, HostType, Shapes, RuntimeType, Ordered
<1>3. /\ g \in HostType /\ g.queue = host.queue
      /\ g.init = host.init /\ g.stop = host.stop /\ g.accepting = host.accepting
      /\ g.buffering = host.buffering /\ g.buffer = host.buffer /\ g.live = host.live
  BY <1>2 DEF HostType
<1> HIDE DEF g
<1>4. Coherent(g) /\ Pending(g) = Pending(host) /\ g.accepting = TRUE
  BY <1>2, <1>3 DEF Coherent, OneSetup, StopsAlone, OneList, Stopping, Quiet, Pending
<1>5. /\ Continues(g, host') /\ Pending(host') = Pending(host) /\ host'.stop = host.stop
  BY <1>1, <1>2, <1>3, <1>4, CallbackContinues
<1>6. Ordered'
  BY <1>1, <1>2, <1>5 DEF Ordered
<1>7. LoopStep
  BY <1>1, <1>2, <1>3, <1>5, <1>6, QueueingIsLoopStep DEF Continues
<1>8. Ended'
  BY <1>1, <1>5 DEF HostInv, Ended
<1> QED
  BY <1>7, <1>8, LoopStepIsGood

LEMMA TimerFiresIsGood ==
    ASSUME HostInv, NEW t \in timers, TimerFires(t)
    PROVE  HostInv'
<1>1. /\ timers' = timers \ {t} /\ UNCHANGED <<arrived, source, rt, worker, used>>
      /\ IF t = worker THEN lost' = lost \cup {t} /\ UNCHANGED host
                       ELSE Claimed(t) /\ UNCHANGED lost
  BY DEF TimerFires, environment
<1>2. /\ Coherent(host) /\ host \in HostType /\ rt.latest \in Nat /\ host.queue \in Seq(Entry)
      /\ arrived \in Seq(Reading) /\ source \in Nat /\ Trails(Pending(host), arrived)
      /\ t \in Nat /\ lost \in SUBSET Nat
      /\ worker # None => worker \in timers \cup lost
  BY DEF HostInv, Coherent, HostType, Shapes, RuntimeType, Ordered, Numbered
<1>3. Ended'
  <2>1. host'.stop = host.stop
    <3>1. CASE host' = host
      BY <3>1
    <3>2. CASE host.accepting = TRUE /\ host' = Submit(host, "callback", "timer", t)
      BY <1>2, <3>2, CallbackContinues
    <3> QED
      BY <1>1, <1>2, <3>1, <3>2 DEF Claimed, HostType
  <2> QED
    BY <1>1, <2>1 DEF HostInv, Ended
<1>4. CASE t = worker
  <2>1. lost' = lost \cup {t} /\ host' = host
    BY <1>1, <1>4
  <2>2. \A u : ComesIn(u, timers, lost, host.queue) => ComesIn(u, timers', lost', host'.queue)
    BY <1>1, <2>1 DEF ComesIn
  <2>3. Ordered' /\ Coherent(host')
    BY <1>1, <1>2, <2>1 DEF Ordered
  <2>4. LoopStep
    BY <1>1, <1>2, <1>4, <2>1, <2>2, <2>3 DEF LoopStep
  <2> QED
    BY <1>3, <2>4, LoopStepIsGood
<1>5. CASE t # worker /\ host.accepting = FALSE
  <2>1. lost' = lost /\ host' = host
    BY <1>1, <1>5 DEF Claimed
  <2>2. Ordered' /\ Coherent(host')
    BY <1>1, <1>2, <2>1 DEF Ordered
  <2>3. LoopStep
    BY <1>1, <1>2, <1>5, <2>1, <2>2 DEF LoopStep
  <2> QED
    BY <1>3, <2>3, LoopStepIsGood
<1>6. CASE t # worker /\ host.accepting = TRUE
  <2>1. lost' = lost /\ host' = Submit(host, "callback", "timer", t)
    BY <1>1, <1>6 DEF Claimed
  <2>2. Continues(host, host') /\ Pending(host') = Pending(host)
    BY <1>2, <1>6, <2>1, CallbackContinues
  <2>3. OnItsWay(host'.queue, t)
    <3> DEFINE e == [by |-> "callback", op |-> "timer", of |-> t, runtime |-> rt.latest]
    <3>1. e \in Entry /\ e.op = "timer" /\ e.of = t
      BY <1>2 DEF Entry, Maybe
    <3>2. host'.queue = Append(host.queue, e)
      BY <1>2, <2>1 DEF Submit, HostType
    <3> HIDE DEF e
    <3>3. Len(host.queue) + 1 \in DOMAIN host'.queue /\ host'.queue[Len(host.queue) + 1] = e
      BY <1>2, <3>1, <3>2, AppendedEntry
    <3> QED
      BY <3>1, <3>3 DEF OnItsWay
  <2>4. ASSUME NEW u, ComesIn(u, timers, lost, host.queue)
        PROVE  ComesIn(u, timers', lost', host'.queue)
    <3>1. OnItsWay(host.queue, u) => OnItsWay(host'.queue, u)
      BY <1>2, <2>2, ExtendedKeeps DEF Continues
    <3> QED
      BY <1>1, <2>1, <2>3, <2>4, <3>1 DEF ComesIn
  <2>5. Ordered'
    BY <1>1, <1>2, <2>2 DEF Ordered
  <2>6. LoopStep
    BY <1>1, <1>2, <1>6, <2>1, <2>2, <2>4, <2>5 DEF LoopStep, Continues
  <2> QED
    BY <1>3, <2>6, LoopStepIsGood
<1> QED
  BY <1>2, <1>4, <1>5, <1>6 DEF HostType

(* The host is asked to stop, or begins to.                                *)
LEMMA StopBeginsIsGood ==
    ASSUME HostInv, AskToStop \/ BeginStop
    PROVE  HostInv'
<1>1. /\ UNCHANGED <<arrived, source, rt, worker, timers, lost, used>>
      /\ Coherent(host) /\ host \in HostType
      /\ arrived \in Seq(Reading) /\ source \in Nat /\ Ordered
  BY DEF AskToStop, BeginStop, Outside, environment, HostInv, Coherent, Shapes
<1>2. /\ host' \in HostType /\ host'.queue = host.queue /\ host'.init = host.init
      /\ host'.buffering = host.buffering /\ host'.buffer = host.buffer /\ host'.live = host.live
      /\ ~Quiet(host) /\ ~Quiet(host')
      /\ \/ host'.stop = "asked" /\ host'.accepting = host.accepting
         \/ host'.stop = "gather" /\ host'.accepting = FALSE /\ host.init \in {"done", "failed"}
  <2>1. CASE AskToStop
    BY <1>1, <2>1 DEF AskToStop, HostType, Quiet
  <2>2. CASE BeginStop
    BY <1>1, <2>2 DEF BeginStop, HostType, Quiet
  <2> QED
    BY <2>1, <2>2
<1>3. Coherent(host')
  BY <1>1, <1>2 DEF Coherent, OneSetup, StopsAlone, OneList, Stopping, Quiet
<1>4. Ordered'
  BY <1>1, <1>2 DEF Ordered, Pending
<1>5. LoopStep
  BY <1>1, <1>2, <1>3, <1>4, QueueingIsLoopStep DEF Extends
<1>6. Ended'
  BY <1>2 DEF Ended, Quiet
<1> QED
  BY <1>5, <1>6, LoopStepIsGood

LEMMA StopRuntimeIsGood ==
    ASSUME HostInv, StopRuntime
    PROVE  HostInv'
<1>1. /\ UNCHANGED <<arrived, source, rt, worker, timers, lost, used>>
      /\ Coherent(host) /\ host \in HostType /\ rt.latest \in Nat /\ Stopping(host)
      /\ arrived \in Seq(Reading) /\ source \in Nat /\ Ordered
  BY DEF StopRuntime, Outside, environment, HostInv, Coherent, Shapes, RuntimeType, Stopping
<1>2. host.queue = <<>>
  BY <1>1, GatheredIsEmpty DEF StopRuntime
<1>3. \/ host' = StopsWith(host, "stop", "runtime")
      \/ host' = StopsWith(host, "cancel_all", "timers")
  <2>1. \A stop : [host EXCEPT !.stop = stop] = [host EXCEPT !.queue = <<>>, !.stop = stop]
    BY <1>1, <1>2 DEF HostType
  <2> QED
    BY <2>1 DEF StopRuntime, StopsWith
<1>4. StopGoesOn(host, host') /\ host'.stop \in {"runtime", "timers"}
  <2>1. /\ "runtime" = IF "stop" = "stop" THEN "runtime" ELSE "timers"
        /\ "timers" = IF "cancel_all" = "stop" THEN "runtime" ELSE "timers"
    OBVIOUS
  <2> QED
    BY <1>1, <1>3, <2>1, StopSubmits
<1>5. Coherent(host') /\ Ordered' /\ host'.accepting = FALSE
  BY <1>1, <1>4 DEF StopGoesOn, Ordered
<1>6. LoopStep
  BY <1>1, <1>5, QueueingIsLoopStep
<1>7. Ended'
  BY <1>4 DEF Ended
<1> QED
  BY <1>6, <1>7, LoopStepIsGood

LEMMA CloseIsGood ==
    ASSUME HostInv, Close
    PROVE  HostInv'
<1>1. /\ UNCHANGED <<arrived, source, rt, worker, timers, lost, used>>
      /\ Coherent(host) /\ host \in HostType /\ Stopping(host) /\ host.stop = "close"
      /\ host.queue = <<>> /\ timers = {}
      /\ arrived \in Seq(Reading) /\ source \in Nat
      /\ host' = [host EXCEPT !.stop = "stopped", !.buffering = FALSE, !.buffer = <<>>,
                              !.live = <<>>]
  BY DEF Close, Outside, environment, HostInv, Coherent, Shapes, Stopping, Ended
<1>2. host.accepting = FALSE /\ host.init \in {"done", "failed"}
  BY <1>1 DEF Coherent, StopsAlone
<1>3. /\ host' \in HostType /\ host'.queue = host.queue /\ host'.init = host.init
      /\ host'.buffering = FALSE /\ host'.buffer = <<>> /\ host'.live = <<>>
      /\ host'.stop = "stopped" /\ host'.accepting = FALSE
  <2>1. <<>> \in Seq(Reading)
    OBVIOUS
  <2> QED
    BY <1>1, <1>2, <2>1 DEF HostType
<1>4. Coherent(host')
  BY <1>1, <1>2, <1>3 DEF Coherent, OneSetup, StopsAlone, OneList, Stopping, Quiet
<1>5. Ordered'
  BY <1>1, <1>3, TrailsItself DEF Ordered, Pending
<1>6. LoopStep
  BY <1>1, <1>3, <1>4, <1>5, QueueingIsLoopStep
<1>7. Ended'
  BY <1>1 DEF Ended
<1> QED
  BY <1>6, <1>7, LoopStepIsGood

LEMMA TouchActuatorIsGood ==
    ASSUME HostInv, TouchActuator
    PROVE  HostInv'
<1>1. /\ UNCHANGED <<host, arrived, source, rt, worker, timers, lost>>
      /\ used' = [used EXCEPT !.hands = @ + 1]
  BY DEF TouchActuator, environment
<1>2. used' \in [timers : Nat, failures : Nat, hands : Nat] /\ used'.timers = used.timers
  BY <1>1 DEF HostInv, Shapes
<1> QED
  BY <1>1, <1>2 DEF HostInv, Shapes, Ordered, Numbered, ArmedTimerComes, Ended

LEMMA UnchangedIsGood == ASSUME HostInv, UNCHANGED vars PROVE HostInv'
BY DEF HostInv, Shapes, Ordered, Numbered, ArmedTimerComes, Ended, vars, environment, delivery

LEMMA InitIsGood == ASSUME Init PROVE HostInv
<1>1. /\ <<>> \in Seq(Reading) /\ <<>> \in Seq(Entry)
      /\ DOMAIN <<>> = {}
  OBVIOUS
<1>2. host \in HostType
  BY <1>1 DEF Init, HostType
<1>3. /\ host.queue = <<>> /\ host.live = <<>> /\ host.buffer = <<>> /\ host.stop = "no"
      /\ host.init = "new" /\ host.buffering = TRUE
  BY DEF Init
<1>4. Coherent(host)
  BY <1>1, <1>2, <1>3 DEF Coherent, AllProper, OneSetup, OneAtMost, NoneOf, StopsAlone, OneList,
                          Stopping, Quiet
<1>5. rt \in RuntimeType /\ rt.deadline = None /\ rt.restart = None
  BY DEF Init, RuntimeType, Maybe
<1>6. Shapes
  BY <1>1, <1>5 DEF Init, Shapes, Maybe
<1>7. Ordered
  <2>1. Pending(host) = <<>> /\ arrived = <<>>
    BY <1>3 DEF Pending, Init
  <2> QED
    BY <1>1, <2>1, TrailsItself DEF Ordered
<1> QED
  BY <1>3, <1>4, <1>5, <1>6, <1>7 DEF HostInv, Numbered, ArmedTimerComes, Ended, Init

LEMMA HostInvariant == Spec => []HostInv
<1>1. ASSUME HostInv, Next PROVE HostInv'
  BY <1>1, WorkIsGood, InitializeIsGood, ReadingArrivesIsGood, SourceReportsIsGood,
     TimerFiresIsGood, StopBeginsIsGood, StopRuntimeIsGood, CloseIsGood, TouchActuatorIsGood
     DEF Next
<1> QED
  BY <1>1, InitIsGood, UnchangedIsGood, PTL DEF Spec

-----------------------------------------------------------------------------
(* THEOREMS *)

(* The temperature states still to be processed are the latest taken in,   *)
(* in their order, through setup and the switch to live processing         *)
(* (_on_state_change, async_initialize).                                   *)
THEOREM StatesKeepTheirOrder == Spec => []StatesStayInOrder
<1>1. HostInv => StatesStayInOrder
  <2>1. SUFFICES ASSUME HostInv PROVE StatesStayInOrder
    OBVIOUS
  <2>2. /\ arrived \in Seq(Reading) /\ Pending(host) \in Seq(Reading)
        /\ Trails(Pending(host), arrived)
    BY <2>1, PendingIsSeq DEF HostInv, Coherent, Shapes, Ordered
  <2> QED
    BY <2>2, TrailsIsSuffix DEF StatesStayInOrder, Pending
<1> QED
  BY <1>1, HostInvariant, PTL

(* While the host accepts callbacks, a timer the runtime or the supervisor *)
(* counts on is still to come, is on its way to the worker, or came before *)
(* the scheduler knew its handle (on_timer of scheduler.py).               *)
THEOREM NoTimerIsForgotten == Spec => []ArmedTimerComes
<1>1. HostInv => ArmedTimerComes
  BY DEF HostInv
<1> QED
  BY <1>1, HostInvariant, PTL

(* Once the runtime of a stopping host has been stopped, nothing evaluates,*)
(* arms, restarts or commands, and a stopped host leaves no timer and no   *)
(* operation (async_stop).                                                 *)
NothingAfterStop ==
    /\ host.stop \in {"timers", "close", "stopped"} =>
           rt' = rt /\ timers' \subseteq timers /\ asked' = asked
    /\ host'.stop = "stopped" => host'.queue = <<>> /\ timers' = {}

THEOREM NothingFollowsTheStop == Spec => StopIsFinal
<1>1. ASSUME HostInv, Next, host.stop \in {"timers", "close", "stopped"}
      PROVE  rt' = rt /\ timers' \subseteq timers /\ asked' = asked
  <2>1. CASE Work
    <3> DEFINE e == Head(host.queue)
    <3>1. host.stop = "timers" /\ Only(host.queue, "cancel_all")
      BY <1>1, <2>1 DEF HostInv, Coherent, StopsAlone, Work
    <3>2. e.by = "stop" /\ e.op = "cancel_all"
      <4>1. host.queue \in Seq(Entry)
        BY <1>1 DEF HostInv, Coherent, HostType
      <4> QED
        BY <3>1, <4>1 DEF Only
    <3>3. Install(e) \/ Evaluate(e) \/ Begin(e) \/ ReportFatal(e) \/ Restart(e) \/ Refuse(e)
          \/ Stop(e) \/ NoEffect(e)
      BY <2>1 DEF Work
    <3> HIDE DEF e
    <3>4. Stop(e)
      BY <3>2, <3>3 DEF Install, Evaluate, Begin, ReportFatal, Restart, Refuse, NoEffect,
                        Schedules, Evaluates, IsRestart, IsDeadline
    <3> QED
      BY <3>2, <3>4 DEF Stop, delivery
  <2>2. CASE Initialize \/ ReadingArrives \/ SourceReports \/ AskToStop \/ BeginStop \/ StopRuntime
             \/ Close
    BY <2>2 DEF Initialize, ReadingArrives, SourceReports, AskToStop, BeginStop, StopRuntime,
                Close, Outside, delivery
  <2>3. CASE \E t \in timers : TimerFires(t)
    BY <2>3 DEF TimerFires, delivery
  <2>4. CASE TouchActuator
    BY <2>4 DEF TouchActuator, SetByHand
  <2> QED
    BY <1>1, <2>1, <2>2, <2>3, <2>4 DEF Next
<1>2. HostInv' => (host'.stop = "stopped" => host'.queue = <<>> /\ timers' = {})
  BY DEF HostInv, Coherent, StopsAlone, Ended
<1>3. HostInv /\ HostInv' /\ [Next]_vars => [NothingAfterStop]_vars
  BY <1>1, <1>2 DEF NothingAfterStop
<1>4. StopIsFinal <=> [][NothingAfterStop]_vars
  BY PTL DEF StopIsFinal, NothingAfterStop
<1> QED
  BY <1>3, <1>4, HostInvariant, PTL DEF Spec

-----------------------------------------------------------------------------
(* THE ACTUATORS *)

Asked == {None, "heat", "no_heat"}
Wanted(a) == {Desired(a, "heat"), Desired(a, "no_heat")}

(* A value a mode can ask for is a command, and a mode that asks for       *)
(* nothing on one demand asks for nothing on the other.                    *)
LEMMA DesiredIsCommand ==
    ASSUME NEW a
    PROVE  /\ Desired(a, "indeterminate") = None
           /\ \/ Wanted(a) \subseteq Commands
              \/ Wanted(a) = {None}
BY DEF Desired, Wanted, Commands

(* An actuator without a failure, and not set by hand, is set to what it   *)
(* accepted last; one that nobody commands stays as it was.                *)
Sound(a, x) ==
    /\ x \in [accepted : Commands \cup {None}, failure : BOOLEAN,
              device : Commands \cup {None}, touched : BOOLEAN]
    /\ (x.failure = FALSE /\ x.touched = FALSE) => x.device = x.accepted
    /\ Wanted(a) = {None} => x.device = None
Follows(a, x, demand) ==
    x.device = Desired(a, demand) \/ x.failure = TRUE \/ x.touched = TRUE

DeliveryInv ==
    /\ actuators = [a \in DOMAIN actuators |-> actuators[a]]
    /\ asked \in Asked
    /\ \A a \in DOMAIN actuators : Sound(a, actuators[a])
    /\ asked # None => \A a \in DOMAIN actuators : Follows(a, actuators[a], asked)

LEMMA DispatchedIsSound ==
    ASSUME NEW a, NEW x, Sound(a, x), NEW demand \in Demands,
           NEW y \in Dispatched(x, Desired(a, demand))
    PROVE  /\ Sound(a, y)
           /\ demand # "indeterminate" => Follows(a, y, demand)
           /\ demand = "indeterminate" => y = x
<1> DEFINE v == Desired(a, demand)
<1>1. /\ demand = "indeterminate" => v = None
      /\ v \in Commands \cup {None}
      /\ demand # "indeterminate" => v \in Wanted(a)
      /\ v # None => Wanted(a) # {None}
      /\ demand # "indeterminate" /\ v = None => Wanted(a) = {None}
  BY DesiredIsCommand, NoneIsNoCommand DEF Demands, Wanted
<1>2. y \in Dispatched(x, v)
  OBVIOUS
<1> HIDE DEF v
<1>3. x.accepted \in Commands \cup {None} /\ x.failure \in BOOLEAN /\ x.touched \in BOOLEAN
      /\ x.device \in Commands \cup {None}
  BY DEF Sound
<1>4. CASE v \in {None, x.accepted}
  <2>1. y = x
    BY <1>2, <1>4 DEF Dispatched
  <2>2. ASSUME demand # "indeterminate" PROVE x.device = v \/ x.failure = TRUE \/ x.touched = TRUE
    BY <1>1, <1>3, <1>4, <2>2 DEF Sound
  <2> QED
    BY <2>1, <2>2 DEF Follows, v
<1>5. CASE v \notin {None, x.accepted}
  <2>1. Wanted(a) # {None} /\ demand # "indeterminate" /\ v \in Commands
    BY <1>1, <1>5
  <2>2. y \in Executed(x, v)
    BY <1>2, <1>5 DEF Dispatched
  <2>3. CASE y = [accepted |-> v, failure |-> FALSE, device |-> v, touched |-> FALSE]
    BY <2>1, <2>3 DEF Sound, Follows, v
  <2>4. CASE y # [accepted |-> v, failure |-> FALSE, device |-> v, touched |-> FALSE]
    <3>1. PICK set \in {x.device, v} : y = [x EXCEPT !.failure = TRUE, !.device = set]
      BY <2>2, <2>4 DEF Executed
    <3>2. y \in [accepted : Commands \cup {None}, failure : BOOLEAN,
                 device : Commands \cup {None}, touched : BOOLEAN]
          /\ y.failure = TRUE
      BY <1>3, <2>1, <3>1 DEF Sound
    <3> QED
      BY <2>1, <3>2 DEF Sound, Follows
  <2> QED
    BY <2>3, <2>4
<1> QED
  BY <1>4, <1>5

LEMMA EvaluateZoneIsSound ==
    ASSUME DeliveryInv, NEW demand \in Demands, EvaluateZone(demand)
    PROVE  DeliveryInv'
<1> DEFINE next == [a \in DOMAIN actuators |-> Dispatched(actuators[a], Desired(a, demand))]
<1>1. /\ actuators' \in {f \in [DOMAIN actuators -> UNION {next[a] : a \in DOMAIN actuators}] :
                             \A a \in DOMAIN actuators : f[a] \in next[a]}
      /\ asked' = IF demand = "indeterminate" \/ actuators = <<>> THEN asked ELSE demand
  BY DEF EvaluateZone
<1>2. /\ DOMAIN actuators' = DOMAIN actuators
      /\ actuators' = [a \in DOMAIN actuators |-> actuators'[a]]
      /\ \A a \in DOMAIN actuators : actuators'[a] \in Dispatched(actuators[a], Desired(a, demand))
  BY <1>1
<1>3. ASSUME NEW a \in DOMAIN actuators
      PROVE  /\ Sound(a, actuators'[a])
             /\ demand # "indeterminate" => Follows(a, actuators'[a], demand)
             /\ demand = "indeterminate" => actuators'[a] = actuators[a]
  BY <1>2, DispatchedIsSound DEF DeliveryInv
<1>4. asked' \in Asked
  BY <1>1 DEF DeliveryInv, Asked, Demands
<1>5. ASSUME asked' # None, NEW a \in DOMAIN actuators PROVE Follows(a, actuators'[a], asked')
  <2>1. CASE demand = "indeterminate"
    BY <1>1, <1>3, <1>5, <2>1 DEF DeliveryInv
  <2>2. CASE demand # "indeterminate"
    <3>1. actuators # <<>>
      BY <1>5
    <3> QED
      BY <1>1, <1>3, <2>2, <3>1
  <2> QED
    BY <2>1, <2>2
<1> QED
  BY <1>2, <1>3, <1>4, <1>5 DEF DeliveryInv

LEMMA SetByHandIsSound ==
    ASSUME DeliveryInv, NEW b \in DOMAIN actuators, SetByHand(b)
    PROVE  DeliveryInv'
<1>1. PICK demand \in {"heat", "no_heat"} :
         actuators' = [actuators EXCEPT ![b].device = Desired(b, demand), ![b].touched = TRUE]
  BY DEF SetByHand
<1>2. asked' = asked
  BY DEF SetByHand
<1>3. DOMAIN actuators' = DOMAIN actuators
      /\ actuators' = [a \in DOMAIN actuators' |-> actuators'[a]]
  BY <1>1 DEF DeliveryInv
<1>4. \A a \in DOMAIN actuators : a # b => actuators'[a] = actuators[a]
  BY <1>1 DEF DeliveryInv
<1> DEFINE v == Desired(b, demand)
           x == actuators[b]
<1>5. actuators'[b] = [x EXCEPT !.device = v, !.touched = TRUE]
  BY <1>1 DEF DeliveryInv
<1>6. v \in Commands \cup {None} /\ (Wanted(b) = {None} => v = None)
  BY DesiredIsCommand DEF Wanted
<1>7. Sound(b, x)
  BY DEF DeliveryInv
<1> HIDE DEF v, x
<1>8. Sound(b, actuators'[b]) /\ actuators'[b].touched = TRUE
  BY <1>5, <1>6, <1>7 DEF Sound
<1>9. ASSUME NEW a \in DOMAIN actuators
      PROVE  /\ Sound(a, actuators'[a])
             /\ asked # None => Follows(a, actuators'[a], asked)
  BY <1>4, <1>8 DEF DeliveryInv, Follows
<1> QED
  BY <1>2, <1>3, <1>9 DEF DeliveryInv

(* An actuator that is not set to what the last demand asked of it is one  *)
(* whose failure is shown, or was set by hand since (_dispatch of          *)
(* zone_heat_delivery_controller.py).                                      *)
THEOREM ActuatorsFollowDemand == Spec => []ActuatorFollowsDemand
<1>1. Init => DeliveryInv
  BY DEF Init, DeliveryInit, NewActuator, DeliveryInv, Sound, Asked
<1>2. ASSUME DeliveryInv, [Next]_vars PROVE DeliveryInv'
  <2>1. \/ UNCHANGED delivery
        \/ \E demand \in Demands : EvaluateZone(demand)
        \/ \E a \in DOMAIN actuators : SetByHand(a)
    <3>1. CASE Work
      BY <3>1 DEF Work, Install, Evaluate, Begin, ReportFatal, Restart, Refuse, Stop, NoEffect
    <3>2. CASE Initialize \/ ReadingArrives \/ SourceReports \/ AskToStop \/ BeginStop
               \/ StopRuntime \/ Close
      BY <3>2 DEF Initialize, ReadingArrives, SourceReports, AskToStop, BeginStop, StopRuntime,
                  Close, Outside
    <3>3. CASE \E t \in timers : TimerFires(t)
      BY <3>3 DEF TimerFires
    <3>4. CASE TouchActuator
      BY <3>4 DEF TouchActuator, Fitted
    <3>5. CASE UNCHANGED vars
      BY <3>5 DEF vars
    <3> QED
      BY <1>2, <3>1, <3>2, <3>3, <3>4, <3>5 DEF Next
  <2>2. UNCHANGED delivery => DeliveryInv'
    BY <1>2 DEF DeliveryInv, delivery
  <2> QED
    BY <1>2, <2>1, <2>2, EvaluateZoneIsSound, SetByHandIsSound
<1>3. DeliveryInv => ActuatorFollowsDemand
  BY DEF DeliveryInv, ActuatorFollowsDemand, Follows
<1> QED
  BY <1>1, <1>2, <1>3, PTL DEF Spec
======================================================================================
