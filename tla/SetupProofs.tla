---------------------------------- MODULE SetupProofs ----------------------------------
(***************************************************************************)
(* What is proved of the way a configuration takes: authored in a setup    *)
(* store (SetupAuthoring), converted to another schema                     *)
(* (ConfigurationUpgrade), activated (ConfigurationActivation).            *)
(*                                                                         *)
(* Authoring, for every set of sessions, every content and registry and    *)
(* every number of sittings: what becomes canonical was found ready, and   *)
(* no update is lost.  Both rest on identities: a draft's is given once,   *)
(* whatever draft a session holds is the stored one of that identity or an *)
(* earlier revision of it, and a session that is about to save a first     *)
(* revision is the only one that knows its identity.  So the comparison    *)
(* with the stored revision that a save makes is enough to notice every    *)
(* other save.                                                             *)
(*                                                                         *)
(* Conversion: a conversion to schema 3 keeps the configuration, and what  *)
(* one stage took no later one refuses, for every config entry and every   *)
(* revision of schema 2, every entity registry, every change of it between *)
(* the steps, and whatever a client asks to replace.  The lemmas follow a  *)
(* configuration through the conversions: the fields that are copied, then *)
(* what each role is bound to.  The inductive invariant says what the      *)
(* history variables remember: which conversion made the document, of      *)
(* what, in which registry.  The second half relates the validators: what  *)
(* the runtime took a payload takes, what a payload may say a document may *)
(* say, and what a document may say the runtime takes, but for what        *)
(* BeyondTheRuntime lists.                                                 *)
(*                                                                         *)
(* Activation, for every set of revisions, every number of activations,    *)
(* crashes, reloads and failed starts, stops and writes: it implements     *)
(* AtomicActivation; once nothing is in progress an entry runs nothing but *)
(* its authority; and as long as no start, stop or write failed and no     *)
(* recovery was left out, no attempt is still open.  The first rests on    *)
(* what the durable data say alone: one attempt of a module is open at a   *)
(* time, a reference that an attempt moved names it until the attempt is   *)
(* recorded as committed, and an attempt that moved a reference is never   *)
(* recorded as anything else.  The second follows the candidate: it is     *)
(* staged while its activation hands over and at no other time, what runs  *)
(* meanwhile is the authority's or the candidate, and an activation ends   *)
(* only after the reference moved to the candidate or after what runs was  *)
(* found to be the authority's, or stopped.  The third follows the open    *)
(* attempts: one is an activation's own, or a setup has yet to look for    *)
(* it, or has it on its list.                                              *)
(***************************************************************************)
EXTENDS SetupAuthoring, ConfigurationUpgrade, ConfigurationActivation, SequenceTheorems, TLAPS

-----------------------------------------------------------------------------
(* THE STORE AND ITS SESSIONS: THE INDUCTIVE INVARIANT *)

(* What the records are made of. *)
IsDraft(d) == {"id", "rev", "content"} \subseteq DOMAIN d /\ d.rev \in Nat \ {0}
IsSession(r) == {"draft", "candidate", "work"} \subseteq DOMAIN r
StoreType(st) ==
    /\ {"drafts", "reports", "revisions", "active", "legacy"} \subseteq DOMAIN st
    /\ \E S : st.drafts \in Seq(S)
    /\ \E S : st.revisions \in Seq(S)
SessionsType(all) ==
    /\ all = [s \in Sessions |-> all[s]]
    /\ \A s \in Sessions : IsSession(all[s])

(* The drafts a session holds, given what its record is: the one of its    *)
(* dialog, what an update or a delete is based on, what a review of water  *)
(* has seen.                                                               *)
Reviewed(m, s, r) ==
    /\ s \in Flows
    /\ \/ r.candidate # 0 \/ r.work.step = "store"
       \/ m = "heating" /\ r.work.step \in {"assess", "check"}
HoldsIn(m, s, r, c) ==
    \/ c = r.draft /\ (c # None \/ Reviewed(m, s, r))
    \/ c = r.work.basis /\ (r.work.step = "delete" \/ (r.work.step = "save" /\ r.work.draft.rev # 1))
    \/ c = r.work.viewed /\ m = "water" /\ r.work.step \in {"assess", "check"}

(* It is about to save the first revision of a new draft.                  *)
StartsIn(r, id) == r.work.step = "save" /\ r.work.draft.rev = 1 /\ r.work.draft.id = id

(* A later revision follows the one that it is based on; what is on its    *)
(* way to the store was found ready.                                       *)
Founded(rev) ==
    rev.report # None =>
        /\ rev.report.ready
        /\ rev.report.draft = rev.draft /\ rev.report.rev = rev.draftRev
        /\ rev.report.content = rev.content
WorkType(m, r) ==
    /\ r.work.step = "save" =>
          /\ IsDraft(r.work.draft)
          /\ r.work.draft.rev # 1 => /\ r.work.draft.id = r.work.basis.id
                                     /\ r.work.draft.rev = r.work.basis.rev + 1
    /\ m = "water" /\ r.work.step = "assess" =>
          {"step", "viewed", "number", "parent"} \subseteq DOMAIN r.work
    /\ r.work.step = "store" => Founded(r.work.revision)

(* Identities are given once; a held draft is the stored one or an earlier *)
(* revision of it.                                                         *)
DraftsType(drafts, n) ==
    /\ \A i \in DOMAIN drafts : IsDraft(drafts[i]) /\ drafts[i].id \in 1 .. n
    /\ \A i, j \in DOMAIN drafts : drafts[i].id = drafts[j].id => i = j
IsCopy(drafts, n, c) ==
    /\ IsDraft(c) /\ c.id \in 1 .. n
    /\ \A i \in DOMAIN drafts : drafts[i].id = c.id =>
          /\ c.rev <= drafts[i].rev
          /\ c.rev = drafts[i].rev => c = drafts[i]
CopiesAreStored(m, drafts, n, all) ==
    \A s \in Sessions : \A c : HoldsIn(m, s, all[s], c) => IsCopy(drafts, n, c)
IdsAreNew(m, drafts, n, all) ==
    \A s \in Sessions : \A id : StartsIn(all[s], id) =>
        /\ id \in 1 .. n
        /\ \A i \in DOMAIN drafts : drafts[i].id # id
        /\ \A t \in Sessions : \A c : HoldsIn(m, t, all[t], c) => c.id # id
        /\ \A t \in Sessions : StartsIn(all[t], id) => t = s

AuthoringInv ==
    /\ started \in Nat
    /\ StoreType(store) /\ SessionsType(sessions)
    /\ DraftsType(store.drafts, started)
    /\ \A s \in Sessions : WorkType(module, sessions[s])
    /\ CopiesAreStored(module, store.drafts, started, sessions)
    /\ IdsAreNew(module, store.drafts, started, sessions)
    /\ \A i \in DOMAIN store.revisions : Founded(store.revisions[i])

-----------------------------------------------------------------------------
(* SEQUENCES *)

(* What is left when one element is removed.                               *)
LEMMA RemoveAtProperties ==
    ASSUME NEW S, NEW q \in Seq(S), NEW i \in 1 .. Len(q)
    PROVE  /\ RemoveAt(q, i) \in Seq(S)
           /\ Len(RemoveAt(q, i)) = Len(q) - 1
           /\ \A j \in 1 .. Len(q) - 1 : RemoveAt(q, i)[j] = IF j < i THEN q[j] ELSE q[j + 1]
<1> DEFINE a == SubSeq(q, 1, i - 1)
           b == SubSeq(q, i + 1, Len(q))
<1>1. a \in Seq(S) /\ Len(a) = i - 1 /\ \A j \in 1 .. i - 1 : a[j] = q[j]
  OBVIOUS
<1>2. b \in Seq(S) /\ Len(b) = Len(q) - i /\ \A j \in 1 .. Len(q) - i : b[j] = q[i + j]
  OBVIOUS
<1>3. RemoveAt(q, i) = a \o b
  BY DEF RemoveAt
<1> HIDE DEF a, b
<1>4. a \o b \in Seq(S) /\ Len(a \o b) = Len(q) - 1
  <2>1. a \o b \in Seq(S) /\ Len(a \o b) = Len(a) + Len(b)
    BY <1>1, <1>2, ConcatProperties
  <2> QED
    BY <1>1, <1>2, <2>1
<1>5. ASSUME NEW j \in 1 .. Len(q) - 1
      PROVE  (a \o b)[j] = IF j < i THEN q[j] ELSE q[j + 1]
  <2>1. CASE j < i
    BY <1>1, <1>2, <2>1
  <2>2. CASE ~(j < i)
    <3>1. (a \o b)[j] = b[j - (i - 1)]
      BY <1>1, <1>2, <2>2
    <3>2. j - (i - 1) \in 1 .. Len(q) - i /\ i + (j - (i - 1)) = j + 1
      BY <2>2
    <3> QED
      BY <1>2, <2>2, <3>1, <3>2
  <2> QED
    BY <2>1, <2>2
<1> QED
  BY <1>3, <1>4, <1>5

-----------------------------------------------------------------------------
(* A STEP OF ONE SESSION *)

(* A step of a session that adds no draft keeps the invariant, when it     *)
(* comes to hold what is stored only.                                      *)
LEMMA SessionStep ==
    ASSUME AuthoringInv, NEW s \in Sessions,
           module' = module, started' \in Nat, started' >= started,
           StoreType(store'), SessionsType(sessions'),
           \A t \in Sessions \ {s} : sessions'[t] = sessions[t],
           \A i \in DOMAIN store'.drafts : \E j \in DOMAIN store.drafts : store'.drafts[i] = store.drafts[j],
           \A i, j \in DOMAIN store'.drafts : store'.drafts[i].id = store'.drafts[j].id => i = j,
           \A i \in DOMAIN store'.revisions : Founded(store'.revisions[i]),
           WorkType(module, sessions'[s]),
           \A c : HoldsIn(module, s, sessions'[s], c) =>
               HoldsIn(module, s, sessions[s], c) \/ (\E i \in DOMAIN store.drafts : c = store.drafts[i]),
           \A id : StartsIn(sessions'[s], id) =>
               StartsIn(sessions[s], id) \/ (id = started + 1 /\ started' = started + 1)
    PROVE  AuthoringInv'
<1>1. /\ started \in Nat /\ DraftsType(store.drafts, started)
      /\ CopiesAreStored(module, store.drafts, started, sessions)
      /\ IdsAreNew(module, store.drafts, started, sessions)
      /\ \A t \in Sessions : WorkType(module, sessions[t])
  BY DEF AuthoringInv
<1>2. DraftsType(store'.drafts, started')
  BY <1>1 DEF DraftsType
<1>3. \A t \in Sessions : \A c : HoldsIn(module, t, sessions'[t], c) =>
          HoldsIn(module, t, sessions[t], c) \/ (\E i \in DOMAIN store.drafts : c = store.drafts[i])
  OBVIOUS
<1>4. ASSUME NEW t \in Sessions, NEW c, HoldsIn(module, t, sessions'[t], c)
      PROVE  IsCopy(store.drafts, started, c)
  <2>1. CASE HoldsIn(module, t, sessions[t], c)
    BY <1>1, <2>1 DEF CopiesAreStored
  <2>2. CASE \E i \in DOMAIN store.drafts : c = store.drafts[i]
    BY <1>1, <2>2 DEF DraftsType, IsCopy, IsDraft
  <2> QED
    BY <1>3, <1>4, <2>1, <2>2
<1>5. CopiesAreStored(module, store'.drafts, started', sessions')
  <2> SUFFICES ASSUME NEW t \in Sessions, NEW c, HoldsIn(module, t, sessions'[t], c)
               PROVE  IsCopy(store'.drafts, started', c)
    BY DEF CopiesAreStored
  <2>1. IsCopy(store.drafts, started, c)
    BY <1>4
  <2> QED
    BY <1>1, <2>1 DEF IsCopy
<1>6. \A t \in Sessions : \A id : StartsIn(sessions'[t], id) =>
          StartsIn(sessions[t], id) \/ (t = s /\ id = started + 1 /\ started' = started + 1)
  OBVIOUS
<1>7. IdsAreNew(module, store'.drafts, started', sessions')
  <2> SUFFICES ASSUME NEW t \in Sessions, NEW id, StartsIn(sessions'[t], id)
               PROVE  /\ id \in 1 .. started'
                      /\ \A i \in DOMAIN store'.drafts : store'.drafts[i].id # id
                      /\ \A u \in Sessions : \A c : HoldsIn(module, u, sessions'[u], c) => c.id # id
                      /\ \A u \in Sessions : StartsIn(sessions'[u], id) => u = t
    BY DEF IdsAreNew
  <2>1. CASE StartsIn(sessions[t], id)
    <3>1. /\ id \in 1 .. started
          /\ \A i \in DOMAIN store.drafts : store.drafts[i].id # id
          /\ \A u \in Sessions : \A c : HoldsIn(module, u, sessions[u], c) => c.id # id
          /\ \A u \in Sessions : StartsIn(sessions[u], id) => u = t
      BY <1>1, <2>1 DEF IdsAreNew
    <3>2. id # started + 1 /\ id \in 1 .. started'
      BY <1>1, <3>1
    <3>3. \A i \in DOMAIN store'.drafts : store'.drafts[i].id # id
      BY <3>1
    <3>4. \A u \in Sessions : \A c : HoldsIn(module, u, sessions'[u], c) => c.id # id
      BY <1>3, <3>1
    <3>5. \A u \in Sessions : StartsIn(sessions'[u], id) => u = t
      BY <1>6, <3>1, <3>2
    <3> QED
      BY <3>2, <3>3, <3>4, <3>5
  <2>2. CASE t = s /\ id = started + 1 /\ started' = started + 1
    <3>1. \A i \in DOMAIN store'.drafts : store'.drafts[i].id # id
      BY <1>1, <2>2 DEF DraftsType
    <3>2. \A u \in Sessions : \A c : HoldsIn(module, u, sessions'[u], c) => c.id # id
      <4> SUFFICES ASSUME NEW u \in Sessions, NEW c, HoldsIn(module, u, sessions'[u], c)
                   PROVE  c.id # id
        OBVIOUS
      <4>1. c.id \in 1 .. started
        BY <1>4 DEF IsCopy
      <4> QED
        BY <1>1, <2>2, <4>1
    <3>3. \A u \in Sessions : StartsIn(sessions'[u], id) => u = t
      <4> SUFFICES ASSUME NEW u \in Sessions, StartsIn(sessions'[u], id), u # t
                   PROVE  FALSE
        OBVIOUS
      <4>1. StartsIn(sessions[u], id)
        BY <2>2
      <4>2. id \in 1 .. started
        BY <1>1, <4>1 DEF IdsAreNew
      <4> QED
        BY <1>1, <2>2, <4>2
    <3>4. id \in 1 .. started'
      BY <1>1, <2>2
    <3> QED
      BY <3>1, <3>2, <3>3, <3>4
  <2> QED
    BY <1>6, <2>1, <2>2
<1>8. \A t \in Sessions : WorkType(module, sessions'[t])
  BY <1>1
<1> QED
  BY <1>2, <1>5, <1>7, <1>8 DEF AuthoringInv

(* A save keeps it: of the first revision of a new draft, or of one that   *)
(* follows the stored one.                                                 *)
LEMMA SaveStep ==
    ASSUME AuthoringInv, NEW s \in Sessions, NEW d,
           module' = module, started' = started,
           StoreType(store'), SessionsType(sessions'),
           \A t \in Sessions \ {s} : sessions'[t] = sessions[t],
           IsDraft(d),
           \/ StartsIn(sessions[s], d.id)
           \/ \E i \in DOMAIN store.drafts : store.drafts[i].id = d.id /\ d.rev = store.drafts[i].rev + 1,
           \A i \in DOMAIN store'.drafts :
               \/ store'.drafts[i] = d
               \/ store'.drafts[i].id # d.id /\ \E j \in DOMAIN store.drafts : store'.drafts[i] = store.drafts[j],
           \A i, j \in DOMAIN store'.drafts : store'.drafts[i].id = store'.drafts[j].id => i = j,
           \A i \in DOMAIN store'.revisions : Founded(store'.revisions[i]),
           WorkType(module, sessions'[s]),
           \A c : HoldsIn(module, s, sessions'[s], c) => HoldsIn(module, s, sessions[s], c) \/ c = d,
           \A id : ~StartsIn(sessions'[s], id)
    PROVE  AuthoringInv'
<1>1. /\ started \in Nat /\ DraftsType(store.drafts, started)
      /\ CopiesAreStored(module, store.drafts, started, sessions)
      /\ IdsAreNew(module, store.drafts, started, sessions)
      /\ \A t \in Sessions : WorkType(module, sessions[t])
  BY DEF AuthoringInv
<1>2. d.id \in 1 .. started
  BY <1>1 DEF DraftsType, IdsAreNew
<1>3. DraftsType(store'.drafts, started')
  BY <1>1, <1>2 DEF DraftsType
<1>4. \A t \in Sessions : \A c : HoldsIn(module, t, sessions'[t], c) =>
          HoldsIn(module, t, sessions[t], c) \/ c = d
  OBVIOUS
<1>5. \A t \in Sessions : \A c : HoldsIn(module, t, sessions[t], c) => IsCopy(store'.drafts, started', c)
  <2> SUFFICES ASSUME NEW t \in Sessions, NEW c, HoldsIn(module, t, sessions[t], c)
               PROVE  IsCopy(store'.drafts, started', c)
    OBVIOUS
  <2>1. IsCopy(store.drafts, started, c)
    BY <1>1 DEF CopiesAreStored
  <2>2. ASSUME NEW i \in DOMAIN store'.drafts, store'.drafts[i].id = c.id
        PROVE  c.rev <= store'.drafts[i].rev /\ (c.rev = store'.drafts[i].rev => c = store'.drafts[i])
    <3>1. CASE store'.drafts[i] = d
      <4>1. ~StartsIn(sessions[s], d.id)
        BY <1>1, <2>2, <3>1 DEF IdsAreNew
      <4>2. PICK j \in DOMAIN store.drafts : store.drafts[j].id = d.id /\ d.rev = store.drafts[j].rev + 1
        BY <4>1
      <4>3. c.rev <= store.drafts[j].rev
        BY <2>1, <2>2, <3>1, <4>2 DEF IsCopy
      <4>4. c.rev \in Nat /\ store.drafts[j].rev \in Nat
        BY <1>1, <2>1 DEF IsCopy, IsDraft, DraftsType
      <4> QED
        BY <3>1, <4>2, <4>3, <4>4
    <3>2. CASE store'.drafts[i] # d
      BY <2>1, <2>2, <3>2 DEF IsCopy
    <3> QED
      BY <3>1, <3>2
  <2> QED
    BY <2>1, <2>2 DEF IsCopy
<1>6. IsCopy(store'.drafts, started', d)
  BY <1>2 DEF IsCopy, IsDraft
<1>7. CopiesAreStored(module, store'.drafts, started', sessions')
  BY <1>4, <1>5, <1>6 DEF CopiesAreStored
<1>8. \A t \in Sessions : \A id : StartsIn(sessions'[t], id) => t # s /\ StartsIn(sessions[t], id)
  OBVIOUS
<1>9. IdsAreNew(module, store'.drafts, started', sessions')
  <2> SUFFICES ASSUME NEW t \in Sessions, NEW id, StartsIn(sessions'[t], id)
               PROVE  /\ id \in 1 .. started'
                      /\ \A i \in DOMAIN store'.drafts : store'.drafts[i].id # id
                      /\ \A u \in Sessions : \A c : HoldsIn(module, u, sessions'[u], c) => c.id # id
                      /\ \A u \in Sessions : StartsIn(sessions'[u], id) => u = t
    BY DEF IdsAreNew
  <2>1. t # s /\ StartsIn(sessions[t], id)
    BY <1>8
  <2>2. /\ id \in 1 .. started
        /\ \A i \in DOMAIN store.drafts : store.drafts[i].id # id
        /\ \A u \in Sessions : \A c : HoldsIn(module, u, sessions[u], c) => c.id # id
        /\ \A u \in Sessions : StartsIn(sessions[u], id) => u = t
    BY <1>1, <2>1 DEF IdsAreNew
  <2>3. d.id # id
    BY <2>1, <2>2
  <2>4. \A i \in DOMAIN store'.drafts : store'.drafts[i].id # id
    BY <2>2, <2>3
  <2>5. \A u \in Sessions : \A c : HoldsIn(module, u, sessions'[u], c) => c.id # id
    BY <1>4, <2>2, <2>3
  <2>6. \A u \in Sessions : StartsIn(sessions'[u], id) => u = t
    BY <1>8, <2>2
  <2> QED
    BY <2>2, <2>4, <2>5, <2>6
<1>10. \A t \in Sessions : WorkType(module, sessions'[t])
  BY <1>1
<1> QED
  BY <1>1, <1>3, <1>7, <1>9, <1>10 DEF AuthoringInv

-----------------------------------------------------------------------------
(* WHAT A SESSION'S RECORD BECOMES *)

LEMMA WorksFields ==
    ASSUME SessionsType(sessions), NEW s \in Sessions, NEW work, Works(s, work)
    PROVE  /\ SessionsType(sessions')
           /\ \A t \in Sessions \ {s} : sessions'[t] = sessions[t]
           /\ sessions'[s].work = work
           /\ sessions'[s].draft = sessions[s].draft /\ sessions'[s].candidate = sessions[s].candidate
<1>1. sessions = [t \in Sessions |-> sessions[t]] /\ IsSession(sessions[s])
  BY DEF SessionsType
<1>2. sessions' = [t \in Sessions |-> IF t = s THEN [sessions[s] EXCEPT !.work = work] ELSE sessions[t]]
  BY <1>1 DEF Works
<1>3. /\ IsSession(sessions'[s]) /\ sessions'[s].work = work
      /\ sessions'[s].draft = sessions[s].draft /\ sessions'[s].candidate = sessions[s].candidate
  BY <1>1, <1>2 DEF IsSession
<1>4. \A t \in Sessions \ {s} : sessions'[t] = sessions[t]
  BY <1>2
<1>5. SessionsType(sessions')
  BY <1>2, <1>3, <1>4 DEF SessionsType, IsSession
<1> QED
  BY <1>3, <1>4, <1>5

LEMMA CloseFields ==
    ASSUME SessionsType(sessions), NEW s \in Sessions, sessions' = [sessions EXCEPT ![s] = Closed]
    PROVE  /\ SessionsType(sessions')
           /\ \A t \in Sessions \ {s} : sessions'[t] = sessions[t]
           /\ sessions'[s] = Closed
<1>1. sessions = [t \in Sessions |-> sessions[t]]
  BY DEF SessionsType
<1>2. sessions' = [t \in Sessions |-> IF t = s THEN Closed ELSE sessions[t]]
  BY <1>1
<1>3. IsSession(Closed)
  BY DEF IsSession, Closed
<1> QED
  BY <1>2, <1>3 DEF SessionsType

(* A session that is idle starts nothing and holds its dialog's draft at   *)
(* most; one that is closed holds nothing.                                 *)
LEMMA ClosedHoldsNothing ==
    ASSUME NEW m, NEW s
    PROVE  /\ \A c : ~HoldsIn(m, s, Closed, c)
           /\ \A id : ~StartsIn(Closed, id)
           /\ WorkType(m, Closed)
  BY DEF HoldsIn, StartsIn, WorkType, Closed, Idle, Reviewed

LEMMA RestingHoldsItsDraft ==
    ASSUME NEW m, NEW s, NEW r, NEW q, q.work = Idle, q.draft = r.draft, q.candidate = r.candidate
    PROVE  /\ \A c : HoldsIn(m, s, q, c) => HoldsIn(m, s, r, c)
           /\ \A id : ~StartsIn(q, id)
           /\ WorkType(m, q)
  BY DEF HoldsIn, StartsIn, WorkType, Idle, Reviewed

(* The stored drafts, by position.                                         *)
LEMMA LatestIsStored ==
    ASSUME NEW id \in Stored
    PROVE  \E i \in DOMAIN store.drafts : Latest(id) = store.drafts[i] /\ store.drafts[i].id = id
<1>1. \E d \in ToSet(store.drafts) : d.id = id
  BY DEF Stored, ToSet
<1>2. Latest(id) \in ToSet(store.drafts) /\ Latest(id).id = id
  BY <1>1 DEF Latest
<1> QED
  BY <1>2 DEF ToSet

LEMMA ViewedIsStored ==
    ASSUME AuthoringInv, ViewedDraft # None
    PROVE  \E i \in DOMAIN store.drafts : ViewedDraft = store.drafts[i]
<1>1. PICK S : store.drafts \in Seq(S)
  BY DEF AuthoringInv, StoreType
<1>2. store.drafts # << >> /\ ViewedDraft = store.drafts[Len(store.drafts)]
  BY DEF ViewedDraft, Last
<1>3. Len(store.drafts) \in DOMAIN store.drafts
  BY <1>1, <1>2
<1> QED
  BY <1>2, <1>3

(* The successor of a draft.                                               *)
LEMMA NextRevisionFields ==
    ASSUME NEW d, IsDraft(d), NEW content
    PROVE  /\ IsDraft(NextRevision(d, content))
           /\ NextRevision(d, content).id = d.id
           /\ NextRevision(d, content).rev = d.rev + 1 /\ d.rev + 1 # 1
<1>1. d.rev \in Nat \ {0} /\ {"id", "rev", "content"} \subseteq DOMAIN d
  BY DEF IsDraft
<1>2. /\ NextRevision(d, content).id = d.id
      /\ NextRevision(d, content).rev = d.rev + 1
      /\ DOMAIN NextRevision(d, content) = DOMAIN d
  BY <1>1 DEF NextRevision
<1> QED
  BY <1>1, <1>2 DEF IsDraft

(* A step that leaves the drafts, the revisions and the sessions alone.    *)
LEMMA NothingAuthored ==
    ASSUME AuthoringInv, module' = module, started' = started, sessions' = sessions,
           StoreType(store'), store'.drafts = store.drafts, store'.revisions = store.revisions
    PROVE  AuthoringInv'
  BY DEF AuthoringInv

(* A step of a session that changes what it works on, and neither drafts   *)
(* nor revisions.                                                          *)
LEMMA WorkStep ==
    ASSUME AuthoringInv, NEW s \in Sessions, NEW work, Works(s, work), module' = module,
           StoreType(store'), store'.drafts = store.drafts, store'.revisions = store.revisions,
           started' = started \/ started' = started + 1,
           WorkType(module, sessions'[s]),
           (work.step = "delete" \/ (work.step = "save" /\ work.draft.rev # 1)) =>
               \/ HoldsIn(module, s, sessions[s], work.basis)
               \/ \E i \in DOMAIN store.drafts : work.basis = store.drafts[i],
           (module = "water" /\ work.step \in {"assess", "check"}) =>
               \/ HoldsIn(module, s, sessions[s], work.viewed)
               \/ \E i \in DOMAIN store.drafts : work.viewed = store.drafts[i],
           Reviewed(module, s, sessions'[s]) =>
               sessions[s].draft # None \/ Reviewed(module, s, sessions[s]),
           (work.step = "save" /\ work.draft.rev = 1) =>
               work.draft.id = started + 1 /\ started' = started + 1
    PROVE  AuthoringInv'
<1>1. started \in Nat /\ SessionsType(sessions) /\ DraftsType(store.drafts, started)
  BY DEF AuthoringInv
<1>2. /\ SessionsType(sessions')
      /\ \A t \in Sessions \ {s} : sessions'[t] = sessions[t]
      /\ sessions'[s].work = work
      /\ sessions'[s].draft = sessions[s].draft /\ sessions'[s].candidate = sessions[s].candidate
  BY <1>1, WorksFields
<1>3. \A c : HoldsIn(module, s, sessions'[s], c) =>
          HoldsIn(module, s, sessions[s], c) \/ (\E i \in DOMAIN store.drafts : c = store.drafts[i])
  <2> SUFFICES ASSUME NEW c, HoldsIn(module, s, sessions'[s], c)
               PROVE  HoldsIn(module, s, sessions[s], c) \/ (\E i \in DOMAIN store.drafts : c = store.drafts[i])
    OBVIOUS
  <2>1. CASE c = sessions[s].draft /\ (c # None \/ Reviewed(module, s, sessions'[s]))
    BY <2>1 DEF HoldsIn
  <2>2. CASE c = work.basis /\ (work.step = "delete" \/ (work.step = "save" /\ work.draft.rev # 1))
    BY <2>2
  <2>3. CASE c = work.viewed /\ module = "water" /\ work.step \in {"assess", "check"}
    BY <2>3
  <2> QED
    BY <1>2, <2>1, <2>2, <2>3 DEF HoldsIn
<1>4. \A id : StartsIn(sessions'[s], id) =>
          StartsIn(sessions[s], id) \/ (id = started + 1 /\ started' = started + 1)
  BY <1>2 DEF StartsIn
<1>5. \A i \in DOMAIN store'.revisions : Founded(store'.revisions[i])
  BY DEF AuthoringInv
<1>6. /\ \A i \in DOMAIN store'.drafts : \E j \in DOMAIN store.drafts : store'.drafts[i] = store.drafts[j]
      /\ \A i, j \in DOMAIN store'.drafts : store'.drafts[i].id = store'.drafts[j].id => i = j
  BY <1>1 DEF DraftsType
<1>7. started' \in Nat /\ started' >= started
  BY <1>1
<1> QED
  BY <1>2, <1>3, <1>4, <1>5, <1>6, <1>7, SessionStep

(* A session that comes to rest, with drafts and revisions as they were.   *)
LEMMA RestStep ==
    ASSUME AuthoringInv, NEW s \in Sessions, Works(s, Idle), module' = module, started' = started,
           StoreType(store'), store'.drafts = store.drafts, store'.revisions = store.revisions
    PROVE  AuthoringInv'
<1>1. SessionsType(sessions)
  BY DEF AuthoringInv
<1>2. sessions'[s].work = Idle /\ sessions'[s].draft = sessions[s].draft
      /\ sessions'[s].candidate = sessions[s].candidate
  BY <1>1, WorksFields
<1>3. WorkType(module, sessions'[s])
  BY <1>2, RestingHoldsItsDraft
<1>4. Reviewed(module, s, sessions'[s]) => Reviewed(module, s, sessions[s])
  BY <1>2 DEF Reviewed, Idle
<1>5. Idle.step = "idle"
  BY DEF Idle
<1> QED
  BY <1>3, <1>4, <1>5, WorkStep

-----------------------------------------------------------------------------
(* THE STORE'S OPERATIONS *)

(* A report, and a reference, leave drafts and revisions alone.            *)
LEMMA ReportFields ==
    ASSUME StoreType(store), NEW report
    PROVE  LET st == WithReport(store, report)
           IN  StoreType(st) /\ st.drafts = store.drafts /\ st.revisions = store.revisions
  BY DEF StoreType, WithReport

LEMMA ActiveFields ==
    ASSUME StoreType(store), NEW candidate
    PROVE  LET st == WithActive(candidate)
           IN  StoreType(st) /\ st.drafts = store.drafts /\ st.revisions = store.revisions
<1>1. /\ WithActive(candidate).drafts = store.drafts
      /\ WithActive(candidate).revisions = store.revisions
      /\ DOMAIN WithActive(candidate) = DOMAIN store
  BY DEF StoreType, WithActive
<1> QED
  BY <1>1 DEF StoreType

(* What remains of drafts once one is removed.                             *)
LEMMA WithoutFields ==
    ASSUME NEW S, store.drafts \in Seq(S), DraftsType(store.drafts, started), NEW id
    PROVE  /\ Without(id) \in Seq(S)
           /\ \A i \in DOMAIN Without(id) :
                Without(id)[i].id # id /\ \E j \in DOMAIN store.drafts : Without(id)[i] = store.drafts[j]
           /\ \A j \in DOMAIN store.drafts : store.drafts[j].id # id =>
                \E i \in DOMAIN Without(id) : Without(id)[i] = store.drafts[j]
           /\ \A i, j \in DOMAIN Without(id) : Without(id)[i].id = Without(id)[j].id => i = j
<1>1. CASE id \in Stored
  <2> DEFINE p == CHOOSE i \in DOMAIN store.drafts : store.drafts[i].id = id
             q == RemoveAt(store.drafts, p)
             n == Len(store.drafts)
  <2>1. \E i \in DOMAIN store.drafts : store.drafts[i].id = id
    BY <1>1 DEF Stored
  <2>2. p \in DOMAIN store.drafts /\ store.drafts[p].id = id
    BY <2>1
  <2>3. Without(id) = q
    BY <1>1 DEF Without
  <2> HIDE DEF p
  <2>4. DOMAIN store.drafts = 1 .. n /\ n \in Nat
    OBVIOUS
  <2>5. p \in 1 .. Len(store.drafts)
    BY <2>2, <2>4
  <2>6. q \in Seq(S) /\ Len(q) = n - 1
        /\ \A j \in 1 .. n - 1 : q[j] = IF j < p THEN store.drafts[j] ELSE store.drafts[j + 1]
    BY <2>5, RemoveAtProperties
  <2> HIDE DEF q, n
  <2>7. DOMAIN q = 1 .. n - 1
    BY <2>6
  <2>8. \A i, j \in 1 .. n : store.drafts[i].id = store.drafts[j].id => i = j
    BY <2>4 DEF DraftsType
  <2>9. ASSUME NEW i \in 1 .. n - 1
        PROVE  \E k \in 1 .. n : q[i] = store.drafts[k] /\ k # p /\ k = (IF i < p THEN i ELSE i + 1)
    <3>1. CASE i < p
      BY <2>4, <2>6, <3>1
    <3>2. CASE ~(i < p)
      BY <2>2, <2>4, <2>6, <3>2
    <3> QED
      BY <3>1, <3>2
  <2>10. ASSUME NEW k \in 1 .. n, k # p PROVE \E i \in 1 .. n - 1 : q[i] = store.drafts[k]
    <3>1. CASE k < p
      <4>1. k \in 1 .. n - 1
        BY <2>2, <2>4, <3>1
      <4> QED
        BY <2>6, <3>1, <4>1
    <3>2. CASE k > p
      <4>1. k - 1 \in 1 .. n - 1 /\ ~(k - 1 < p) /\ (k - 1) + 1 = k
        BY <2>2, <2>4, <3>2
      <4> QED
        BY <2>6, <4>1
    <3> QED
      BY <2>2, <2>4, <2>10, <3>1, <3>2
  <2>11. \A i \in 1 .. n - 1 : q[i].id # id
    BY <2>2, <2>4, <2>8, <2>9
  <2>12. ASSUME NEW i \in 1 .. n - 1, NEW j \in 1 .. n - 1, q[i].id = q[j].id PROVE i = j
    <3>1. PICK a \in 1 .. n : q[i] = store.drafts[a] /\ a = (IF i < p THEN i ELSE i + 1)
      BY <2>9
    <3>2. PICK b \in 1 .. n : q[j] = store.drafts[b] /\ b = (IF j < p THEN j ELSE j + 1)
      BY <2>9
    <3>3. a = b
      BY <2>8, <2>12, <3>1, <3>2
    <3>4. p \in Int
      BY <2>2, <2>4
    <3> QED
      BY <3>1, <3>2, <3>3, <3>4
  <2>13. \A j \in DOMAIN store.drafts : store.drafts[j].id # id => \E i \in DOMAIN q : q[i] = store.drafts[j]
    BY <2>2, <2>4, <2>7, <2>10
  <2>14. \A i \in DOMAIN q : \E j \in DOMAIN store.drafts : q[i] = store.drafts[j]
    BY <2>4, <2>7, <2>9
  <2> QED
    BY <2>3, <2>6, <2>7, <2>11, <2>12, <2>13, <2>14
<1>2. CASE id \notin Stored
  <2>1. Without(id) = store.drafts /\ \A i \in DOMAIN store.drafts : store.drafts[i].id # id
    BY <1>2 DEF Without, Stored
  <2> QED
    BY <2>1 DEF DraftsType
<1> QED
  BY <1>1, <1>2

(* The drafts after a save: the new one once, and the others.              *)
Saves(st, d) ==
    /\ StoreType(st) /\ st.revisions = store.revisions
    /\ \A i \in DOMAIN st.drafts :
          \/ st.drafts[i] = d
          \/ st.drafts[i].id # d.id /\ \E j \in DOMAIN store.drafts : st.drafts[i] = store.drafts[j]
    /\ \A j \in DOMAIN store.drafts : store.drafts[j].id # d.id =>
          \E i \in DOMAIN st.drafts : st.drafts[i] = store.drafts[j]
    /\ \E i \in DOMAIN st.drafts : st.drafts[i] = d
    /\ \A i, j \in DOMAIN st.drafts : st.drafts[i].id = st.drafts[j].id => i = j

LEMMA WithDraftFields ==
    ASSUME StoreType(store), DraftsType(store.drafts, started), NEW d
    PROVE  Saves(WithDraft(d), d)
<1>1. PICK S : store.drafts \in Seq(S)
  BY DEF StoreType
<1> DEFINE q == Without(d.id)
<1>2. /\ q \in Seq(S)
      /\ \A i \in DOMAIN q :
           q[i].id # d.id /\ \E j \in DOMAIN store.drafts : q[i] = store.drafts[j]
      /\ \A j \in DOMAIN store.drafts : store.drafts[j].id # d.id =>
           \E i \in DOMAIN q : q[i] = store.drafts[j]
      /\ \A i, j \in DOMAIN q : q[i].id = q[j].id => i = j
  BY <1>1, WithoutFields
<1>3. /\ WithDraft(d).drafts = Append(q, d) /\ WithDraft(d).revisions = store.revisions
      /\ DOMAIN WithDraft(d) = DOMAIN store
  BY DEF WithDraft, StoreType
<1> HIDE DEF q
<1>4. Append(q, d) \in Seq(S \cup {d})
  <2>1. q \in Seq(S \cup {d})
    BY <1>2
  <2> QED
    BY <2>1
<1>5. /\ Len(q) \in Nat /\ DOMAIN q = 1 .. Len(q) /\ DOMAIN Append(q, d) = 1 .. Len(q) + 1
      /\ \A i \in 1 .. Len(q) : Append(q, d)[i] = q[i]
      /\ Append(q, d)[Len(q) + 1] = d
  BY <1>2
<1>6. StoreType(WithDraft(d))
  BY <1>3, <1>4 DEF StoreType
<1>7. \A i \in DOMAIN Append(q, d) : i \in DOMAIN q \/ i = Len(q) + 1
  BY <1>5
<1>8. \A i \in DOMAIN Append(q, d) :
          \/ Append(q, d)[i] = d
          \/ /\ Append(q, d)[i].id # d.id
             /\ \E j \in DOMAIN store.drafts : Append(q, d)[i] = store.drafts[j]
  BY <1>2, <1>5, <1>7
<1>9. \A j \in DOMAIN store.drafts : store.drafts[j].id # d.id =>
          \E i \in DOMAIN Append(q, d) : Append(q, d)[i] = store.drafts[j]
  BY <1>2, <1>5
<1>10. \E i \in DOMAIN Append(q, d) : Append(q, d)[i] = d
  BY <1>5
<1>11. \A i, j \in DOMAIN Append(q, d) : Append(q, d)[i].id = Append(q, d)[j].id => i = j
  BY <1>2, <1>5, <1>7
<1> QED
  BY <1>3, <1>6, <1>8, <1>9, <1>10, <1>11 DEF Saves

LEMMA WithDraftV3Fields ==
    ASSUME StoreType(store), DraftsType(store.drafts, started), NEW d
    PROVE  Saves(WithDraftV3(d), d)
<1>1. PICK S : store.drafts \in Seq(S)
  BY DEF StoreType
<1> DEFINE q == IF d.id \in Stored
                THEN [i \in DOMAIN store.drafts |-> IF store.drafts[i].id = d.id THEN d ELSE store.drafts[i]]
                ELSE Append(store.drafts, d)
<1>2. /\ WithDraftV3(d).drafts = q /\ WithDraftV3(d).revisions = store.revisions
      /\ DOMAIN WithDraftV3(d) = DOMAIN store
  BY DEF WithDraftV3, StoreType
<1>3. Len(store.drafts) \in Nat /\ DOMAIN store.drafts = 1 .. Len(store.drafts)
  BY <1>1
<1>4. \A i, j \in DOMAIN store.drafts : store.drafts[i].id = store.drafts[j].id => i = j
  BY DEF DraftsType
<1>5. CASE d.id \in Stored
  <2>1. q = [i \in DOMAIN store.drafts |-> IF store.drafts[i].id = d.id THEN d ELSE store.drafts[i]]
    BY <1>5
  <2>2. \A i \in DOMAIN store.drafts : store.drafts[i] \in S
    BY <1>1
  <2>3. q \in Seq(S \cup {d})
    BY <1>3, <2>1, <2>2
  <2>4. StoreType(WithDraftV3(d))
    BY <1>2, <2>3 DEF StoreType
  <2>5. \E i \in DOMAIN store.drafts : store.drafts[i].id = d.id
    BY <1>5 DEF Stored
  <2>6. DOMAIN q = DOMAIN store.drafts
        /\ \A i \in DOMAIN store.drafts : q[i] = IF store.drafts[i].id = d.id THEN d ELSE store.drafts[i]
    BY <2>1
  <2> HIDE DEF q
  <2>7. \A i, j \in DOMAIN q : q[i].id = q[j].id => i = j
    BY <1>4, <2>6
  <2> QED
    BY <1>2, <2>4, <2>5, <2>6, <2>7 DEF Saves
<1>6. CASE d.id \notin Stored
  <2>1. q = Append(store.drafts, d) /\ \A i \in DOMAIN store.drafts : store.drafts[i].id # d.id
    BY <1>6 DEF Stored
  <2>2. q \in Seq(S \cup {d})
    <3>1. store.drafts \in Seq(S \cup {d})
      BY <1>1
    <3> QED
      BY <2>1, <3>1
  <2>3. StoreType(WithDraftV3(d))
    BY <1>2, <2>2 DEF StoreType
  <2>4. /\ DOMAIN q = 1 .. Len(store.drafts) + 1
        /\ \A i \in DOMAIN store.drafts : q[i] = store.drafts[i]
        /\ q[Len(store.drafts) + 1] = d
    BY <1>1, <2>1
  <2> HIDE DEF q
  <2>5. \A i \in DOMAIN q : i \in DOMAIN store.drafts \/ i = Len(store.drafts) + 1
    BY <1>3, <2>4
  <2>6. Len(store.drafts) + 1 \in DOMAIN q /\ \A i \in DOMAIN store.drafts : i \in DOMAIN q
    BY <1>3, <2>4
  <2>7. \A i, j \in DOMAIN q : q[i].id = q[j].id => i = j
    BY <1>4, <2>1, <2>4, <2>5
  <2>8. \A i \in DOMAIN q : q[i] = d \/ (q[i].id # d.id /\ \E j \in DOMAIN store.drafts : q[i] = store.drafts[j])
    BY <2>1, <2>4, <2>5
  <2> QED
    BY <1>2, <2>3, <2>4, <2>6, <2>7, <2>8 DEF Saves
<1> QED
  BY <1>5, <1>6

(* The drafts after a delete.                                              *)
Removes(st, id) ==
    /\ StoreType(st) /\ st.revisions = store.revisions
    /\ \A i \in DOMAIN st.drafts : st.drafts[i].id # id
    /\ \A i \in DOMAIN st.drafts : \E j \in DOMAIN store.drafts : st.drafts[i] = store.drafts[j]
    /\ \A j \in DOMAIN store.drafts : store.drafts[j].id # id =>
          \E i \in DOMAIN st.drafts : st.drafts[i] = store.drafts[j]
    /\ \A i, j \in DOMAIN st.drafts : st.drafts[i].id = st.drafts[j].id => i = j

LEMMA WithoutDraftFields ==
    ASSUME StoreType(store), DraftsType(store.drafts, started), NEW d
    PROVE  Removes(WithoutDraft(d), d.id) /\ Removes(WithoutDraftV3(d), d.id)
<1>1. PICK S : store.drafts \in Seq(S)
  BY DEF StoreType
<1> DEFINE q == Without(d.id)
<1>2. /\ q \in Seq(S)
      /\ \A i \in DOMAIN q :
           q[i].id # d.id /\ \E j \in DOMAIN store.drafts : q[i] = store.drafts[j]
      /\ \A j \in DOMAIN store.drafts : store.drafts[j].id # d.id =>
           \E i \in DOMAIN q : q[i] = store.drafts[j]
      /\ \A i, j \in DOMAIN q : q[i].id = q[j].id => i = j
  BY <1>1, WithoutFields
<1>3. /\ WithoutDraft(d).drafts = q /\ WithoutDraft(d).revisions = store.revisions
      /\ DOMAIN WithoutDraft(d) = DOMAIN store
  BY DEF WithoutDraft, StoreType
<1>4. /\ WithoutDraftV3(d).drafts = q /\ WithoutDraftV3(d).revisions = store.revisions
      /\ DOMAIN WithoutDraftV3(d) = DOMAIN store
  BY DEF WithoutDraftV3, StoreType
<1> HIDE DEF q
<1>5. StoreType(WithoutDraft(d)) /\ StoreType(WithoutDraftV3(d))
  BY <1>2, <1>3, <1>4 DEF StoreType
<1>6. Removes(WithoutDraft(d), d.id)
  BY <1>2, <1>3, <1>5 DEF Removes
<1>7. Removes(WithoutDraftV3(d), d.id)
  BY <1>2, <1>4, <1>5 DEF Removes
<1> QED
  BY <1>6, <1>7

LEMMA WithRevisionFields ==
    ASSUME StoreType(store), NEW r, Founded(r), \A i \in DOMAIN store.revisions : Founded(store.revisions[i])
    PROVE  LET st == WithRevision(r)
           IN  /\ StoreType(st) /\ st.drafts = store.drafts
               /\ Len(st.revisions) # 0
               /\ \A i \in DOMAIN st.revisions : Founded(st.revisions[i])
<1>1. PICK S : store.revisions \in Seq(S)
  BY DEF StoreType
<1>2. /\ WithRevision(r).revisions = Append(store.revisions, r) /\ WithRevision(r).drafts = store.drafts
      /\ DOMAIN WithRevision(r) = DOMAIN store
  BY DEF WithRevision, StoreType
<1>3. Append(store.revisions, r) \in Seq(S \cup {r})
  <2>1. store.revisions \in Seq(S \cup {r})
    BY <1>1
  <2> QED
    BY <2>1
<1>4. StoreType(WithRevision(r))
  BY <1>2, <1>3 DEF StoreType
<1>5. /\ Len(store.revisions) \in Nat /\ DOMAIN store.revisions = 1 .. Len(store.revisions)
      /\ DOMAIN Append(store.revisions, r) = 1 .. Len(store.revisions) + 1
      /\ Len(Append(store.revisions, r)) = Len(store.revisions) + 1
      /\ \A i \in 1 .. Len(store.revisions) : Append(store.revisions, r)[i] = store.revisions[i]
      /\ Append(store.revisions, r)[Len(store.revisions) + 1] = r
  BY <1>1
<1>6. \A i \in DOMAIN Append(store.revisions, r) : Founded(Append(store.revisions, r)[i])
  BY <1>5
<1> QED
  BY <1>2, <1>4, <1>5, <1>6

(* A delete that was accepted, or changed nothing.                         *)
LEMMA DeleteStep ==
    ASSUME AuthoringInv, NEW s \in Sessions, NEW d, module' = module, started' = started,
           sessions' = [sessions EXCEPT ![s] = Closed],
           store' = store \/ Removes(store', d.id)
    PROVE  AuthoringInv'
<1>1. /\ started \in Nat /\ SessionsType(sessions) /\ DraftsType(store.drafts, started)
      /\ StoreType(store) /\ \A i \in DOMAIN store.revisions : Founded(store.revisions[i])
  BY DEF AuthoringInv
<1>2. /\ SessionsType(sessions')
      /\ \A t \in Sessions \ {s} : sessions'[t] = sessions[t]
      /\ sessions'[s] = Closed
  BY <1>1, CloseFields
<1>3. /\ StoreType(store')
      /\ \A i \in DOMAIN store'.drafts : \E j \in DOMAIN store.drafts : store'.drafts[i] = store.drafts[j]
      /\ \A i, j \in DOMAIN store'.drafts : store'.drafts[i].id = store'.drafts[j].id => i = j
      /\ \A i \in DOMAIN store'.revisions : Founded(store'.revisions[i])
  <2>1. CASE store' = store
    BY <1>1, <2>1 DEF DraftsType
  <2>2. CASE Removes(store', d.id)
    BY <1>1, <2>2 DEF Removes
  <2> QED
    BY <2>1, <2>2
<1>4. /\ \A c : ~HoldsIn(module, s, sessions'[s], c)
      /\ \A id : ~StartsIn(sessions'[s], id)
      /\ WorkType(module, sessions'[s])
  BY <1>2, ClosedHoldsNothing
<1>5. started' \in Nat /\ started' >= started
  BY <1>1
<1> QED
  BY <1>2, <1>3, <1>4, <1>5, SessionStep

-----------------------------------------------------------------------------
(* HEATING *)

LEMMA StartedDrafts ==
    ASSUME NEW id, NEW d \in GreenfieldDrafts(id) \cup EditDrafts(id) \cup V2Drafts(id) \cup LegacyDrafts(id)
    PROVE  IsDraft(d) /\ d.id = id /\ d.rev = 1
<1>1. ASSUME NEW base, NEW conf, NEW origin, NEW content
      PROVE  LET n == NewDraft(id, base, conf, origin, content)
             IN  IsDraft(n) /\ n.id = id /\ n.rev = 1
  BY DEF NewDraft, IsDraft
<1>2. \E base, conf, origin, content : d = NewDraft(id, base, conf, origin, content)
  BY DEF GreenfieldDrafts, EditDrafts, V2Drafts, LegacyDrafts, ConversionDraft
<1> QED
  BY <1>1, <1>2

LEMMA StartsKeeps ==
    ASSUME AuthoringInv, NEW s \in Sessions, Starts(s)
    PROVE  AuthoringInv'
<1>1. PICK d \in GreenfieldDrafts(NewId) \cup EditDrafts(NewId) \cup V2Drafts(NewId) \cup LegacyDrafts(NewId) :
          Works(s, [step |-> "save", draft |-> d, basis |-> None])
  BY DEF Starts
<1> DEFINE w == [step |-> "save", draft |-> d, basis |-> None]
<1>2. IsDraft(d) /\ d.id = started + 1 /\ d.rev = 1
  BY <1>1, StartedDrafts DEF NewId
<1>3. started' = started + 1 /\ module' = module /\ store' = store
  BY DEF Starts, NewId
<1>4. StoreType(store) /\ SessionsType(sessions)
  BY DEF AuthoringInv
<1>5. /\ w.step = "save" /\ w.draft = d
      /\ Works(s, w)
  BY <1>1
<1> HIDE DEF w
<1>6. sessions'[s].work = w /\ sessions'[s].draft = sessions[s].draft
      /\ sessions'[s].candidate = sessions[s].candidate
  BY <1>4, <1>5, WorksFields
<1>7. WorkType(module, sessions'[s])
  BY <1>2, <1>5, <1>6 DEF WorkType
<1>8. Reviewed(module, s, sessions'[s]) => sessions[s].draft # None \/ Reviewed(module, s, sessions[s])
  BY <1>5, <1>6 DEF Reviewed
<1> QED
  BY <1>2, <1>3, <1>4, <1>5, <1>7, <1>8, WorkStep

(* An update: the stored revision is read, its successor is on its way.    *)
LEMMA UpdatesKeeps ==
    ASSUME AuthoringInv, NEW s \in Sessions, NEW id, NEW expected, NEW content,
           Updates(s, id, expected, content)
    PROVE  AuthoringInv'
<1> DEFINE w == [step |-> "save", draft |-> NextRevision(Latest(id), content), basis |-> Latest(id)]
<1>1. id \in Stored /\ Works(s, w) /\ module' = module /\ store' = store /\ started' = started
  BY DEF Updates
<1>2. PICK i \in DOMAIN store.drafts : Latest(id) = store.drafts[i]
  BY <1>1, LatestIsStored
<1>3. StoreType(store) /\ SessionsType(sessions) /\ IsDraft(Latest(id))
  BY <1>2 DEF AuthoringInv, DraftsType
<1>4. /\ w.step = "save" /\ w.basis = Latest(id)
      /\ IsDraft(w.draft) /\ w.draft.id = w.basis.id /\ w.draft.rev = w.basis.rev + 1 /\ w.draft.rev # 1
  BY <1>3, NextRevisionFields
<1> HIDE DEF w
<1>5. sessions'[s].work = w /\ sessions'[s].draft = sessions[s].draft
      /\ sessions'[s].candidate = sessions[s].candidate
  BY <1>1, <1>3, WorksFields
<1>6. WorkType(module, sessions'[s])
  BY <1>4, <1>5 DEF WorkType
<1>7. Reviewed(module, s, sessions'[s]) => sessions[s].draft # None \/ Reviewed(module, s, sessions[s])
  BY <1>4, <1>5 DEF Reviewed
<1> QED
  BY <1>1, <1>2, <1>3, <1>4, <1>6, <1>7, WorkStep

(* What an accepted save saves.                                            *)
LEMMA SavedFollows ==
    ASSUME AuthoringInv, NEW s \in Sessions, Step(s) = "save",
           AcceptsDraft(sessions[s].work.draft) \/ AcceptsDraftV3(sessions[s].work.draft)
    PROVE  LET d == sessions[s].work.draft
           IN  /\ IsDraft(d)
               /\ \/ d.id \notin Stored /\ StartsIn(sessions[s], d.id)
                  \/ \E i \in DOMAIN store.drafts :
                        /\ store.drafts[i].id = d.id /\ d.rev = store.drafts[i].rev + 1
                        /\ sessions[s].work.basis = store.drafts[i]
<1> DEFINE d == sessions[s].work.draft
<1>1. /\ WorkType(module, sessions[s]) /\ DraftsType(store.drafts, started)
      /\ CopiesAreStored(module, store.drafts, started, sessions)
  BY DEF AuthoringInv
<1>2. IsDraft(d) /\ d.rev \in Nat
  BY <1>1 DEF WorkType, Step, IsDraft
<1>3. CASE d.id \in Stored
  <2>1. PICK i \in DOMAIN store.drafts : Latest(d.id) = store.drafts[i] /\ store.drafts[i].id = d.id
    BY <1>3, LatestIsStored
  <2>2. d.rev = store.drafts[i].rev + 1
    BY <1>3, <2>1 DEF AcceptsDraft, AcceptsDraftV3
  <2>3. store.drafts[i].rev \in Nat \ {0}
    BY <1>1 DEF DraftsType, IsDraft
  <2> DEFINE b == sessions[s].work.basis
  <2>4. d.rev # 1 /\ d.id = b.id /\ d.rev = b.rev + 1
    BY <1>1, <2>2, <2>3 DEF WorkType, Step
  <2>5. HoldsIn(module, s, sessions[s], b)
    BY <2>4 DEF HoldsIn, Step
  <2>6. IsCopy(store.drafts, started, b)
    BY <1>1, <2>5 DEF CopiesAreStored
  <2>7. b.rev \in Nat
    BY <2>6 DEF IsCopy, IsDraft
  <2>8. b.rev = store.drafts[i].rev
    BY <2>2, <2>3, <2>4, <2>7
  <2>9. b = store.drafts[i]
    BY <2>1, <2>4, <2>6, <2>8 DEF IsCopy
  <2> QED
    BY <1>2, <2>1, <2>2, <2>9
<1>4. CASE d.id \notin Stored
  <2>1. d.rev = 1
    BY <1>4 DEF AcceptsDraft, AcceptsDraftV3
  <2> QED
    BY <1>2, <1>4, <2>1 DEF StartsIn, Step
<1> QED
  BY <1>3, <1>4

LEMMA FinishSaveKeeps ==
    ASSUME AuthoringInv, NEW s \in Sessions, FinishSave(s)
    PROVE  AuthoringInv'
<1> DEFINE d == sessions[s].work.draft
<1>1. Step(s) = "save" /\ module' = module /\ started' = started
  BY DEF FinishSave
<1>2. /\ StoreType(store) /\ SessionsType(sessions) /\ DraftsType(store.drafts, started) /\ started \in Nat
      /\ \A i \in DOMAIN store.revisions : Founded(store.revisions[i])
  BY DEF AuthoringInv
<1>3. CASE AcceptsDraftV3(d)
  <2>1. /\ store' = WithDraftV3(d)
        /\ sessions' = [sessions EXCEPT ![s].work = Idle, ![s].draft = IF s \in Flows THEN d ELSE @]
    BY <1>3 DEF FinishSave
  <2>2. Saves(store', d)
    BY <1>2, <2>1, WithDraftV3Fields
  <2>3. /\ IsDraft(d)
        /\ \/ StartsIn(sessions[s], d.id)
           \/ \E i \in DOMAIN store.drafts : store.drafts[i].id = d.id /\ d.rev = store.drafts[i].rev + 1
    BY <1>1, <1>3, SavedFollows
  <2>4. sessions = [t \in Sessions |-> sessions[t]] /\ {"draft", "candidate", "work"} \subseteq DOMAIN sessions[s]
    BY <1>2 DEF SessionsType, IsSession
  <2>5. sessions' = [t \in Sessions |->
            IF t = s THEN [sessions[s] EXCEPT !.work = Idle, !.draft = IF s \in Flows THEN d ELSE @]
            ELSE sessions[t]]
    BY <2>1, <2>4
  <2>6. /\ DOMAIN sessions'[s] = DOMAIN sessions[s]
        /\ sessions'[s].work = Idle /\ sessions'[s].candidate = sessions[s].candidate
        /\ sessions'[s].draft = (IF s \in Flows THEN d ELSE sessions[s].draft)
    BY <2>4, <2>5
  <2>7. \A t \in Sessions \ {s} : sessions'[t] = sessions[t]
    BY <2>5
  <2>8. SessionsType(sessions')
    BY <1>2, <2>5, <2>6, <2>7 DEF SessionsType, IsSession
  <2>9. \A c : HoldsIn(module, s, sessions'[s], c) => HoldsIn(module, s, sessions[s], c) \/ c = d
    BY <1>1, <2>6 DEF HoldsIn, Reviewed, Idle, Step
  <2>10. (\A id : ~StartsIn(sessions'[s], id)) /\ WorkType(module, sessions'[s])
    BY <2>6 DEF StartsIn, WorkType, Idle
  <2>11. /\ StoreType(store')
         /\ \A i \in DOMAIN store'.drafts :
               \/ store'.drafts[i] = d
               \/ store'.drafts[i].id # d.id /\ \E j \in DOMAIN store.drafts : store'.drafts[i] = store.drafts[j]
         /\ \A i, j \in DOMAIN store'.drafts : store'.drafts[i].id = store'.drafts[j].id => i = j
         /\ \A i \in DOMAIN store'.revisions : Founded(store'.revisions[i])
    BY <1>2, <2>2 DEF Saves
  <2> QED
    BY <1>1, <2>3, <2>7, <2>8, <2>9, <2>10, <2>11, SaveStep
<1>4. CASE ~AcceptsDraftV3(d)
  <2>1. Works(s, Idle) /\ store' = store
    BY <1>4 DEF FinishSave, Rests
  <2> QED
    BY <1>1, <1>2, <2>1, RestStep
<1> QED
  BY <1>3, <1>4

(* A review, or a check of a report: it holds nothing but the draft of its *)
(* dialog, which a dialog has.                                             *)
LEMMA ReviewingKeeps ==
    ASSUME AuthoringInv, module = "heating", NEW s \in Sessions, NEW work, Works(s, work),
           module' = module, started' = started,
           StoreType(store'), store'.drafts = store.drafts, store'.revisions = store.revisions,
           work.step \in {"assess", "check"} \/ (work.step = "store" /\ Founded(work.revision)),
           s \in Flows => sessions[s].draft # None \/ Reviewed(module, s, sessions[s])
    PROVE  AuthoringInv'
<1>1. SessionsType(sessions)
  BY DEF AuthoringInv
<1>2. sessions'[s].work = work
  BY <1>1, WorksFields
<1>3. WorkType(module, sessions'[s])
  BY <1>2 DEF WorkType
<1>4. Reviewed(module, s, sessions'[s]) => sessions[s].draft # None \/ Reviewed(module, s, sessions[s])
  BY DEF Reviewed
<1> QED
  BY <1>3, <1>4, WorkStep

LEMMA ValidatesKeeps ==
    ASSUME AuthoringInv, module = "heating", NEW s \in Sessions, NEW id, Validates(s, id),
           s \in Flows => sessions[s].draft # None \/ Reviewed(module, s, sessions[s])
    PROVE  AuthoringInv'
<1> DEFINE w == [step |-> "assess", id |-> id, health |-> Health(Latest(id).content)]
<1>1. Works(s, w) /\ module' = module /\ started' = started /\ store' = store /\ w.step = "assess"
  BY DEF Validates
<1> HIDE DEF w
<1>2. StoreType(store)
  BY DEF AuthoringInv
<1> QED
  BY <1>1, <1>2, ReviewingKeeps

LEMMA FinishAssessKeeps ==
    ASSUME AuthoringInv, NEW s \in Sessions, FinishAssess(s)
    PROVE  AuthoringInv'
<1> DEFINE work == sessions[s].work
           report == ReportOn(Latest(work.id), work.health.ready)
           w == Canonicalizing(report)
<1>1. module = "heating" /\ Step(s) = "assess" /\ module' = module /\ started' = started
  BY DEF FinishAssess
<1>2. /\ store' = store \/ store' = WithReport(store, report)
      /\ Works(s, Idle) \/ Works(s, w)
  BY DEF FinishAssess, Rests
<1> HIDE DEF report
<1>3. StoreType(store') /\ store'.drafts = store.drafts /\ store'.revisions = store.revisions
  <2>1. StoreType(store)
    BY DEF AuthoringInv
  <2> QED
    BY <1>2, <2>1, ReportFields
<1>4. s \in Flows => Reviewed(module, s, sessions[s])
  BY <1>1 DEF Reviewed, Step
<1>5. w.step = "check"
  BY DEF Canonicalizing
<1> HIDE DEF w
<1>6. CASE Works(s, Idle)
  BY <1>1, <1>3, <1>6, RestStep
<1>7. CASE Works(s, w)
  BY <1>1, <1>3, <1>4, <1>5, <1>7, ReviewingKeeps
<1> QED
  BY <1>2, <1>6, <1>7

LEMMA ClientCanonicalizeKeeps ==
    ASSUME AuthoringInv, NEW s \in Sessions, ClientCanonicalize(s)
    PROVE  AuthoringInv'
<1>1. PICK r \in store.reports : Works(s, Canonicalizing(r))
  BY DEF ClientCanonicalize
<1>2. /\ module = "heating" /\ s \notin Flows /\ module' = module /\ started' = started /\ store' = store
      /\ StoreType(store)
  BY SessionsDiffer DEF ClientCanonicalize, AuthoringInv
<1>3. Canonicalizing(r).step = "check"
  BY DEF Canonicalizing
<1> QED
  BY <1>1, <1>2, <1>3, ReviewingKeeps

LEMMA FinishCheckKeeps ==
    ASSUME AuthoringInv, NEW s \in Sessions, FinishCheck(s)
    PROVE  AuthoringInv'
<1> DEFINE work == sessions[s].work
           id == work.report.draft
           base == Latest(id).base
           r == RevisionOf(Latest(id), work.report, IF base = None THEN 1 ELSE NextNumber,
                           IF base = None THEN 0 ELSE Parent)
           accepted == /\ id \in Stored /\ work.report \in store.reports
                       /\ Canonical(Latest(id), work.report, work.health)
           stores == [step |-> "store", revision |-> r]
           assesses == [step |-> "assess", id |-> id, health |-> Health(Latest(id).content)]
<1>1. module = "heating" /\ Step(s) = "check" /\ module' = module /\ started' = started /\ store' = store
  BY DEF FinishCheck
<1>2. (accepted /\ Works(s, stores)) \/ Works(s, assesses) \/ Works(s, Idle)
  BY DEF FinishCheck, Rests
<1>3. accepted => Founded(r)
  BY DEF Canonical, Assesses, Founded, RevisionOf
<1>4. stores.step = "store" /\ stores.revision = r /\ assesses.step = "assess"
  OBVIOUS
<1> HIDE DEF accepted, r, stores, assesses
<1>5. s \in Flows => Reviewed(module, s, sessions[s])
  BY <1>1 DEF Reviewed, Step
<1>6. StoreType(store)
  BY DEF AuthoringInv
<1>7. CASE accepted /\ Works(s, stores)
  BY <1>1, <1>3, <1>4, <1>5, <1>6, <1>7, ReviewingKeeps
<1>8. CASE Works(s, assesses)
  BY <1>1, <1>4, <1>5, <1>6, <1>8, ReviewingKeeps
<1>9. CASE Works(s, Idle)
  BY <1>1, <1>6, <1>9, RestStep
<1> QED
  BY <1>2, <1>7, <1>8, <1>9

(* Both modules: the revision is written.                                  *)
LEMMA FinishStoreKeeps ==
    ASSUME AuthoringInv, NEW s \in Sessions, FinishStore(s)
    PROVE  AuthoringInv'
<1> DEFINE r == sessions[s].work.revision
<1>1. Step(s) = "store" /\ module' = module /\ started' = started /\ store' = WithRevision(r)
  BY DEF FinishStore
<1>2. /\ StoreType(store) /\ SessionsType(sessions) /\ DraftsType(store.drafts, started) /\ started \in Nat
      /\ WorkType(module, sessions[s])
      /\ \A i \in DOMAIN store.revisions : Founded(store.revisions[i])
  BY DEF AuthoringInv
<1>3. Founded(r)
  BY <1>1, <1>2 DEF WorkType, Step
<1>4. /\ StoreType(store') /\ store'.drafts = store.drafts
      /\ \A i \in DOMAIN store'.revisions : Founded(store'.revisions[i])
  BY <1>1, <1>2, <1>3, WithRevisionFields
<1>5. sessions = [t \in Sessions |-> sessions[t]] /\ {"draft", "candidate", "work"} \subseteq DOMAIN sessions[s]
  BY <1>2 DEF SessionsType, IsSession
<1>6. sessions' = [t \in Sessions |->
          IF t = s
          THEN [sessions[s] EXCEPT !.work = Idle, !.candidate = IF s \in Flows THEN Len(store'.revisions) ELSE @]
          ELSE sessions[t]]
  BY <1>5 DEF FinishStore
<1>7. /\ DOMAIN sessions'[s] = DOMAIN sessions[s]
      /\ sessions'[s].work = Idle /\ sessions'[s].draft = sessions[s].draft
  BY <1>5, <1>6
<1>8. \A t \in Sessions \ {s} : sessions'[t] = sessions[t]
  BY <1>6
<1>9. SessionsType(sessions')
  BY <1>2, <1>6, <1>7, <1>8 DEF SessionsType, IsSession
<1>10. \A c : HoldsIn(module, s, sessions'[s], c) => HoldsIn(module, s, sessions[s], c)
  BY <1>1, <1>7 DEF HoldsIn, Reviewed, Idle, Step
<1>11. (\A id : ~StartsIn(sessions'[s], id)) /\ WorkType(module, sessions'[s])
  BY <1>7 DEF StartsIn, WorkType, Idle
<1>12. started' \in Nat /\ started' >= started
       /\ \A i, j \in DOMAIN store'.drafts : store'.drafts[i].id = store'.drafts[j].id => i = j
  BY <1>1, <1>2, <1>4 DEF DraftsType
<1>13. \A i \in DOMAIN store'.drafts : \E j \in DOMAIN store.drafts : store'.drafts[i] = store.drafts[j]
  BY <1>4
<1> QED
  BY <1>1, <1>4, <1>8, <1>9, <1>10, <1>11, <1>12, <1>13, SessionStep

LEMMA ResumeKeeps ==
    ASSUME AuthoringInv, NEW s \in Sessions, Resume(s)
    PROVE  AuthoringInv'
<1>1. PICK id \in Stored : sessions' = [sessions EXCEPT ![s].draft = Latest(id)]
  BY DEF Resume
<1>2. PICK i \in DOMAIN store.drafts : Latest(id) = store.drafts[i]
  BY LatestIsStored
<1>3. Step(s) = "idle" /\ module' = module /\ started' = started /\ store' = store
  BY DEF Resume, IsIdle
<1>4. /\ StoreType(store) /\ SessionsType(sessions) /\ DraftsType(store.drafts, started) /\ started \in Nat
      /\ WorkType(module, sessions[s])
      /\ \A k \in DOMAIN store.revisions : Founded(store.revisions[k])
  BY DEF AuthoringInv
<1>5. sessions = [t \in Sessions |-> sessions[t]] /\ {"draft", "candidate", "work"} \subseteq DOMAIN sessions[s]
  BY <1>4 DEF SessionsType, IsSession
<1>6. sessions' = [t \in Sessions |->
          IF t = s THEN [sessions[s] EXCEPT !.draft = Latest(id)] ELSE sessions[t]]
  BY <1>1, <1>5
<1>7. /\ DOMAIN sessions'[s] = DOMAIN sessions[s]
      /\ sessions'[s].work = sessions[s].work /\ sessions'[s].draft = Latest(id)
  BY <1>5, <1>6
<1>8. \A t \in Sessions \ {s} : sessions'[t] = sessions[t]
  BY <1>6
<1>9. SessionsType(sessions')
  BY <1>4, <1>6, <1>7, <1>8 DEF SessionsType, IsSession
<1>10. \A c : HoldsIn(module, s, sessions'[s], c) =>
          HoldsIn(module, s, sessions[s], c) \/ (\E k \in DOMAIN store.drafts : c = store.drafts[k])
  BY <1>2, <1>3, <1>7 DEF HoldsIn, Step
<1>11. (\A n : ~StartsIn(sessions'[s], n)) /\ WorkType(module, sessions'[s])
  BY <1>3, <1>4, <1>7 DEF StartsIn, WorkType, Step
<1>12. started' \in Nat /\ started' >= started
       /\ \A k, j \in DOMAIN store'.drafts : store'.drafts[k].id = store'.drafts[j].id => k = j
  BY <1>3, <1>4 DEF DraftsType
<1>13. /\ \A k \in DOMAIN store'.drafts : \E j \in DOMAIN store.drafts : store'.drafts[k] = store.drafts[j]
       /\ \A k \in DOMAIN store'.revisions : Founded(store'.revisions[k])
       /\ StoreType(store')
  BY <1>3, <1>4
<1> QED
  BY <1>3, <1>8, <1>9, <1>10, <1>11, <1>12, <1>13, SessionStep

(* A delete is on its way: of a stored draft, or of the dialog's own.      *)
LEMMA DeletingKeeps ==
    ASSUME AuthoringInv, NEW s \in Sessions, NEW b, Works(s, [step |-> "delete", basis |-> b]),
           module' = module, started' = started,
           StoreType(store'), store'.drafts = store.drafts, store'.revisions = store.revisions,
           \/ HoldsIn(module, s, sessions[s], b)
           \/ \E i \in DOMAIN store.drafts : b = store.drafts[i]
    PROVE  AuthoringInv'
<1> DEFINE w == [step |-> "delete", basis |-> b]
<1>1. w.step = "delete" /\ w.basis = b /\ Works(s, w)
  OBVIOUS
<1> HIDE DEF w
<1>2. SessionsType(sessions)
  BY DEF AuthoringInv
<1>3. sessions'[s].work = w /\ sessions'[s].draft = sessions[s].draft
      /\ sessions'[s].candidate = sessions[s].candidate
  BY <1>1, <1>2, WorksFields
<1>4. WorkType(module, sessions'[s])
  BY <1>1, <1>3 DEF WorkType
<1>5. Reviewed(module, s, sessions'[s]) => Reviewed(module, s, sessions[s])
  BY <1>1, <1>3 DEF Reviewed
<1> QED
  BY <1>1, <1>4, <1>5, WorkStep

LEMMA ActivateKeeps ==
    ASSUME AuthoringInv, NEW s \in Sessions, Activate(s) \/ WaterActivate(s)
    PROVE  AuthoringInv'
<1>1. /\ s \in Flows /\ sessions[s].candidate # 0 /\ module' = module /\ started' = started
      /\ Works(s, [step |-> "delete", basis |-> sessions[s].draft])
      /\ store' = WithActive(sessions[s].candidate)
  BY DEF Activate, WaterActivate, WaterActivates
<1>2. HoldsIn(module, s, sessions[s], sessions[s].draft)
  BY <1>1 DEF HoldsIn, Reviewed
<1>3. StoreType(store') /\ store'.drafts = store.drafts /\ store'.revisions = store.revisions
  <2>1. StoreType(store)
    BY DEF AuthoringInv
  <2> QED
    BY <1>1, <2>1, ActiveFields
<1> QED
  BY <1>1, <1>2, <1>3, DeletingKeeps

LEMMA ClientActivateKeeps ==
    ASSUME AuthoringInv, NEW s \in Sessions, ClientActivate(s) \/ ClientWaterActivate(s)
    PROVE  AuthoringInv'
<1>1. PICK candidate \in DOMAIN store.revisions : store' = WithActive(candidate)
  BY DEF ClientActivate, ClientWaterActivate, WaterActivates
<1>2. module' = module /\ started' = started /\ sessions' = sessions /\ StoreType(store)
  BY DEF ClientActivate, ClientWaterActivate, AuthoringInv
<1>3. StoreType(store') /\ store'.drafts = store.drafts /\ store'.revisions = store.revisions
  BY <1>1, <1>2, ActiveFields
<1> QED
  BY <1>2, <1>3, NothingAuthored

LEMMA DeletesKeeps ==
    ASSUME AuthoringInv, NEW s \in Sessions, Deletes(s) \/ WaterAbandon(s) \/ ClientWaterDelete(s)
    PROVE  AuthoringInv'
<1>1. module' = module /\ started' = started /\ store' = store /\ StoreType(store)
  BY DEF Deletes, WaterAbandon, ClientWaterDelete, AuthoringInv
<1>2. PICK b : Works(s, [step |-> "delete", basis |-> b]) /\ \E i \in DOMAIN store.drafts : b = store.drafts[i]
  <2>1. CASE Deletes(s) \/ ClientWaterDelete(s)
    BY <2>1 DEF Deletes, ClientWaterDelete, ToSet
  <2>2. CASE WaterAbandon(s)
    BY <2>2, ViewedIsStored DEF WaterAbandon
  <2> QED
    BY <2>1, <2>2
<1> QED
  BY <1>1, <1>2, DeletingKeeps

LEMMA FinishDeleteKeeps ==
    ASSUME AuthoringInv, NEW s \in Sessions, FinishDelete(s) \/ FinishWaterDelete(s) \/ AbandonCurrent(s)
    PROVE  AuthoringInv'
<1> DEFINE d == IF AbandonCurrent(s) THEN sessions[s].draft ELSE sessions[s].work.basis
<1>1. /\ module' = module /\ started' = started /\ sessions' = [sessions EXCEPT ![s] = Closed]
      /\ store' = store \/ store' = WithoutDraft(d) \/ store' = WithoutDraftV3(d)
  BY DEF FinishDelete, FinishWaterDelete, AbandonCurrent
<1> HIDE DEF d
<1>2. StoreType(store) /\ DraftsType(store.drafts, started)
  BY DEF AuthoringInv
<1>3. store' = store \/ Removes(store', d.id)
  BY <1>1, <1>2, WithoutDraftFields
<1> QED
  BY <1>1, <1>3, DeleteStep

-----------------------------------------------------------------------------
(* WATER *)

(* A draft that is started, and the successor of a stored one, on their    *)
(* way to the store.                                                       *)
LEMMA StartingKeeps ==
    ASSUME AuthoringInv, NEW s \in Sessions, NEW d, NEW b, Works(s, [step |-> "save", draft |-> d, basis |-> b]),
           module' = module, store' = store, started' = started + 1,
           IsDraft(d), d.id = started + 1, d.rev = 1
    PROVE  AuthoringInv'
<1> DEFINE w == [step |-> "save", draft |-> d, basis |-> b]
<1>1. w.step = "save" /\ w.draft = d /\ Works(s, w)
  OBVIOUS
<1> HIDE DEF w
<1>2. StoreType(store) /\ SessionsType(sessions)
  BY DEF AuthoringInv
<1>3. sessions'[s].work = w /\ sessions'[s].draft = sessions[s].draft
      /\ sessions'[s].candidate = sessions[s].candidate
  BY <1>1, <1>2, WorksFields
<1>4. WorkType(module, sessions'[s])
  BY <1>1, <1>3 DEF WorkType
<1>5. Reviewed(module, s, sessions'[s]) => Reviewed(module, s, sessions[s])
  BY <1>1, <1>3 DEF Reviewed
<1> QED
  BY <1>1, <1>2, <1>4, <1>5, WorkStep

LEMMA SucceedingKeeps ==
    ASSUME AuthoringInv, NEW s \in Sessions, NEW i \in DOMAIN store.drafts, NEW content,
           Works(s, [step |-> "save", draft |-> NextRevision(store.drafts[i], content),
                     basis |-> store.drafts[i]]),
           module' = module, store' = store, started' = started
    PROVE  AuthoringInv'
<1> DEFINE w == [step |-> "save", draft |-> NextRevision(store.drafts[i], content), basis |-> store.drafts[i]]
<1>1. StoreType(store) /\ SessionsType(sessions) /\ IsDraft(store.drafts[i])
  BY DEF AuthoringInv, DraftsType
<1>2. /\ w.step = "save" /\ w.basis = store.drafts[i] /\ Works(s, w)
      /\ IsDraft(w.draft) /\ w.draft.id = w.basis.id /\ w.draft.rev = w.basis.rev + 1 /\ w.draft.rev # 1
  BY <1>1, NextRevisionFields
<1> HIDE DEF w
<1>3. sessions'[s].work = w /\ sessions'[s].draft = sessions[s].draft
      /\ sessions'[s].candidate = sessions[s].candidate
  BY <1>1, <1>2, WorksFields
<1>4. WorkType(module, sessions'[s])
  BY <1>2, <1>3 DEF WorkType
<1>5. Reviewed(module, s, sessions'[s]) => Reviewed(module, s, sessions[s])
  BY <1>2, <1>3 DEF Reviewed
<1> QED
  BY <1>1, <1>2, <1>4, <1>5, WorkStep

LEMMA SubmitsKeeps ==
    ASSUME AuthoringInv, NEW s \in Sessions, NEW edits, Submits(s, edits)
    PROVE  AuthoringInv'
<1>1. PICK content \in edits : Commits(content) # Idle /\ Works(s, Commits(content))
  BY DEF Submits
<1>2. /\ module' = module /\ store' = store /\ StoreType(store)
      /\ started' = IF ViewedDraft = None THEN started + 1 ELSE started
  BY DEF Submits, NewId, AuthoringInv
<1> DEFINE fresh == [id |-> NewId, rev |-> 1, base |-> None, origin |-> "configure", content |-> content,
                     conf |-> IF store.active = None THEN NewId ELSE ActiveRevision.conf]
<1>3. CASE ViewedDraft = None
  <2>1. Commits(content) = [step |-> "save", draft |-> fresh, basis |-> None]
    BY <1>1, <1>3 DEF Commits, MatchesDraft
  <2>2. IsDraft(fresh) /\ fresh.id = started + 1 /\ fresh.rev = 1
    BY DEF IsDraft, NewId
  <2> HIDE DEF fresh
  <2> QED
    BY <1>1, <1>2, <1>3, <2>1, <2>2, StartingKeeps
<1>4. CASE ViewedDraft # None
  <2>1. PICK i \in DOMAIN store.drafts : ViewedDraft = store.drafts[i]
    BY <1>4, ViewedIsStored
  <2>2. \/ Commits(content) = [step |-> "delete", basis |-> store.drafts[i]]
        \/ Commits(content) = [step |-> "save", draft |-> NextRevision(store.drafts[i], content),
                               basis |-> store.drafts[i]]
    BY <1>1, <1>4, <2>1 DEF Commits
  <2>3. CASE Commits(content) = [step |-> "delete", basis |-> store.drafts[i]]
    BY <1>1, <1>2, <1>4, <2>3, DeletingKeeps
  <2>4. CASE Commits(content) = [step |-> "save", draft |-> NextRevision(store.drafts[i], content),
                                 basis |-> store.drafts[i]]
    BY <1>1, <1>2, <1>4, <2>4, SucceedingKeeps
  <2> QED
    BY <2>2, <2>3, <2>4
<1> QED
  BY <1>3, <1>4

LEMMA FinishWaterSaveKeeps ==
    ASSUME AuthoringInv, NEW s \in Sessions, FinishWaterSave(s)
    PROVE  AuthoringInv'
<1> DEFINE d == sessions[s].work.draft
<1>1. Step(s) = "save" /\ module' = module /\ started' = started /\ Works(s, Idle)
  BY DEF FinishWaterSave, Rests
<1>2. /\ StoreType(store) /\ SessionsType(sessions) /\ DraftsType(store.drafts, started) /\ started \in Nat
      /\ \A i \in DOMAIN store.revisions : Founded(store.revisions[i])
  BY DEF AuthoringInv
<1>3. CASE AcceptsDraft(d)
  <2>1. store' = WithReport(WithDraft(d), WaterReport(d))
    BY <1>3 DEF FinishWaterSave
  <2>2. Saves(WithDraft(d), d)
    BY <1>2, WithDraftFields
  <2>3. StoreType(store') /\ store'.drafts = WithDraft(d).drafts /\ store'.revisions = WithDraft(d).revisions
    BY <2>1, <2>2 DEF WithReport, StoreType, Saves
  <2>4. Saves(store', d)
    BY <2>2, <2>3 DEF Saves
  <2>5. /\ IsDraft(d)
        /\ \/ StartsIn(sessions[s], d.id)
           \/ \E i \in DOMAIN store.drafts : store.drafts[i].id = d.id /\ d.rev = store.drafts[i].rev + 1
    BY <1>1, <1>3, SavedFollows
  <2>6. /\ SessionsType(sessions')
        /\ \A t \in Sessions \ {s} : sessions'[t] = sessions[t]
        /\ sessions'[s].work = Idle
        /\ sessions'[s].draft = sessions[s].draft /\ sessions'[s].candidate = sessions[s].candidate
    BY <1>1, <1>2, WorksFields
  <2>7. /\ \A c : HoldsIn(module, s, sessions'[s], c) => HoldsIn(module, s, sessions[s], c)
        /\ \A id : ~StartsIn(sessions'[s], id)
        /\ WorkType(module, sessions'[s])
    BY <2>6, RestingHoldsItsDraft
  <2>8. /\ \A i \in DOMAIN store'.drafts :
               \/ store'.drafts[i] = d
               \/ store'.drafts[i].id # d.id /\ \E j \in DOMAIN store.drafts : store'.drafts[i] = store.drafts[j]
        /\ \A i, j \in DOMAIN store'.drafts : store'.drafts[i].id = store'.drafts[j].id => i = j
        /\ \A i \in DOMAIN store'.revisions : Founded(store'.revisions[i])
    BY <1>2, <2>4 DEF Saves
  <2> QED
    BY <1>1, <2>3, <2>5, <2>6, <2>7, <2>8, SaveStep
<1>4. CASE ~AcceptsDraft(d)
  <2>1. store' = store
    BY <1>4 DEF FinishWaterSave
  <2> QED
    BY <1>1, <1>2, <2>1, RestStep
<1> QED
  BY <1>3, <1>4

(* A review of water has seen a stored draft.                              *)
LEMMA SeeingKeeps ==
    ASSUME AuthoringInv, module = "water", NEW s \in Sessions, NEW work, Works(s, work),
           module' = module, started' = started,
           StoreType(store'), store'.drafts = store.drafts, store'.revisions = store.revisions,
           work.step \in {"assess", "check"},
           work.step = "assess" => {"step", "viewed", "number", "parent"} \subseteq DOMAIN work,
           \/ HoldsIn(module, s, sessions[s], work.viewed)
           \/ \E i \in DOMAIN store.drafts : work.viewed = store.drafts[i]
    PROVE  AuthoringInv'
<1>1. SessionsType(sessions)
  BY DEF AuthoringInv
<1>2. sessions'[s].work = work /\ sessions'[s].candidate = sessions[s].candidate
  BY <1>1, WorksFields
<1>3. WorkType(module, sessions'[s])
  BY <1>2 DEF WorkType
<1>4. Reviewed(module, s, sessions'[s]) => Reviewed(module, s, sessions[s])
  BY <1>2 DEF Reviewed
<1> QED
  BY <1>3, <1>4, WorkStep

LEMMA WaterReviewKeeps ==
    ASSUME AuthoringInv, NEW s \in Sessions, WaterReview(s) \/ ClientWaterCanonicalize(s)
    PROVE  AuthoringInv'
<1>1. /\ module = "water" /\ module' = module /\ started' = started /\ store' = store /\ StoreType(store)
  BY DEF WaterReview, ClientWaterCanonicalize, AuthoringInv
<1>2. ASSUME NEW d, NEW step \in {"assess", "check"},
             Works(s, [step |-> step, viewed |-> d, number |-> NextNumber, parent |-> Parent]),
             \E i \in DOMAIN store.drafts : d = store.drafts[i]
      PROVE  AuthoringInv'
  <2> DEFINE w == [step |-> step, viewed |-> d, number |-> NextNumber, parent |-> Parent]
  <2>1. /\ w.step \in {"assess", "check"} /\ {"step", "viewed", "number", "parent"} \subseteq DOMAIN w
        /\ w.viewed = d /\ Works(s, w)
    BY <1>2
  <2> HIDE DEF w
  <2> QED
    BY <1>1, <1>2, <2>1, SeeingKeeps
<1>3. CASE WaterReview(s)
  <2>1. /\ Works(s, [step |-> "assess", viewed |-> ViewedDraft, number |-> NextNumber, parent |-> Parent])
        /\ ViewedDraft # None
    BY <1>3 DEF WaterReview
  <2>2. \E i \in DOMAIN store.drafts : ViewedDraft = store.drafts[i]
    BY <2>1, ViewedIsStored
  <2> QED
    BY <1>2, <2>1, <2>2
<1>4. CASE ClientWaterCanonicalize(s)
  <2>1. PICK d \in ToSet(store.drafts) :
           Works(s, [step |-> "check", viewed |-> d, number |-> NextNumber, parent |-> Parent])
    BY <1>4 DEF ClientWaterCanonicalize
  <2>2. \E i \in DOMAIN store.drafts : d = store.drafts[i]
    BY DEF ToSet
  <2> QED
    BY <1>2, <2>1, <2>2
<1> QED
  BY <1>3, <1>4

LEMMA FinishWaterAssessKeeps ==
    ASSUME AuthoringInv, NEW s \in Sessions, FinishWaterAssess(s)
    PROVE  AuthoringInv'
<1> DEFINE work == sessions[s].work
           report == WaterReport(Latest(work.viewed.id))
           w == [work EXCEPT !.step = "check"]
<1>1. /\ module = "water" /\ Step(s) = "assess" /\ module' = module /\ started' = started
      /\ store' = store \/ store' = WithReport(store, report)
      /\ Works(s, Idle) \/ Works(s, w)
  BY DEF FinishWaterAssess, Rests
<1> HIDE DEF report
<1>2. StoreType(store') /\ store'.drafts = store.drafts /\ store'.revisions = store.revisions
  <2>1. StoreType(store)
    BY DEF AuthoringInv
  <2> QED
    BY <1>1, <2>1, ReportFields
<1>3. CASE Works(s, Idle)
  BY <1>1, <1>2, <1>3, RestStep
<1>4. CASE Works(s, w)
  <2>1. {"step", "viewed", "number", "parent"} \subseteq DOMAIN work
    BY <1>1 DEF AuthoringInv, WorkType, Step
  <2>2. w.step = "check" /\ w.viewed = work.viewed
    BY <2>1
  <2>3. HoldsIn(module, s, sessions[s], work.viewed)
    BY <1>1 DEF HoldsIn, Step
  <2> HIDE DEF w
  <2> QED
    BY <1>1, <1>2, <1>4, <2>2, <2>3, SeeingKeeps
<1> QED
  BY <1>1, <1>3, <1>4

LEMMA FinishWaterCheckKeeps ==
    ASSUME AuthoringInv, NEW s \in Sessions, FinishWaterCheck(s)
    PROVE  AuthoringInv'
<1> DEFINE work == sessions[s].work
           d == Latest(work.viewed.id)
           r == WaterRevision(d, work.number, work.parent)
           ready == work.viewed.id \in Stored /\ MayBecomeRevision(d, WaterReport(d))
           w == [step |-> "store", revision |-> r]
<1>1. /\ module = "water" /\ Step(s) = "check" /\ module' = module /\ started' = started
      /\ store' = store \/ store' = WithReport(store, WaterReport(d))
  BY DEF FinishWaterCheck
<1>2. /\ StoreType(store) /\ SessionsType(sessions) /\ DraftsType(store.drafts, started) /\ started \in Nat
      /\ \A i \in DOMAIN store.revisions : Founded(store.revisions[i])
  BY DEF AuthoringInv
<1>3. StoreType(store') /\ store'.drafts = store.drafts /\ store'.revisions = store.revisions
  BY <1>1, <1>2, ReportFields
<1>4. CASE ~ready
  <2>1. Works(s, Idle)
    BY <1>4 DEF FinishWaterCheck, Rests
  <2> QED
    BY <1>1, <1>3, <2>1, RestStep
<1>5. CASE ready
  <2>1. sessions' = [sessions EXCEPT ![s].work = w, ![s].draft = IF s \in Flows THEN work.viewed ELSE @]
    BY <1>5 DEF FinishWaterCheck
  <2>2. Founded(r)
    <3>1. MayBecomeRevision(d, WaterReport(d))
      BY <1>5
    <3>2. /\ r.report = WaterReport(d) /\ r.draft = d.id /\ r.draftRev = d.rev /\ r.content = d.content
      BY DEF WaterRevision, RevisionOf
    <3> HIDE DEF r
    <3> QED
      BY <3>1, <3>2 DEF Founded, MayBecomeRevision, Assesses
  <2>3. w.step = "store" /\ w.revision = r
    OBVIOUS
  <2> HIDE DEF w, r
  <2>4. sessions = [t \in Sessions |-> sessions[t]] /\ {"draft", "candidate", "work"} \subseteq DOMAIN sessions[s]
    BY <1>2 DEF SessionsType, IsSession
  <2>5. sessions' = [t \in Sessions |->
            IF t = s THEN [sessions[s] EXCEPT !.work = w, !.draft = IF s \in Flows THEN work.viewed ELSE @]
            ELSE sessions[t]]
    BY <2>1, <2>4
  <2>6. /\ DOMAIN sessions'[s] = DOMAIN sessions[s]
        /\ sessions'[s].work = w /\ sessions'[s].candidate = sessions[s].candidate
        /\ sessions'[s].draft = (IF s \in Flows THEN work.viewed ELSE sessions[s].draft)
    BY <2>4, <2>5
  <2>7. \A t \in Sessions \ {s} : sessions'[t] = sessions[t]
    BY <2>5
  <2>8. SessionsType(sessions')
    BY <1>2, <2>5, <2>6, <2>7 DEF SessionsType, IsSession
  <2>9. HoldsIn(module, s, sessions[s], work.viewed)
    BY <1>1 DEF HoldsIn, Step
  <2>10. \A c : HoldsIn(module, s, sessions'[s], c) => HoldsIn(module, s, sessions[s], c)
    <3> SUFFICES ASSUME NEW c, HoldsIn(module, s, sessions'[s], c)
                 PROVE  HoldsIn(module, s, sessions[s], c)
      OBVIOUS
    <3>1. c = sessions'[s].draft /\ (c # None \/ Reviewed(module, s, sessions'[s]))
      BY <2>3, <2>6 DEF HoldsIn
    <3>2. CASE s \in Flows
      BY <2>6, <2>9, <3>1, <3>2
    <3>3. CASE s \notin Flows
      BY <2>6, <3>1, <3>3 DEF HoldsIn, Reviewed
    <3> QED
      BY <3>2, <3>3
  <2>11. (\A n : ~StartsIn(sessions'[s], n)) /\ WorkType(module, sessions'[s])
    BY <2>2, <2>3, <2>6 DEF StartsIn, WorkType
  <2>12. started' \in Nat /\ started' >= started
         /\ \A k, j \in DOMAIN store'.drafts : store'.drafts[k].id = store'.drafts[j].id => k = j
    BY <1>1, <1>2, <1>3 DEF DraftsType
  <2>13. /\ \A k \in DOMAIN store'.drafts : \E j \in DOMAIN store.drafts : store'.drafts[k] = store.drafts[j]
         /\ \A k \in DOMAIN store'.revisions : Founded(store'.revisions[k])
    BY <1>2, <1>3
  <2> QED
    BY <1>1, <1>3, <2>7, <2>8, <2>10, <2>11, <2>12, <2>13, SessionStep
<1> QED
  BY <1>4, <1>5

LEMMA ClientWaterStartKeeps ==
    ASSUME AuthoringInv, NEW s \in Sessions, ClientWaterStart(s)
    PROVE  AuthoringInv'
<1>1. PICK content, conf :
         Works(s, [step |-> "save", basis |-> None,
                   draft |-> [id |-> NewId, rev |-> 1, base |-> None, origin |-> "wizard",
                              content |-> content, conf |-> conf]])
  BY DEF ClientWaterStart
<1> DEFINE d == [id |-> NewId, rev |-> 1, base |-> None, origin |-> "wizard",
                 content |-> content, conf |-> conf]
<1>2. Works(s, [step |-> "save", draft |-> d, basis |-> None])
  BY <1>1
<1>3. IsDraft(d) /\ d.id = started + 1 /\ d.rev = 1
  BY DEF IsDraft, NewId
<1>4. module' = module /\ store' = store /\ started' = started + 1
  BY DEF ClientWaterStart, NewId
<1> HIDE DEF d
<1> QED
  BY <1>2, <1>3, <1>4, StartingKeeps

LEMMA ClientWaterUpdateKeeps ==
    ASSUME AuthoringInv, NEW s \in Sessions, ClientWaterUpdate(s)
    PROVE  AuthoringInv'
<1>1. PICK d \in ToSet(store.drafts), content \in WaterContents :
         Works(s, [step |-> "save", draft |-> NextRevision(d, content), basis |-> d])
  BY DEF ClientWaterUpdate
<1>2. PICK i \in DOMAIN store.drafts : d = store.drafts[i]
  BY DEF ToSet
<1>3. module' = module /\ store' = store /\ started' = started
  BY DEF ClientWaterUpdate
<1> QED
  BY <1>1, <1>2, <1>3, SucceedingKeeps

-----------------------------------------------------------------------------
(* THE WHOLE *)

LEMMA CloseKeeps ==
    ASSUME AuthoringInv, NEW s \in Sessions, Close(s)
    PROVE  AuthoringInv'
<1>1. /\ module' = module /\ started' = started /\ store' = store
      /\ sessions' = [sessions EXCEPT ![s] = Closed]
  BY DEF Close
<1> QED
  BY <1>1, DeleteStep

LEMMA RestartKeeps ==
    ASSUME AuthoringInv, Restart
    PROVE  AuthoringInv'
<1>1. /\ module' = module /\ started' = started /\ store' = store
      /\ sessions' = [s \in Sessions |-> Closed]
  BY DEF Restart
<1>2. SessionsType(sessions')
  BY <1>1 DEF SessionsType, IsSession, Closed
<1>3. /\ CopiesAreStored(module, store.drafts, started, sessions')
      /\ IdsAreNew(module, store.drafts, started, sessions')
      /\ \A s \in Sessions : WorkType(module, sessions'[s])
  BY <1>1, ClosedHoldsNothing DEF CopiesAreStored, IdsAreNew
<1> QED
  BY <1>1, <1>2, <1>3 DEF AuthoringInv

LEMMA AuthoringInitially == AuthoringInit => AuthoringInv
<1> SUFFICES ASSUME AuthoringInit PROVE AuthoringInv
  OBVIOUS
<1>1. started = 0 /\ sessions = [s \in Sessions |-> Closed]
  BY DEF AuthoringInit
<1>2. \/ store = EmptyStore \/ \E c : store = [EmptyStore EXCEPT !.legacy = c]
      \/ \E schema, c : store = InForce(schema, c)
  BY DEF AuthoringInit
<1>3. /\ StoreType(store) /\ store.drafts = << >>
      /\ \A i \in DOMAIN store.revisions : store.revisions[i].report = None
  <2>1. CASE store = EmptyStore \/ \E c : store = [EmptyStore EXCEPT !.legacy = c]
    <3>1. store.drafts = << >> /\ store.revisions = << >> /\ DOMAIN store = DOMAIN EmptyStore
      BY <2>1 DEF EmptyStore
    <3>2. << >> \in Seq({})
      OBVIOUS
    <3> QED
      BY <3>1, <3>2 DEF StoreType, EmptyStore
  <2>2. CASE \E schema, c : store = InForce(schema, c)
    <3>1. PICK schema, c : store = InForce(schema, c)
      BY <2>2
    <3> DEFINE r1 == Earlier(schema, 1, c)
               r2 == Earlier(schema, 2, c)
    <3>2. r1.report = None /\ r2.report = None
      BY DEF Earlier
    <3>3. /\ store.drafts = << >> /\ store.revisions = <<r1, r2>> /\ DOMAIN store = DOMAIN EmptyStore
      BY <3>1 DEF InForce, EmptyStore
    <3> HIDE DEF r1, r2
    <3>4. StoreType(store)
      <4>1. << >> \in Seq({}) /\ <<r1, r2>> \in Seq({r1, r2})
        OBVIOUS
      <4> QED
        BY <3>3, <4>1 DEF StoreType, EmptyStore
    <3> QED
      BY <3>2, <3>3, <3>4
  <2> QED
    BY <1>2, <2>1, <2>2
<1>4. SessionsType(sessions)
  BY <1>1 DEF SessionsType, IsSession, Closed
<1>5. /\ CopiesAreStored(module, store.drafts, started, sessions)
      /\ IdsAreNew(module, store.drafts, started, sessions)
      /\ \A s \in Sessions : WorkType(module, sessions[s])
  BY <1>1, ClosedHoldsNothing DEF CopiesAreStored, IdsAreNew
<1>6. DraftsType(store.drafts, started)
  BY <1>3 DEF DraftsType
<1> QED
  BY <1>1, <1>3, <1>4, <1>5, <1>6 DEF AuthoringInv, Founded

LEMMA HeatingKeeps ==
    ASSUME AuthoringInv, NEW s \in Sessions, HeatingNext(s)
    PROVE  AuthoringInv'
<1>1. CASE Begin(s) \/ ClientBegin(s)
  BY <1>1, StartsKeeps DEF Begin, ClientBegin
<1>2. CASE Resume(s)
  BY <1>2, ResumeKeeps
<1>3. CASE EditSection(s) \/ ClientUpdate(s)
  BY <1>3, UpdatesKeeps DEF EditSection, ClientUpdate
<1>4. CASE FinishSave(s)
  BY <1>4, FinishSaveKeeps
<1>5. CASE Review(s)
  BY <1>5, ValidatesKeeps DEF Review
<1>6. CASE ClientValidate(s)
  BY <1>6, ValidatesKeeps, SessionsDiffer DEF ClientValidate
<1>7. CASE FinishAssess(s)
  BY <1>7, FinishAssessKeeps
<1>8. CASE ClientCanonicalize(s)
  BY <1>8, ClientCanonicalizeKeeps
<1>9. CASE FinishCheck(s)
  BY <1>9, FinishCheckKeeps
<1>10. CASE FinishStore(s)
  BY <1>10, FinishStoreKeeps
<1>11. CASE Activate(s)
  BY <1>11, ActivateKeeps
<1>12. CASE ActivationFails(s)
  BY <1>12, ValidatesKeeps DEF ActivationFails, Reviewed
<1>13. CASE ClientActivate(s)
  BY <1>13, ClientActivateKeeps
<1>14. CASE AbandonCurrent(s) \/ FinishDelete(s)
  BY <1>14, FinishDeleteKeeps
<1>15. CASE Abandon(s) \/ ClientAbandon(s)
  BY <1>15, DeletesKeeps DEF Abandon, ClientAbandon
<1> QED
  BY <1>1, <1>2, <1>3, <1>4, <1>5, <1>6, <1>7, <1>8, <1>9, <1>10, <1>11, <1>12, <1>13, <1>14, <1>15
     DEF HeatingNext

LEMMA WaterKeeps ==
    ASSUME AuthoringInv, NEW s \in Sessions, WaterNext(s)
    PROVE  AuthoringInv'
<1>1. CASE AreaSensorSection(s) \/ NotificationsSection(s) \/ SirensSection(s) \/ ShutoffValvesSection(s)
  BY <1>1, SubmitsKeeps DEF AreaSensorSection, NotificationsSection, SirensSection, ShutoffValvesSection
<1>2. CASE FinishWaterSave(s)
  BY <1>2, FinishWaterSaveKeeps
<1>3. CASE WaterReview(s) \/ ClientWaterCanonicalize(s)
  BY <1>3, WaterReviewKeeps
<1>4. CASE FinishWaterAssess(s)
  BY <1>4, FinishWaterAssessKeeps
<1>5. CASE FinishWaterCheck(s)
  BY <1>5, FinishWaterCheckKeeps
<1>6. CASE WaterActivate(s)
  BY <1>6, ActivateKeeps
<1>7. CASE WaterAbandon(s) \/ ClientWaterDelete(s)
  BY <1>7, DeletesKeeps
<1>8. CASE FinishWaterDelete(s)
  BY <1>8, FinishDeleteKeeps
<1>9. CASE ClientWaterStart(s)
  BY <1>9, ClientWaterStartKeeps
<1>10. CASE ClientWaterUpdate(s)
  BY <1>10, ClientWaterUpdateKeeps
<1>11. CASE ClientWaterActivate(s)
  BY <1>11, ClientActivateKeeps
<1> QED
  BY <1>1, <1>2, <1>3, <1>4, <1>5, <1>6, <1>7, <1>8, <1>9, <1>10, <1>11 DEF WaterNext

LEMMA AuthoringKept == AuthoringInv /\ [AuthoringNext]_authoringVars => AuthoringInv'
<1> SUFFICES ASSUME AuthoringInv, [AuthoringNext]_authoringVars PROVE AuthoringInv'
  OBVIOUS
<1>1. CASE \E s \in Sessions : HeatingNext(s) \/ WaterNext(s) \/ Close(s)
  BY <1>1, HeatingKeeps, WaterKeeps, CloseKeeps
<1>2. CASE RegistryChanges
  <2>1. module' = module /\ started' = started /\ sessions' = sessions /\ store' = store
    BY <1>2 DEF RegistryChanges
  <2> QED
    BY <2>1 DEF AuthoringInv
<1>3. CASE Restart
  BY <1>3, RestartKeeps
<1>4. CASE UNCHANGED authoringVars
  BY <1>4 DEF authoringVars, AuthoringInv
<1> QED
  BY <1>1, <1>2, <1>3, <1>4 DEF AuthoringNext

(* CanonicalIsValidated, for every number of dialogs and clients, whatever *)
(* they author at the same time and whatever the registries gain and lose. *)
THEOREM CanonicalIsValidatedAlways == AuthoringSpec => []CanonicalIsValidated
<1>1. AuthoringInv => CanonicalIsValidated
  BY DEF AuthoringInv, CanonicalIsValidated, Founded
<1> QED
  BY <1>1, AuthoringInitially, AuthoringKept, PTL DEF AuthoringSpec

-----------------------------------------------------------------------------
(* NO WORK IS LOST *)

(* What NoUpdateIsLost says of one step, of one stored draft.              *)
IsKept(d) ==
    d \in ToSet(store'.drafts)
    \/ /\ \E s \in Sessions : Read(s) = d /\ sessions'[s] # sessions[s]
       /\ \A n \in ToSet(store'.drafts) : n.id = d.id => n.rev = d.rev + 1

LEMMA SaveLosesNothing ==
    ASSUME AuthoringInv, NEW s \in Sessions, Step(s) = "save", sessions'[s].work = Idle,
           AcceptsDraft(sessions[s].work.draft) \/ AcceptsDraftV3(sessions[s].work.draft),
           Saves(store', sessions[s].work.draft), NEW k \in DOMAIN store.drafts
    PROVE  IsKept(store.drafts[k])
<1> DEFINE d == sessions[s].work.draft
           old == store.drafts[k]
<1>1. \/ d.id \notin Stored
      \/ \E i \in DOMAIN store.drafts :
            /\ store.drafts[i].id = d.id /\ d.rev = store.drafts[i].rev + 1
            /\ sessions[s].work.basis = store.drafts[i]
  BY SavedFollows
<1>2. DraftsType(store.drafts, started)
  BY DEF AuthoringInv
<1>3. CASE old.id # d.id
  <2>1. \E i \in DOMAIN store'.drafts : store'.drafts[i] = old
    BY <1>3 DEF Saves
  <2> QED
    BY <2>1 DEF IsKept, ToSet
<1>4. CASE old.id = d.id
  <2>1. d.id \in Stored
    BY <1>4 DEF Stored
  <2>2. d.rev = old.rev + 1 /\ sessions[s].work.basis = old
    BY <1>1, <1>2, <1>4, <2>1 DEF DraftsType
  <2>3. Read(s) = old
    BY <2>2 DEF Read
  <2>4. sessions'[s] # sessions[s]
    BY DEF Step, Idle
  <2>5. \A n \in ToSet(store'.drafts) : n.id = old.id => n.rev = old.rev + 1
    BY <1>4, <2>2 DEF Saves, ToSet
  <2> QED
    BY <2>3, <2>4, <2>5 DEF IsKept
<1> QED
  BY <1>3, <1>4

LEMMA DeleteLosesNothing ==
    ASSUME AuthoringInv, NEW s \in Sessions, NEW d, HoldsIn(module, s, sessions[s], d), Read(s) = d,
           sessions'[s] = Closed, sessions[s] # Closed,
           AcceptsDelete(d) \/ AcceptsDeleteV3(d),
           Removes(store', d.id), NEW k \in DOMAIN store.drafts
    PROVE  IsKept(store.drafts[k])
<1> DEFINE old == store.drafts[k]
<1>1. IsCopy(store.drafts, started, d) /\ DraftsType(store.drafts, started)
  BY DEF AuthoringInv, CopiesAreStored
<1>2. CASE old.id # d.id
  <2>1. \E i \in DOMAIN store'.drafts : store'.drafts[i] = old
    BY <1>2 DEF Removes
  <2> QED
    BY <2>1 DEF IsKept, ToSet
<1>3. CASE old.id = d.id
  <2>1. PICK i \in DOMAIN store.drafts : Latest(d.id) = store.drafts[i] /\ store.drafts[i].id = d.id
    BY LatestIsStored DEF AcceptsDelete, AcceptsDeleteV3
  <2>2. Latest(d.id).rev = d.rev
    BY DEF AcceptsDelete, AcceptsDeleteV3
  <2>3. d = store.drafts[i]
    BY <1>1, <2>1, <2>2 DEF IsCopy
  <2>4. d = old
    BY <1>1, <1>3, <2>1, <2>3 DEF DraftsType
  <2>5. \A n \in ToSet(store'.drafts) : n.id # old.id
    BY <1>3 DEF Removes, ToSet
  <2> QED
    BY <2>4, <2>5 DEF IsKept
<1> QED
  BY <1>2, <1>3

(* The steps that change the drafts.                                       *)
LEMMA SavesAndDeletes ==
    ASSUME AuthoringInv, NEW s \in Sessions, HeatingNext(s) \/ WaterNext(s) \/ Close(s)
    PROVE  \/ FinishSave(s) \/ FinishWaterSave(s) \/ FinishDelete(s) \/ FinishWaterDelete(s) \/ AbandonCurrent(s)
           \/ store'.drafts = store.drafts
<1>1. StoreType(store)
  BY DEF AuthoringInv
<1>2. /\ \A report : WithReport(store, report).drafts = store.drafts
      /\ \A candidate : WithActive(candidate).drafts = store.drafts
      /\ \A r : WithRevision(r).drafts = store.drafts
  BY <1>1 DEF WithReport, WithActive, WithRevision, StoreType
<1>3. CASE HeatingNext(s)
  <2>1. CASE Begin(s) \/ ClientBegin(s)
    BY <2>1 DEF Begin, ClientBegin, Starts
  <2>2. CASE Resume(s) \/ EditSection(s) \/ ClientUpdate(s)
    BY <2>2 DEF Resume, EditSection, ClientUpdate, Updates
  <2>3. CASE Review(s) \/ ClientValidate(s) \/ ActivationFails(s)
    BY <2>3 DEF Review, ClientValidate, ActivationFails, Validates
  <2>4. CASE FinishAssess(s)
    BY <1>2, <2>4 DEF FinishAssess
  <2>5. CASE ClientCanonicalize(s) \/ FinishCheck(s)
    BY <2>5 DEF ClientCanonicalize, FinishCheck
  <2>6. CASE FinishStore(s)
    BY <1>2, <2>6 DEF FinishStore
  <2>7. CASE Activate(s) \/ ClientActivate(s)
    BY <1>2, <2>7 DEF Activate, ClientActivate
  <2>8. CASE Abandon(s) \/ ClientAbandon(s)
    BY <2>8 DEF Abandon, ClientAbandon, Deletes
  <2> QED
    BY <1>3, <2>1, <2>2, <2>3, <2>4, <2>5, <2>6, <2>7, <2>8 DEF HeatingNext
<1>4. CASE WaterNext(s)
  <2>1. CASE AreaSensorSection(s) \/ NotificationsSection(s) \/ SirensSection(s) \/ ShutoffValvesSection(s)
    BY <2>1 DEF AreaSensorSection, NotificationsSection, SirensSection, ShutoffValvesSection, Submits
  <2>2. CASE WaterReview(s) \/ WaterAbandon(s)
    BY <2>2 DEF WaterReview, WaterAbandon
  <2>3. CASE FinishWaterAssess(s)
    BY <1>2, <2>3 DEF FinishWaterAssess
  <2>4. CASE FinishWaterCheck(s)
    BY <1>2, <2>4 DEF FinishWaterCheck
  <2>5. CASE WaterActivate(s) \/ ClientWaterActivate(s)
    BY <1>2, <2>5 DEF WaterActivate, ClientWaterActivate, WaterActivates
  <2>6. CASE ClientWaterStart(s) \/ ClientWaterUpdate(s) \/ ClientWaterCanonicalize(s) \/ ClientWaterDelete(s)
    BY <2>6 DEF ClientWaterStart, ClientWaterUpdate, ClientWaterCanonicalize, ClientWaterDelete
  <2> QED
    BY <1>4, <2>1, <2>2, <2>3, <2>4, <2>5, <2>6 DEF WaterNext
<1>5. CASE Close(s)
  BY <1>5 DEF Close
<1> QED
  BY <1>3, <1>4, <1>5

LEMMA NothingIsLost ==
    ASSUME AuthoringInv, AuthoringNext, NEW d \in ToSet(store.drafts)
    PROVE  IsKept(d)
<1>1. PICK k \in DOMAIN store.drafts : d = store.drafts[k]
  BY DEF ToSet
<1>2. StoreType(store) /\ SessionsType(sessions) /\ DraftsType(store.drafts, started)
  BY DEF AuthoringInv
<1>3. CASE store'.drafts = store.drafts
  BY <1>3 DEF IsKept
<1>4. ASSUME NEW s \in Sessions, FinishSave(s), store'.drafts # store.drafts PROVE IsKept(d)
  <2>1. Step(s) = "save" /\ AcceptsDraftV3(sessions[s].work.draft) /\ store' = WithDraftV3(sessions[s].work.draft)
    BY <1>4 DEF FinishSave
  <2>2. Saves(store', sessions[s].work.draft)
    BY <1>2, <2>1, WithDraftV3Fields
  <2>3. sessions' = [sessions EXCEPT ![s].work = Idle, ![s].draft = IF s \in Flows THEN sessions[s].work.draft ELSE @]
    BY <1>4, <2>1 DEF FinishSave
  <2>4. sessions = [t \in Sessions |-> sessions[t]] /\ {"draft", "candidate", "work"} \subseteq DOMAIN sessions[s]
    BY <1>2 DEF SessionsType, IsSession
  <2>5. sessions'[s] = [sessions[s] EXCEPT !.work = Idle, !.draft = IF s \in Flows THEN sessions[s].work.draft ELSE @]
    BY <2>3, <2>4
  <2>6. sessions'[s].work = Idle
    BY <2>4, <2>5
  <2> QED
    BY <1>1, <2>1, <2>2, <2>6, SaveLosesNothing
<1>5. ASSUME NEW s \in Sessions, FinishWaterSave(s), store'.drafts # store.drafts PROVE IsKept(d)
  <2> DEFINE new == sessions[s].work.draft
  <2>1. /\ Step(s) = "save" /\ AcceptsDraft(new) /\ Works(s, Idle)
        /\ store' = WithReport(WithDraft(new), WaterReport(new))
    BY <1>5 DEF FinishWaterSave, Rests
  <2>2. Saves(WithDraft(new), new)
    BY <1>2, WithDraftFields
  <2>3. StoreType(store') /\ store'.drafts = WithDraft(new).drafts /\ store'.revisions = WithDraft(new).revisions
    BY <2>1, <2>2 DEF WithReport, StoreType, Saves
  <2>4. Saves(store', new)
    BY <2>2, <2>3 DEF Saves
  <2>5. sessions'[s].work = Idle
    BY <1>2, <2>1, WorksFields
  <2> QED
    BY <1>1, <2>1, <2>4, <2>5, SaveLosesNothing
<1>6. ASSUME NEW s \in Sessions, FinishDelete(s) \/ FinishWaterDelete(s), store'.drafts # store.drafts PROVE IsKept(d)
  <2> DEFINE b == sessions[s].work.basis
  <2>1. /\ Step(s) = "delete" /\ sessions' = [sessions EXCEPT ![s] = Closed]
        /\ AcceptsDelete(b) \/ AcceptsDeleteV3(b)
        /\ store' = WithoutDraft(b) \/ store' = WithoutDraftV3(b)
    BY <1>6 DEF FinishDelete, FinishWaterDelete
  <2>2. Removes(store', b.id)
    BY <1>2, <2>1, WithoutDraftFields
  <2>3. HoldsIn(module, s, sessions[s], b) /\ Read(s) = b
    BY <2>1 DEF HoldsIn, Read, Step
  <2>4. sessions'[s] = Closed
    BY <1>2, <2>1, CloseFields
  <2>5. sessions[s] # Closed
    BY <2>1 DEF Step, Closed, Idle
  <2> QED
    BY <1>1, <2>1, <2>2, <2>3, <2>4, <2>5, DeleteLosesNothing
<1>7. ASSUME NEW s \in Sessions, AbandonCurrent(s) PROVE IsKept(d)
  <2> DEFINE b == sessions[s].draft
  <2>1. /\ Step(s) = "idle" /\ b # None /\ sessions' = [sessions EXCEPT ![s] = Closed]
        /\ AcceptsDeleteV3(b) /\ store' = WithoutDraftV3(b)
    BY <1>7 DEF AbandonCurrent, IsIdle
  <2>2. Removes(store', b.id)
    BY <1>2, <2>1, WithoutDraftFields
  <2>3. HoldsIn(module, s, sessions[s], b) /\ Read(s) = b
    BY <2>1 DEF HoldsIn, Read
  <2>4. sessions'[s] = Closed
    BY <1>2, <2>1, CloseFields
  <2>5. sessions[s] # Closed
    BY <2>1 DEF Closed
  <2> QED
    BY <1>1, <2>1, <2>2, <2>3, <2>4, <2>5, DeleteLosesNothing
<1>8. CASE \E s \in Sessions : HeatingNext(s) \/ WaterNext(s) \/ Close(s)
  BY <1>3, <1>4, <1>5, <1>6, <1>7, <1>8, SavesAndDeletes
<1>9. CASE RegistryChanges \/ Restart
  BY <1>3, <1>9 DEF RegistryChanges, Restart
<1> QED
  BY <1>8, <1>9 DEF AuthoringNext

(* NoUpdateIsLost, for every number of dialogs and clients.                *)
THEOREM NoUpdateIsLostAlways == AuthoringSpec => NoUpdateIsLost
<1>1. AuthoringInv /\ [AuthoringNext]_authoringVars =>
        [ \A d \in ToSet(store.drafts) :
            d \in ToSet(store'.drafts)
            \/ /\ \E s \in Sessions : Read(s) = d /\ sessions'[s] # sessions[s]
               /\ \A n \in ToSet(store'.drafts) : n.id = d.id => n.rev = d.rev + 1 ]_authoringVars
  BY NothingIsLost DEF IsKept
<1> QED
  BY <1>1, AuthoringInitially, AuthoringKept, PTL DEF AuthoringSpec, NoUpdateIsLost

-----------------------------------------------------------------------------
(* THE POLICY *)

(* Two records say the same policy: configurations or payloads. *)
SamePolicy(c, p) ==
    /\ \A field \in Kept : c[field] = p[field]
    /\ \A call \in {"enable", "disable"} :
         c[call].domain = p[call].domain /\ c[call].service = p[call].service
    /\ SteadyProfile(c) = SteadyProfile(p)

(* convert_legacy_heating_config copies every policy field. *)
LEMMA ConvertedPolicy ==
    ASSUME NEW c
    PROVE  SamePolicy(c, Converted(c).payload)
<1>1. \A field \in Kept : c[field] = Converted(c).payload[field]
  BY DEF Kept, Converted
<1>2. \A call \in {"enable", "disable"} :
        /\ c[call].domain = Converted(c).payload[call].domain
        /\ c[call].service = Converted(c).payload[call].service
  BY DEF Converted
<1>3. SteadyProfile(c) = SteadyProfile(Converted(c).payload)
  BY DEF SteadyProfile, Converted
<1> QED
  BY <1>1, <1>2, <1>3 DEF SamePolicy

(* compile_effective_heating_config copies every policy field. *)
LEMMA EffectivePolicy ==
    ASSUME NEW rev, NEW es
    PROVE  SamePolicy(EffectiveConfig(rev, es), rev.payload)
<1> DEFINE c == EffectiveConfig(rev, es)
<1>1. \A field \in Kept : c[field] = rev.payload[field]
  BY DEF Kept, EffectiveConfig
<1>2. \A call \in {"enable", "disable"} :
        c[call].domain = rev.payload[call].domain /\ c[call].service = rev.payload[call].service
  BY DEF EffectiveConfig
<1>3. SteadyProfile(c) = SteadyProfile(rev.payload)
  BY DEF SteadyProfile, EffectiveConfig
<1> QED
  BY <1>1, <1>2, <1>3 DEF SamePolicy

(* So do migrate_heating_v2_revision_to_v3 and the compilation of its      *)
(* document, together; the profile is the steady one.                      *)
LEMMA MigratedPolicy ==
    ASSUME NEW rev, NEW at, NEW locators
    PROVE  LET c == CanonicalConfig(Migrated(rev, at), locators)
           IN  /\ \A field \in Kept : c[field] = rev.payload[field]
               /\ \A call \in {"enable", "disable"} :
                    /\ c[call].domain = rev.payload[call].domain
                    /\ c[call].service = rev.payload[call].service
               /\ c.profile = SteadyProfile(rev.payload)
<1> DEFINE doc == Migrated(rev, at)
           c == CanonicalConfig(doc, locators)
           p == rev.payload
<1>1. /\ doc.future_skew = p.future_skew
      /\ doc.zone.display_name = p.zone_name
      /\ doc.sensor.display_name = p.sensor_name
      /\ doc.demand = [target |-> p.target, turn_on |-> p.turn_on, turn_off |-> p.turn_off,
                       confirmation |-> p.confirmation, max_age |-> p.max_age]
      /\ doc.strategy = StrategyOf(p, at)
      /\ doc.protection = ProtectionOf(p)
      /\ doc.delivery.mode = p.delivery_mode
      /\ doc.delivery.ownership = p.ownership
      /\ doc.delivery.assist_policy = p.assist_policy
      /\ doc.delivery.assist_target = p.assist_target
      /\ doc.diagnostics.steady_profile = SteadyProfile(p)
      /\ doc.diagnostics.debug_duration = p.configured_debug
      /\ doc.notifications = p.notifications
  BY DEF Migrated
<1>2. \A field \in Kept : c[field] = p[field]
  BY <1>1 DEF Kept, CanonicalConfig, StrategyOf, ProtectionOf
<1>3. \A call \in {"enable", "disable"} :
        c[call].domain = p[call].domain /\ c[call].service = p[call].service
  BY <1>1 DEF CanonicalConfig, StrategyOf
<1>4. c.profile = SteadyProfile(p)
  BY <1>1 DEF CanonicalConfig
<1> QED
  BY <1>2, <1>3, <1>4

(* The ids are those of the payload, or gave way to others. *)
LEMMA MigratedIds ==
    ASSUME NEW rev, NEW at, NEW locators
    PROVE  LET doc == Migrated(rev, at)
               c == CanonicalConfig(doc, locators)
               sensor == doc.sensor.reference
           IN  /\ c.zone_id = rev.payload.zone_id \/ Unfit(rev.payload.zone_id, AreaValues(doc.topology))
               /\ \/ c.sensor_id = rev.payload.sensor_id
                  \/ Unfit(rev.payload.sensor_id, {sensor.native, sensor.locator})
<1> DEFINE doc == Migrated(rev, at)
           p == rev.payload
<1>1. /\ doc.zone.zone_id = MigratedId(p.zone_id, ZoneNames, AreaValues(doc.topology))
      /\ doc.sensor.reference = at["sensor"]
      /\ doc.sensor.sensor_id = MigratedId(p.sensor_id, SensorNames, {at["sensor"].native, at["sensor"].locator})
  BY DEF Migrated
<1>2. /\ CanonicalConfig(doc, locators).zone_id = doc.zone.zone_id
      /\ CanonicalConfig(doc, locators).sensor_id = doc.sensor.sensor_id
  BY DEF CanonicalConfig
<1> QED
  BY <1>1, <1>2 DEF MigratedId, Unfit

-----------------------------------------------------------------------------
(* THE REGISTRY *)

(* At most one entity has an id, and at most one has a name. *)
Sound(es) ==
    /\ es \subseteq AnyEntity
    /\ \A e, f \in es : e.native = f.native \/ e.locator = f.locator => e = f

(* So it is at first. *)
LEMMA FirstRegistryIsSound == Sound(Entities)
BY EntitiesAreUnique DEF Sound, AnyEntity

(* A user who renames, moves or removes an entity keeps it so. *)
LEMMA RegistryStaysSound ==
    ASSUME NEW e \in Entities
    PROVE  /\ Sound(Entities \ {e})
           /\ Sound((Entities \ {e}) \cup {Moved(e)})
           /\ e.locator \in DOMAIN NewNames => Sound((Entities \ {e}) \cup {Renamed(e)})
<1>1. Sound(Entities \ {e})
  BY FirstRegistryIsSound DEF Sound
<1>2. Sound((Entities \ {e}) \cup {Moved(e)})
  <2>1. Moved(e).native = e.native /\ Moved(e).locator = e.locator
    BY EntitiesAreRecords DEF Moved
  <2>2. Moved(e) \in AnyEntity
    BY DEF AnyEntity
  <2> QED
    BY <1>1, <2>1, <2>2, EntitiesAreUnique DEF Sound
<1>3. ASSUME e.locator \in DOMAIN NewNames
      PROVE  Sound((Entities \ {e}) \cup {Renamed(e)})
  <2>1. Renamed(e).native = e.native /\ Renamed(e).locator = NewNames[e.locator]
    BY EntitiesAreRecords DEF Renamed
  <2>2. Renamed(e) \in AnyEntity
    BY <1>3 DEF AnyEntity
  <2>3. \A f \in Entities : Renamed(e).locator # f.locator
    BY <1>3, <2>1, NewNamesAreFree
  <2> QED
    BY <1>1, <2>1, <2>2, <2>3, EntitiesAreUnique DEF Sound
<1> QED
  BY <1>1, <1>2, <1>3

(* An entity is what its reference says. *)
LEMMA EntityReferenceIsStable ==
    ASSUME NEW e
    PROVE  /\ EntityReference(e).quality = "STABLE"
           /\ EntityReference(e).native = e.native
           /\ EntityReference(e).locator = e.locator
BY DEF EntityReference, StableReference

(* The name of an entity leads back to it. *)
LEMMA NameLeadsBack ==
    ASSUME NEW es, Sound(es), NEW e \in es
    PROVE  e.locator # None /\ Native(e.locator, es) = {e.native}
<1>1. e.locator # None
  BY EntitiesAreSomething, NoneIsNoEntity DEF Sound, IsEntityId
<1>2. {f \in es : f.locator = e.locator} = {e}
  BY DEF Sound
<1>3. Native(e.locator, es) = {e.native}
  BY <1>2 DEF Native
<1> QED
  BY <1>1, <1>3

(* HomeAssistantReferenceResolver: a stable reference that resolves has    *)
(* the entity's present name.                                              *)
LEMMA ResolvedLeadsBack ==
    ASSUME NEW es, Sound(es), NEW r, r.quality # "EPHEMERAL", Resolved(r, es) # None
    PROVE  Resolved(r, es).locator # None /\ Native(Resolved(r, es).locator, es) = {r.native}
<1>1. \E e \in es : e.native = r.native
  BY DEF Resolved
<1> DEFINE x == CHOOSE e \in es : e.native = r.native
<1>2. x \in es /\ x.native = r.native
  BY <1>1
<1>3. Resolved(r, es) = EntityReference(x)
  BY <1>1 DEF Resolved
<1>4. Resolved(r, es).locator = x.locator
  BY <1>3, EntityReferenceIsStable
<1> HIDE DEF x
<1> QED
  BY <1>2, <1>4, NameLeadsBack

-----------------------------------------------------------------------------
(* WHERE A REVISION COMES FROM *)

(* The roles whose entity the runtime knows *)
Refers(p) ==
    RequiredRoles \cup (IF p.reported THEN {"reported"} ELSE {}) \cup (IF p.actuator THEN {"actuator"} ELSE {})

(* Role by role, what the configuration b names and what the revision      *)
(* binds; es is the registry in which b was loaded.                        *)
SameEntity(b, rev, es, role) ==
    LET id == EntityOf(b)[role]
        r == ReferenceOf(rev, role)
    IN  /\ role \in Bound(rev) /\ id # None
        /\ r.quality = "EPHEMERAL" => id = r.locator
        /\ r.quality # "EPHEMERAL" => r # None /\ Native(id, es) = {r.native}

Origin(b, rev, es) ==
    /\ SamePolicy(b, rev.payload)
    /\ b.zone_id = rev.payload.zone_id /\ b.sensor_id = rev.payload.sensor_id
    /\ \A role \in Refers(rev.payload) : SameEntity(b, rev, es, role)
    /\ \A role \in Roles \ Refers(rev.payload) : EntityOf(b)[role] = None

(* A valid revision binds the roles it uses. *)
LEMMA UsedIsBound ==
    ASSUME NEW rev, ValidV2(rev)
    PROVE  Refers(rev.payload) \subseteq Bound(rev)
<1> DEFINE p == rev.payload
<1>1. p.actuator => p.delivery_mode = "setpoint_assist"
  BY DEF ValidV2, Payload, RolesV2
<1>2. Refers(p) \subseteq Requires(p)
  BY <1>1 DEF Refers, Requires
<1>3. Refers(p) \subseteq Roles
  BY DEF Refers, RequiredRoles, Roles
<1> QED
  BY <1>2, <1>3 DEF ValidV2, Bound

(* A revision that compiles is where its own configuration comes from. *)
LEMMA RevisionIsOrigin ==
    ASSUME NEW rev \in RevisionInputs, NEW es, Sound(es), ReadyV2(rev, es)
    PROVE  Origin(EffectiveConfig(rev, es), rev, es)
<1> DEFINE b == EffectiveConfig(rev, es)
           p == rev.payload
<1>1. SamePolicy(b, p)
  BY EffectivePolicy
<1>2. b.zone_id = p.zone_id /\ b.sensor_id = p.sensor_id
  BY DEF EffectiveConfig
<1>3. /\ EntityOf(b)["sensor"] = Locator(rev, "sensor", es)
      /\ EntityOf(b)["enable"] = Locator(rev, "enable", es)
      /\ EntityOf(b)["disable"] = Locator(rev, "disable", es)
      /\ EntityOf(b)["reported"] = IF p.reported THEN Locator(rev, "reported", es) ELSE None
      /\ EntityOf(b)["actuator"] = IF p.actuator THEN Locator(rev, "actuator", es) ELSE None
  BY DEF EntityOf, EffectiveConfig
<1>4. ASSUME NEW role \in Refers(p)
      PROVE  SameEntity(b, rev, es, role)
  <2> DEFINE r == ReferenceOf(rev, role)
  <2>1. role \in Bound(rev) /\ role \in Roles /\ rev.bindings[role] # None
    BY UsedIsBound DEF ReadyV2, Bound
  <2>2. EntityOf(b)[role] = Resolved(r, es).locator
    BY <1>3, <2>1 DEF Refers, RequiredRoles, Locator
  <2>3. r # None /\ ReferenceShape(r)
    BY <2>1, RevisionsHaveReferences DEF ReferenceOf
  <2>4. CASE r.quality = "EPHEMERAL"
    <3>1. EntityOf(b)[role] = r.locator /\ r.locator # None
      BY <2>2, <2>3, <2>4 DEF Resolved, ReferenceShape
    <3> QED
      BY <2>1, <2>4, <3>1 DEF SameEntity
  <2>5. CASE r.quality # "EPHEMERAL"
    <3>1. Resolved(r, es) # None
      BY <2>1, <2>5 DEF ReadyV2, Binds
    <3>2. EntityOf(b)[role] # None /\ Native(EntityOf(b)[role], es) = {r.native}
      BY <2>2, <2>5, <3>1, ResolvedLeadsBack
    <3> QED
      BY <2>1, <2>3, <2>5, <3>2 DEF SameEntity
  <2> QED
    BY <2>4, <2>5
<1>5. ASSUME NEW role \in Roles \ Refers(p)
      PROVE  EntityOf(b)[role] = None
  BY <1>3 DEF Roles, Refers, RequiredRoles
<1> QED
  BY <1>1, <1>2, <1>4, <1>5 DEF Origin

(* A configuration that converts comes from its conversion: each role is   *)
(* bound to the entity id the configuration has.                           *)
LEMMA ConversionIsOrigin ==
    ASSUME NEW b, RuntimeConfig(b), Convertible(b), ValidV2(Converted(b)), NEW es
    PROVE  Origin(b, Converted(b), es)
<1> DEFINE rev == Converted(b)
           p == rev.payload
<1>1. SamePolicy(b, p)
  BY ConvertedPolicy
<1>2. b.zone_id = p.zone_id /\ b.sensor_id = p.sensor_id
  BY DEF Converted
<1>3. /\ p.reported = (b.control_mode = "simple")
      /\ p.actuator = (b.delivery_mode = "setpoint_assist")
  BY DEF Converted
<1>4. /\ b.temperature_entity # None /\ b.enable.target # None /\ b.disable.target # None
      /\ p.reported => b.controlled # None
      /\ ~p.reported => b.controlled = None
      /\ p.actuator => b.actuator # None
      /\ ~p.actuator => b.actuator = None
  <2>1. b.temperature_entity # None /\ b.enable.target # None /\ b.disable.target # None
    BY NoneIsNoEntity DEF RuntimeConfig, ServiceCall, IsEntityId
  <2>2. (p.reported => b.controlled # None) /\ (~p.reported => b.controlled = None)
    BY <1>3 DEF Convertible
  <2>3. (p.actuator => b.actuator # None) /\ (~p.actuator => b.actuator = None)
    BY <1>3 DEF RuntimeConfig, Convertible
  <2> QED
    BY <2>1, <2>2, <2>3
<1>5. ASSUME NEW role \in Refers(p)
      PROVE  SameEntity(b, rev, es, role)
  <2>1. role \in Bound(rev)
    BY UsedIsBound
  <2>2. EntityOf(b)[role] # None
    BY <1>4 DEF EntityOf, Refers, RequiredRoles
  <2>3. ReferenceOf(rev, role) = EphemeralReference(EntityOf(b)[role])
    <3>1. /\ rev.bindings["sensor"] = MigratedBinding(b.temperature_entity)
          /\ rev.bindings["enable"] = MigratedBinding(b.enable.target)
          /\ rev.bindings["disable"] = MigratedBinding(b.disable.target)
          /\ p.reported => rev.bindings["reported"] = MigratedBinding(b.controlled)
          /\ p.actuator => rev.bindings["actuator"] = MigratedBinding(b.actuator)
      BY <1>3 DEF Converted
    <3>2. rev.bindings[role] = MigratedBinding(EntityOf(b)[role])
      BY <3>1 DEF EntityOf, Refers, RequiredRoles
    <3>3. MigratedBinding(EntityOf(b)[role]).reference = EphemeralReference(EntityOf(b)[role])
      BY DEF MigratedBinding
    <3> QED
      BY <3>2, <3>3 DEF ReferenceOf
  <2>4. /\ EphemeralReference(EntityOf(b)[role]).quality = "EPHEMERAL"
        /\ EphemeralReference(EntityOf(b)[role]).locator = EntityOf(b)[role]
    BY DEF EphemeralReference
  <2> QED
    BY <2>1, <2>2, <2>3, <2>4 DEF SameEntity
<1>6. ASSUME NEW role \in Roles \ Refers(p)
      PROVE  EntityOf(b)[role] = None
  BY <1>4 DEF EntityOf, Roles, Refers, RequiredRoles
<1> QED
  BY <1>1, <1>2, <1>5, <1>6 DEF Origin

-----------------------------------------------------------------------------
(* WHAT THE DOCUMENT NAMES *)

(* The document is a conversion of the revision, in the registry es. *)
MadeOf(doc, rev, asked, es) ==
    /\ Sound(es)
    /\ asked \in Requests(rev, es)
    /\ AllStable(rev, asked, es)
    /\ doc = Migrated(rev, Bindings(rev, asked, es))

(* What a client asks for is an entity of the registry. *)
LEMMA RequestedIsAnEntity ==
    ASSUME NEW rev, NEW es, Sound(es), NEW asked \in Requests(rev, es),
           NEW role \in Roles, asked[role] # None
    PROVE  \E e \in es : asked[role] = EntityReference(e)
<1>1. asked # NoRequest
  BY DEF NoRequest
<1>2. PICK other \in Bound(rev), e \in es : asked = Request(other, e)
  BY <1>1 DEF Requests
<1>3. asked[role] = IF role = other THEN EntityReference(e) ELSE None
  BY <1>2 DEF Request, NoRequest
<1> QED
  BY <1>3

(* _v2_binding_resolution: the entity that was asked for, or the one the   *)
(* revision meant.                                                         *)
LEMMA BindingIsTheEntity ==
    ASSUME NEW b, NEW rev, NEW seenIn, NEW es, NEW asked, NEW role \in Roles,
           Sound(es), asked \in Requests(rev, es), AllStable(rev, asked, es),
           SameEntity(b, rev, seenIn, role)
    PROVE  /\ ResolvedBinding(rev, role, asked, es) # None
           /\ ResolvedBinding(rev, role, asked, es).quality # "EPHEMERAL"
           /\ asked[role] # None =>
                ResolvedBinding(rev, role, asked, es).native = asked[role].native
           /\ asked[role] = None /\ ReferenceOf(rev, role).quality = "EPHEMERAL" =>
                {ResolvedBinding(rev, role, asked, es).native} = Native(EntityOf(b)[role], es)
           /\ asked[role] = None /\ ReferenceOf(rev, role).quality # "EPHEMERAL" =>
                {ResolvedBinding(rev, role, asked, es).native} = Native(EntityOf(b)[role], seenIn)
<1> DEFINE at == ResolvedBinding(rev, role, asked, es)
           r == ReferenceOf(rev, role)
<1>1. at.quality = "STABLE"
  BY DEF SameEntity, AllStable, Stable
<1>2. CASE asked[role] # None
  <2>1. at = asked[role]
    BY <1>2 DEF ResolvedBinding
  <2>2. at # None
    BY <1>2, <2>1
  <2> QED
    BY <1>1, <1>2, <2>1, <2>2
<1>3. CASE asked[role] = None /\ r.quality = "EPHEMERAL"
  <2>1. Exact(r, es) # {}
    BY <1>1, <1>3 DEF ResolvedBinding
  <2> DEFINE e == CHOOSE x \in Exact(r, es) : TRUE
  <2>2. e \in es /\ e.locator = r.locator
    BY <2>1 DEF Exact
  <2>3. at = EntityReference(e)
    BY <1>3, <2>1 DEF ResolvedBinding
  <2> HIDE DEF e
  <2>4. at # None
    BY <2>2, <2>3, EntitiesAreSomething DEF Sound
  <2>5. EntityOf(b)[role] = e.locator
    BY <1>3, <2>2 DEF SameEntity
  <2>6. Native(EntityOf(b)[role], es) = {at.native}
    BY <2>2, <2>3, <2>5, NameLeadsBack, EntityReferenceIsStable
  <2> QED
    BY <1>1, <1>3, <2>4, <2>6
<1>4. CASE asked[role] = None /\ r.quality # "EPHEMERAL"
  <2>1. at = r
    BY <1>4 DEF ResolvedBinding
  <2> QED
    BY <1>1, <1>4, <2>1 DEF SameEntity
<1> QED
  BY <1>2, <1>3, <1>4

(* What the document of a conversion names: the bindings of the roles that *)
(* the payload uses.                                                       *)
LEMMA DocumentBindings ==
    ASSUME NEW rev, NEW at
    PROVE  LET required == RequiredBindings(Migrated(rev, at))
           IN  /\ DOMAIN required = Roles
               /\ \A role \in Refers(rev.payload) : required[role] = at[role]
               /\ \A role \in Roles \ Refers(rev.payload) : required[role] = None
<1> DEFINE doc == Migrated(rev, at)
           p == rev.payload
<1>1. /\ doc.sensor.reference = at["sensor"]
      /\ doc.strategy.enable.target = at["enable"]
      /\ doc.strategy.disable.target = at["disable"]
      /\ doc.observations.reported = IF p.reported THEN at["reported"] ELSE None
      /\ doc.delivery.actuator = IF p.actuator THEN at["actuator"] ELSE None
  BY DEF Migrated, StrategyOf
<1> QED
  BY <1>1 DEF RequiredBindings, Roles, Refers, RequiredRoles

(* What the compiled configuration names. *)
LEMMA CompiledEntities ==
    ASSUME NEW doc, NEW es, NEW role \in Roles
    PROVE  EntityOf(CompiledV3(doc, es))[role] =
               IF RequiredBindings(doc)[role] = None THEN None
               ELSE Resolved(RequiredBindings(doc)[role], es).locator
<1>1. DOMAIN RequiredBindings(doc) = Roles
  BY DEF RequiredBindings, Roles
<1>2. EntityOf(CompiledV3(doc, es))[role] = Locators(doc, es)[role]
  BY DEF EntityOf, CompiledV3, CanonicalConfig, Roles
<1> QED
  BY <1>1, <1>2 DEF Locators

-----------------------------------------------------------------------------
(* THE INDUCTIVE INVARIANT *)

UpgradeInv ==
    /\ Sound(entities)
    /\ stage \in {"v2", "authored"} => before = None
    /\ stage = "legacy" => RuntimeConfig(before)
    /\ stage \in {"v2", "running"} => revision \in RevisionInputs
    /\ stage = "running" => Origin(before, revision, seen)
    /\ stage \in {"draft", "v3"} /\ before # None =>
         Origin(before, revision, seen) /\ MadeOf(document, revision, requested, taken)
    /\ stage = "v3" => AllResolve(document, entities) /\ config = CompiledV3(document, entities)

(* The invariant implies the property. *)
LEMMA InvariantIsEnough == UpgradeInv => UpgradeKeepsTheConfiguration
<1> SUFFICES ASSUME UpgradeInv, RunsConverted
             PROVE  UpgradeKeepsTheConfiguration
  BY DEF UpgradeKeepsTheConfiguration, PolicyIsKept, EntitiesAreKept, IdsAreKept
<1> DEFINE p == revision.payload
           at == Bindings(revision, requested, taken)
<1>1. /\ Sound(entities) /\ Origin(before, revision, seen)
      /\ MadeOf(document, revision, requested, taken)
      /\ AllResolve(document, entities) /\ config = CompiledV3(document, entities)
  BY DEF UpgradeInv, RunsConverted
<1>2. /\ document = Migrated(revision, at)
      /\ config = CanonicalConfig(Migrated(revision, at), Locators(document, entities))
  BY <1>1 DEF MadeOf, CompiledV3
<1>3. PolicyIsKept
  <2>1. /\ \A field \in Kept : config[field] = p[field]
        /\ \A call \in {"enable", "disable"} :
             config[call].domain = p[call].domain /\ config[call].service = p[call].service
        /\ config.profile = SteadyProfile(p)
    BY <1>2, MigratedPolicy
  <2> QED
    BY <1>1, <2>1 DEF PolicyIsKept, Origin, SamePolicy
<1>4. IdsAreKept
  <2>1. /\ config.zone_id = p.zone_id \/ Unfit(p.zone_id, AreaValues(document.topology))
        /\ \/ config.sensor_id = p.sensor_id
           \/ LET sensor == document.sensor.reference
              IN  Unfit(p.sensor_id, {sensor.native, sensor.locator})
    BY <1>2, MigratedIds
  <2> QED
    BY <1>1, <2>1 DEF IdsAreKept, Origin
<1>5. EntitiesAreKept
  <2>1. ASSUME NEW role \in Roles
        PROVE  LET is == EntityOf(config)[role]
               IN  /\ (is = None) <=> (EntityOf(before)[role] = None)
                   /\ is # None => Native(is, entities) = IF requested[role] = None THEN Was(role)
                                                         ELSE {requested[role].native}
    <3> DEFINE bound == ResolvedBinding(revision, role, requested, taken)
               named == RequiredBindings(document)[role]
    <3>1. EntityOf(config)[role] = IF named = None THEN None ELSE Resolved(named, entities).locator
      BY <1>1, CompiledEntities
    <3>2. CASE role \notin Refers(p)
      <4>1. named = None
        BY <1>2, <3>2, DocumentBindings
      <4>2. EntityOf(before)[role] = None
        BY <1>1, <3>2 DEF Origin
      <4> QED
        BY <3>1, <4>1, <4>2
    <3>3. CASE role \in Refers(p)
      <4>1. SameEntity(before, revision, seen, role)
        BY <1>1, <3>3 DEF Origin
      <4>2. /\ bound # None /\ bound.quality # "EPHEMERAL"
            /\ {bound.native} = IF requested[role] # None THEN {requested[role].native} ELSE Was(role)
        <5>1. /\ Sound(taken) /\ requested \in Requests(revision, taken)
              /\ AllStable(revision, requested, taken)
          BY <1>1 DEF MadeOf
        <5>2. bound # None /\ bound.quality # "EPHEMERAL"
          BY <4>1, <5>1, BindingIsTheEntity
        <5>3. CASE requested[role] # None
          BY <4>1, <5>1, <5>2, <5>3, BindingIsTheEntity
        <5>4. CASE requested[role] = None /\ ReferenceOf(revision, role).quality = "EPHEMERAL"
          <6>1. {bound.native} = Native(EntityOf(before)[role], taken)
            BY <4>1, <5>1, <5>4, BindingIsTheEntity
          <6> QED
            BY <5>2, <5>4, <6>1 DEF Was
        <5>5. CASE requested[role] = None /\ ReferenceOf(revision, role).quality # "EPHEMERAL"
          <6>1. {bound.native} = Native(EntityOf(before)[role], seen)
            BY <4>1, <5>1, <5>5, BindingIsTheEntity
          <6> QED
            BY <5>2, <5>5, <6>1 DEF Was
        <5> QED
          BY <5>3, <5>4, <5>5
      <4>3. named = bound
        <5>1. role \in Bound(revision)
          BY <4>1 DEF SameEntity
        <5>2. at[role] = bound
          BY <5>1 DEF Bindings
        <5> QED
          BY <1>2, <3>3, <5>2, DocumentBindings
      <4>4. Resolved(named, entities) # None
        <5>1. role \in DOMAIN RequiredBindings(document)
          BY <1>2, DocumentBindings
        <5> QED
          BY <1>1, <4>2, <4>3, <5>1 DEF AllResolve
      <4>5. /\ EntityOf(config)[role] # None
            /\ Native(EntityOf(config)[role], entities) = {bound.native}
        BY <1>1, <3>1, <4>2, <4>3, <4>4, ResolvedLeadsBack
      <4>6. EntityOf(before)[role] # None
        BY <4>1 DEF SameEntity
      <4> QED
        BY <4>2, <4>5, <4>6
    <3> QED
      BY <3>2, <3>3
  <2> QED
    BY <2>1 DEF EntitiesAreKept
<1> QED
  BY <1>3, <1>4, <1>5 DEF UpgradeKeepsTheConfiguration

(* It holds at first. *)
LEMMA UpgradeInitInv == UpgradeInit => UpgradeInv
BY FirstRegistryIsSound DEF UpgradeInit, UpgradeInv

(* A conversion of what comes from the configuration that ran. *)
LEMMA ConversionKeepsInv ==
    ASSUME UpgradeInv, NEW rev, Converts(rev),
           before # None => Origin(before, rev, seen)
    PROVE  UpgradeInv'
<1>1. /\ stage' \in {"draft", "unconverted"} /\ revision' = rev /\ taken' = entities
      /\ entities' = entities /\ before' = before /\ seen' = seen
      /\ requested' \in Requests(rev, entities)
      /\ stage' = "draft" =>
           /\ AllStable(rev, requested', entities)
           /\ document' = Migrated(rev, Bindings(rev, requested', entities))
  BY DEF Converts
<1>2. Sound(entities)'
  BY <1>1 DEF UpgradeInv
<1>3. stage' = "draft" => MadeOf(document, revision, requested, taken)'
  BY <1>1, <1>2 DEF MadeOf
<1>4. before' # None => Origin(before, revision, seen)'
  BY <1>1
<1> QED
  BY <1>1, <1>2, <1>3, <1>4 DEF UpgradeInv

(* Every step keeps it. *)
LEMMA UpgradeNextInv == UpgradeInv /\ [UpgradeNext]_upgradeVars => UpgradeInv'
<1> SUFFICES ASSUME UpgradeInv, [UpgradeNext]_upgradeVars
             PROVE  UpgradeInv'
  OBVIOUS
<1>1. CASE LoadEntry
  <2>1. /\ entities' = entities
        /\ \/ stage' = "legacy" /\ RuntimeConfig(before')
           \/ stage' = "refused"
    BY <1>1 DEF LoadEntry, AcceptsEntry
  <2> QED
    BY <2>1 DEF UpgradeInv
<1>2. CASE LoadRevision
  <2>1. /\ entities' = entities /\ revision' = revision /\ seen' = entities
        /\ \/ /\ stage' = "running" /\ before' = EffectiveConfig(revision, entities)
              /\ ReadyV2(revision, entities)
           \/ stage' = "refused"
    BY <1>2 DEF LoadRevision, CompilesV2
  <2>2. revision \in RevisionInputs /\ Sound(entities)
    BY <1>2 DEF LoadRevision, UpgradeInv
  <2>3. stage' = "running" => Origin(before, revision, seen)'
    BY <2>1, <2>2, RevisionIsOrigin
  <2> QED
    BY <2>1, <2>2, <2>3 DEF UpgradeInv
<1>3. CASE ConvertLegacy
  <2>1. Origin(before, Converted(before), seen)
    BY <1>3, ConversionIsOrigin DEF ConvertLegacy, UpgradeInv
  <2> QED
    BY <1>3, <2>1, ConversionKeepsInv DEF ConvertLegacy
<1>4. CASE ConversionFails
  BY <1>4 DEF ConversionFails, UpgradeInv
<1>5. CASE ConvertRevision
  <2>1. before # None => Origin(before, revision, seen)
    BY <1>5 DEF ConvertRevision, UpgradeInv
  <2> QED
    BY <1>5, <2>1, ConversionKeepsInv DEF ConvertRevision
<1>6. CASE WriteDocument
  BY <1>6 DEF WriteDocument, UpgradeInv
<1>7. CASE LoadDocument
  BY <1>7 DEF LoadDocument, CompilesV3, UpgradeInv
<1>8. CASE EntityChanges
  <2>1. Sound(entities)'
    BY <1>8, RegistryStaysSound DEF EntityChanges
  <2> QED
    BY <1>8, <2>1 DEF EntityChanges, UpgradeInv
<1>9. CASE UNCHANGED upgradeVars
  BY <1>9 DEF upgradeVars, UpgradeInv
<1> QED
  BY <1>1, <1>2, <1>3, <1>4, <1>5, <1>6, <1>7, <1>8, <1>9 DEF UpgradeNext

(* What runs on a converted document is what ran before it: every policy   *)
(* field, both service calls, the entity behind each role but for what the *)
(* client asked to replace, and the ids that a document may have.          *)
(* (convert_legacy_heating_config, migrate_heating_v2_revision_to_v3,      *)
(* compile_canonical_heating_config_v3)                                    *)
THEOREM UpgradeIsFaithful == UpgradeSpec => []UpgradeKeepsTheConfiguration
<1>1. UpgradeSpec => []UpgradeInv
  BY UpgradeInitInv, UpgradeNextInv, PTL DEF UpgradeSpec
<1> QED
  BY <1>1, InvariantIsEnough, PTL

-----------------------------------------------------------------------------
(* WHAT AN ENTITY KEEPS *)

(* An entity that is moved or renamed keeps its domain and its abilities. *)
LEMMA AnEntityKeepsItsKind ==
    ASSUME NEW e \in AnyEntity, NEW f \in AnyEntity, e.native = f.native
    PROVE  /\ DomainOf[e.locator] = DomainOf[f.locator]
           /\ e.temperature = f.temperature /\ e.settable = f.settable
<1>1. ASSUME NEW g \in AnyEntity
      PROVE  \E h \in Entities :
               /\ h.native = g.native /\ DomainOf[h.locator] = DomainOf[g.locator]
               /\ h.temperature = g.temperature /\ h.settable = g.settable
  <2>1. CASE g \in Entities
    BY <2>1
  <2>2. ASSUME NEW h \in Entities, g = Moved(h)
        PROVE  /\ h.native = g.native /\ h.locator = g.locator
               /\ h.temperature = g.temperature /\ h.settable = g.settable
    BY <2>2, EntitiesAreRecords DEF Moved
  <2>3. ASSUME NEW h \in Entities, h.locator \in DOMAIN NewNames, g = Renamed(h)
        PROVE  /\ h.native = g.native /\ DomainOf[h.locator] = DomainOf[g.locator]
               /\ h.temperature = g.temperature /\ h.settable = g.settable
    <3>1. /\ h.native = g.native /\ g.locator = NewNames[h.locator]
          /\ h.temperature = g.temperature /\ h.settable = g.settable
      BY <2>3, EntitiesAreRecords DEF Renamed
    <3> QED
      BY <2>3, <3>1, NewNamesKeepTheDomain
  <2> QED
    BY <2>1, <2>2, <2>3 DEF AnyEntity
<1> QED
  BY <1>1, EntitiesAreUnique

(* The resolver answers with an entity of the registry, or nothing. *)
LEMMA ResolvedIsAnEntity ==
    ASSUME NEW es, NEW r, r.quality # "EPHEMERAL", Resolved(r, es) # None
    PROVE  \E e \in es : e.native = r.native /\ Resolved(r, es) = EntityReference(e)
BY DEF Resolved

(* The evidence in a reference is what the entity is. *)
LEMMA EvidenceOfAnEntity ==
    ASSUME NEW e
    PROVE  /\ EntityReference(e).evidence.domain = DomainOf[e.locator]
           /\ EntityReference(e).evidence.temperature = e.temperature
           /\ EntityReference(e).evidence.settable = e.settable
           /\ EntityReference(e).locator = e.locator
BY DEF EntityReference, StableReference

(* In any two registries, a stable reference has the same evidence. *)
LEMMA ResolvedKeepsItsKind ==
    ASSUME NEW es, Sound(es), NEW fs, Sound(fs), NEW r, r.quality # "EPHEMERAL",
           Resolved(r, es) # None, Resolved(r, fs) # None
    PROVE  /\ Resolved(r, fs).evidence.domain = Resolved(r, es).evidence.domain
           /\ Resolved(r, fs).evidence.temperature = Resolved(r, es).evidence.temperature
           /\ Resolved(r, fs).evidence.settable = Resolved(r, es).evidence.settable
<1>1. PICK e \in es : e.native = r.native /\ Resolved(r, es) = EntityReference(e)
  BY ResolvedIsAnEntity
<1>2. PICK f \in fs : f.native = r.native /\ Resolved(r, fs) = EntityReference(f)
  BY ResolvedIsAnEntity
<1>3. e \in AnyEntity /\ f \in AnyEntity
  BY DEF Sound
<1>4. /\ DomainOf[e.locator] = DomainOf[f.locator]
      /\ e.temperature = f.temperature /\ e.settable = f.settable
  BY <1>1, <1>2, <1>3, AnEntityKeepsItsKind
<1> QED
  BY <1>1, <1>2, <1>4, EvidenceOfAnEntity

(* What the resolver finds has an entity id, and is of its domain. *)
LEMMA ResolvedIsAnEntityId ==
    ASSUME NEW es, Sound(es), NEW r, r.quality # "EPHEMERAL", Resolved(r, es) # None
    PROVE  /\ IsEntityId(Resolved(r, es).locator) /\ Resolved(r, es).locator # None
           /\ Resolved(r, es).evidence.domain = DomainOf[Resolved(r, es).locator]
<1>1. PICK e \in es : e.native = r.native /\ Resolved(r, es) = EntityReference(e)
  BY ResolvedIsAnEntity
<1>2. IsEntityId(e.locator) /\ e.locator # None
  BY EntitiesAreSomething, NoneIsNoEntity DEF Sound, IsEntityId
<1> QED
  BY <1>1, <1>2, EvidenceOfAnEntity

-----------------------------------------------------------------------------
(* WHAT THE RUNTIME TAKES *)

(* NotificationsConfigurationV3 and HeatingNotificationPolicy admit what   *)
(* NotificationPolicy takes.                                               *)
LEMMA RecipientsAreTaken ==
    ASSUME NEW n, NotificationsV3(n)
    PROVE  RuntimePolicy(n)
<1>1. ASSUME NEW i \in DOMAIN n.recipients
      PROVE  RuntimeRecipient(n.recipients[i])
  <2>1. IsSlug(n.recipients[i].id) /\ IsEntityId(n.recipients[i].target)
    BY DEF NotificationsV3, RecipientV3, IsNotifyTarget
  <2> QED
    BY <2>1, NamesAreNotEmpty DEF IsSlug, IsEntityId, RuntimeRecipient
<1> QED
  BY <1>1 DEF NotificationsV3, RuntimePolicy

(* Schema 2 and schema 3 admit the same notifications. *)
LEMMA PoliciesAreTheSame ==
    ASSUME NEW n
    PROVE  NotificationsV2(n) <=> NotificationsV3(n)
BY DEF NotificationsV2, NotificationsV3, RecipientV2, RecipientV3

(* An admitted document whose references resolve runs, unless it is beyond *)
(* the runtime.                                                            *)
LEMMA AdmittedRuns ==
    ASSUME NEW doc, Admitted(doc), Sound(entities), AllResolve(doc, entities),
           ~DocumentBeyondTheRuntime(doc)
    PROVE  RuntimeConfig(CompiledV3(doc, entities))
<1> DEFINE at == Locators(doc, entities)
           c == CompiledV3(doc, entities)
           named == RequiredBindings(doc)
<1>1. DOMAIN named = Roles
  BY DEF RequiredBindings, Roles
<1>2. /\ named["sensor"] = doc.sensor.reference
      /\ named["enable"] = doc.strategy.enable.target /\ named["disable"] = doc.strategy.disable.target
      /\ named["reported"] = doc.observations.reported /\ named["actuator"] = doc.delivery.actuator
  BY DEF RequiredBindings
<1>3. HeatingV3(doc) /\ DiagnosticsV3(doc.diagnostics) /\ NotificationsV3(doc.notifications)
  BY DEF Admitted
<1>4. /\ Stable(doc.sensor.reference)
      /\ Stable(doc.strategy.enable.target) /\ Stable(doc.strategy.disable.target)
      /\ StableOrNone(doc.delivery.actuator)
  BY <1>3 DEF HeatingV3, SensorV3, StrategyV3, ServiceCallV3, DeliveryV3
<1>5. ASSUME NEW path \in Roles, named[path] # None, Stable(named[path])
      PROVE  /\ Resolved(named[path], entities) # None
             /\ at[path] = Resolved(named[path], entities).locator
             /\ IsEntityId(at[path]) /\ at[path] # None
             /\ DomainOf[at[path]] = Resolved(named[path], entities).evidence.domain
  <2>1. Resolved(named[path], entities) # None
    BY <1>1, <1>5 DEF AllResolve
  <2>2. at[path] = Resolved(named[path], entities).locator
    BY <1>1, <1>5 DEF Locators
  <2>3. named[path].quality # "EPHEMERAL"
    BY <1>5 DEF Stable
  <2> QED
    BY <2>1, <2>2, <2>3, ResolvedIsAnEntityId
<1>6. /\ at["sensor"] = c.temperature_entity /\ at["enable"] = c.enable.target
      /\ at["disable"] = c.disable.target /\ at["actuator"] = c.actuator
      /\ IsEntityId(at["sensor"]) /\ IsEntityId(at["enable"]) /\ IsEntityId(at["disable"])
  <2>1. /\ at["sensor"] = c.temperature_entity /\ at["enable"] = c.enable.target
        /\ at["disable"] = c.disable.target /\ at["actuator"] = c.actuator
    BY DEF CompiledV3, CanonicalConfig
  <2> QED
    BY <1>2, <1>4, <1>5, <2>1 DEF Roles, Stable
<1>7. c.delivery_mode = "setpoint_assist" =>
        /\ c.actuator # None /\ IsEntityId(c.actuator) /\ DomainOf[c.actuator] = "climate"
        /\ c.ownership = "controlel_owned"
  <2> SUFFICES ASSUME doc.delivery.mode = "setpoint_assist"
               PROVE  /\ c.actuator # None /\ IsEntityId(c.actuator) /\ DomainOf[c.actuator] = "climate"
                      /\ c.ownership = "controlel_owned"
    BY DEF CompiledV3, CanonicalConfig
  <2>1. doc.delivery.actuator # None /\ doc.delivery.ownership = "controlel_owned"
    BY <1>3 DEF HeatingV3, DeliveryV3
  <2>2. Resolved(doc.delivery.actuator, entities).evidence.domain = "climate"
    BY <2>1 DEF DocumentBeyondTheRuntime, BeyondTheRuntime
  <2>3. c.ownership = "controlel_owned"
    BY <2>1 DEF CompiledV3, CanonicalConfig
  <2> QED
    BY <1>2, <1>4, <1>5, <1>6, <2>1, <2>2, <2>3 DEF Roles, StableOrNone
<1>8. /\ {c.sensor_name, c.zone_name} \cap Blank = {}
      /\ \A x \in {c.max_age, c.future_skew, c.grace, c.minimum_on, c.minimum_off,
                   c.confirmation, c.configured_debug} : IsTimedelta(x)
      /\ c.confirmation <= MaxConfirmation
  <2>1. /\ c.sensor_name = doc.sensor.display_name /\ c.zone_name = doc.zone.display_name
        /\ c.max_age = doc.demand.max_age /\ c.future_skew = doc.future_skew
        /\ c.grace = doc.protection.grace /\ c.minimum_on = doc.protection.minimum_on
        /\ c.minimum_off = doc.protection.minimum_off /\ c.confirmation = doc.demand.confirmation
        /\ c.configured_debug = doc.diagnostics.debug_duration
    BY DEF CompiledV3, CanonicalConfig
  <2> QED
    BY <2>1 DEF DocumentBeyondTheRuntime, BeyondTheRuntime
<1>9. /\ c.max_age > 0
      /\ \A x \in {c.future_skew, c.grace, c.turn_on, c.turn_off, c.minimum_on, c.minimum_off} : x >= 0
      /\ AtLeast(c.confirmation, 0) /\ Finite(c.assist_target)
      /\ c.configured_debug > 0 /\ c.debug_duration = None
      /\ c.profile \in {"basic", "detailed", "debug"} /\ c.before_debug \in {"basic", "detailed"}
  <2>1. /\ c.max_age = doc.demand.max_age /\ c.future_skew = doc.future_skew
        /\ c.grace = doc.protection.grace /\ c.minimum_on = doc.protection.minimum_on
        /\ c.minimum_off = doc.protection.minimum_off /\ c.confirmation = doc.demand.confirmation
        /\ c.turn_on = doc.demand.turn_on /\ c.turn_off = doc.demand.turn_off
        /\ c.assist_target = doc.delivery.assist_target
        /\ c.configured_debug = doc.diagnostics.debug_duration /\ c.debug_duration = None
        /\ c.profile = doc.diagnostics.steady_profile /\ c.before_debug = doc.diagnostics.steady_profile
    BY DEF CompiledV3, CanonicalConfig
  <2>2. GlobalV3(doc) /\ DemandPolicyV3(doc.demand) /\ ProtectionV3(doc.protection) /\ DeliveryV3(doc.delivery)
    BY <1>3 DEF HeatingV3
  <2> QED
    BY <1>3, <2>1, <2>2 DEF GlobalV3, DemandPolicyV3, ProtectionV3, DeliveryV3, DiagnosticsV3, DebugPolicyV3, AtLeast
<1>10. /\ c.control_mode \in {"simple", "custom"}
       /\ c.delivery_mode \in {"unmanaged", "setpoint_assist"}
       /\ c.ownership \in {"device_owned", "controlel_owned"}
       /\ c.assist_policy \in {"no_assist", "always_assist_while_heating"}
  <2>1. StrategyV3(doc.strategy) /\ DeliveryV3(doc.delivery)
    BY <1>3 DEF HeatingV3
  <2> QED
    BY <2>1 DEF StrategyV3, DeliveryV3, CompiledV3, CanonicalConfig
<1>11. ServiceCall(c.enable) /\ ServiceCall(c.disable)
  <2>1. ServiceCallV3(doc.strategy.enable) /\ ServiceCallV3(doc.strategy.disable)
    BY <1>3 DEF HeatingV3, StrategyV3
  <2>2. /\ c.enable.domain = doc.strategy.enable.domain /\ c.enable.service = doc.strategy.enable.service
        /\ c.disable.domain = doc.strategy.disable.domain /\ c.disable.service = doc.strategy.disable.service
    BY DEF CompiledV3, CanonicalConfig
  <2> QED
    BY <1>6, <2>1, <2>2 DEF ServiceCallV3, ServiceCall
<1>12. RuntimePolicy(c.notifications)
  <2>1. c.notifications = doc.notifications
    BY DEF CompiledV3, CanonicalConfig
  <2> QED
    BY <1>3, <2>1, RecipientsAreTaken
<1> HIDE DEF c
<1>13. RuntimeConfig(c)
  BY <1>6, <1>7, <1>8, <1>9, <1>10, <1>11, <1>12 DEF RuntimeConfig, Within
<1> QED
  BY <1>13 DEF c

(* A revision that was ready is ready, as long as its references resolve.  *)
LEMMA StaysReady ==
    ASSUME NEW rev, NEW es, Sound(es), ReadyV2(rev, es), NEW fs, Sound(fs),
           \A role \in Bound(rev) : ReferenceOf(rev, role) # None => Resolved(ReferenceOf(rev, role), fs) # None,
           \A role \in Bound(rev) : ReferenceOf(rev, role) # None
    PROVE  ReadyV2(rev, fs)
<1>1. ASSUME NEW role \in Bound(rev)
      PROVE  Binds(role, ReferenceOf(rev, role), rev.payload, fs)
  <2> DEFINE r == ReferenceOf(rev, role)
             p == rev.payload
  <2>1. Binds(role, r, p, es) /\ Resolved(r, fs) # None /\ role \in Roles
    BY DEF ReadyV2, Bound
  <2>2. CASE r.quality = "EPHEMERAL"
    BY <2>1, <2>2 DEF Binds
  <2>3. CASE r.quality # "EPHEMERAL"
    <3>1. Resolved(r, es) # None /\ Suits(role, Resolved(r, es), p)
      BY <2>1, <2>3 DEF Binds
    <3> HIDE DEF r, p
    <3>2. /\ Resolved(r, fs).evidence.domain = Resolved(r, es).evidence.domain
          /\ Resolved(r, fs).evidence.temperature = Resolved(r, es).evidence.temperature
          /\ Resolved(r, fs).evidence.settable = Resolved(r, es).evidence.settable
      BY <2>1, <2>3, <3>1, ResolvedKeepsItsKind
    <3>3. Suits(role, Resolved(r, fs), p)
      BY <2>1, <3>1, <3>2 DEF Suits, Roles
    <3> QED
      BY <2>1, <2>3, <3>3 DEF Binds, r, p
  <2> QED
    BY <2>2, <2>3
<1> QED
  BY <1>1 DEF ReadyV2

(* A ready revision runs, unless it is beyond the runtime. *)
LEMMA ReadyRuns ==
    ASSUME NEW rev \in RevisionInputs, NEW es, Sound(es), ReadyV2(rev, es),
           ~RevisionBeyondTheRuntime(rev.payload)
    PROVE  RuntimeConfig(EffectiveConfig(rev, es))
<1> DEFINE p == rev.payload
           c == EffectiveConfig(rev, es)
<1>1. Payload(p) /\ ValidV2(rev)
  BY DEF ReadyV2, ValidV2
<1>2. NumbersV2(p) /\ RolesV2(p) /\ DiagnosticsV2(p) /\ ServiceCallV2(p.enable) /\ ServiceCallV2(p.disable)
  BY <1>1 DEF Payload
<1>3. ASSUME NEW role \in Refers(p)
      PROVE  /\ Locator(rev, role, es) = Resolved(ReferenceOf(rev, role), es).locator
             /\ IsEntityId(Locator(rev, role, es)) /\ Locator(rev, role, es) # None
             /\ role = "actuator" => DomainOf[Locator(rev, role, es)] = "climate"
  <2> DEFINE r == ReferenceOf(rev, role)
  <2>1. role \in Bound(rev) /\ role \in Roles /\ rev.bindings[role] # None
    BY <1>1, UsedIsBound DEF Bound
  <2>2. Locator(rev, role, es) = Resolved(r, es).locator
    BY <2>1 DEF Locator
  <2>3. Binds(role, r, p, es)
    BY <2>1 DEF ReadyV2
  <2>4. CASE r.quality = "EPHEMERAL"
    <3>1. role \in {"enable", "disable"} /\ Resolved(r, es) = r
      BY <2>3, <2>4 DEF Binds, Resolved
    <3>2. IsEntityId(r.locator)
      BY <2>1, <2>4, RevisionsHaveReferences DEF ReferenceOf
    <3> QED
      BY <2>2, <3>1, <3>2, NoneIsNoEntity DEF IsEntityId
  <2>5. CASE r.quality # "EPHEMERAL"
    <3>1. Resolved(r, es) # None /\ Suits(role, Resolved(r, es), p)
      BY <2>3, <2>5 DEF Binds
    <3>2. role = "actuator" => Resolved(r, es).evidence.domain = "climate"
      BY <3>1 DEF Suits
    <3> HIDE DEF r
    <3> QED
      BY <2>2, <2>5, <3>1, <3>2, ResolvedIsAnEntityId DEF r
  <2> QED
    BY <2>4, <2>5
<1>4. /\ c.temperature_entity = Locator(rev, "sensor", es)
      /\ c.enable.target = Locator(rev, "enable", es) /\ c.disable.target = Locator(rev, "disable", es)
      /\ p.actuator => c.actuator = Locator(rev, "actuator", es)
  BY DEF EffectiveConfig
<1>5. IsEntityId(c.temperature_entity) /\ IsEntityId(c.enable.target) /\ IsEntityId(c.disable.target)
  BY <1>3, <1>4 DEF Refers, RequiredRoles
<1>6. c.delivery_mode = "setpoint_assist" =>
        /\ c.actuator # None /\ IsEntityId(c.actuator) /\ DomainOf[c.actuator] = "climate"
        /\ c.ownership = "controlel_owned"
  <2> SUFFICES ASSUME p.delivery_mode = "setpoint_assist"
               PROVE  /\ c.actuator # None /\ IsEntityId(c.actuator) /\ DomainOf[c.actuator] = "climate"
                      /\ c.ownership = "controlel_owned"
    BY DEF EffectiveConfig
  <2>1. p.actuator /\ p.ownership = "controlel_owned"
    BY <1>2 DEF RolesV2
  <2>2. c.ownership = "controlel_owned"
    BY <2>1 DEF EffectiveConfig
  <2>3. "actuator" \in Refers(p) /\ c.actuator = Locator(rev, "actuator", es)
    BY <1>4, <2>1 DEF Refers
  <2> QED
    BY <1>3, <2>2, <2>3
<1>7. /\ c.sensor_name = p.sensor_name /\ c.zone_name = p.zone_name
      /\ c.max_age = p.max_age /\ c.future_skew = p.future_skew
      /\ c.grace = p.grace /\ c.minimum_on = p.minimum_on
      /\ c.minimum_off = p.minimum_off /\ c.confirmation = p.confirmation
      /\ c.turn_on = p.turn_on /\ c.turn_off = p.turn_off
      /\ c.configured_debug = p.configured_debug /\ c.debug_duration = DebugDuration(p)
      /\ c.profile = p.profile /\ c.before_debug = p.before_debug
      /\ c.control_mode = p.control_mode /\ c.delivery_mode = p.delivery_mode
      /\ c.ownership = p.ownership /\ c.assist_policy = p.assist_policy
      /\ c.assist_target = p.assist_target /\ c.notifications = p.notifications
      /\ c.enable.domain = p.enable.domain /\ c.enable.service = p.enable.service
      /\ c.disable.domain = p.disable.domain /\ c.disable.service = p.disable.service
  BY DEF EffectiveConfig
<1> HIDE DEF c, p
<1>8. /\ {c.sensor_name, c.zone_name} \cap Blank = {}
      /\ \A x \in {c.max_age, c.future_skew, c.grace, c.minimum_on, c.minimum_off,
                   c.confirmation, c.configured_debug} : IsTimedelta(x)
      /\ c.confirmation <= MaxConfirmation
  BY <1>7 DEF RevisionBeyondTheRuntime, BeyondTheRuntime, p
<1>9. /\ c.max_age > 0
      /\ \A x \in {c.future_skew, c.grace, c.turn_on, c.turn_off, c.minimum_on, c.minimum_off} : x >= 0
      /\ AtLeast(c.confirmation, 0) /\ Finite(c.assist_target)
  BY <1>2, <1>7 DEF NumbersV2, AtLeast
<1>10. /\ c.profile \in {"basic", "detailed", "debug"} /\ c.before_debug \in {"basic", "detailed"}
       /\ c.configured_debug > 0 /\ (c.debug_duration # None => c.debug_duration > 0)
  BY <1>2, <1>7 DEF DiagnosticsV2, DebugDuration
<1>11. /\ c.control_mode \in {"simple", "custom"}
       /\ c.delivery_mode \in {"unmanaged", "setpoint_assist"}
       /\ c.ownership \in {"device_owned", "controlel_owned"}
       /\ c.assist_policy \in {"no_assist", "always_assist_while_heating"}
  BY <1>2, <1>7 DEF RolesV2
<1>12. ServiceCall(c.enable) /\ ServiceCall(c.disable)
  BY <1>2, <1>5, <1>7 DEF ServiceCallV2, ServiceCall
<1>13. RuntimePolicy(c.notifications)
  BY <1>1, <1>7, PoliciesAreTheSame, RecipientsAreTaken DEF Payload
<1>14. RuntimeConfig(c)
  BY <1>5, <1>6, <1>8, <1>9, <1>10, <1>11, <1>12, <1>13 DEF RuntimeConfig, Within
<1> QED
  BY <1>14 DEF c

(* A document of a configuration that ran is not beyond the runtime. *)
LEMMA RanIsWithin ==
    ASSUME RuntimeConfig(before), Origin(before, revision, seen), MadeOf(document, revision, requested, taken),
           ValidV2(revision), requested = NoRequest, Sound(seen), Sound(entities), AllResolve(document, entities)
    PROVE  ~DocumentBeyondTheRuntime(document)
<1> DEFINE p == revision.payload
           at == Bindings(revision, requested, taken)
           valve == document.delivery.actuator
<1>1. document = Migrated(revision, at)
  BY DEF MadeOf
<1>2. /\ document.sensor.display_name = p.sensor_name /\ document.zone.display_name = p.zone_name
      /\ document.demand.max_age = p.max_age /\ document.future_skew = p.future_skew
      /\ document.protection.grace = p.grace /\ document.protection.minimum_on = p.minimum_on
      /\ document.protection.minimum_off = p.minimum_off /\ document.demand.confirmation = p.confirmation
      /\ document.diagnostics.debug_duration = p.configured_debug
  BY <1>1 DEF Migrated, ProtectionOf
<1>3. /\ before.sensor_name = p.sensor_name /\ before.zone_name = p.zone_name
      /\ before.max_age = p.max_age /\ before.future_skew = p.future_skew
      /\ before.grace = p.grace /\ before.minimum_on = p.minimum_on
      /\ before.minimum_off = p.minimum_off /\ before.confirmation = p.confirmation
      /\ before.configured_debug = p.configured_debug /\ before.delivery_mode = p.delivery_mode
  BY DEF Origin, SamePolicy, Kept
<1>4. valve # None => Resolved(valve, entities).evidence.domain = "climate"
  <2> SUFFICES ASSUME valve # None
               PROVE  Resolved(valve, entities).evidence.domain = "climate"
    OBVIOUS
  <2>1. "actuator" \in Refers(p) /\ RequiredBindings(document)["actuator"] = at["actuator"]
        /\ valve = at["actuator"]
    <3>1. RequiredBindings(document)["actuator"] = valve
      BY DEF RequiredBindings
    <3>2. "actuator" \in Roles
      BY DEF Roles
    <3> QED
      BY <1>1, <3>1, <3>2, DocumentBindings
  <2>2. SameEntity(before, revision, seen, "actuator")
    BY <2>1 DEF Origin
  <2>3. "actuator" \in Bound(revision) /\ "actuator" \in Roles
    BY <2>2 DEF SameEntity, Roles
  <2>4. valve = ResolvedBinding(revision, "actuator", requested, taken)
    BY <2>1, <2>3 DEF Bindings
  <2>5. requested["actuator"] = None
    BY <2>3 DEF NoRequest
  <2>6. /\ valve.quality # "EPHEMERAL"
        /\ \/ {valve.native} = Native(EntityOf(before)["actuator"], taken)
           \/ {valve.native} = Native(EntityOf(before)["actuator"], seen)
    <3>1. Sound(taken) /\ requested \in Requests(revision, taken) /\ AllStable(revision, requested, taken)
      BY DEF MadeOf
    <3> HIDE DEF valve
    <3>2. CASE ReferenceOf(revision, "actuator").quality = "EPHEMERAL"
      BY <2>2, <2>3, <2>4, <2>5, <3>1, <3>2, BindingIsTheEntity
    <3>3. CASE ReferenceOf(revision, "actuator").quality # "EPHEMERAL"
      BY <2>2, <2>3, <2>4, <2>5, <3>1, <3>3, BindingIsTheEntity
    <3> QED
      BY <3>2, <3>3
  <2>7. PICK e \in AnyEntity : e.native = valve.native /\ e.locator = before.actuator
    <3>1. EntityOf(before)["actuator"] = before.actuator
      BY DEF EntityOf
    <3>2. PICK es \in {taken, seen} : {valve.native} = Native(before.actuator, es)
      BY <2>6, <3>1
    <3>3. \E e \in es : e.native = valve.native /\ e.locator = before.actuator
      BY <3>2 DEF Native
    <3> QED
      BY <3>2, <3>3 DEF Sound, MadeOf
  <2>8. Resolved(valve, entities) # None
    <3>1. DOMAIN RequiredBindings(document) = Roles
      BY <1>1, DocumentBindings
    <3> QED
      BY <2>1, <2>3, <3>1 DEF AllResolve
  <2>9. PICK f \in entities : f.native = valve.native /\ Resolved(valve, entities) = EntityReference(f)
    BY <2>6, <2>8, ResolvedIsAnEntity
  <2>10. DomainOf[f.locator] = DomainOf[before.actuator]
    BY <2>7, <2>9, AnEntityKeepsItsKind DEF Sound
  <2>11. DomainOf[before.actuator] = "climate"
    <3>1. p.actuator
      BY <2>1 DEF Refers, RequiredRoles
    <3>2. p.delivery_mode = "setpoint_assist"
      BY <3>1 DEF ValidV2, Payload, RolesV2
    <3> QED
      BY <1>3, <3>2 DEF RuntimeConfig
  <2> QED
    BY <2>9, <2>10, <2>11, EvidenceOfAnEntity
<1> HIDE DEF p, at, valve
<1>5. /\ {before.sensor_name, before.zone_name} \cap Blank = {}
      /\ \A x \in {before.max_age, before.future_skew, before.grace, before.minimum_on, before.minimum_off,
                   before.confirmation, before.configured_debug} : IsTimedelta(x)
      /\ before.confirmation <= MaxConfirmation
  BY DEF RuntimeConfig, Within
<1> QED
  BY <1>2, <1>3, <1>4, <1>5 DEF DocumentBeyondTheRuntime, BeyondTheRuntime, valve

-----------------------------------------------------------------------------
(* WHAT THE CONVERSIONS MAKE *)

(* What a stable reference of a revision is, beyond its identity *)
Referable(rev) ==
    \A role \in Bound(rev) :
        LET r == ReferenceOf(rev, role)
        IN  /\ ReferenceShape(r)
            /\ r.quality # "EPHEMERAL" => r # None /\ Separate("main_heat_source", r)

(* _migrated_logical_id: two names at most are taken, so one of three is   *)
(* free.                                                                   *)
LEMMA ANameIsFree ==
    ASSUME NEW x, NEW y
    PROVE  /\ FirstFree(SensorNames, {x, y}) \in {SensorNames[i] : i \in 1 .. 3} \ {x, y}
           /\ FirstFree(ZoneNames, {x, y}) \in {ZoneNames[i] : i \in 1 .. 3} \ {x, y}
<1>1. ASSUME NEW names, DOMAIN names = 1 .. 3,
             \A i, j \in 1 .. 3 : names[i] = names[j] => i = j
      PROVE  FirstFree(names, {x, y}) \in {names[i] : i \in 1 .. 3} \ {x, y}
  <2> DEFINE free == {i \in DOMAIN names : names[i] \notin {x, y}}
  <2>1. 1 \in free \/ 2 \in free \/ 3 \in free
    BY <1>1
  <2>2. free \subseteq 1 .. 3
    BY <1>1
  <2>3. \E i \in free : \A j \in free : i <= j
    <3> HIDE DEF free
    <3>1. CASE 1 \in free
      BY <2>2, <3>1
    <3>2. CASE 1 \notin free /\ 2 \in free
      BY <2>2, <3>2
    <3>3. CASE 1 \notin free /\ 2 \notin free
      BY <2>1, <2>2, <3>3
    <3> QED
      BY <3>1, <3>2, <3>3
  <2> DEFINE first == CHOOSE i \in free : \A j \in free : i <= j
  <2>4. first \in free
    BY <2>3
  <2>5. FirstFree(names, {x, y}) = names[first]
    BY DEF FirstFree
  <2> HIDE DEF first
  <2> QED
    BY <1>1, <2>2, <2>4, <2>5
<1>2. DOMAIN SensorNames = 1 .. 3 /\ \A i, j \in 1 .. 3 : SensorNames[i] = SensorNames[j] => i = j
  BY DEF SensorNames
<1>3. DOMAIN ZoneNames = 1 .. 3 /\ \A i, j \in 1 .. 3 : ZoneNames[i] = ZoneNames[j] => i = j
  BY DEF ZoneNames
<1> QED
  BY <1>1, <1>2, <1>3

(* The migrated ids are slugs, and no name that the document refers to.    *)
LEMMA MigratedIdsFit ==
    ASSUME NEW id, NEW values, \E x, y : values = {x, y}
    PROVE  /\ MigratedId(id, SensorNames, values) \in Slugs \ values
           /\ MigratedId(id, ZoneNames, values) \in Slugs \ values
BY ANameIsFree, GivenNamesAreSlugs DEF MigratedId, IsSlug

(* A binding of a valid revision, when it is stable *)
LEMMA BindingFits ==
    ASSUME NEW rev, Referable(rev), NEW es, Sound(es), NEW role \in Bound(rev),
           Stable(ResolvedBinding(rev, role, NoRequest, es))
    PROVE  Separate("main_heat_source", ResolvedBinding(rev, role, NoRequest, es))
<1> DEFINE at == ResolvedBinding(rev, role, NoRequest, es)
           r == ReferenceOf(rev, role)
<1>1. NoRequest[role] = None
  BY DEF NoRequest, Bound
<1>2. CASE r.quality = "EPHEMERAL" /\ Exact(r, es) # {}
  <2> DEFINE e == CHOOSE x \in Exact(r, es) : TRUE
  <2>1. e \in AnyEntity
    BY <1>2 DEF Exact, Sound
  <2>2. at = EntityReference(e)
    BY <1>1, <1>2 DEF ResolvedBinding
  <2> HIDE DEF e
  <2> QED
    BY <2>1, <2>2, GivenNamesAreFree, EntityReferenceIsStable DEF Separate
<1>3. CASE ~(r.quality = "EPHEMERAL" /\ Exact(r, es) # {})
  <2>1. at = r
    BY <1>1, <1>3 DEF ResolvedBinding
  <2>2. r.quality # "EPHEMERAL"
    BY <2>1 DEF Stable
  <2> QED
    BY <2>1, <2>2 DEF Referable
<1> QED
  BY <1>2, <1>3

(* Two bindings of one identity resolve to one identity. *)
LEMMA OneSourceStaysOne ==
    ASSUME NEW rev, NEW es, NEW one \in Bound(rev), NEW other \in Bound(rev),
           Identity(ReferenceOf(rev, one)) = Identity(ReferenceOf(rev, other)),
           Stable(ResolvedBinding(rev, one, NoRequest, es)),
           Stable(ResolvedBinding(rev, other, NoRequest, es)),
           ReferenceShape(ReferenceOf(rev, one)), ReferenceShape(ReferenceOf(rev, other))
    PROVE  Identity(ResolvedBinding(rev, one, NoRequest, es))
             = Identity(ResolvedBinding(rev, other, NoRequest, es))
<1> DEFINE r == ReferenceOf(rev, one)
           s == ReferenceOf(rev, other)
<1>1. NoRequest[one] = None /\ NoRequest[other] = None
  BY DEF NoRequest, Bound
<1>2. CASE r.quality = "STABLE"
  <2>1. s.quality = "STABLE"
    BY <1>2 DEF Identity, ReferenceShape
  <2> QED
    BY <1>1, <1>2, <2>1 DEF ResolvedBinding
<1>3. CASE r.quality = "EPHEMERAL"
  <2>1. s.quality = "EPHEMERAL" /\ r.locator = s.locator
    BY <1>3 DEF Identity, ReferenceShape
  <2>2. Exact(r, es) = Exact(s, es)
    BY <2>1 DEF Exact
  <2> HIDE DEF r, s
  <2>3. ResolvedBinding(rev, one, NoRequest, es)
          = IF Exact(r, es) # {} THEN EntityReference(CHOOSE e \in Exact(r, es) : TRUE) ELSE r
    BY <1>1, <1>3 DEF ResolvedBinding, r
  <2>4. ResolvedBinding(rev, other, NoRequest, es)
          = IF Exact(s, es) # {} THEN EntityReference(CHOOSE e \in Exact(s, es) : TRUE) ELSE s
    BY <1>1, <2>1 DEF ResolvedBinding, s
  <2>5. CASE Exact(r, es) # {}
    BY <2>2, <2>3, <2>4, <2>5
  <2>6. CASE Exact(r, es) = {}
    BY <1>3, <2>3, <2>6 DEF Stable
  <2> QED
    BY <2>5, <2>6
<1> QED
  BY <1>2, <1>3 DEF ReferenceShape

(* A valid revision whose bindings are stable makes an admitted document:  *)
(* migrate_heating_v2_revision_to_v3 fails for nothing else.               *)
LEMMA ValidConverts ==
    ASSUME NEW rev, ValidV2(rev), Referable(rev), NEW es, Sound(es), AllStable(rev, NoRequest, es)
    PROVE  Admitted(Migrated(rev, Bindings(rev, NoRequest, es)))
<1> DEFINE p == rev.payload
           at == Bindings(rev, NoRequest, es)
           doc == Migrated(rev, at)
           topology == Topology(at["sensor"])
           sensor == at["sensor"]
<1>1. Payload(p)
  BY DEF ValidV2
<1>2. /\ NumbersV2(p) /\ RolesV2(p) /\ DiagnosticsV2(p) /\ NotificationsV2(p.notifications)
      /\ ServiceCallV2(p.enable) /\ ServiceCallV2(p.disable)
      /\ "" \notin {p.zone_id, p.zone_name, p.sensor_id, p.sensor_name} /\ p.timeout_action \in Actions
  BY <1>1 DEF Payload
<1>3. ASSUME NEW role \in Refers(p)
      PROVE  /\ role \in Bound(rev) /\ at[role] = ResolvedBinding(rev, role, NoRequest, es)
             /\ Stable(at[role]) /\ Separate("main_heat_source", at[role])
  <2>1. role \in Bound(rev)
    BY UsedIsBound
  <2>2. at[role] = ResolvedBinding(rev, role, NoRequest, es)
    BY <2>1 DEF Bindings
  <2> HIDE DEF at
  <2>3. Stable(at[role])
    BY <2>1, <2>2 DEF AllStable
  <2> QED
    BY <2>1, <2>2, <2>3, BindingFits
<1>4. {"sensor", "enable", "disable"} \subseteq Refers(p)
  BY DEF Refers, RequiredRoles
<1>5. /\ doc.future_skew = p.future_skew /\ doc.topology = topology
      /\ doc.zone.zone_id = MigratedId(p.zone_id, ZoneNames, AreaValues(topology))
      /\ doc.zone.display_name = p.zone_name
      /\ doc.sensor.sensor_id = MigratedId(p.sensor_id, SensorNames, {sensor.native, sensor.locator})
      /\ doc.sensor.display_name = p.sensor_name /\ doc.sensor.reference = sensor
      /\ doc.observations.reported = (IF p.reported THEN at["reported"] ELSE None)
      /\ doc.observations.physical = None
      /\ doc.source.heat_source_id = "main_heat_source" /\ doc.source.display_name = "Main heat source"
      /\ doc.source.reference = SharedReference(at["enable"], at["disable"])
      /\ doc.delivery.zone_id = doc.zone.zone_id /\ doc.delivery.mode = p.delivery_mode
      /\ doc.delivery.actuator = (IF p.actuator THEN at["actuator"] ELSE None)
      /\ doc.delivery.ownership = p.ownership /\ doc.delivery.assist_policy = p.assist_policy
      /\ doc.delivery.assist_target = p.assist_target
      /\ doc.diagnostics.steady_profile = SteadyProfile(p)
      /\ doc.diagnostics.debug_duration = p.configured_debug
      /\ doc.diagnostics.until_changed = p.until_changed
      /\ doc.notifications = p.notifications
  BY DEF Migrated
<1>6. /\ doc.demand.target = p.target /\ doc.demand.turn_on = p.turn_on /\ doc.demand.turn_off = p.turn_off
       /\ doc.demand.confirmation = p.confirmation /\ doc.demand.max_age = p.max_age
       /\ doc.protection.grace = p.grace /\ doc.protection.timeout_action = p.timeout_action
       /\ doc.protection.minimum_on = p.minimum_on /\ doc.protection.minimum_off = p.minimum_off
  BY DEF Migrated, ProtectionOf
<1>7. /\ doc.strategy.mode = p.control_mode
       /\ doc.strategy.enable.domain = p.enable.domain /\ doc.strategy.enable.service = p.enable.service
       /\ doc.strategy.enable.target = at["enable"]
       /\ doc.strategy.disable.domain = p.disable.domain /\ doc.strategy.disable.service = p.disable.service
       /\ doc.strategy.disable.target = at["disable"]
  BY DEF Migrated, StrategyOf
<1>8. p.reported => "reported" \in Refers(p)
  BY DEF Refers
<1>9. p.actuator => "actuator" \in Refers(p)
  BY DEF Refers
<1>10. StrategyV3(doc.strategy)
  <2> HIDE DEF doc, at, p
  <2>2. p.control_mode = "simple" => Identity(at["enable"]) = Identity(at["disable"])
    <3> SUFFICES ASSUME p.control_mode = "simple"
                 PROVE  Identity(at["enable"]) = Identity(at["disable"])
      OBVIOUS
    <3>1. /\ "enable" \in Bound(rev) /\ "disable" \in Bound(rev)
          /\ at["enable"] = ResolvedBinding(rev, "enable", NoRequest, es)
          /\ at["disable"] = ResolvedBinding(rev, "disable", NoRequest, es)
          /\ Stable(at["enable"]) /\ Stable(at["disable"])
      BY <1>3, <1>4
    <3>2. Identity(ReferenceOf(rev, "disable")) = Identity(ReferenceOf(rev, "enable"))
      BY <3>1 DEF ValidV2, Bound, p
    <3>3. ReferenceShape(ReferenceOf(rev, "enable")) /\ ReferenceShape(ReferenceOf(rev, "disable"))
      BY <3>1 DEF Referable
    <3> QED
      BY <3>1, <3>2, <3>3, OneSourceStaysOne
  <2>3. Stable(at["enable"]) /\ Stable(at["disable"])
    BY <1>3, <1>4
  <2> QED
    BY <1>2, <1>7, <2>2, <2>3 DEF StrategyV3, ServiceCallV3, ServiceCallV2, RolesV2
<1>11. TopologyV3(doc.topology) /\ ZoneV3(doc) /\ IsSlug(doc.zone.zone_id)
  <2>1. /\ topology.area # None => Stable(topology.area) /\ topology.area.locator = None
        /\ topology.floor # None => Stable(topology.floor)
    BY DEF Topology, StableReference, Stable
  <2> HIDE DEF topology, sensor, doc, at, p
  <2>3. CASE topology.area = None
    <3>1. AreaValues(topology) = {}
      BY <2>3 DEF AreaValues
    <3>2. MigratedId(p.zone_id, ZoneNames, {}) \in Slugs
      <4>1. FirstFree(ZoneNames, {}) = FirstFree(ZoneNames, {None, None})
        BY NoneIsNoSlug, GivenNamesAreSlugs DEF FirstFree, ZoneNames
      <4> QED
        BY <4>1, ANameIsFree, GivenNamesAreSlugs DEF MigratedId, IsSlug
    <3> QED
      BY <1>2, <1>5, <2>1, <2>3, <3>1, <3>2 DEF TopologyV3, ZoneV3, StableOrNone, SeparateOrNone, IsSlug
  <2>4. CASE topology.area # None
    <3>1. AreaValues(topology) = {topology.area.native, topology.area.native}
      BY <2>4 DEF AreaValues
    <3> DEFINE values == AreaValues(topology)
    <3>4. doc.zone.zone_id = MigratedId(p.zone_id, ZoneNames, values)
      BY <1>5
    <3>5. values = {topology.area.native}
      BY <2>4 DEF AreaValues
    <3>7. \E x, y : values = {x, y}
      BY <3>1
    <3> HIDE DEF values
    <3>6. doc.zone.zone_id \in Slugs \ values
      BY <3>4, <3>7, MigratedIdsFit
    <3>2. doc.zone.zone_id \in Slugs \ {topology.area.native}
      BY <3>5, <3>6
    <3>3. Separate(doc.zone.zone_id, topology.area)
      BY <2>1, <2>4, <3>2, NoneIsNoSlug DEF Separate
    <3> QED
      BY <1>2, <1>5, <2>1, <2>4, <3>2, <3>3 DEF TopologyV3, ZoneV3, StableOrNone, SeparateOrNone, IsSlug
  <2> QED
    BY <2>3, <2>4
<1>12. SensorV3(doc.sensor)
  <2>1. Stable(sensor)
    BY <1>3, <1>4
  <2> HIDE DEF sensor, doc, at, p
  <2> DEFINE values == {sensor.native, sensor.locator}
  <2>3. doc.sensor.sensor_id = MigratedId(p.sensor_id, SensorNames, values)
    BY <1>5
  <2>4. values = {sensor.native, sensor.locator}
    OBVIOUS
  <2>6. \E x, y : values = {x, y}
    OBVIOUS
  <2> HIDE DEF values
  <2>5. doc.sensor.sensor_id \in Slugs \ values
    BY <2>3, <2>6, MigratedIdsFit
  <2>2. doc.sensor.sensor_id \in Slugs \ {sensor.native, sensor.locator}
    BY <2>4, <2>5
  <2> QED
    BY <1>2, <1>5, <2>1, <2>2 DEF SensorV3, IsSlug, Separate
<1>13. DemandPolicyV3(doc.demand) /\ GlobalV3(doc) /\ ProtectionV3(doc.protection)
  <2> HIDE DEF doc, at, p
  <2>3. doc.future_skew = p.future_skew
    BY <1>5
  <2>4. DemandPolicyV3(doc.demand)
    BY <1>2, <1>6 DEF DemandPolicyV3, NumbersV2
  <2>5. GlobalV3(doc) /\ ProtectionV3(doc.protection)
    BY <1>2, <1>6, <2>3 DEF GlobalV3, ProtectionV3, NumbersV2
  <2> QED
    BY <2>4, <2>5
<1>14. ObservationsV3(doc.observations)
  <2>1. p.reported => Stable(at["reported"])
    BY <1>3, <1>8
  <2> HIDE DEF doc, at, p
  <2> QED
    BY <1>5, <2>1 DEF ObservationsV3, StableOrNone
<1>15. SourceV3(doc)
  <2> HIDE DEF doc, at, p
  <2>2. /\ Stable(at["enable"]) /\ Separate("main_heat_source", at["enable"])
        /\ Separate("main_heat_source", at["disable"])
        /\ p.reported => Separate("main_heat_source", at["reported"])
    BY <1>3, <1>4, <1>8
  <2>3. IsSlug("main_heat_source")
    BY GivenNamesAreSlugs DEF IsSlug
  <2> QED
    BY <1>5, <1>7, <2>2, <2>3 DEF SourceV3, SourceReferences, StableOrNone, SeparateOrNone, SharedReference
<1>16. DeliveryV3(doc.delivery)
  <2>1. p.actuator => Stable(at["actuator"])
    BY <1>3, <1>9
  <2> HIDE DEF doc, at, p
  <2> QED
    BY <1>2, <1>5, <1>11, <2>1 DEF DeliveryV3, RolesV2, NumbersV2, StableOrNone, Stable
<1>17. DiagnosticsV3(doc.diagnostics) /\ NotificationsV3(doc.notifications)
  <2> HIDE DEF doc, at, p
  <2> QED
    BY <1>2, <1>5, PoliciesAreTheSame DEF DiagnosticsV3, DebugPolicyV3, DiagnosticsV2, SteadyProfile
<1> HIDE DEF doc
<1>18. Admitted(doc)
  BY <1>5, <1>10, <1>11, <1>12, <1>13, <1>14, <1>15, <1>16, <1>17 DEF Admitted, HeatingV3
<1> QED
  BY <1>18 DEF doc

(* A configuration of an entry is finite where a payload must be.          *)
LEMMA EntryIsFinite ==
    ASSUME NEW d, AcceptsEntry(d)
    PROVE  LET c == EntryConfig(d)
           IN  /\ \A x \in {c.target, c.turn_on, c.turn_off, c.minimum_on, c.minimum_off, c.max_age,
                            c.future_skew, c.grace, c.configured_debug} : Finite(x)
               /\ c.timeout_action \in Actions
               /\ "" \notin {c.zone_id, c.zone_name, c.sensor_id, c.sensor_name}
<1> DEFINE c == EntryConfig(d)
<1>1. ReadsEntry(d)
  BY DEF AcceptsEntry
<1>2. \A number \in {0, 3600} : Finite(number)
  BY NoNumbers DEF Finite
<1>3. /\ c.target = d.target /\ c.max_age = d.max_age /\ c.future_skew = d.future_skew /\ c.grace = d.grace
      /\ c.turn_on = Given(d, "turn_on", 0) /\ c.turn_off = Given(d, "turn_off", 0)
      /\ c.minimum_on = Given(d, "minimum_on", 0) /\ c.minimum_off = Given(d, "minimum_off", 0)
      /\ c.configured_debug = Given(d, "configured_debug", 3600)
      /\ c.timeout_action = d.timeout_action
      /\ c.zone_id = d.zone_id /\ c.zone_name = d.zone_name
      /\ c.sensor_id = d.sensor_id /\ c.sensor_name = d.sensor_name
  BY DEF EntryConfig
<1> HIDE DEF c
<1>4. Finite(c.target) /\ Finite(c.max_age) /\ Finite(c.future_skew) /\ Finite(c.grace)
  <2>1. Finite(d.target) /\ \A key \in {"future_skew", "grace", "max_age"} : HasDuration(d, key)
    BY <1>1 DEF ReadsEntry
  <2> QED
    BY <1>3, <2>1 DEF HasDuration, AtLeast
<1>5. Finite(c.turn_on) /\ Finite(c.turn_off)
  <2>1. MayHaveNumber(d, "turn_on") /\ MayHaveNumber(d, "turn_off")
    BY <1>1 DEF ReadsEntry
  <2> QED
    BY <1>2, <1>3, <2>1 DEF MayHaveNumber, Given
<1>6. Finite(c.minimum_on) /\ Finite(c.minimum_off) /\ Finite(c.configured_debug)
  <2>1. \A key \in {"minimum_on", "minimum_off", "configured_debug"} : MayHaveDuration(d, key)
    BY <1>1 DEF ReadsEntry
  <2> QED
    BY <1>2, <1>3, <2>1 DEF MayHaveDuration, HasDuration, AtLeast, Given
<1>7. "" \notin {c.zone_id, c.zone_name, c.sensor_id, c.sensor_name} /\ c.timeout_action \in Actions
  <2>3. \A key \in {"sensor_id", "zone_id", "sensor_name", "zone_name"} : HasString(d, key)
    BY <1>1 DEF ReadsEntry
  <2>4. \A key \in {"sensor_id", "zone_id", "sensor_name", "zone_name"} : d[key] # ""
    BY <2>3 DEF HasString, Blank
  <2>1. d.sensor_id # "" /\ d.zone_id # "" /\ d.sensor_name # "" /\ d.zone_name # ""
    BY <2>4
  <2>2. d.timeout_action \in Actions
    BY <1>1 DEF ReadsEntry
  <2>5. c.zone_id = d.zone_id /\ c.zone_name = d.zone_name
    BY <1>3
  <2>6. c.sensor_id = d.sensor_id /\ c.sensor_name = d.sensor_name
    BY <1>3
  <2>7. c.timeout_action = d.timeout_action
    BY <1>3
  <2>8. "" \notin {c.zone_id, c.zone_name, c.sensor_id, c.sensor_name}
    BY <2>1, <2>5, <2>6
  <2> QED
    BY <2>2, <2>7, <2>8
<1>8. /\ \A x \in {c.target, c.turn_on, c.turn_off, c.minimum_on, c.minimum_off, c.max_age,
                   c.future_skew, c.grace, c.configured_debug} : Finite(x)
  BY <1>4, <1>5, <1>6
<1> QED
  BY <1>7, <1>8 DEF c

(* The recipients of an entry are what a payload may have. *)
LEMMA EntryNotifies ==
    ASSUME NEW d, AcceptsEntry(d)
    PROVE  NotificationsV2(EntryConfig(d).notifications)
<1> DEFINE n == EntryConfig(d).notifications
<1>1. n = Given(d, "notifications", DefaultNotifications)
  BY DEF EntryConfig
<1>2. RuntimePolicy(n)
  BY DEF AcceptsEntry, RuntimeConfig
<1>3. \A i \in DOMAIN n.recipients : RecipientV2(n.recipients[i])
  <2>1. CASE d.notifications = Absent
    <3>1. n.recipients = << >>
      BY <1>1, <2>1 DEF Given, DefaultNotifications
    <3> HIDE DEF n
    <3> QED
      BY <3>1
  <2>2. CASE d.notifications # Absent
    <3>1. n = d.notifications /\ ReadsNotifications(d.notifications)
      BY <1>1, <2>2 DEF Given, AcceptsEntry, ReadsEntry
    <3> HIDE DEF n
    <3> QED
      BY <3>1 DEF ReadsNotifications, RecipientV2
  <2> QED
    BY <2>1, <2>2
<1> HIDE DEF n
<1>4. NotificationsV2(n)
  BY <1>2, <1>3 DEF RuntimePolicy, NotificationsV2
<1> QED
  BY <1>4 DEF n

(* How an entry controls its source *)
LEMMA EntryControls ==
    ASSUME NEW d, AcceptsEntry(d)
    PROVE  LET c == EntryConfig(d)
           IN  /\ c.control_mode \in {"simple", "custom"}
               /\ c.control_mode = "simple" =>
                    /\ c.controlled # None
                    /\ [enable |-> c.enable, disable |-> c.disable] = SwitchCalls(c.controlled)
                    /\ c.enable = [domain |-> "switch", service |-> "turn_on", target |-> c.controlled]
                    /\ c.disable = [domain |-> "switch", service |-> "turn_off", target |-> c.controlled]
               /\ c.control_mode # "simple" => c.controlled = None
<1> DEFINE c == EntryConfig(d)
<1>1. /\ c.control_mode = ControlMode(d) /\ ControlMode(d) \in {"simple", "custom"}
      /\ c.controlled = (IF ControlMode(d) = "simple" THEN Controlled(d) ELSE None)
      /\ c.enable = SourceCalls(d).enable /\ c.disable = SourceCalls(d).disable
  BY DEF EntryConfig, AcceptsEntry, ReadsEntry
<1>2. ControlMode(d) = "simple" => Controlled(d) # None
  BY NoneIsNoEntity DEF AcceptsEntry, ReadsEntry
<1>3. ControlMode(d) = "simple" =>
        /\ c.enable = [domain |-> "switch", service |-> "turn_on", target |-> Controlled(d)]
        /\ c.disable = [domain |-> "switch", service |-> "turn_off", target |-> Controlled(d)]
  BY <1>1 DEF SourceCalls, SwitchCalls
<1> HIDE DEF c
<1>4. ControlMode(d) = "simple" => [enable |-> c.enable, disable |-> c.disable] = SwitchCalls(Controlled(d))
  BY <1>3 DEF SwitchCalls
<1>5. /\ c.control_mode \in {"simple", "custom"}
      /\ c.control_mode = "simple" =>
           /\ c.controlled # None
           /\ [enable |-> c.enable, disable |-> c.disable] = SwitchCalls(c.controlled)
           /\ c.enable = [domain |-> "switch", service |-> "turn_on", target |-> c.controlled]
           /\ c.disable = [domain |-> "switch", service |-> "turn_off", target |-> c.controlled]
      /\ c.control_mode # "simple" => c.controlled = None
  BY <1>1, <1>2, <1>3, <1>4
<1> QED
  BY <1>5 DEF c

(* The configuration of an accepted entry converts, unless an actuator is  *)
(* left over from another delivery mode.                                   *)
LEMMA EntryConverts ==
    ASSUME NEW d, AcceptsEntry(d),
           ~(EntryConfig(d).delivery_mode = "unmanaged" /\ EntryConfig(d).actuator # None)
    PROVE  Convertible(EntryConfig(d)) /\ ValidV2(Converted(EntryConfig(d)))
<1> DEFINE c == EntryConfig(d)
           rev == Converted(c)
           p == rev.payload
<1>1. RuntimeConfig(c)
  BY DEF AcceptsEntry
<1>2. c.debug_duration \in {None, c.configured_debug}
  BY DEF EntryConfig
<1>3. /\ c.control_mode \in {"simple", "custom"}
      /\ c.control_mode = "simple" =>
           /\ c.controlled # None
           /\ [enable |-> c.enable, disable |-> c.disable] = SwitchCalls(c.controlled)
           /\ c.enable = [domain |-> "switch", service |-> "turn_on", target |-> c.controlled]
           /\ c.disable = [domain |-> "switch", service |-> "turn_off", target |-> c.controlled]
      /\ c.control_mode # "simple" => c.controlled = None
  BY EntryControls
<1>4. /\ \A x \in {c.target, c.turn_on, c.turn_off, c.minimum_on, c.minimum_off, c.max_age,
                   c.future_skew, c.grace, c.configured_debug} : Finite(x)
      /\ c.timeout_action \in Actions
      /\ "" \notin {c.zone_id, c.zone_name, c.sensor_id, c.sensor_name}
  BY EntryIsFinite
<1>5. NotificationsV2(c.notifications)
  BY EntryNotifies
<1>6. ~(c.delivery_mode = "unmanaged" /\ c.actuator # None)
  OBVIOUS
<1> HIDE DEF c
<1>7. (c.delivery_mode = "unmanaged") <=> (c.actuator = None)
  BY <1>1, <1>6 DEF RuntimeConfig
<1>8. Convertible(c)
  BY <1>2, <1>3, <1>7 DEF Convertible
<1>9. /\ p.zone_id = c.zone_id /\ p.zone_name = c.zone_name /\ p.sensor_id = c.sensor_id
      /\ p.sensor_name = c.sensor_name /\ p.target = c.target /\ p.max_age = c.max_age
      /\ p.future_skew = c.future_skew /\ p.grace = c.grace /\ p.timeout_action = c.timeout_action
      /\ p.turn_on = c.turn_on /\ p.turn_off = c.turn_off /\ p.confirmation = c.confirmation
      /\ p.minimum_on = c.minimum_on /\ p.minimum_off = c.minimum_off
      /\ p.control_mode = c.control_mode
      /\ p.reported = (c.control_mode = "simple")
      /\ p.delivery_mode = c.delivery_mode /\ p.actuator = (c.delivery_mode = "setpoint_assist")
      /\ p.ownership = c.ownership /\ p.assist_policy = c.assist_policy
      /\ p.assist_target = c.assist_target /\ p.profile = c.profile
      /\ p.configured_debug = c.configured_debug /\ p.until_changed = (c.debug_duration = None)
      /\ p.before_debug = c.before_debug /\ p.notifications = c.notifications
  BY DEF Converted
<1>10. /\ p.enable.domain = c.enable.domain /\ p.enable.service = c.enable.service
       /\ p.disable.domain = c.disable.domain /\ p.disable.service = c.disable.service
  BY DEF Converted
<1>11. /\ rev.bindings["sensor"] = MigratedBinding(c.temperature_entity)
       /\ rev.bindings["enable"] = MigratedBinding(c.enable.target)
       /\ rev.bindings["disable"] = MigratedBinding(c.disable.target)
       /\ rev.bindings["reported"] = IF c.control_mode = "simple" THEN MigratedBinding(c.controlled) ELSE None
       /\ rev.bindings["actuator"] = IF c.delivery_mode = "setpoint_assist" THEN MigratedBinding(c.actuator) ELSE None
  BY DEF Converted
<1> HIDE DEF rev, p
<1>12. Payload(p)
  <2>1. NumbersV2(p)
    <3>1. /\ c.max_age > 0 /\ AtLeast(c.confirmation, 0) /\ Finite(c.assist_target)
          /\ c.future_skew >= 0 /\ c.grace >= 0 /\ c.turn_on >= 0 /\ c.turn_off >= 0
          /\ c.minimum_on >= 0 /\ c.minimum_off >= 0
      BY <1>1 DEF RuntimeConfig, Within
    <3>2. /\ Finite(c.target) /\ Finite(c.turn_on) /\ Finite(c.turn_off) /\ Finite(c.minimum_on)
          /\ Finite(c.minimum_off) /\ Finite(c.max_age) /\ Finite(c.future_skew) /\ Finite(c.grace)
      BY <1>4
    <3>3. /\ AtLeast(c.future_skew, 0) /\ AtLeast(c.grace, 0) /\ AtLeast(c.turn_on, 0)
          /\ AtLeast(c.turn_off, 0) /\ AtLeast(c.minimum_on, 0) /\ AtLeast(c.minimum_off, 0)
      BY <3>1, <3>2 DEF AtLeast
    <3> QED
      BY <1>9, <3>1, <3>2, <3>3 DEF NumbersV2
  <2>2. ServiceCallV2(p.enable) /\ ServiceCallV2(p.disable)
    BY <1>1, <1>10 DEF ServiceCallV2, RuntimeConfig, ServiceCall
  <2>3. RolesV2(p)
    <3>1. /\ c.delivery_mode \in {"unmanaged", "setpoint_assist"}
          /\ c.ownership \in {"device_owned", "controlel_owned"}
          /\ c.assist_policy \in {"no_assist", "always_assist_while_heating"}
          /\ c.delivery_mode = "setpoint_assist" => c.ownership = "controlel_owned"
      BY <1>1 DEF RuntimeConfig
    <3>2. c.control_mode = "simple" =>
            /\ p.enable.domain = "switch" /\ p.enable.service = "turn_on"
            /\ p.disable.domain = "switch" /\ p.disable.service = "turn_off"
      BY <1>3, <1>10
    <3> QED
      BY <1>3, <1>9, <3>1, <3>2 DEF RolesV2
  <2>4. DiagnosticsV2(p)
    BY <1>1, <1>4, <1>9 DEF DiagnosticsV2, RuntimeConfig
  <2> QED
    BY <1>4, <1>5, <1>9, <2>1, <2>2, <2>3, <2>4 DEF Payload
<1>13. \A role \in Requires(p) \cup Bound(rev) : rev.bindings[role] # None /\ rev.bindings[role].confirmed
  <2>1. \A id \in DOMAIN DomainOf : MigratedBinding(id) # None /\ MigratedBinding(id).confirmed
    BY NoneIsNoBinding DEF MigratedBinding
  <2>2. /\ c.temperature_entity \in DOMAIN DomainOf /\ c.enable.target \in DOMAIN DomainOf
        /\ c.disable.target \in DOMAIN DomainOf
    BY <1>1 DEF RuntimeConfig, ServiceCall, IsEntityId
  <2>3. c.control_mode = "simple" => c.controlled \in DOMAIN DomainOf
    BY <1>3, <2>2
  <2>4. c.delivery_mode = "setpoint_assist" => c.actuator \in DOMAIN DomainOf
    BY <1>1 DEF RuntimeConfig, IsEntityId
  <2> QED
    <3>1. Requires(p) \cup Bound(rev) \subseteq
            {"sensor", "enable", "disable"} \cup (IF c.control_mode = "simple" THEN {"reported"} ELSE {})
                                            \cup (IF c.delivery_mode = "setpoint_assist" THEN {"actuator"} ELSE {})
      BY <1>9, <1>11 DEF Requires, RequiredRoles, Bound, Roles
    <3>2. ASSUME NEW role \in Requires(p) \cup Bound(rev)
          PROVE  \E id \in DOMAIN DomainOf : rev.bindings[role] = MigratedBinding(id)
      <4>1. CASE role \in {"sensor", "enable", "disable"}
        BY <1>11, <2>2, <4>1
      <4>2. CASE role = "reported" /\ c.control_mode = "simple"
        BY <1>11, <2>3, <4>2
      <4>3. CASE role = "actuator" /\ c.delivery_mode = "setpoint_assist"
        BY <1>11, <2>4, <4>3
      <4> QED
        BY <3>1, <4>1, <4>2, <4>3
    <3> QED
      BY <2>1, <3>2
<1>14. p.control_mode = "simple" =>
         /\ Identity(ReferenceOf(rev, "disable")) = Identity(ReferenceOf(rev, "enable"))
         /\ p.reported => Identity(ReferenceOf(rev, "reported")) = Identity(ReferenceOf(rev, "enable"))
  <2> SUFFICES ASSUME c.control_mode = "simple"
               PROVE  /\ ReferenceOf(rev, "disable") = ReferenceOf(rev, "enable")
                      /\ ReferenceOf(rev, "reported") = ReferenceOf(rev, "enable")
    BY <1>9
  <2>1. c.enable.target = c.controlled /\ c.disable.target = c.controlled
    BY <1>3
  <2> QED
    BY <1>11, <2>1 DEF ReferenceOf
<1>15. ValidV2(rev)
  BY <1>12, <1>13, <1>14 DEF ValidV2, p
<1> QED
  BY <1>8, <1>15 DEF rev, c

(* Its references are entity ids. *)
LEMMA ConvertedIsReferable ==
    ASSUME NEW c, RuntimeConfig(c), ValidV2(Converted(c)), Convertible(c)
    PROVE  Referable(Converted(c))
<1> DEFINE rev == Converted(c)
<1>1. ASSUME NEW role \in Bound(rev)
      PROVE  ReferenceShape(ReferenceOf(rev, role)) /\ ReferenceOf(rev, role).quality = "EPHEMERAL"
  <2>1. PICK id : rev.bindings[role] = MigratedBinding(id) /\ id # None
    <3>1. c.temperature_entity # None /\ c.enable.target # None /\ c.disable.target # None
      BY NoneIsNoEntity DEF RuntimeConfig, ServiceCall, IsEntityId
    <3>2. c.control_mode = "simple" => c.controlled # None
      BY DEF Convertible
    <3>3. c.delivery_mode = "setpoint_assist" => c.actuator # None
      BY DEF RuntimeConfig
    <3> QED
      BY <3>1, <3>2, <3>3 DEF Converted, Bound, Roles
  <2>2. ReferenceOf(rev, role) = EphemeralReference(id)
    BY <2>1 DEF ReferenceOf, MigratedBinding
  <2> QED
    BY <2>1, <2>2 DEF EphemeralReference, ReferenceShape
<1> QED
  BY <1>1 DEF Referable

-----------------------------------------------------------------------------
(* WHAT IS ACCEPTED *)

(* What each stage has taken *)
AcceptedInv ==
    /\ stage \in {"entry", "legacy"} => revision = None /\ entry \in EntryInputs
    /\ stage = "legacy" =>
         LET d == Merged(entry.data, entry.options) IN AcceptsEntry(d) /\ before = EntryConfig(d)
    /\ stage \in {"legacy", "running"} => RuntimeConfig(before) /\ Sound(seen)
    /\ stage \in {"v2", "running"} => ReadyV2(revision, Entities)
    /\ stage = "draft" => Admitted(document)
    /\ stage = "draft" /\ before # None => RuntimeConfig(before) /\ Sound(seen) /\ ValidV2(revision)
    /\ AcceptedGoesThrough

(* It holds at first. *)
LEMMA AcceptedInit == UpgradeInit => AcceptedInv
<1> SUFFICES ASSUME UpgradeInit
             PROVE  AcceptedInv
  OBVIOUS
<1>1. stage \in {"entry", "v2", "authored"}
  BY DEF UpgradeInit
<1>2. AcceptedGoesThrough
  BY <1>1 DEF AcceptedGoesThrough
<1>3. stage = "entry" => revision = None /\ entry \in EntryInputs
  BY DEF UpgradeInit
<1>4. stage = "v2" => ReadyV2(revision, Entities)
  BY DEF UpgradeInit
<1> QED
  BY <1>1, <1>2, <1>3, <1>4 DEF AcceptedInv

(* A revision that is ready refers to what a document may refer to. *)
LEMMA ReadyIsReferable ==
    ASSUME NEW rev \in RevisionInputs
    PROVE  Referable(rev) /\ \A role \in Bound(rev) : ReferenceOf(rev, role) # None
<1>1. ASSUME NEW role \in Bound(rev)
      PROVE  /\ ReferenceShape(ReferenceOf(rev, role)) /\ ReferenceOf(rev, role) # None
             /\ Separate("main_heat_source", ReferenceOf(rev, role))
  <2>1. role \in Roles /\ rev.bindings[role] # None
    BY DEF Bound
  <2>2. ReferenceOf(rev, role) = rev.bindings[role].reference
    BY <2>1 DEF ReferenceOf
  <2> QED
    BY <2>1, <2>2, RevisionsHaveReferences, GivenNamesAreFree
<1> QED
  BY <1>1 DEF Referable

(* A valid revision converts when the client asks for nothing, unless an   *)
(* entity id of it is nobody's.                                            *)
LEMMA ConversionIsAccepted ==
    ASSUME NEW rev, rev # None, ValidV2(rev), Referable(rev), Converts(rev), Sound(entities)
    PROVE  /\ stage' \in {"draft", "unconverted"} /\ before' = before /\ seen' = seen
           /\ revision' = rev /\ revision' # None
           /\ stage' = "draft" => Admitted(document')
           /\ stage' = "unconverted" => SomeUnmatched' \/ AsksForIt'
<1>1. /\ stage' \in {"draft", "unconverted"} /\ before' = before /\ seen' = seen
      /\ revision' = rev /\ entities' = entities
      /\ stage' = "draft" => Admitted(document')
      /\ stage' = "unconverted" =>
           ~(AllStable(rev, requested', entities)
             /\ Admitted(Migrated(rev, Bindings(rev, requested', entities))))
  BY DEF Converts
<1>2. ASSUME stage' = "unconverted", ~AsksForIt'
      PROVE  SomeUnmatched'
  <2>1. requested' = NoRequest
    BY <1>2 DEF AsksForIt
  <2>2. ~AllStable(rev, NoRequest, entities)
    BY <1>1, <1>2, <2>1, ValidConverts
  <2>3. PICK role \in Bound(rev) : ~Stable(ResolvedBinding(rev, role, NoRequest, entities))
    BY <2>2 DEF AllStable
  <2> DEFINE r == ReferenceOf(rev, role)
  <2>4. NoRequest[role] = None
    BY DEF NoRequest, Bound
  <2>5. ReferenceShape(r) /\ (r.quality # "EPHEMERAL" => r # None)
    BY DEF Referable
  <2>6. r.quality = "EPHEMERAL"
    <3> SUFFICES ASSUME r.quality # "EPHEMERAL"
                 PROVE  FALSE
      OBVIOUS
    <3>1. ResolvedBinding(rev, role, NoRequest, entities) = r
      BY <2>4 DEF ResolvedBinding
    <3> HIDE DEF r
    <3> QED
      BY <2>3, <2>5, <3>1 DEF ReferenceShape, Stable
  <2>7. Exact(r, entities) = {}
    <3> SUFFICES ASSUME Exact(r, entities) # {}
                 PROVE  FALSE
      OBVIOUS
    <3>1. PICK e \in Exact(r, entities) :
            ResolvedBinding(rev, role, NoRequest, entities) = EntityReference(e)
      BY <2>4, <2>6 DEF ResolvedBinding
    <3>2. EntityReference(e) # None
      BY EntitiesAreSomething DEF Exact, Sound
    <3> QED
      BY <2>3, <3>1, <3>2, EntityReferenceIsStable DEF Stable
  <2> QED
    BY <1>1, <2>1, <2>4, <2>6, <2>7 DEF SomeUnmatched
<1> QED
  BY <1>1, <1>2

(* A conversion keeps it. *)
LEMMA AcceptedConversion ==
    ASSUME AcceptedInv, NEW rev, rev # None, ValidV2(rev), Referable(rev), Converts(rev), Sound(entities),
           before # None => RuntimeConfig(before) /\ Sound(seen)
    PROVE  AcceptedInv'
<1>1. /\ stage' \in {"draft", "unconverted"} /\ before' = before /\ seen' = seen
      /\ revision' = rev /\ revision' # None
      /\ stage' = "draft" => Admitted(document')
      /\ stage' = "unconverted" => SomeUnmatched' \/ AsksForIt'
  BY ConversionIsAccepted
<1>2. AcceptedGoesThrough'
  BY <1>1 DEF AcceptedGoesThrough
<1>3. before' # None => RuntimeConfig(before') /\ Sound(seen') /\ ValidV2(revision')
  BY <1>1
<1> QED
  BY <1>1, <1>2, <1>3 DEF AcceptedInv

(* A ready revision that is not missing an entity runs, unless it is       *)
(* beyond the runtime.                                                     *)
LEMMA RevisionIsAccepted ==
    ASSUME revision \in RevisionInputs, ReadyV2(revision, Entities), Sound(entities),
           ~CompilesV2(revision, entities)
    PROVE  \/ SomeMissing({ReferenceOf(revision, role) : role \in Bound(revision)})
           \/ RevisionBeyondTheRuntime(revision.payload)
<1> SUFFICES ASSUME ~SomeMissing({ReferenceOf(revision, role) : role \in Bound(revision)}),
                    ~RevisionBeyondTheRuntime(revision.payload)
             PROVE  FALSE
  OBVIOUS
<1>1. \A role \in Bound(revision) : ReferenceOf(revision, role) # None
  BY ReadyIsReferable
<1>2. \A role \in Bound(revision) : Resolved(ReferenceOf(revision, role), entities) # None
  BY <1>1 DEF SomeMissing
<1>3. ReadyV2(revision, entities)
  BY <1>1, <1>2, FirstRegistryIsSound, StaysReady
<1>4. RuntimeConfig(EffectiveConfig(revision, entities))
  BY <1>3, ReadyRuns
<1> QED
  BY <1>3, <1>4 DEF CompilesV2

(* An admitted document loads, but for the reasons named. *)
LEMMA DocumentIsAccepted ==
    ASSUME UpgradeInv, AcceptedInv, stage = "draft", ~CompilesV3(document, entities)
    PROVE  \/ SomeMissing({RequiredBindings(document)[path] :
                             path \in DOMAIN RequiredBindings(document)})
           \/ (before = None \/ AsksForIt) /\ DocumentBeyondTheRuntime(document)
<1> SUFFICES ASSUME ~SomeMissing({RequiredBindings(document)[path] :
                                    path \in DOMAIN RequiredBindings(document)})
             PROVE  (before = None \/ AsksForIt) /\ DocumentBeyondTheRuntime(document)
  OBVIOUS
<1>1. AllResolve(document, entities)
  BY DEF SomeMissing, AllResolve
<1>2. Admitted(document) /\ Sound(entities)
  BY DEF AcceptedInv, UpgradeInv
<1>3. DocumentBeyondTheRuntime(document)
  BY <1>1, <1>2, AdmittedRuns DEF CompilesV3
<1>4. ASSUME before # None, ~AsksForIt
      PROVE  FALSE
  <2>1. Origin(before, revision, seen) /\ MadeOf(document, revision, requested, taken)
    BY <1>4 DEF UpgradeInv
  <2>2. RuntimeConfig(before) /\ Sound(seen) /\ ValidV2(revision)
    BY <1>4 DEF AcceptedInv
  <2>3. requested = NoRequest
    BY <1>4 DEF AsksForIt
  <2> QED
    BY <1>1, <1>2, <1>3, <2>1, <2>2, <2>3, RanIsWithin
<1> QED
  BY <1>3, <1>4

(* Every step keeps it. *)
LEMMA AcceptedNext == UpgradeInv /\ AcceptedInv /\ [UpgradeNext]_upgradeVars => AcceptedInv'
<1> SUFFICES ASSUME UpgradeInv, AcceptedInv, [UpgradeNext]_upgradeVars
             PROVE  AcceptedInv'
  OBVIOUS
<1>0. Sound(entities)
  BY DEF UpgradeInv
<1>1. CASE LoadEntry
  <2> DEFINE d == Merged(entry.data, entry.options)
  <2>1. /\ revision = None /\ entry \in EntryInputs
        /\ revision' = revision /\ entry' = entry /\ seen' = entities
        /\ \/ stage' = "legacy" /\ AcceptsEntry(d) /\ before' = EntryConfig(d)
           \/ stage' = "refused"
    BY <1>1 DEF LoadEntry, AcceptedInv
  <2>2. AcceptedGoesThrough'
    BY <2>1 DEF AcceptedGoesThrough
  <2>3. stage' = "legacy" => RuntimeConfig(before') /\ Sound(seen')
    BY <1>0, <2>1 DEF AcceptsEntry
  <2> QED
    BY <2>1, <2>2, <2>3 DEF AcceptedInv
<1>2. CASE LoadRevision
  <2>1. /\ revision \in RevisionInputs /\ ReadyV2(revision, Entities)
        /\ revision' = revision /\ entities' = entities /\ seen' = entities
        /\ \/ /\ stage' = "running" /\ before' = EffectiveConfig(revision, entities)
              /\ CompilesV2(revision, entities)
           \/ stage' = "refused" /\ ~CompilesV2(revision, entities)
    BY <1>2 DEF LoadRevision, AcceptedInv, UpgradeInv
  <2>2. AcceptedGoesThrough'
    <3>1. stage' = "refused" =>
            \/ SomeMissing({ReferenceOf(revision, role) : role \in Bound(revision)})
            \/ RevisionBeyondTheRuntime(revision.payload)
      BY <1>0, <2>1, RevisionIsAccepted
    <3>2. SomeMissing({ReferenceOf(revision, role) : role \in Bound(revision)}) =>
            SomeMissing({ReferenceOf(revision, role) : role \in Bound(revision)})'
      BY <2>1 DEF SomeMissing
    <3>3. RevisionBeyondTheRuntime(revision.payload) => RevisionBeyondTheRuntime(revision.payload)'
      BY <2>1 DEF RevisionBeyondTheRuntime, BeyondTheRuntime
    <3> QED
      BY <2>1, <3>1, <3>2, <3>3 DEF AcceptedGoesThrough
  <2>3. stage' = "running" => RuntimeConfig(before') /\ Sound(seen')
    BY <1>0, <2>1 DEF CompilesV2
  <2> QED
    BY <2>1, <2>2, <2>3 DEF AcceptedInv
<1>3. CASE ConvertLegacy
  <2>1. /\ Convertible(before) /\ ValidV2(Converted(before)) /\ Converts(Converted(before))
        /\ RuntimeConfig(before) /\ Sound(seen)
    BY <1>3 DEF ConvertLegacy, AcceptedInv
  <2>2. Converted(before) # None
    BY <1>3, NoneIsNoRevision DEF ConvertLegacy, AcceptedInv
  <2>3. Referable(Converted(before))
    BY <2>1, ConvertedIsReferable
  <2> QED
    BY <1>0, <2>1, <2>2, <2>3, AcceptedConversion
<1>4. CASE ConversionFails
  <2>1. /\ stage' = "unconverted" /\ revision' = None /\ before' = before
        /\ ~(Convertible(before) /\ ValidV2(Converted(before)))
    BY <1>4 DEF ConversionFails, AcceptedInv
  <2>2. PICK d : AcceptsEntry(d) /\ before = EntryConfig(d)
    BY <1>4 DEF ConversionFails, AcceptedInv
  <2>3. before.delivery_mode = "unmanaged" /\ before.actuator # None
    BY <2>1, <2>2, EntryConverts
  <2>4. AcceptedGoesThrough'
    BY <2>1, <2>3 DEF AcceptedGoesThrough
  <2> QED
    BY <2>1, <2>4 DEF AcceptedInv
<1>5. CASE ConvertRevision
  <2>1. /\ stage \in {"v2", "running"} /\ Converts(revision)
        /\ revision \in RevisionInputs /\ ReadyV2(revision, Entities)
    BY <1>5 DEF ConvertRevision, AcceptedInv, UpgradeInv
  <2>2. revision # None /\ ValidV2(revision)
    BY <2>1, NoneIsNoRevision DEF ReadyV2
  <2>3. before # None => RuntimeConfig(before) /\ Sound(seen)
    BY <2>1 DEF AcceptedInv, UpgradeInv
  <2>4. Referable(revision)
    BY <2>1, ReadyIsReferable
  <2> QED
    BY <1>0, <2>1, <2>2, <2>3, <2>4, AcceptedConversion
<1>6. CASE WriteDocument
  <2>1. /\ before' = None /\ document' = document
        /\ \/ stage' = "draft" /\ Admitted(document)
           \/ stage' = "inadmissible"
    BY <1>6 DEF WriteDocument, UpgradeInv
  <2>2. AcceptedGoesThrough'
    BY <2>1 DEF AcceptedGoesThrough
  <2> QED
    BY <2>1, <2>2 DEF AcceptedInv
<1>7. CASE LoadDocument
  <2>1. /\ stage = "draft" /\ entities' = entities /\ document' = document /\ before' = before
        /\ requested' = requested
        /\ \/ stage' = "v3"
           \/ stage' = "uncompiled" /\ ~CompilesV3(document, entities)
    BY <1>7 DEF LoadDocument
  <2>2. AcceptedGoesThrough'
    <3>1. stage' = "uncompiled" =>
            \/ SomeMissing({RequiredBindings(document)[path] :
                              path \in DOMAIN RequiredBindings(document)})
            \/ (before = None \/ AsksForIt) /\ DocumentBeyondTheRuntime(document)
      BY <2>1, DocumentIsAccepted
    <3>2. SomeMissing({RequiredBindings(document)[path] : path \in DOMAIN RequiredBindings(document)}) =>
            SomeMissing({RequiredBindings(document)[path] : path \in DOMAIN RequiredBindings(document)})'
      BY <2>1 DEF SomeMissing
    <3>3. AsksForIt => AsksForIt'
      BY <2>1 DEF AsksForIt
    <3>4. DocumentBeyondTheRuntime(document) => DocumentBeyondTheRuntime(document)'
      BY <2>1 DEF DocumentBeyondTheRuntime, BeyondTheRuntime
    <3> QED
      BY <2>1, <3>1, <3>2, <3>3, <3>4 DEF AcceptedGoesThrough
  <2> QED
    BY <2>1, <2>2 DEF AcceptedInv
<1>8. CASE EntityChanges
  <2>1. /\ stage \in {"legacy", "v2", "running", "draft"} /\ stage' = stage
        /\ entry' = entry /\ revision' = revision /\ document' = document
        /\ before' = before /\ seen' = seen
    BY <1>8 DEF EntityChanges
  <2>2. AcceptedGoesThrough'
    BY <2>1 DEF AcceptedGoesThrough
  <2> QED
    BY <2>1, <2>2 DEF AcceptedInv
<1>9. CASE UNCHANGED upgradeVars
  <2>1. /\ entities' = entities /\ stage' = stage /\ entry' = entry /\ revision' = revision
        /\ document' = document /\ requested' = requested /\ before' = before /\ seen' = seen
    BY <1>9 DEF upgradeVars
  <2>2. AcceptedGoesThrough'
    <3>1. SomeUnmatched' = SomeUnmatched /\ AsksForIt' = AsksForIt
      BY <2>1 DEF SomeUnmatched, AsksForIt
    <3>2. DocumentBeyondTheRuntime(document)' = DocumentBeyondTheRuntime(document)
          /\ RevisionBeyondTheRuntime(revision.payload)' = RevisionBeyondTheRuntime(revision.payload)
      BY <2>1 DEF DocumentBeyondTheRuntime, RevisionBeyondTheRuntime, BeyondTheRuntime
    <3>3. /\ SomeMissing({ReferenceOf(revision, role) : role \in Bound(revision)})'
               = SomeMissing({ReferenceOf(revision, role) : role \in Bound(revision)})
          /\ SomeMissing({RequiredBindings(document)[path] : path \in DOMAIN RequiredBindings(document)})'
               = SomeMissing({RequiredBindings(document)[path] : path \in DOMAIN RequiredBindings(document)})
      BY <2>1 DEF SomeMissing
    <3> QED
      BY <2>1, <3>1, <3>2, <3>3 DEF AcceptedGoesThrough, AcceptedInv
  <2> QED
    BY <2>1, <2>2 DEF AcceptedInv
<1> QED
  BY <1>1, <1>2, <1>3, <1>4, <1>5, <1>6, <1>7, <1>8, <1>9 DEF UpgradeNext

(* What one stage took no later stage refuses: a configuration that ran    *)
(* converts, its document loads, and what the schemas admit the runtime    *)
(* takes, but for the exceptions that AcceptedGoesThrough names.           *)
(* (the validators of config.py, heating_setup_adapter.py, canonical_v3.py *)
(* and the conversions between them)                                       *)
THEOREM AcceptedIsNotRefusedLater == UpgradeSpec => []AcceptedGoesThrough
<1>1. UpgradeSpec => []UpgradeInv
  BY UpgradeInitInv, UpgradeNextInv, PTL DEF UpgradeSpec
<1>2. UpgradeSpec => []AcceptedInv
  BY <1>1, AcceptedInit, AcceptedNext, PTL DEF UpgradeSpec
<1>3. AcceptedInv => AcceptedGoesThrough
  BY DEF AcceptedInv
<1> QED
  BY <1>2, <1>3, PTL

-----------------------------------------------------------------------------
(* THE INDUCTIVE INVARIANT *)

AnyRevision == HeatingRevisions \cup WaterRevisions
States == {"prepared", "applying"} \cup Terminal
Attempts == [module : Modules, candidate : AnyRevision, previous : AnyRevision \cup {None},
             generation : Nat, ready : BOOLEAN, state : States]
References == [rev : AnyRevision \cup {None}, gen : Nat, op : Nat]
IsOpen(i) == attempts[i].state \notin Terminal
OpenOfWater == Interrupted("water")

OneIsOpen ==
    \A i, j \in DOMAIN attempts :
        attempts[i].module = attempts[j].module /\ IsOpen(i) /\ IsOpen(j) => i = j

(* A reference names the attempt that moved it. *)
ReferenceNamesAttempt == \A m \in Modules : active[m].op # 0 => active[m].op \in swapped

(* An attempt that moved a reference is committed, or will be found so. *)
SwapIsKnown ==
    \A i \in swapped : /\ attempts[i].state \notin {"rolled_back", "failed"}
                       /\ IsOpen(i) => Durable(i)

DurableInv ==
    /\ attempts \in Seq(Attempts)
    /\ active \in [Modules -> References]
    /\ swapped \subseteq DOMAIN attempts
    /\ OneIsOpen /\ ReferenceNamesAttempt /\ SwapIsKnown

(* The activation in progress: with an attempt of its own, or clearing     *)
(* those of others first.                                                  *)
Undone == {"restoring", "reloaded", "restored"}
HasAttempt ==
    /\ job.op \in DOMAIN attempts
    /\ job.module = attempts[job.op].module /\ job.rev = attempts[job.op].candidate
    /\ job.pc # "unprepared"
    /\ job.pc \in {"prepared", "applying", "loaded", "ready"} => job.op \notin swapped
    /\ job.pc \in {"swapped", "reconciling"} => job.op \in swapped
    /\ job.module = "heating" /\ job.pc \in Undone => job.op \notin swapped
Clears ==
    /\ job.module = "water" /\ job.rev \in WaterRevisions
    /\ job.pc \in Undone \cup {"unprepared"}
    /\ job.pc = "unprepared" => OpenOfWater = {}
    /\ OpenOfWater \subseteq job.todo

JobIsRecord ==
    job = [module |-> job.module, rev |-> job.rev, op |-> job.op, pc |-> job.pc,
           todo |-> job.todo, restored |-> job.restored]
JobInv == job # None => JobIsRecord /\ IF job.op = 0 THEN Clears ELSE HasAttempt

ActivationInv == DurableInv /\ JobInv

-----------------------------------------------------------------------------
(* WHAT A STEP DOES TO THE DURABLE DATA *)

AtomicStep == [Atomic!Next]_(Atomic!vars)

Nothing == UNCHANGED <<attempts, active, swapped>>

(* An attempt may be said to have ended only as its reference says. *)
Truthful(i, state) ==
    i \in DOMAIN attempts =>
        /\ state \in States
        /\ ~IsOpen(i) => state = attempts[i].state
        /\ IsOpen(i) => \/ state \notin Terminal
                        \/ i \in swapped /\ state = "committed"
                        \/ i \notin swapped /\ state \in {"rolled_back", "failed"}
Records(i, state) ==
    Truthful(i, state) /\ Transition(i, state) /\ UNCHANGED <<active, swapped>>

BecomesReady(i) ==
    /\ i \in DOMAIN attempts
    /\ attempts' = [attempts EXCEPT ![i].ready = TRUE]
    /\ UNCHANGED <<active, swapped>>

Opens(a) ==
    /\ a \in Attempts /\ a.state = "prepared" /\ Interrupted(a.module) = {}
    /\ attempts' = Append(attempts, a)
    /\ UNCHANGED <<active, swapped>>

Moves(i) ==
    /\ i \in DOMAIN attempts /\ i \notin swapped /\ attempts[i].state = "applying"
    /\ active[attempts[i].module].gen = attempts[i].generation
    /\ active' = [active EXCEPT ![attempts[i].module] =
                    [rev |-> attempts[i].candidate, gen |-> attempts[i].generation + 1, op |-> i]]
    /\ swapped' = swapped \cup {i}
    /\ UNCHANGED attempts

StillAtomic == DurableInv' /\ AtomicStep

LEMMA NothingIsKept == ASSUME DurableInv, Nothing PROVE StillAtomic
<1>1. DurableInv'
  BY DEF Nothing, DurableInv, OneIsOpen, ReferenceNamesAttempt, SwapIsKnown, IsOpen, Durable
<1>2. UNCHANGED Atomic!vars
  BY DEF Nothing, Atomic!vars, Fates, Selected
<1> QED
  BY <1>1, <1>2 DEF StillAtomic, AtomicStep

LEMMA RecordsIsKept ==
    ASSUME DurableInv, NEW i, NEW state, Records(i, state)
    PROVE  StillAtomic
<1>1. CASE i \notin DOMAIN attempts
  <2>1. attempts' = attempts
    BY <1>1 DEF Records, Transition, DurableInv
  <2> QED
    BY <2>1, NothingIsKept DEF Nothing, Records
<1>2. CASE i \in DOMAIN attempts
  <2>1. /\ state \in States
        /\ attempts \in Seq(Attempts) /\ attempts' = [attempts EXCEPT ![i].state = state]
        /\ active' = active /\ swapped' = swapped
    BY <1>2 DEF Records, Truthful, Transition, DurableInv
  <2>2. /\ DOMAIN attempts' = DOMAIN attempts
        /\ \A j \in DOMAIN attempts :
             /\ attempts'[j].module = attempts[j].module
             /\ attempts'[j].candidate = attempts[j].candidate
             /\ attempts'[j].state = IF j = i THEN state ELSE attempts[j].state
    BY <1>2, <2>1 DEF Attempts
  <2>3. DurableInv'
    <3>1. attempts' \in Seq(Attempts)
      <4> DEFINE a == [attempts[i] EXCEPT !.state = state]
      <4>1. attempts[i] \in Attempts
        BY <1>2, <2>1
      <4>2. a \in Attempts
        BY <2>1, <4>1 DEF Attempts
      <4>3. attempts' = [attempts EXCEPT ![i] = a]
        BY <2>1
      <4> QED
        BY <1>2, <2>1, <4>2, <4>3
    <3>2. OneIsOpen'
      BY <1>2, <2>2 DEF DurableInv, OneIsOpen, IsOpen, Records, Truthful
    <3>3. ReferenceNamesAttempt'
      BY <2>1 DEF DurableInv, ReferenceNamesAttempt
    <3>4. SwapIsKnown'
      BY <1>2, <2>1, <2>2 DEF DurableInv, SwapIsKnown, IsOpen, Durable, Records, Truthful, Terminal, States
    <3> QED
      BY <2>1, <2>2, <3>1, <3>2, <3>3, <3>4 DEF DurableInv
  <2>4. UNCHANGED Selected
    BY <2>1 DEF Selected
  <2>5. \A j \in DOMAIN attempts : j # i => Fates'[j] = Fates[j]
    BY <2>1, <2>2 DEF Fates
  <2>6. /\ DOMAIN Fates = DOMAIN attempts /\ DOMAIN Fates' = DOMAIN attempts
        /\ Fates[i] = [module |-> attempts[i].module, candidate |-> attempts[i].candidate,
                       fate |-> Fate(attempts[i].state, i \in swapped)]
        /\ Fates'[i] = [module |-> attempts[i].module, candidate |-> attempts[i].candidate,
                        fate |-> Fate(state, i \in swapped)]
    BY <1>2, <2>1, <2>2 DEF Fates
  <2>7. CASE Fate(state, i \in swapped) = Fate(attempts[i].state, i \in swapped)
    <3>1. Fates' = Fates
      BY <2>2, <2>5, <2>6, <2>7 DEF Fates
    <3> QED
      BY <2>3, <2>4, <3>1 DEF StillAtomic, AtomicStep, Atomic!vars
  <2>8. CASE Fate(state, i \in swapped) # Fate(attempts[i].state, i \in swapped)
    <3>1. /\ Fate(attempts[i].state, i \in swapped) = "open"
          /\ Fate(state, i \in swapped) = "aborted"
      BY <1>2, <2>1, <2>8 DEF Records, Truthful, IsOpen, Fate, States, Terminal
    <3>2. Fates' = [Fates EXCEPT ![i].fate = "aborted"]
      BY <1>2, <2>2, <2>5, <2>6, <3>1 DEF Fates
    <3>3. Atomic!Abort(i)
      BY <2>4, <2>6, <3>1, <3>2 DEF Atomic!Abort
    <3> QED
      BY <1>2, <2>3, <2>6, <3>3 DEF StillAtomic, AtomicStep, Atomic!Next
  <2> QED
    BY <2>7, <2>8
<1> QED
  BY <1>1, <1>2

LEMMA ReadyIsKept ==
    ASSUME DurableInv, NEW i, BecomesReady(i)
    PROVE  StillAtomic
<1>1. /\ i \in DOMAIN attempts /\ attempts \in Seq(Attempts)
      /\ attempts' = [attempts EXCEPT ![i].ready = TRUE]
      /\ active' = active /\ swapped' = swapped
  BY DEF BecomesReady, DurableInv
<1>2. /\ DOMAIN attempts' = DOMAIN attempts
      /\ \A j \in DOMAIN attempts :
           /\ attempts'[j].module = attempts[j].module
           /\ attempts'[j].candidate = attempts[j].candidate
           /\ attempts'[j].state = attempts[j].state
  BY <1>1 DEF Attempts
<1>3. attempts' \in Seq(Attempts)
  <2> DEFINE a == [attempts[i] EXCEPT !.ready = TRUE]
  <2>1. attempts[i] \in Attempts
    BY <1>1
  <2>2. a \in Attempts
    BY <2>1 DEF Attempts
  <2>3. attempts' = [attempts EXCEPT ![i] = a]
    BY <1>1
  <2> QED
    BY <1>1, <2>2, <2>3
<1>4. DurableInv'
  BY <1>1, <1>2, <1>3 DEF DurableInv, OneIsOpen, ReferenceNamesAttempt, SwapIsKnown, IsOpen, Durable
<1>5. UNCHANGED Atomic!vars
  BY <1>1, <1>2 DEF Atomic!vars, Fates, Selected
<1> QED
  BY <1>4, <1>5 DEF StillAtomic, AtomicStep

LEMMA OpensIsKept ==
    ASSUME DurableInv, NEW a, Opens(a)
    PROVE  StillAtomic
<1> DEFINE n == Len(attempts) + 1
<1>1. /\ attempts \in Seq(Attempts) /\ a \in Attempts /\ a.state = "prepared"
      /\ attempts' = Append(attempts, a) /\ active' = active /\ swapped' = swapped
      /\ swapped \subseteq DOMAIN attempts
  BY DEF Opens, DurableInv
<1>2. /\ n \notin DOMAIN attempts /\ DOMAIN attempts' = DOMAIN attempts \cup {n}
      /\ attempts'[n] = a /\ \A j \in DOMAIN attempts : attempts'[j] = attempts[j]
      /\ attempts' \in Seq(Attempts)
  BY <1>1
<1>3. \A j \in DOMAIN attempts : attempts[j].module = a.module => ~IsOpen(j)
  BY DEF Opens, Interrupted, IsOpen
<1> HIDE DEF n
<1>4. DurableInv'
  <2>1. OneIsOpen'
    BY <1>2, <1>3 DEF DurableInv, OneIsOpen, IsOpen
  <2>2. ReferenceNamesAttempt'
    BY <1>1 DEF DurableInv, ReferenceNamesAttempt
  <2>3. SwapIsKnown'
    BY <1>1, <1>2 DEF DurableInv, SwapIsKnown, IsOpen, Durable
  <2> QED
    BY <1>1, <1>2, <2>1, <2>2, <2>3 DEF DurableInv
<1>5. UNCHANGED Selected
  BY <1>1 DEF Selected
<1> DEFINE f == [module |-> a.module, candidate |-> a.candidate, fate |-> "open"]
<1>6. Fates' = Append(Fates, f)
  <2>1. /\ DOMAIN Fates = 1 .. Len(attempts) /\ Len(Fates) = Len(attempts)
        /\ Fates \in Seq([module : Modules, candidate : AnyRevision, fate : {"open", "committed", "aborted"}])
    <3>1. \A j \in 1 .. Len(attempts) :
             Fate(attempts[j].state, j \in swapped) \in {"open", "committed", "aborted"}
      <4> TAKE j \in 1 .. Len(attempts)
      <4> QED
        BY Zenon DEF Fate
    <3>2. DOMAIN attempts = 1 .. Len(attempts) /\ Len(attempts) \in Nat
      BY <1>1
    <3>3. \A j \in 1 .. Len(attempts) : attempts[j].module \in Modules /\ attempts[j].candidate \in AnyRevision
      <4>1. \A j \in 1 .. Len(attempts) : attempts[j] \in Attempts
        BY <1>1
      <4> QED
        BY <4>1 DEF Attempts
    <3> QED
      BY <3>1, <3>2, <3>3 DEF Fates
  <2>2. Fate("prepared", n \in swapped) = "open"
    BY <1>1, <1>2 DEF Fate
  <2>3. \A j \in DOMAIN attempts : Fates'[j] = Fates[j]
    BY <1>1, <1>2 DEF Fates
  <2>4. Fates'[n] = f /\ Fates' = [j \in 1 .. n |-> Fates'[j]]
    BY <1>1, <1>2, <2>2 DEF Fates, n
  <2> QED
    BY <1>1, <2>1, <2>3, <2>4 DEF n
<1>7. Atomic!Open(a.module, a.candidate)
  <2>1. \A i \in DOMAIN Fates : ~(Fates[i].module = a.module /\ Fates[i].fate = "open")
    BY <1>3 DEF Fates, Fate, IsOpen, Terminal
  <2> QED
    BY <1>5, <1>6, <2>1 DEF Atomic!Open
<1>8. n \in DOMAIN Fates' \ DOMAIN Fates /\ Fates'[n] = f
  BY <1>1, <1>2 DEF Fates, Fate
<1>9. Atomic!Next
  BY <1>7, <1>8 DEF Atomic!Next
<1> QED
  BY <1>4, <1>9 DEF StillAtomic, AtomicStep

LEMMA MovesIsKept ==
    ASSUME DurableInv, NEW i, Moves(i)
    PROVE  StillAtomic
<1>1. /\ attempts \in Seq(Attempts) /\ active \in [Modules -> References]
      /\ i \in DOMAIN attempts /\ i \notin swapped /\ attempts[i].state = "applying"
      /\ swapped' = swapped \cup {i} /\ attempts' = attempts
  BY DEF Moves, DurableInv
<1>2. /\ attempts[i].module \in Modules /\ attempts[i].candidate \in AnyRevision
      /\ attempts[i].generation \in Nat /\ i \in Nat
      /\ active[attempts[i].module].gen = attempts[i].generation
  <2>1. attempts[i] \in Attempts /\ i \in Nat
    BY <1>1
  <2> QED
    BY <2>1 DEF Attempts, Moves
<1> DEFINE m == attempts[i].module
           ref == [rev |-> attempts[i].candidate, gen |-> attempts[i].generation + 1, op |-> i]
<1>3. ref \in References /\ active' = [active EXCEPT ![m] = ref]
  BY <1>2 DEF References, Moves
<1>4. DurableInv'
  <2>1. OneIsOpen'
    BY <1>1 DEF DurableInv, OneIsOpen, IsOpen
  <2>2. ReferenceNamesAttempt'
    BY <1>1, <1>2, <1>3 DEF DurableInv, ReferenceNamesAttempt
  <2>3. SwapIsKnown'
    <3>1. \A j \in swapped : IsOpen(j) => attempts[j].module # m
      BY <1>1 DEF DurableInv, OneIsOpen, IsOpen, Terminal
    <3> QED
      BY <1>1, <1>2, <1>3, <3>1 DEF DurableInv, SwapIsKnown, IsOpen, Durable
  <2> QED
    BY <1>1, <1>2, <1>3, <2>1, <2>2, <2>3 DEF DurableInv
<1>5. /\ DOMAIN Fates = DOMAIN attempts /\ DOMAIN Fates' = DOMAIN attempts
      /\ \A j \in DOMAIN attempts : j # i => Fates'[j] = Fates[j]
  BY <1>1 DEF Fates
<1>6. /\ Fates[i] = [module |-> m, candidate |-> attempts[i].candidate, fate |-> "open"]
      /\ Fates'[i] = [module |-> m, candidate |-> attempts[i].candidate, fate |-> "committed"]
  BY <1>1 DEF Fates, Fate
<1>7. Fates' = [Fates EXCEPT ![i].fate = "committed"]
  BY <1>1, <1>5, <1>6 DEF Fates
<1>8. Selected' = [Selected EXCEPT ![m] = [rev |-> attempts[i].candidate, gen |-> @.gen + 1]]
  BY <1>1, <1>2, <1>3 DEF Selected
<1>9. Atomic!Commit(i)
  BY <1>6, <1>7, <1>8 DEF Atomic!Commit
<1> QED
  BY <1>1, <1>4, <1>5, <1>9 DEF StillAtomic, AtomicStep, Atomic!Next

-----------------------------------------------------------------------------
(* WHAT A STEP DOES TO THE ACTIVATION IN PROGRESS *)

SameAttempts ==
    /\ DOMAIN attempts' = DOMAIN attempts
    /\ \A i \in DOMAIN attempts : /\ attempts'[i].module = attempts[i].module
                                  /\ attempts'[i].candidate = attempts[i].candidate
                                  /\ ~IsOpen(i) => attempts'[i].state \in Terminal
    /\ swapped' = swapped

(* An activation keeps its candidate and its attempt. *)
SameJob == job' = [module |-> job.module, rev |-> job.rev, op |-> job.op, pc |-> job'.pc,
                   todo |-> job.todo, restored |-> job'.restored]

LEMMA NothingIsSame == ASSUME Nothing PROVE SameAttempts
  BY DEF Nothing, SameAttempts, IsOpen

LEMMA RecordsIsSame ==
    ASSUME DurableInv, NEW i, NEW state, Records(i, state)
    PROVE  SameAttempts
<1>1. CASE i \notin DOMAIN attempts
  <2>1. attempts' = attempts
    BY <1>1 DEF Records, Transition, DurableInv
  <2> QED
    BY <2>1 DEF Records, SameAttempts, IsOpen
<1>2. CASE i \in DOMAIN attempts
  <2>1. /\ attempts \in Seq(Attempts) /\ attempts' = [attempts EXCEPT ![i].state = state]
        /\ swapped' = swapped
    BY <1>2 DEF Records, Transition, DurableInv
  <2> QED
    BY <1>2, <2>1 DEF Attempts, SameAttempts, Records, Truthful, IsOpen
<1> QED
  BY <1>1, <1>2

LEMMA ReadyIsSame ==
    ASSUME DurableInv, NEW i, BecomesReady(i)
    PROVE  SameAttempts
  BY DEF DurableInv, BecomesReady, Attempts, SameAttempts, IsOpen

LEMMA OnlyCloses == ASSUME SameAttempts PROVE OpenOfWater' \subseteq OpenOfWater
  BY DEF SameAttempts, OpenOfWater, Interrupted, IsOpen

LEMMA JobGoesOn ==
    ASSUME JobInv, SameAttempts, job' = job
    PROVE  JobInv'
  BY OnlyCloses DEF JobInv, JobIsRecord, HasAttempt, Clears, SameAttempts

LEMMA NothingGoesOn ==
    ASSUME ActivationInv, Nothing, job' = job
    PROVE  StillAtomic /\ JobInv'
  BY NothingIsKept, NothingIsSame, JobGoesOn DEF ActivationInv

LEMMA NothingEnds ==
    ASSUME ActivationInv, Nothing, job' = None
    PROVE  StillAtomic /\ JobInv'
  BY NothingIsKept DEF ActivationInv, JobInv

(* recover_interrupted tells the truth, whatever it is told of the reload. *)
LEMMA RecoveredIsTruthful ==
    ASSUME DurableInv, NEW i, NEW rolledBack
    PROVE  Truthful(i, Recovered(i, rolledBack))
<1> SUFFICES ASSUME i \in DOMAIN attempts
             PROVE  Truthful(i, Recovered(i, rolledBack))
  BY DEF Truthful
<1>1. attempts[i] \in Attempts /\ i # 0
  BY DEF DurableInv
<1>2. attempts[i].state \in States /\ attempts[i].module \in Modules
  BY <1>1 DEF Attempts
<1>3. Durable(i) => i \in swapped
  BY <1>1, <1>2 DEF DurableInv, ReferenceNamesAttempt, Durable
<1>4. i \in swapped /\ IsOpen(i) => Durable(i)
  BY DEF DurableInv, SwapIsKnown
<1> QED
  BY <1>2, <1>3, <1>4 DEF Truthful, Recovered, IsOpen, Terminal, States

LEMMA RecoveredIsTerminal ==
    ASSUME NEW i, NEW rolledBack
    PROVE  Recovered(i, rolledBack) \in Terminal
  BY DEF Recovered, Terminal

LEMMA NotesWhatHappened ==
    ASSUME ActivationInv, NEW i, NEW state, Records(i, state), job' = job \/ job' = None
    PROVE  StillAtomic /\ JobInv'
<1>1. CASE job' = job
  BY <1>1, RecordsIsKept, RecordsIsSame, JobGoesOn DEF ActivationInv
<1>2. CASE job' = None
  BY <1>2, RecordsIsKept DEF ActivationInv, JobInv
<1> QED
  BY <1>1, <1>2

(* A new activation, with its attempt. *)
LEMMA OpensAttempt ==
    ASSUME DurableInv, NEW a, Opens(a), NEW todo, NEW restored,
           job' = [module |-> a.module, rev |-> a.candidate, op |-> Len(attempts) + 1,
                   pc |-> "prepared", todo |-> todo, restored |-> restored]
    PROVE  StillAtomic /\ JobInv'
<1> DEFINE n == Len(attempts) + 1
<1>1. /\ n \in DOMAIN attempts' /\ n # 0 /\ n \notin swapped' /\ attempts'[n] = a
    BY DEF DurableInv, Opens
<1>2. HasAttempt'
  BY <1>1 DEF HasAttempt, Undone
<1>3. JobInv'
  BY <1>1, <1>2 DEF JobInv, JobIsRecord
<1> QED
  BY <1>3, OpensIsKept

(* An activation with an attempt goes on, or begins to undo it. *)
LEMMA AttemptGoesOn ==
    ASSUME JobInv, job # None, HasAttempt, job.op # 0, SameAttempts, SameJob,
           job'.pc # "unprepared",
           job'.pc \in {"prepared", "applying", "loaded", "ready"} => job.op \notin swapped,
           job'.pc \in {"swapped", "reconciling"} => job.op \in swapped,
           job.module = "heating" /\ job'.pc \in Undone => job.op \notin swapped
    PROVE  JobInv'
<1>1. /\ job'.op = job.op /\ job'.module = job.module /\ job'.rev = job.rev
      /\ job'.todo = job.todo /\ swapped' = swapped
  BY DEF SameJob, SameAttempts
<1>2. HasAttempt'
  BY <1>1 DEF HasAttempt, SameAttempts, Undone
<1>3. JobIsRecord'
  BY <1>1 DEF SameJob, JobIsRecord
<1> QED
  BY <1>1, <1>2, <1>3 DEF JobInv

-----------------------------------------------------------------------------
(* THE STEPS *)

LEMMA StepsAroundActivations ==
    ASSUME ActivationInv,
           \/ Start \/ ReloadAlone \/ SetupStep \/ Crash \/ UNCHANGED vars
           \/ \E r : RequestHeating(r) \/ RequestWater(r) \/ RequestWaterByCommand(r)
    PROVE  StillAtomic /\ JobInv'
<1>1. CASE Start \/ ReloadAlone \/ ListHeatingAttempts \/ HeatingRecovered \/ ListWaterAttempts
  <2>1. Nothing /\ job' = job
    BY <1>1 DEF Start, ReloadAlone, ListHeatingAttempts, HeatingRecovered, ListWaterAttempts,
                durable, history, Nothing
  <2> QED
    BY <2>1, NothingGoesOn
<1>2. CASE RecoverHeatingAttempt
  <2> DEFINE i == NextOf(setup.todo)
  <2>1. /\ active' = active /\ swapped' = swapped /\ job' = job
        /\ attempts' = attempts \/ Transition(i, Recovered(i, LoadedPredecessor(i)))
    BY <1>2 DEF RecoverHeatingAttempt, history
  <2>2. CASE attempts' = attempts
    BY <2>1, <2>2, NothingGoesOn DEF Nothing
  <2>3. CASE Transition(i, Recovered(i, LoadedPredecessor(i)))
    <3> DEFINE state == Recovered(i, LoadedPredecessor(i))
    <3>1. Truthful(i, state)
      BY RecoveredIsTruthful, Zenon DEF ActivationInv
    <3> HIDE DEF state
    <3>2. Records(i, state)
      BY <2>1, <2>3, <3>1 DEF Records, state
    <3> QED
      BY <2>1, <3>2, NotesWhatHappened
  <2> QED
    BY <2>1, <2>2, <2>3
<1>3. CASE RecoverWaterAttempt
  <2> DEFINE i == NextOf(setup.todo)
  <2>1. /\ active' = active /\ swapped' = swapped /\ job' = job
        /\ attempts' = attempts \/ Transition(i, Recovered(i, WaterPredecessor(i)))
    BY <1>3 DEF RecoverWaterAttempt, history
  <2>2. CASE attempts' = attempts
    BY <2>1, <2>2, NothingGoesOn DEF Nothing
  <2>3. CASE Transition(i, Recovered(i, WaterPredecessor(i)))
    <3> DEFINE state == Recovered(i, WaterPredecessor(i))
    <3>1. Truthful(i, state)
      BY RecoveredIsTruthful, Zenon DEF ActivationInv
    <3> HIDE DEF state
    <3>2. Records(i, state)
      BY <2>1, <2>3, <3>1 DEF Records, state
    <3> QED
      BY <2>1, <3>2, NotesWhatHappened
  <2> QED
    BY <2>1, <2>2, <2>3
<1>4. CASE Crash
  BY <1>4, NothingEnds DEF Crash, durable, history, Nothing
<1>5. ASSUME NEW r, RequestHeating(r) \/ RequestWater(r) \/ RequestWaterByCommand(r)
      PROVE  StillAtomic /\ JobInv'
  <2>1. Nothing /\ job' = job
    BY <1>5 DEF RequestHeating, RequestWater, RequestWaterByCommand, durable, history, Nothing
  <2> QED
    BY <2>1, NothingGoesOn
<1>6. CASE UNCHANGED vars
  BY <1>6, NothingGoesOn DEF vars, durable, history, Nothing
<1> QED
  BY <1>1, <1>2, <1>3, <1>4, <1>5, <1>6 DEF SetupStep

LEMMA BeginningOfAnActivation ==
    ASSUME ActivationInv, BeginHeating \/ BeginWater \/ PrepareWater
    PROVE  StillAtomic /\ JobInv'
<1>1. active \in [Modules -> References] /\ "heating" \in Modules /\ "water" \in Modules
  BY DEF ActivationInv, DurableInv, Modules
<1>2. CASE BeginHeating
  <2>1. PICK q \in waiting :
          /\ q.module = "heating" /\ job = None
          /\ \/ attempts' = attempts /\ job' = job
             \/ /\ ~HeatingRefused(q) /\ Interrupted("heating") = {} /\ Prepared(q)
                /\ job' = Job(q, Len(attempts) + 1, "prepared", {})
             \/ attempts' = attempts /\ job' = job
    BY <1>2 DEF BeginHeating, LockFree
  <2>2. active' = active /\ swapped' = swapped
    BY <1>2 DEF BeginHeating, history
  <2>3. CASE attempts' = attempts /\ job' = job
    BY <2>2, <2>3, NothingGoesOn DEF Nothing
  <2>4. CASE /\ ~HeatingRefused(q) /\ Interrupted("heating") = {} /\ Prepared(q)
             /\ job' = Job(q, Len(attempts) + 1, "prepared", {})
    <3> DEFINE a == [module |-> q.module, candidate |-> q.rev, previous |-> active[q.module].rev,
                     generation |-> active[q.module].gen, ready |-> FALSE, state |-> "prepared"]
    <3>1. q.rev \in HeatingRevisions /\ active[q.module] \in References
      BY <1>1, <2>1, <2>4 DEF HeatingRefused
    <3>2. a \in Attempts
      BY <1>1, <2>1, <3>1 DEF Attempts, References, AnyRevision, States
    <3>3. Opens(a)
      BY <2>1, <2>2, <2>4, <3>2 DEF Opens, Prepared
    <3>4. job' = [module |-> a.module, rev |-> a.candidate, op |-> Len(attempts) + 1,
                  pc |-> "prepared", todo |-> {}, restored |-> FALSE]
      BY <2>4 DEF Job
    <3> HIDE DEF a
    <3> QED
      BY <3>3, <3>4, OpensAttempt DEF ActivationInv
  <2> QED
    BY <2>1, <2>3, <2>4
<1>3. CASE BeginWater
  <2>1. PICK q \in waiting :
          /\ q.module = "water"
          /\ job' = IF q.rev \notin WaterRevisions THEN None
                    ELSE Job(q, 0, IF OpenOfWater = {} THEN "unprepared" ELSE "restoring", OpenOfWater)
    BY <1>3 DEF BeginWater, OpenOfWater
  <2>2. Nothing
    BY <1>3 DEF BeginWater, durable, history, Nothing
  <2>3. CASE q.rev \notin WaterRevisions
    BY <2>1, <2>2, <2>3, NothingEnds
  <2>4. CASE q.rev \in WaterRevisions
    <3>1. /\ job'.module = "water" /\ job'.rev \in WaterRevisions /\ job'.op = 0
          /\ job'.pc = IF OpenOfWater = {} THEN "unprepared" ELSE "restoring"
          /\ job'.todo = OpenOfWater /\ JobIsRecord'
      BY <2>1, <2>4 DEF Job, JobIsRecord
    <3>2. OpenOfWater' = OpenOfWater
      BY <2>2 DEF Nothing, OpenOfWater, Interrupted
    <3>3. Clears'
      BY <3>1, <3>2 DEF Clears, Undone
    <3> QED
      BY <2>2, <3>1, <3>3, NothingIsKept DEF ActivationInv, JobInv
  <2> QED
    BY <2>3, <2>4
<1>4. CASE PrepareWater
  <2>1. /\ job # None /\ job.pc = "unprepared" /\ job.op = 0
        /\ job.module = "water" /\ job.rev \in WaterRevisions /\ OpenOfWater = {} /\ JobIsRecord
    BY <1>4 DEF PrepareWater, At, ActivationInv, JobInv, HasAttempt, Clears
  <2>2. active' = active /\ swapped' = swapped
    BY <1>4 DEF PrepareWater, history
  <2>3. CASE job' = None /\ attempts' = attempts
    BY <2>2, <2>3, NothingEnds DEF Nothing
  <2>4. CASE Prepared(job) /\ job' = [job EXCEPT !.op = Len(attempts) + 1, !.pc = "prepared"]
    <3> DEFINE a == [module |-> job.module, candidate |-> job.rev,
                     previous |-> active[job.module].rev, generation |-> active[job.module].gen,
                     ready |-> FALSE, state |-> "prepared"]
    <3>1. a \in Attempts
      <4>1. active["water"] \in References
        BY <1>1
      <4> QED
        BY <1>1, <2>1, <4>1 DEF Attempts, References, AnyRevision, States
    <3>2. Opens(a)
      BY <2>1, <2>2, <2>4, <3>1 DEF Opens, Prepared, OpenOfWater
    <3>3. job' = [module |-> a.module, rev |-> a.candidate, op |-> Len(attempts) + 1,
                  pc |-> "prepared", todo |-> job.todo, restored |-> job.restored]
      BY <2>1, <2>4 DEF JobIsRecord
    <3> HIDE DEF a
    <3> QED
      BY <3>2, <3>3, OpensAttempt DEF ActivationInv
  <2> QED
    BY <1>4, <2>3, <2>4 DEF PrepareWater
<1> QED
  BY <1>2, <1>3, <1>4

(* The steps with an attempt that has not moved the reference yet. *)
LEMMA ApplicationOfACandidate ==
    ASSUME ActivationInv, BeginApplying \/ HandOver \/ RecordReady
    PROVE  StillAtomic /\ JobInv'
<1>1. /\ job # None /\ job.op # 0 /\ HasAttempt /\ JobIsRecord /\ job.op \notin swapped
      /\ job.pc \in {"prepared", "applying", "loaded"}
  BY DEF BeginApplying, HandOver, RecordReady, At, ActivationInv, JobInv, Clears, HasAttempt, Undone
<1>2. active' = active /\ swapped' = swapped
  BY DEF BeginApplying, HandOver, RecordReady, durable, history
<1>3. attempts[job.op] \in Attempts /\ job.op \in DOMAIN attempts
  BY <1>1 DEF ActivationInv, DurableInv, HasAttempt
<1>4. ASSUME NEW pc, pc \in {"applying", "loaded", "ready", "restoring"}, Goto(pc), SameAttempts
      PROVE  JobInv'
  <2>1. SameJob /\ job'.pc = pc
    BY <1>1, <1>4 DEF Goto, SameJob, JobIsRecord
  <2> QED
    BY <1>1, <1>4, <2>1, AttemptGoesOn DEF ActivationInv, Undone
<1>5. CASE attempts' = attempts
  <2>1. Nothing /\ SameAttempts
    BY <1>2, <1>5, NothingIsSame DEF Nothing
  <2>2. job' = None \/ Goto("restoring") \/ Goto("loaded") \/ Goto("applying") \/ Goto("ready")
    BY DEF BeginApplying, HandOver, RecordReady, NotApplied, Finish, GiveUp
  <2> QED
    BY <1>4, <2>1, <2>2, NothingEnds, NothingIsKept DEF ActivationInv
<1>6. CASE /\ Attempt.state = "prepared" /\ Transition(job.op, "applying") /\ Goto("applying")
  <2>1. Records(job.op, "applying")
    BY <1>2, <1>3, <1>6 DEF Records, Truthful, IsOpen, Attempt, Terminal, States
  <2> QED
    BY <1>4, <1>6, <2>1, RecordsIsKept, RecordsIsSame DEF ActivationInv
<1>7. CASE attempts' = [attempts EXCEPT ![job.op].ready = TRUE] /\ Goto("ready")
  <2>1. BecomesReady(job.op)
    BY <1>2, <1>3, <1>7 DEF BecomesReady
  <2> QED
    BY <1>4, <1>7, <2>1, ReadyIsKept, ReadyIsSame DEF ActivationInv
<1> QED
  BY <1>5, <1>6, <1>7 DEF BeginApplying, HandOver, RecordReady, durable

LEMMA MovingTheReference ==
    ASSUME ActivationInv, Swap \/ RecordCommitted \/ Reconcile
    PROVE  StillAtomic /\ JobInv'
<1>1. /\ job # None /\ job.op # 0 /\ HasAttempt /\ JobIsRecord
      /\ job.pc \in {"ready", "swapped", "reconciling"}
  BY DEF Swap, RecordCommitted, Reconcile, At, ActivationInv, JobInv, Clears, HasAttempt, Undone
<1>2. attempts[job.op] \in Attempts /\ job.op \in DOMAIN attempts
  BY <1>1 DEF ActivationInv, DurableInv, HasAttempt
<1>3. ASSUME NEW pc, Goto(pc)
      PROVE  SameJob /\ job'.pc = pc
  BY <1>1, <1>3 DEF Goto, SameJob, JobIsRecord
<1>4. CASE Swap
  <2>1. job.op \notin swapped /\ job.pc = "ready" /\ attempts' = attempts
    BY <1>1, <1>4 DEF Swap, At, HasAttempt
  <2>2. CASE MaySwap
    <3>1. /\ attempts[job.op].state = "applying"
          /\ active[attempts[job.op].module].gen = attempts[job.op].generation
          /\ attempts[job.op].module = job.module /\ attempts[job.op].candidate = job.rev
      BY <1>1, <2>2 DEF MaySwap, Attempt, HasAttempt
    <3>2. /\ active' = [active EXCEPT ![job.module] =
                          [rev |-> job.rev, gen |-> attempts[job.op].generation + 1, op |-> job.op]]
          /\ swapped' = swapped \cup {job.op} /\ Goto("swapped")
      BY <1>4, <2>2 DEF Swap, Attempt
    <3>3. Moves(job.op)
      BY <1>2, <2>1, <3>1, <3>2 DEF Moves
    <3>4. HasAttempt' /\ JobIsRecord'
      <4>1. /\ job'.op = job.op /\ job'.module = job.module /\ job'.rev = job.rev
            /\ job'.pc = "swapped" /\ job.op \in swapped' /\ JobIsRecord'
        BY <1>1, <1>3, <3>2 DEF SameJob, JobIsRecord
      <4> QED
        BY <1>1, <2>1, <4>1 DEF HasAttempt, Undone
    <3>5. job'.op # 0
      BY <1>1, <1>3, <3>2 DEF SameJob
    <3> QED
      BY <3>3, <3>4, <3>5, MovesIsKept DEF ActivationInv, JobInv
  <2>3. CASE ~MaySwap
    <3>1. Nothing /\ Goto("restoring")
      BY <1>4, <2>3 DEF Swap, GiveUp, Nothing
    <3> QED
      BY <1>1, <1>3, <2>1, <3>1, NothingIsKept, NothingIsSame, AttemptGoesOn DEF ActivationInv, Undone
  <2> QED
    BY <2>2, <2>3
<1>5. CASE RecordCommitted
  <2>1. job.op \in swapped /\ active' = active /\ swapped' = swapped
    BY <1>1, <1>5 DEF RecordCommitted, At, HasAttempt, history
  <2>2. CASE Transition(job.op, "committed") /\ job' = None
    <3>1. attempts[job.op].state \notin {"rolled_back", "failed"}
      BY <2>1 DEF ActivationInv, DurableInv, SwapIsKnown
    <3>2. Truthful(job.op, "committed")
      BY <1>2, <2>1, <3>1 DEF Truthful, IsOpen, Terminal, States
    <3>3. Records(job.op, "committed")
      BY <2>1, <2>2, <3>2 DEF Records
    <3> QED
      BY <2>2, <3>3, NotesWhatHappened
  <2>3. CASE Goto("reconciling") /\ attempts' = attempts
    <3>1. Nothing
      BY <2>1, <2>3 DEF Nothing
    <3> QED
      BY <1>1, <1>3, <2>1, <2>3, <3>1, NothingIsKept, NothingIsSame, AttemptGoesOn
         DEF ActivationInv, Undone
  <2> QED
    BY <1>5, <2>2, <2>3 DEF RecordCommitted, Finish
<1>6. CASE Reconcile
  <2>1. job.op \in swapped /\ active' = active /\ swapped' = swapped
    BY <1>1, <1>6 DEF Reconcile, At, HasAttempt, history
  <2>2. CASE Transition(job.op, Recovered(job.op, FALSE)) /\ job' = None
    <3> DEFINE state == Recovered(job.op, FALSE)
    <3>1. Truthful(job.op, state)
      BY RecoveredIsTruthful DEF ActivationInv
    <3> HIDE DEF state
    <3>2. Records(job.op, state)
      BY <2>1, <2>2, <3>1 DEF Records, state
    <3> QED
      BY <2>2, <3>2, NotesWhatHappened
  <2>3. CASE job.module = "water" /\ Goto("restoring") /\ attempts' = attempts
    <3>1. Nothing
      BY <2>1, <2>3 DEF Nothing
    <3> QED
      BY <1>1, <1>3, <2>1, <2>3, <3>1, NothingIsKept, NothingIsSame, AttemptGoesOn
         DEF ActivationInv, Undone
  <2>4. CASE job' = None /\ attempts' = attempts
    BY <2>1, <2>4, NothingEnds DEF Nothing
  <2>5. job.module \in Modules
    BY <1>1, <1>2 DEF HasAttempt, Attempts
  <2> QED
    BY <1>6, <2>2, <2>3, <2>4, <2>5 DEF Reconcile, Finish, GiveUp, Modules
<1> QED
  BY <1>4, <1>5, <1>6

LEMMA UndoingAnActivation ==
    ASSUME ActivationInv, Restore \/ Quiesce
    PROVE  StillAtomic /\ JobInv'
<1>1. /\ job # None /\ job.pc \in {"restoring", "reloaded"} /\ JobIsRecord /\ Nothing
  BY DEF Restore, Quiesce, At, ActivationInv, JobInv, durable, history, Nothing
<1>2. \E restored : \/ job' = [job EXCEPT !.pc = "reloaded", !.restored = restored]
                     \/ job' = [job EXCEPT !.pc = "restored", !.restored = restored]
  BY Zenon DEF Restore, Quiesce
<1>3. SameJob /\ job'.pc \in Undone
  BY <1>1, <1>2 DEF SameJob, JobIsRecord, Undone
<1>4. SameAttempts /\ StillAtomic
  BY <1>1, NothingIsSame, NothingIsKept DEF ActivationInv
<1>5. CASE job.op # 0
  <2>1. HasAttempt
    BY <1>1, <1>5 DEF ActivationInv, JobInv
  <2>2. job.module = "heating" => job.op \notin swapped
    BY <1>1, <2>1 DEF HasAttempt, Undone
  <2> QED
    BY <1>1, <1>3, <1>4, <1>5, <2>1, <2>2, AttemptGoesOn DEF ActivationInv, Undone
<1>6. CASE job.op = 0
  <2>1. Clears
    BY <1>1, <1>6 DEF ActivationInv, JobInv
  <2>2. OpenOfWater' \subseteq OpenOfWater
    BY <1>4, OnlyCloses
  <2>3. /\ job'.module = job.module /\ job'.rev = job.rev /\ job'.op = 0
        /\ job'.todo = job.todo /\ JobIsRecord'
    BY <1>3, <1>6 DEF SameJob, JobIsRecord
  <2>4. Clears'
    BY <1>3, <2>1, <2>2, <2>3 DEF Clears, Undone
  <2> QED
    BY <1>4, <2>3, <2>4 DEF JobInv
<1> QED
  BY <1>5, <1>6

(* What a rollback records is true: an attempt that moved the reference is *)
(* found committed, whatever the reload of its predecessor came to.        *)
LEMMA RecordingAFailure ==
    ASSUME ActivationInv, RecordFailure
    PROVE  StillAtomic /\ JobInv'
<1>1. /\ job # None /\ job.op # 0 /\ job.pc = "restored" /\ HasAttempt
      /\ active' = active /\ swapped' = swapped /\ job' = None
  BY DEF RecordFailure, At, ActivationInv, JobInv, history, Finish
<1>2. attempts[job.op] \in Attempts /\ job.op \in DOMAIN attempts
  BY <1>1 DEF ActivationInv, DurableInv, HasAttempt
<1>3. job.module \in Modules /\ attempts[job.op].state \in States
  BY <1>1, <1>2 DEF HasAttempt, Attempts
<1>4. CASE attempts' = attempts
  BY <1>1, <1>4, NothingEnds DEF Nothing
<1>5. CASE Transition(job.op, RecordedFailure)
  <2>1. Truthful(job.op, RecordedFailure)
    <3>1. CASE Attempt.state = "applying" /\ ~(job.module = "water" /\ Durable(job.op))
      <4>1. job.op \notin swapped
        <5>1. job.module = "heating" => job.op \notin swapped
          BY <1>1 DEF HasAttempt, Undone
        <5>2. job.op \in swapped => Durable(job.op)
          BY <3>1 DEF ActivationInv, DurableInv, SwapIsKnown, IsOpen, Attempt, Terminal
        <5> QED
          BY <1>3, <3>1, <5>1, <5>2 DEF Modules
      <4>2. RecordedFailure \in {"rolled_back", "failed"}
        BY <3>1 DEF RecordedFailure
      <4> QED
        BY <3>1, <4>1, <4>2 DEF Truthful, IsOpen, Attempt, Terminal, States
    <3>2. CASE ~(Attempt.state = "applying" /\ ~(job.module = "water" /\ Durable(job.op)))
      <4>1. CASE job.module = "water"
        <5>1. RecordedFailure = Recovered(job.op, job.restored)
          BY <3>2, <4>1 DEF RecordedFailure
        <5> QED
          BY <5>1, RecoveredIsTruthful DEF ActivationInv
      <4>2. CASE job.module # "water"
        BY <1>3, <3>2, <4>2 DEF RecordedFailure, Attempt, Truthful, IsOpen
      <4> QED
        BY <4>1, <4>2
    <3> QED
      BY <3>1, <3>2
  <2>2. Records(job.op, RecordedFailure)
    BY <1>1, <1>5, <2>1 DEF Records
  <2> QED
    BY <1>1, <2>2, NotesWhatHappened
<1> QED
  BY <1>4, <1>5 DEF RecordFailure

LEMMA ClearingAnAttempt ==
    ASSUME ActivationInv, ClearAttempt
    PROVE  StillAtomic /\ JobInv'
<1> DEFINE i == NextOf(job.todo)
           state == Recovered(i, job.restored /\ WaterPredecessor(i))
<1>1. /\ job # None /\ job.op = 0 /\ job.pc = "restored" /\ Clears /\ JobIsRecord
      /\ active' = active /\ swapped' = swapped
  BY DEF ClearAttempt, At, ActivationInv, JobInv, history
<1>2. CASE job' = None /\ attempts' = attempts
  BY <1>1, <1>2, NothingEnds DEF Nothing
<1>3. CASE /\ Transition(i, state)
           /\ job' = [job EXCEPT !.todo = @ \ {i},
                                 !.pc = IF job.todo = {i} THEN "unprepared" ELSE @]
  <2>1. Truthful(i, state) /\ state \in Terminal
    BY RecoveredIsTruthful, RecoveredIsTerminal, Zenon DEF ActivationInv
  <2> HIDE DEF i, state
  <2>2. Records(i, state)
    BY <1>1, <1>3, <2>1 DEF Records
  <2>3. StillAtomic /\ SameAttempts
    BY <2>2, RecordsIsKept, RecordsIsSame DEF ActivationInv
  <2>4. OpenOfWater' \subseteq OpenOfWater \ {i}
    <3>1. i \in DOMAIN attempts => attempts'[i].state = state
      <4>1. attempts \in Seq(Attempts)
        BY DEF ActivationInv, DurableInv
      <4>2. i \in DOMAIN attempts => attempts[i] \in Attempts
        BY <4>1
      <4> QED
        BY <1>3, <4>1, <4>2 DEF Transition, Attempts
    <3> QED
      BY <2>1, <2>3, <3>1, OnlyCloses DEF OpenOfWater, Interrupted, SameAttempts
  <2>5. /\ job'.module = job.module /\ job'.rev = job.rev /\ job'.op = 0
        /\ job'.todo = job.todo \ {i}
        /\ job'.pc = IF job.todo = {i} THEN "unprepared" ELSE "restored"
        /\ JobIsRecord'
    BY <1>1, <1>3 DEF JobIsRecord
  <2>6. Clears'
    BY <1>1, <2>4, <2>5 DEF Clears, Undone
  <2> QED
    BY <2>3, <2>5, <2>6 DEF JobInv
<1> QED
  BY <1>2, <1>3 DEF ClearAttempt

-----------------------------------------------------------------------------
(* THE THEOREM *)

LEMMA InitIsAtomic == Init => ActivationInv /\ Atomic!Init
<1> SUFFICES ASSUME Init PROVE ActivationInv /\ Atomic!Init
  OBVIOUS
<1>1. \A m \in Modules : active[m] \in FirstReferences(m)
  BY DEF Init, FirstReferences
<1>2. \A m \in Modules : FirstReferences(m) \subseteq References /\ \A r \in FirstReferences(m) : r.op = 0
  BY DEF FirstReferences, NoReference, References, AnyRevision, Revisions, Modules
<1>3. active \in [Modules -> References]
  BY <1>1, <1>2 DEF Init
<1>4. DurableInv /\ JobInv
  BY <1>1, <1>2, <1>3 DEF Init, DurableInv, OneIsOpen, ReferenceNamesAttempt, SwapIsKnown, JobInv
<1>5. Fates = << >>
  BY DEF Init, Fates
<1>6. \A m \in DOMAIN Selected : Selected[m] = [rev |-> None, gen |-> 0] \/ Selected[m].gen = 1
  BY <1>1 DEF Selected, FirstReferences, NoReference
<1> QED
  BY <1>4, <1>5, <1>6 DEF ActivationInv, Atomic!Init

LEMMA EveryStepIsAtomic ==
    ActivationInv /\ [Next]_vars => ActivationInv' /\ AtomicStep
<1> SUFFICES ASSUME ActivationInv, [Next]_vars PROVE StillAtomic /\ JobInv'
  BY DEF ActivationInv, StillAtomic
<1> QED
  BY StepsAroundActivations, BeginningOfAnActivation, ApplicationOfACandidate, MovingTheReference,
     UndoingAnActivation, RecordingAFailure, ClearingAnAttempt
  DEF Next, JobStep

(* Activations are atomic (docs/architecture/09_Setup_Discovery_and_       *)
(* Import.md; application/setup/activation.py): for every set of           *)
(* revisions, any number of activations, restarts of the process, reloads  *)
(* and failed starts, stops and writes, the reference of a module moves    *)
(* only for its one open attempt, once and one generation further, and     *)
(* the recovery of that attempt, on whichever path, never says otherwise.  *)
THEOREM ActivationIsAtomic == Spec => ImplementsAtomicActivation
<1> QED
  BY InitIsAtomic, EveryStepIsAtomic, PTL
  DEF Spec, ImplementsAtomicActivation, Atomic!Spec, AtomicStep

-----------------------------------------------------------------------------
(* WHAT RUNS *)

(* An activation hands over between staging its candidate and its end, and *)
(* from the reload on nothing but the candidate can run.                   *)
Loading == {"loaded", "ready", "swapped", "reconciling"}
Handing == {"applying"} \cup Loading

StagedFor(j, m) == IF j # None /\ j.module = m /\ j.pc \in Handing THEN j.rev ELSE None

(* What the authority of a module runs, and what an activation may run.    *)
Owns(a, m) == IF m = "heating" /\ a[m].rev = None THEN {None, "legacy"} ELSE {None, a[m].rev}
MayRun(j, m, own) ==
    IF j = None \/ j.module # m \/ j.pc \in {"unprepared", "prepared", "restored"} THEN own
    ELSE IF j.pc \in Loading THEN {None, j.rev}
    ELSE own \cup {j.rev}

Running(r, m) ==
    IF m = "heating" THEN {r.heating} ELSE IF r.running = TRUE THEN {r.water} ELSE {}
SelectedOf(m) == IF m = "heating" THEN SelectedHeating ELSE SelectedWater

IsRuntime(r) ==
    /\ r = [entry |-> r.entry, heating |-> r.heating, water |-> r.water, running |-> r.running,
            retained |-> r.retained, orphans |-> r.orphans]
    /\ r.running \in BOOLEAN
    /\ r.running = TRUE => r.water # None

Staging(st, j) == st = [m \in Modules |-> StagedFor(j, m)]
ReferenceMoved(a, j) == (j # None /\ j.pc \in {"swapped", "reconciling"}) => a[j.module].rev = j.rev
Covered(r, j, a) == \A m \in Modules : Running(r, m) \subseteq MayRun(j, m, Owns(a, m))

RunInv ==
    /\ job \in Activations \cup {None}
    /\ IsRuntime(rt) /\ Staging(staged, job) /\ ReferenceMoved(active, job) /\ Covered(rt, job, active)

(* What a start or a reload brings: the runtime before it, in part, or     *)
(* what is selected.                                                       *)
Brings == IsRuntime(rt') /\ \A m \in Modules :
              Running(rt', m) \subseteq Running(rt, m) \cup {None, SelectedOf(m)}
BringsSelected == \A m \in Modules : Running(rt', m) \subseteq {None, SelectedOf(m)}

LEMMA JobFacts ==
    ASSUME ActivationInv, job # None
    PROVE  JobIsRecord /\ job.module \in Modules /\ job.rev \notin {None, "legacy"}
<1>1. JobIsRecord /\ (job.op = 0 => Clears) /\ (job.op # 0 => HasAttempt)
  BY DEF ActivationInv, JobInv
<1>2. job.module \in Modules /\ job.rev \in AnyRevision
  <2>1. CASE job.op = 0
    BY <1>1, <2>1 DEF Clears, Modules, AnyRevision
  <2>2. CASE job.op # 0
    <3>1. attempts[job.op] \in Attempts
      BY <1>1, <2>2 DEF HasAttempt, ActivationInv, DurableInv
    <3> QED
      BY <1>1, <2>2, <3>1 DEF HasAttempt, Attempts
  <2> QED
    BY <2>1, <2>2
<1> QED
  BY <1>1, <1>2, RevisionsAreNames DEF AnyRevision

(* A setup selects the staged candidate, or what the authority runs.       *)
LEMMA SelectedIsOwn ==
    ASSUME ActivationInv, RunInv, NEW m \in Modules
    PROVE  /\ (job # None /\ job.module = m /\ job.pc \in Handing) => SelectedOf(m) = job.rev
           /\ ~(job # None /\ job.module = m /\ job.pc \in Handing) => SelectedOf(m) \in Owns(active, m)
<1>1. staged[m] = StagedFor(job, m)
  BY DEF RunInv, Staging
<1>2. SelectedOf(m) = IF staged[m] # None THEN staged[m]
                     ELSE IF active[m].rev # None THEN active[m].rev
                     ELSE IF m = "heating" /\ legacy THEN "legacy" ELSE None
  BY DEF SelectedOf, SelectedHeating, SelectedWater, Modules
<1>3. job # None => job.rev # None
  BY JobFacts
<1> QED
  BY <1>1, <1>2, <1>3 DEF StagedFor, Owns

LEMMA BroughtMayRun ==
    ASSUME ActivationInv, RunInv, Brings
    PROVE  Covered(rt', job, active)
<1>1. ASSUME NEW m \in Modules
      PROVE  Running(rt', m) \subseteq MayRun(job, m, Owns(active, m))
  <2>1. Running(rt', m) \subseteq Running(rt, m) \cup {None, SelectedOf(m)}
    BY DEF Brings
  <2>2. Running(rt, m) \subseteq MayRun(job, m, Owns(active, m))
    BY DEF RunInv, Covered
  <2>3. None \in Owns(active, m)
    BY DEF Owns
  <2>4. SelectedOf(m) \in MayRun(job, m, Owns(active, m)) /\ None \in MayRun(job, m, Owns(active, m))
    BY <2>3, SelectedIsOwn DEF MayRun, Handing, Loading
  <2> QED
    BY <2>1, <2>2, <2>4
<1> QED
  BY <1>1 DEF Covered

LEMMA BringsKeeps ==
    ASSUME ActivationInv, RunInv, Brings, UNCHANGED <<active, job, staged>>
    PROVE  RunInv'
<1>1. Covered(rt', job', active')
  BY BroughtMayRun
<1> QED
  BY <1>1 DEF RunInv, Brings

(* A setup after an unload. *)
LEMMA StartedBrings ==
    ASSUME NEW down, IsRuntime(down), down.heating = None, down.running = FALSE,
           NEW heats \in BOOLEAN, NEW waters \in BOOLEAN, NEW cleaned \in BOOLEAN,
           rt' = Started(down, heats, waters, cleaned)
    PROVE  IsRuntime(rt') /\ BringsSelected
<1> DEFINE retained == down.retained /\ ~cleaned
           water == StartedWater(down, waters, retained)
<1>1. water \in {None, SelectedWater}
  BY DEF StartedWater
<1>2. rt' = CASE Route = "unconfigured" -> SetUpUnconfigured(down, retained)
              [] Route = "water_only" -> SetUpWaterOnly(down, water, retained)
              [] Route = "full" -> SetUpFull(down, heats, water, retained)
  BY DEF Started
<1>3. Route \in {"unconfigured", "water_only", "full"}
  BY DEF Route
<1> HIDE DEF water, retained
<1>4. CASE Route = "unconfigured"
  <2>1. rt' = [down EXCEPT !.entry = "loaded", !.heating = None, !.water = None,
                           !.running = (None # None), !.retained = retained]
    BY <1>2, <1>4 DEF SetUpUnconfigured, Loaded
  <2>2. IsRuntime(rt') /\ rt'.heating = None /\ rt'.running = FALSE
    BY <2>1 DEF IsRuntime
  <2> QED
    BY <2>2 DEF BringsSelected, Running
<1>5. CASE Route = "water_only"
  <2>1. rt' = [down EXCEPT !.entry = "loaded", !.heating = None, !.water = water,
                           !.running = (water # None), !.retained = retained]
    BY <1>2, <1>5 DEF SetUpWaterOnly, Loaded
  <2>2. IsRuntime(rt') /\ rt'.heating = None /\ rt'.water = water
    BY <2>1 DEF IsRuntime
  <2> QED
    BY <1>1, <2>2 DEF BringsSelected, Running, SelectedOf, Modules
<1>6. CASE Route = "full"
  <2>1. CASE heats = TRUE
    <3>1. rt' = [down EXCEPT !.entry = "loaded", !.heating = SelectedHeating, !.water = water,
                             !.running = (water # None), !.retained = retained]
      BY <1>2, <1>6, <2>1 DEF SetUpFull, Loaded
    <3>2. IsRuntime(rt') /\ rt'.heating = SelectedHeating /\ rt'.water = water
      BY <3>1 DEF IsRuntime
    <3> QED
      BY <1>1, <3>2 DEF BringsSelected, Running, SelectedOf, Modules
  <2>2. CASE heats = FALSE
    <3>1. rt' = [down EXCEPT !.entry = "failed", !.retained = retained]
      BY <1>2, <1>6, <2>2 DEF SetUpFull
    <3>2. IsRuntime(rt') /\ rt'.heating = None /\ rt'.running = FALSE
      BY <3>1 DEF IsRuntime
    <3> QED
      BY <3>2 DEF BringsSelected, Running
  <2> QED
    BY <2>1, <2>2
<1> QED
  BY <1>3, <1>4, <1>5, <1>6

LEMMA UnloadedIsDown ==
    ASSUME IsRuntime(rt), NEW outcome
    PROVE  /\ IsRuntime(Unloaded(outcome))
           /\ \/ Unloaded(outcome).heating = None /\ Unloaded(outcome).running = FALSE
              \/ /\ Unloaded(outcome).entry = "failed_unload"
                 /\ Unloaded(outcome) = [rt EXCEPT !.entry = "failed_unload"]
BY DEF Unloaded, NothingLoaded, IsRuntime

LEMMA ReloadBrings ==
    ASSUME IsRuntime(rt), NEW alone, Reload(alone)
    PROVE  Brings /\ (ReloadSucceeded => BringsSelected)
<1>1. CASE rt.entry = "failed_unload" /\ rt' = rt
  BY <1>1 DEF Brings, ReloadSucceeded
<1>2. CASE ~(rt.entry = "failed_unload" /\ rt' = rt)
  <2>1. PICK outcome \in UnloadOutcomes, heats \in BOOLEAN, waters \in BOOLEAN, cleaned \in BOOLEAN :
            rt' = IF Unloaded(outcome).entry = "failed_unload" THEN Unloaded(outcome)
                  ELSE Started(Unloaded(outcome), heats, waters, cleaned)
    BY <1>2 DEF Reload
  <2> DEFINE down == Unloaded(outcome)
  <2>2. /\ IsRuntime(down)
        /\ \/ down.heating = None /\ down.running = FALSE
           \/ down.entry = "failed_unload" /\ down = [rt EXCEPT !.entry = "failed_unload"]
    BY UnloadedIsDown
  <2> HIDE DEF down
  <2>3. CASE down.entry = "failed_unload"
    <3>1. rt' = down
      BY <2>1, <2>3 DEF down
    <3>2. \/ rt'.heating = None /\ rt'.running = FALSE
          \/ rt'.heating = rt.heating /\ rt'.running = rt.running /\ rt'.water = rt.water
      BY <2>2, <3>1 DEF IsRuntime
    <3>3. ~ReloadSucceeded
      BY <2>3, <3>1 DEF ReloadSucceeded
    <3> QED
      BY <2>2, <3>1, <3>2, <3>3 DEF Brings, Running
  <2>4. CASE down.entry # "failed_unload"
    <3>1. rt' = Started(down, heats, waters, cleaned)
      BY <2>1, <2>4 DEF down
    <3>2. IsRuntime(rt') /\ BringsSelected
      BY <2>2, <2>4, <3>1, StartedBrings
    <3> QED
      BY <3>2 DEF Brings, BringsSelected
  <2> QED
    BY <2>3, <2>4
<1> QED
  BY <1>1, <1>2

LEMMA StepsAroundActivationsRun ==
    ASSUME ActivationInv, RunInv,
           \/ Start \/ ReloadAlone \/ SetupStep \/ Crash \/ UNCHANGED vars
           \/ \E r : RequestHeating(r) \/ RequestWater(r) \/ RequestWaterByCommand(r)
    PROVE  RunInv'
<1>1. IsRuntime(rt)
  BY DEF RunInv
<1>2. rt' = rt => Brings
  BY <1>1 DEF Brings
<1>3. CASE Start
  <2>1. PICK heats \in BOOLEAN, waters \in BOOLEAN : rt' = Started(NothingLoaded, heats, waters, TRUE)
    BY <1>3 DEF Start
  <2>2. IsRuntime(NothingLoaded) /\ NothingLoaded.heating = None /\ NothingLoaded.running = FALSE
    BY DEF NothingLoaded, IsRuntime
  <2>3. IsRuntime(rt') /\ BringsSelected
    BY <2>1, <2>2, StartedBrings
  <2>4. Brings
    BY <2>3 DEF Brings, BringsSelected
  <2> QED
    BY <1>3, <2>4, BringsKeeps DEF Start, durable
<1>4. CASE ReloadAlone
  BY <1>1, <1>4, ReloadBrings, BringsKeeps DEF ReloadAlone, durable
<1>5. CASE SetupStep
  <2>1. UNCHANGED <<active, job, staged>>
    BY <1>5 DEF SetupStep, ListHeatingAttempts, RecoverHeatingAttempt, HeatingRecovered,
                ListWaterAttempts, RecoverWaterAttempt, durable
  <2>2. \/ rt' = rt
        \/ rt' = [rt EXCEPT !.entry = "failed", !.heating = None, !.water = None, !.running = FALSE]
        \/ rt' = [rt EXCEPT !.entry = "failed"]
    BY <1>5 DEF SetupStep, ListHeatingAttempts, RecoverHeatingAttempt, HeatingRecovered,
                ListWaterAttempts, RecoverWaterAttempt
  <2>3. CASE rt' = [rt EXCEPT !.entry = "failed", !.heating = None, !.water = None, !.running = FALSE]
    <3>1. IsRuntime(rt') /\ rt'.heating = None /\ rt'.running = FALSE
      BY <1>1, <2>3 DEF IsRuntime
    <3> QED
      BY <2>1, <3>1, BringsKeeps DEF Brings, Running
  <2>4. CASE rt' = [rt EXCEPT !.entry = "failed"]
    <3>1. IsRuntime(rt') /\ rt'.heating = rt.heating /\ rt'.running = rt.running /\ rt'.water = rt.water
      BY <1>1, <2>4 DEF IsRuntime
    <3> QED
      BY <2>1, <3>1, BringsKeeps DEF Brings, Running
  <2> QED
    BY <1>2, <2>1, <2>2, <2>3, <2>4, BringsKeeps
<1>6. CASE Crash
  <2>1. /\ rt' = NothingLoaded /\ staged' = NothingStaged /\ job' = None /\ active' = active
    BY <1>6 DEF Crash, durable
  <2>2. IsRuntime(rt') /\ rt'.heating = None /\ rt'.running = FALSE
    BY <2>1 DEF NothingLoaded, IsRuntime
  <2>3. Staging(staged', job')
    BY <2>1 DEF Staging, StagedFor, NothingStaged
  <2>4. Covered(rt', job', active')
    BY <2>1, <2>2 DEF Covered, Running, MayRun, Owns
  <2> QED
    BY <2>1, <2>2, <2>3, <2>4 DEF RunInv, ReferenceMoved
<1>7. ASSUME NEW r, RequestHeating(r) \/ RequestWater(r) \/ RequestWaterByCommand(r)
      PROVE  RunInv'
  <2>1. UNCHANGED <<active, job, staged>>
    BY <1>7 DEF RequestHeating, RequestWater, RequestWaterByCommand, durable
  <2>2. rt' = rt \/ \E kept \in BOOLEAN : rt' = [rt EXCEPT !.running = FALSE, !.retained = kept]
    BY <1>7 DEF RequestHeating, RequestWater, RequestWaterByCommand
  <2>3. CASE rt' # rt
    <3>1. PICK kept \in BOOLEAN : rt' = [rt EXCEPT !.running = FALSE, !.retained = kept]
      BY <2>2, <2>3
    <3>2. IsRuntime(rt') /\ rt'.heating = rt.heating /\ rt'.running = FALSE
      BY <1>1, <3>1 DEF IsRuntime
    <3> QED
      BY <2>1, <3>2, BringsKeeps DEF Brings, Running
  <2> QED
    BY <1>2, <2>1, <2>3, BringsKeeps
<1>8. CASE UNCHANGED vars
  BY <1>2, <1>8, BringsKeeps DEF vars, durable
<1> QED
  BY <1>3, <1>4, <1>5, <1>6, <1>7, <1>8

(* An activation goes on with its candidate, or ends. *)
Goes(pc) ==
    /\ job' \in Activations /\ job' # None
    /\ job'.module = job.module /\ job'.rev = job.rev /\ job'.pc = pc

LEMMA GoesOn ==
    ASSUME job \in Activations, NEW pc \in Steps, Goto(pc)
    PROVE  Goes(pc)
<1>1. job' \in Activations /\ job'.module = job.module /\ job'.rev = job.rev /\ job'.pc = pc
  BY DEF Goto, Activations
<1> QED
  BY <1>1, NoneIsNoActivation DEF Goes

Ends == job' = None
Stages == staged' = [staged EXCEPT ![job.module] = job.rev]

LEMMA StagingIsUndone ==
    ASSUME job \in Activations, job # None, Staging(staged, job), Unstaged
    PROVE  staged' = NothingStaged
<1>1. staged = [m \in Modules |-> StagedFor(job, m)] /\ job.module \in Modules
  BY DEF Staging, Activations
<1>2. \A m \in Modules : m # job.module => StagedFor(job, m) = None
  BY DEF StagedFor
<1> QED
  BY <1>1, <1>2 DEF Unstaged, NothingStaged

LEMMA StagingEnds ==
    ASSUME job \in Activations, job # None, Staging(staged, job), Ends,
           Unstaged \/ (job.pc \notin Handing /\ staged' = staged)
    PROVE  Staging(staged', job')
<1>1. \A m \in Modules : StagedFor(job', m) = None
  BY DEF StagedFor, Ends
<1>2. staged' = NothingStaged
  <2>1. CASE Unstaged
    BY <2>1, StagingIsUndone
  <2>2. CASE job.pc \notin Handing /\ staged' = staged
    BY <2>2 DEF Staging, StagedFor, NothingStaged
  <2> QED
    BY <2>1, <2>2
<1> QED
  BY <1>1, <1>2 DEF Staging, NothingStaged

LEMMA StagingGoesOn ==
    ASSUME job \in Activations, job # None, Staging(staged, job), NEW pc, Goes(pc),
           \/ Unstaged /\ pc \notin Handing
           \/ staged' = staged /\ (pc \in Handing <=> job.pc \in Handing)
           \/ Stages /\ pc \in Handing
    PROVE  Staging(staged', job')
<1>1. staged = [m \in Modules |-> StagedFor(job, m)] /\ job.module \in Modules
  BY DEF Staging, Activations
<1>2. \A m \in Modules : m # job.module => StagedFor(job, m) = None
  BY DEF StagedFor
<1>3. StagedFor(job, job.module) = IF job.pc \in Handing THEN job.rev ELSE None
  BY DEF StagedFor
<1>4. /\ \A m \in Modules : m # job.module => StagedFor(job', m) = None
      /\ StagedFor(job', job.module) = IF pc \in Handing THEN job.rev ELSE None
  BY DEF StagedFor, Goes
<1>5. staged' = [m \in Modules |-> StagedFor(job', m)]
  <2>1. CASE Unstaged /\ pc \notin Handing
    BY <1>4, <2>1, StagingIsUndone DEF NothingStaged
  <2>2. CASE staged' = staged /\ (pc \in Handing <=> job.pc \in Handing)
    BY <1>1, <1>2, <1>3, <1>4, <2>2
  <2>3. CASE Stages /\ pc \in Handing
    BY <1>1, <1>2, <1>3, <1>4, <2>3 DEF Stages
  <2> QED
    BY <2>1, <2>2, <2>3
<1> QED
  BY <1>5 DEF Staging

(* A step of an activation disturbs its own module only. *)
LEMMA OnlyItsModule ==
    ASSUME ActivationInv, RunInv, job \in Activations, job # None,
           Ends \/ \E pc \in Steps : Goes(pc),
           \A m \in Modules : m # job.module => active'[m] = active[m],
           Brings, Staging(staged', job'), ReferenceMoved(active', job'),
           Running(rt', job.module) \subseteq MayRun(job', job.module, Owns(active', job.module))
    PROVE  RunInv'
<1>1. ASSUME NEW m \in Modules
      PROVE  Running(rt', m) \subseteq MayRun(job', m, Owns(active', m))
  <2>1. CASE m = job.module
    BY <2>1
  <2>2. CASE m # job.module
    <3>1. Running(rt', m) \subseteq Running(rt, m) \cup {None, SelectedOf(m)}
      BY DEF Brings
    <3>2. Running(rt, m) \subseteq Owns(active, m)
      BY <2>2 DEF RunInv, Covered, MayRun
    <3>3. SelectedOf(m) \in Owns(active, m) /\ None \in Owns(active, m)
      BY <2>2, SelectedIsOwn DEF Owns
    <3>4. MayRun(job', m, Owns(active', m)) = Owns(active, m)
      BY <2>2 DEF MayRun, Goes, Ends, Owns
    <3> QED
      BY <3>1, <3>2, <3>3, <3>4
  <2> QED
    BY <2>1, <2>2
<1>2. job' \in Activations \cup {None}
  BY DEF Goes, Ends
<1> QED
  BY <1>1, <1>2 DEF RunInv, Covered, Brings

LEMMA BeginningRuns ==
    ASSUME ActivationInv, RunInv, BeginHeating \/ BeginWater
    PROVE  RunInv'
<1>1. /\ job = None /\ rt' = rt /\ staged' = staged /\ active' = active
  BY DEF BeginHeating, BeginWater, LockFree, durable
<1>2. attempts \in Seq(Attempts) /\ Len(attempts) + 1 \in Nat /\ OpenOfWater \in SUBSET Nat
  <2>1. attempts \in Seq(Attempts)
    BY DEF ActivationInv, DurableInv
  <2> QED
    BY <2>1 DEF OpenOfWater, Interrupted
<1>3. \/ job' = None
      \/ job' \in Activations /\ job'.pc \in {"prepared", "unprepared", "restoring"}
  <2>1. CASE BeginHeating
    <3>1. PICK q \in waiting :
            /\ q.module = "heating"
            /\ \/ job' = job
               \/ ~HeatingRefused(q) /\ job' = Job(q, Len(attempts) + 1, "prepared", {})
      BY <2>1 DEF BeginHeating
    <3>2. CASE ~HeatingRefused(q) /\ job' = Job(q, Len(attempts) + 1, "prepared", {})
      <4>1. q.rev \in HeatingRevisions
        BY <3>2 DEF HeatingRefused
      <4> QED
        BY <1>2, <3>1, <3>2, <4>1 DEF Job, Activations, Modules, Steps
    <3> QED
      BY <1>1, <3>1, <3>2
  <2>2. CASE BeginWater
    <3>1. PICK q \in waiting :
            /\ q.module = "water"
            /\ job' = IF q.rev \notin WaterRevisions THEN None
                      ELSE Job(q, 0, IF OpenOfWater = {} THEN "unprepared" ELSE "restoring", OpenOfWater)
      BY <2>2 DEF BeginWater, OpenOfWater
    <3> DEFINE pc == IF OpenOfWater = {} THEN "unprepared" ELSE "restoring"
    <3>2. pc \in {"unprepared", "restoring"}
      OBVIOUS
    <3>3. q.rev \in WaterRevisions => job' = Job(q, 0, pc, OpenOfWater)
      BY <3>1
    <3> HIDE DEF pc
    <3> QED
      BY <1>2, <3>1, <3>2, <3>3 DEF Job, Activations, Modules, Steps
  <2> QED
    BY <2>1, <2>2
<1>4. Staging(staged', job')
  <2>1. \A m \in Modules : StagedFor(job, m) = None /\ StagedFor(job', m) = None
    BY <1>1, <1>3 DEF StagedFor, Handing, Loading
  <2> QED
    BY <1>1, <2>1 DEF RunInv, Staging
<1>5. \A m \in Modules : MayRun(job, m, Owns(active, m)) \subseteq MayRun(job', m, Owns(active', m))
  BY <1>1, <1>3 DEF MayRun, Loading
<1>6. Covered(rt', job', active')
  BY <1>1, <1>5 DEF RunInv, Covered
<1> QED
  BY <1>1, <1>3, <1>4, <1>6 DEF RunInv, ReferenceMoved

(* What runs stays as it is, and so does the authority. *)
LEMMA WhatRunsStays ==
    ASSUME ActivationInv, RunInv, job \in Activations, job # None,
           Ends \/ \E pc \in Steps : Goes(pc),
           rt' = rt, active' = active, Staging(staged', job'), ReferenceMoved(active', job'),
           MayRun(job, job.module, Owns(active, job.module))
             \subseteq MayRun(job', job.module, Owns(active', job.module))
    PROVE  RunInv'
<1>1. Brings
  BY DEF Brings, RunInv
<1>2. Running(rt', job.module) \subseteq MayRun(job', job.module, Owns(active', job.module))
  BY DEF RunInv, Covered, Activations
<1> QED
  BY <1>1, <1>2, OnlyItsModule

LEMMA PreparingRuns ==
    ASSUME ActivationInv, RunInv, PrepareWater \/ BeginApplying
    PROVE  RunInv'
<1>1. /\ job # None /\ job \in Activations /\ job.pc \in {"unprepared", "prepared"}
      /\ rt' = rt /\ active' = active /\ Staging(staged, job)
  BY DEF PrepareWater, BeginApplying, At, durable, RunInv
<1>2. CASE PrepareWater
  <2>1. staged' = staged /\ (Ends \/ Goes("prepared"))
    <3>1. staged' = staged /\ (job' = None \/ job' = [job EXCEPT !.op = Len(attempts) + 1, !.pc = "prepared"])
      BY <1>2 DEF PrepareWater
    <3> DEFINE n == Len(attempts) + 1
    <3>2. n \in Nat
      <4>1. attempts \in Seq(Attempts)
        BY DEF ActivationInv, DurableInv
      <4> QED
        BY <4>1
    <3> HIDE DEF n
    <3>3. CASE job' = [job EXCEPT !.op = n, !.pc = "prepared"]
      <4>1. job' \in Activations
        BY <1>1, <3>2, <3>3 DEF Activations, Steps
      <4>2. job'.module = job.module /\ job'.rev = job.rev /\ job'.pc = "prepared"
        BY <1>1, <3>3 DEF Activations
      <4> QED
        BY <3>1, <4>1, <4>2, NoneIsNoActivation DEF Goes
    <3> QED
      BY <3>1, <3>3 DEF n, Ends
  <2>2. Staging(staged', job')
    BY <1>1, <2>1, StagingEnds, StagingGoesOn DEF Handing, Loading
  <2> QED
    BY <1>1, <2>1, <2>2, WhatRunsStays DEF MayRun, Goes, Ends, Steps, ReferenceMoved
<1>3. CASE BeginApplying
  <2>1. \/ Ends /\ Unstaged
        \/ Goes("restoring") /\ Unstaged
        \/ Goes("applying") /\ Stages
    BY <1>1, <1>3, GoesOn DEF BeginApplying, NotApplied, Finish, GiveUp, Steps, Stages, Ends
  <2>2. {"restoring", "applying"} \subseteq Steps /\ "applying" \in Handing /\ "restoring" \notin Handing
    BY DEF Steps, Handing, Loading
  <2>3. Staging(staged', job')
    <3>1. CASE Ends /\ Unstaged
      BY <1>1, <3>1, StagingEnds
    <3>2. CASE Goes("restoring") /\ Unstaged
      BY <1>1, <2>2, <3>2, StagingGoesOn
    <3>3. CASE Goes("applying") /\ Stages
      BY <1>1, <2>2, <3>3, StagingGoesOn
    <3> QED
      BY <2>1, <3>1, <3>2, <3>3
  <2> QED
    BY <1>1, <2>1, <2>2, <2>3, WhatRunsStays DEF MayRun, Goes, Ends, ReferenceMoved, Loading
<1> QED
  BY <1>2, <1>3

(* The reload of a handover loads nothing but the candidate. *)
LEMMA HandOverRuns ==
    ASSUME ActivationInv, RunInv, HandOver
    PROVE  RunInv'
<1>1. /\ job # None /\ job \in Activations /\ job.pc = "applying" /\ job.module \in Modules
      /\ active' = active /\ Staging(staged, job) /\ IsRuntime(rt)
  BY DEF HandOver, At, durable, RunInv, Activations
<1>2. Brings /\ (ReloadSucceeded => BringsSelected)
  BY <1>1, ReloadBrings DEF HandOver
<1>3. CASE ReloadSucceeded
  <2>1. Goes("loaded") /\ staged' = staged
    BY <1>1, <1>3, GoesOn DEF HandOver, Steps
  <2>2. Staging(staged', job')
    BY <1>1, <2>1, StagingGoesOn DEF Handing, Loading
  <2>3. SelectedOf(job.module) = job.rev
    BY <1>1, SelectedIsOwn DEF Handing
  <2>4. Running(rt', job.module) \subseteq {None, job.rev}
    BY <1>1, <1>2, <1>3, <2>3 DEF BringsSelected
  <2>5. MayRun(job', job.module, Owns(active', job.module)) = {None, job.rev}
    BY <2>1 DEF MayRun, Goes, Loading
  <2> QED
    BY <1>1, <1>2, <2>1, <2>2, <2>4, <2>5, OnlyItsModule DEF ReferenceMoved, Goes, Steps
<1>4. CASE ~ReloadSucceeded
  <2>1. Goes("restoring") /\ Unstaged
    BY <1>1, <1>4, GoesOn DEF HandOver, GiveUp, Steps
  <2>2. Staging(staged', job')
    BY <1>1, <2>1, StagingGoesOn DEF Handing, Loading
  <2>3. MayRun(job', job.module, Owns(active', job.module)) = MayRun(job, job.module, Owns(active, job.module))
    BY <1>1, <2>1 DEF MayRun, Goes, Loading
  <2>4. Running(rt', job.module) \subseteq MayRun(job, job.module, Owns(active, job.module))
    BY <1>1, <1>2, BroughtMayRun DEF Covered
  <2> QED
    BY <1>1, <1>2, <2>1, <2>2, <2>3, <2>4, OnlyItsModule DEF ReferenceMoved, Goes, Steps
<1> QED
  BY <1>3, <1>4

(* The reference moves to what runs, or the activation is given up. *)
LEMMA CommittingRuns ==
    ASSUME ActivationInv, RunInv, RecordReady \/ Swap \/ RecordCommitted \/ Reconcile
    PROVE  RunInv'
<1>1. /\ job # None /\ job \in Activations /\ job.module \in Modules
      /\ job.pc \in Loading /\ job.pc \in Handing
      /\ rt' = rt /\ Staging(staged, job) /\ ReferenceMoved(active, job)
  BY DEF RecordReady, Swap, RecordCommitted, Reconcile, At, durable, RunInv, Activations, Loading, Handing
<1>2. /\ {None, job.rev} \subseteq MayRun(job, job.module, Owns(active, job.module))
      /\ MayRun(job, job.module, Owns(active, job.module)) \subseteq {None, job.rev}
  BY <1>1 DEF MayRun, Loading
<1>3. ASSUME active' = active, Goes("restoring") /\ Unstaged
      PROVE  RunInv'
  <2>1. Staging(staged', job')
    BY <1>1, <1>3, StagingGoesOn DEF Handing, Loading
  <2>2. {None, job.rev} \subseteq MayRun(job', job.module, Owns(active', job.module))
    BY <1>3 DEF MayRun, Goes, Loading, Owns
  <2> QED
    BY <1>1, <1>2, <1>3, <2>1, <2>2, WhatRunsStays DEF ReferenceMoved, Goes, Steps
<1>4. CASE RecordReady
  <2>1. /\ active' = active
        /\ \/ Goto("ready") /\ staged' = staged
           \/ Goto("restoring") /\ Unstaged
    BY <1>4 DEF RecordReady, GiveUp
  <2>2. /\ Goto("ready") => Goes("ready")
        /\ Goto("restoring") => Goes("restoring")
    BY <1>1, GoesOn DEF Steps
  <2>3. CASE Goes("ready") /\ staged' = staged
    <3>1. Staging(staged', job')
      BY <1>1, <2>3, StagingGoesOn DEF Handing, Loading
    <3>2. {None, job.rev} \subseteq MayRun(job', job.module, Owns(active', job.module))
      BY <2>3 DEF MayRun, Goes, Loading
    <3> QED
      BY <1>1, <1>2, <2>1, <2>3, <3>1, <3>2, WhatRunsStays DEF ReferenceMoved, Goes, Steps
  <2> QED
    BY <1>3, <2>1, <2>2, <2>3
<1>5. CASE Swap
  <2>1. CASE MaySwap
    <3>1. /\ active' = [active EXCEPT ![job.module] =
                          [rev |-> job.rev, gen |-> Attempt.generation + 1, op |-> job.op]]
          /\ Goes("swapped") /\ staged' = staged
      BY <1>1, <1>5, <2>1, GoesOn DEF Swap, Steps
    <3>2. active \in [Modules -> References]
      BY DEF ActivationInv, DurableInv
    <3>3. /\ active'[job.module].rev = job.rev
          /\ \A m \in Modules : m # job.module => active'[m] = active[m]
      BY <1>1, <3>1, <3>2
    <3>4. Staging(staged', job')
      BY <1>1, <3>1, StagingGoesOn DEF Handing, Loading
    <3>5. {None, job.rev} \subseteq MayRun(job', job.module, Owns(active', job.module))
      BY <3>1 DEF MayRun, Goes, Loading
    <3>6. ReferenceMoved(active', job') /\ Brings
      BY <1>1, <3>1, <3>3 DEF ReferenceMoved, Goes, Brings, RunInv
    <3>7. Running(rt', job.module) \subseteq MayRun(job', job.module, Owns(active', job.module))
      BY <1>1, <1>2, <3>5 DEF RunInv, Covered
    <3> QED
      BY <1>1, <3>1, <3>3, <3>4, <3>6, <3>7, OnlyItsModule DEF Steps
  <2>2. CASE ~MaySwap
    <3>1. active' = active /\ Goto("restoring") /\ Unstaged
      BY <1>5, <2>2 DEF Swap, GiveUp
    <3>2. Goes("restoring")
      BY <1>1, <3>1, GoesOn DEF Steps
    <3> QED
      BY <1>3, <3>1, <3>2
  <2> QED
    BY <2>1, <2>2
<1>6. CASE RecordCommitted \/ Reconcile
  <2>1. /\ active' = active /\ active[job.module].rev = job.rev
        /\ \/ Ends /\ Unstaged
           \/ Goes("reconciling") /\ staged' = staged
           \/ Goes("restoring") /\ Unstaged
    <3>1. active' = active /\ job.pc \in {"swapped", "reconciling"}
      BY <1>6 DEF RecordCommitted, Reconcile, At
    <3>2. \/ job' = None /\ Unstaged
          \/ Goto("reconciling") /\ staged' = staged
          \/ Goto("restoring") /\ Unstaged
      BY <1>6 DEF RecordCommitted, Reconcile, Finish, GiveUp
    <3> QED
      BY <1>1, <3>1, <3>2, GoesOn DEF ReferenceMoved, Ends, Steps
  <2>2. CASE Ends /\ Unstaged
    <3>1. Staging(staged', job')
      BY <1>1, <2>2, StagingEnds
    <3>2. {None, job.rev} \subseteq MayRun(job', job.module, Owns(active', job.module))
      BY <2>1, <2>2 DEF MayRun, Ends, Owns
    <3> QED
      BY <1>1, <1>2, <2>1, <2>2, <3>1, <3>2, WhatRunsStays DEF ReferenceMoved, Ends
  <2>3. CASE Goes("reconciling") /\ staged' = staged
    <3>1. Staging(staged', job')
      BY <1>1, <2>3, StagingGoesOn DEF Handing, Loading
    <3>2. {None, job.rev} \subseteq MayRun(job', job.module, Owns(active', job.module))
      BY <2>3 DEF MayRun, Goes, Loading
    <3>3. ReferenceMoved(active', job')
      BY <2>1, <2>3 DEF ReferenceMoved, Goes
    <3> QED
      BY <1>1, <1>2, <2>1, <2>3, <3>1, <3>2, <3>3, WhatRunsStays DEF Steps
  <2> QED
    BY <1>3, <2>1, <2>2, <2>3
<1> QED
  BY <1>4, <1>5, <1>6

(* A water host that shows the authority's stamp runs the authority. *)
LEMMA StampIsOwn ==
    ASSUME IsRuntime(rt), WaterAuthorityRuns(rt)
    PROVE  Running(rt, "water") \subseteq Owns(active, "water")
<1>1. rt.running \in BOOLEAN /\ (rt.running = TRUE => rt.water # None)
  BY DEF IsRuntime
<1>2. rt.running = TRUE => rt.water = active["water"].rev
  <2>1. CASE active["water"].rev = None
    BY <1>1, <2>1 DEF WaterAuthorityRuns
  <2>2. CASE active["water"].rev # None
    BY <2>2 DEF WaterAuthorityRuns, WaterStamp
  <2> QED
    BY <2>1, <2>2
<1> QED
  BY <1>2 DEF Running, Owns

LEMMA UndoFacts ==
    ASSUME ActivationInv, RunInv, Restore \/ Quiesce
    PROVE  /\ job # None /\ job \in Activations /\ job.module \in Modules
           /\ job.pc \in {"restoring", "reloaded"} /\ job.restored \in BOOLEAN
           /\ active' = active /\ staged' = staged /\ Staging(staged, job) /\ IsRuntime(rt)
  BY DEF Restore, Quiesce, At, durable, RunInv, Activations

LEMMA UndoGoesOn ==
    ASSUME job \in Activations, NEW pc \in Steps, NEW restored \in BOOLEAN,
           job' = [job EXCEPT !.pc = pc, !.restored = restored]
    PROVE  Goes(pc)
<1>1. job' \in Activations
  BY DEF Activations
<1>2. job'.module = job.module /\ job'.rev = job.rev /\ job'.pc = pc
  BY DEF Activations
<1> QED
  BY <1>1, <1>2, NoneIsNoActivation DEF Goes

LEMMA RestoringRuns ==
    ASSUME ActivationInv, RunInv, Restore
    PROVE  RunInv'
<1>1. /\ job # None /\ job \in Activations /\ job.module \in Modules /\ job.pc = "restoring"
      /\ active' = active /\ staged' = staged /\ Staging(staged, job) /\ IsRuntime(rt)
  BY UndoFacts DEF Restore, At
<1>2. CASE /\ job.module = "water" /\ WaterAuthorityRuns(rt) /\ rt' = rt
           /\ job' = [job EXCEPT !.pc = "restored", !.restored = TRUE]
  <2>1. Goes("restored")
    BY <1>1, <1>2, UndoGoesOn DEF Steps
  <2>2. Staging(staged', job')
    BY <1>1, <2>1, StagingGoesOn DEF Handing, Loading
  <2>3. Running(rt', job.module) \subseteq MayRun(job', job.module, Owns(active', job.module))
    BY <1>1, <1>2, <2>1, StampIsOwn DEF MayRun, Goes
  <2>4. Brings
    BY <1>1, <1>2 DEF Brings
  <2> QED
    BY <1>1, <2>1, <2>2, <2>3, <2>4, OnlyItsModule DEF ReferenceMoved, Goes, Steps
<1>3. CASE Reload(0) /\ job' = [job EXCEPT !.pc = "reloaded", !.restored = ReloadSucceeded]
  <2>1. Goes("reloaded")
    BY <1>1, <1>3, UndoGoesOn DEF Steps, ReloadSucceeded
  <2>2. Staging(staged', job')
    BY <1>1, <2>1, StagingGoesOn DEF Handing, Loading
  <2>3. Brings
    BY <1>1, <1>3, ReloadBrings
  <2>4. Running(rt', job.module) \subseteq MayRun(job, job.module, Owns(active, job.module))
    BY <1>1, <2>3, BroughtMayRun DEF Covered
  <2>5. MayRun(job', job.module, Owns(active', job.module)) = MayRun(job, job.module, Owns(active, job.module))
    BY <1>1, <2>1 DEF MayRun, Goes, Loading
  <2> QED
    BY <1>1, <2>1, <2>2, <2>3, <2>4, <2>5, OnlyItsModule DEF ReferenceMoved, Goes, Steps
<1> QED
  BY <1>2, <1>3 DEF Restore

(* What a rollback leaves is the authority's, or it is stopped. *)
LEMMA QuiescingRuns ==
    ASSUME ActivationInv, RunInv, Quiesce
    PROVE  RunInv'
<1>1. /\ job # None /\ job \in Activations /\ job.module \in Modules /\ job.pc = "reloaded"
      /\ active' = active /\ staged' = staged /\ Staging(staged, job) /\ IsRuntime(rt)
      /\ job.restored \in BOOLEAN
  BY UndoFacts DEF Quiesce, At
<1>2. /\ Goes("restored") /\ Brings
      /\ Running(rt', job.module) \subseteq Owns(active, job.module)
  <2>1. CASE job.module = "heating"
    <3> DEFINE restored == job.restored /\ HeatingRestored(Attempt, rt)
    <3>1. /\ job' = [job EXCEPT !.pc = "restored", !.restored = restored]
          /\ rt' = IF restored THEN rt ELSE Quiesced(rt)
      BY <1>1, <2>1 DEF Quiesce
    <3>2. restored \in BOOLEAN /\ (restored = TRUE => HeatingRestored(Attempt, rt))
      BY <1>1 DEF HeatingRestored
    <3> HIDE DEF restored
    <3>3. Goes("restored")
      BY <1>1, <3>1, <3>2, UndoGoesOn DEF Steps
    <3>4. CASE restored = TRUE
      <4>1. rt' = rt
        BY <3>1, <3>4
      <4>2. rt.heating \in Owns(active, "heating")
        BY <3>2, <3>4 DEF HeatingRestored, Owns
      <4> QED
        BY <1>1, <2>1, <3>3, <4>1, <4>2 DEF Brings, Running
    <3>5. CASE restored # TRUE
      <4>1. rt' = Quiesced(rt)
        BY <3>1, <3>2, <3>5
      <4>2. \/ rt' = rt /\ rt.heating \in Owns(active, "heating")
            \/ rt' = [rt EXCEPT !.heating = None]
        BY <4>1 DEF Quiesced, Owns
      <4>3. /\ IsRuntime(rt') /\ rt'.running = rt.running /\ rt'.water = rt.water
            /\ rt'.heating \in Owns(active, "heating") /\ rt'.heating \in {None, rt.heating}
        BY <1>1, <4>2 DEF IsRuntime, Owns
      <4> QED
        BY <2>1, <3>3, <4>3 DEF Brings, Running, Modules
    <3> QED
      BY <3>4, <3>5
  <2>2. CASE job.module = "water"
    <3>1. PICK complete \in BOOLEAN :
            /\ job' = [job EXCEPT !.pc = "restored", !.restored = WaterAuthorityRuns(rt)]
            /\ rt' = WaterQuiesced(rt, complete)
      BY <2>2 DEF Quiesce
    <3>2. WaterAuthorityRuns(rt) \in BOOLEAN
      BY DEF WaterAuthorityRuns
    <3>3. Goes("restored")
      BY <1>1, <3>1, <3>2, UndoGoesOn DEF Steps
    <3>4. CASE WaterAuthorityRuns(rt)
      <4>1. rt' = rt
        BY <3>1, <3>4 DEF WaterQuiesced
      <4> QED
        BY <1>1, <2>2, <3>3, <3>4, <4>1, StampIsOwn DEF Brings
    <3>5. CASE ~WaterAuthorityRuns(rt) /\ rt.water = None
      <4>1. rt' = rt
        BY <3>1, <3>5 DEF WaterQuiesced
      <4>2. Running(rt, "water") \subseteq Owns(active, "water")
        BY <3>5 DEF Running, Owns
      <4> QED
        BY <1>1, <2>2, <3>3, <4>1, <4>2 DEF Brings
    <3>6. CASE ~WaterAuthorityRuns(rt) /\ rt.water # None
      <4>1. rt' = [rt EXCEPT !.running = FALSE, !.water = IF complete THEN None ELSE @,
                             !.retained = @ \/ ~complete]
        BY <3>1, <3>6 DEF WaterQuiesced
      <4>2. IsRuntime(rt') /\ rt'.running = FALSE /\ rt'.heating = rt.heating
        BY <1>1, <4>1 DEF IsRuntime
      <4> QED
        BY <2>2, <3>3, <4>2 DEF Brings, Running
    <3> QED
      BY <3>4, <3>5, <3>6
  <2> QED
    BY <1>1, <2>1, <2>2 DEF Modules
<1>3. Staging(staged', job')
  BY <1>1, <1>2, StagingGoesOn DEF Handing, Loading
<1>4. MayRun(job', job.module, Owns(active', job.module)) = Owns(active, job.module)
  BY <1>1, <1>2 DEF MayRun, Goes
<1> QED
  BY <1>1, <1>2, <1>3, <1>4, OnlyItsModule DEF ReferenceMoved, Goes, Steps

LEMMA EndingRuns ==
    ASSUME ActivationInv, RunInv, RecordFailure \/ ClearAttempt
    PROVE  RunInv'
<1>1. /\ job # None /\ job \in Activations /\ job.pc = "restored"
      /\ rt' = rt /\ active' = active /\ Staging(staged, job)
  BY DEF RecordFailure, ClearAttempt, At, durable, RunInv
<1>2. CASE Ends /\ (Unstaged \/ staged' = staged)
  <2>1. Staging(staged', job')
    BY <1>1, <1>2, StagingEnds DEF Handing, Loading
  <2>2. MayRun(job, job.module, Owns(active, job.module))
          \subseteq MayRun(job', job.module, Owns(active', job.module))
    BY <1>1, <1>2 DEF MayRun, Ends
  <2> QED
    BY <1>1, <1>2, <2>1, <2>2, WhatRunsStays DEF ReferenceMoved, Ends
<1>3. ASSUME NEW pc \in {"unprepared", "restored"}, Goes(pc), staged' = staged
      PROVE  RunInv'
  <2>1. Staging(staged', job')
    BY <1>1, <1>3, StagingGoesOn DEF Handing, Loading
  <2>2. MayRun(job, job.module, Owns(active, job.module))
          \subseteq MayRun(job', job.module, Owns(active', job.module))
    BY <1>1, <1>3 DEF MayRun, Goes
  <2> QED
    BY <1>1, <1>3, <2>1, <2>2, WhatRunsStays DEF ReferenceMoved, Goes, Steps
<1>4. CASE RecordFailure
  BY <1>2, <1>4 DEF RecordFailure, Finish, Ends
<1>5. CASE ClearAttempt
  <2> DEFINE i == NextOf(job.todo)
             pc == IF job.todo = {i} THEN "unprepared" ELSE "restored"
  <2>1. /\ staged' = staged
        /\ job' = None \/ job' = [job EXCEPT !.todo = job.todo \ {i}, !.pc = pc]
    BY <1>1, <1>5 DEF ClearAttempt
  <2>2. pc \in {"unprepared", "restored"} /\ job.todo \ {i} \in SUBSET Nat
    BY <1>1 DEF Activations
  <2> HIDE DEF i, pc
  <2>3. CASE job' = [job EXCEPT !.todo = job.todo \ {i}, !.pc = pc]
    <3>1. job' \in Activations
      BY <1>1, <2>2, <2>3 DEF Activations, Steps
    <3>2. job'.module = job.module /\ job'.rev = job.rev /\ job'.pc = pc
      BY <1>1, <2>3 DEF Activations
    <3> QED
      BY <1>3, <2>1, <2>2, <3>1, <3>2, NoneIsNoActivation DEF Goes
  <2> QED
    BY <1>2, <2>1, <2>3 DEF Ends
<1> QED
  BY <1>4, <1>5

LEMMA InitRuns == Init => RunInv
<1> SUFFICES ASSUME Init PROVE RunInv
  OBVIOUS
<1>1. rt = NothingLoaded /\ staged = NothingStaged /\ job = None
  BY DEF Init
<1>2. IsRuntime(rt) /\ rt.heating = None /\ rt.running = FALSE
  BY <1>1 DEF NothingLoaded, IsRuntime
<1>3. Staging(staged, job)
  BY <1>1 DEF Staging, StagedFor, NothingStaged
<1>4. Covered(rt, job, active)
  BY <1>1, <1>2 DEF Covered, Running, MayRun, Owns
<1> QED
  BY <1>1, <1>2, <1>3, <1>4 DEF RunInv, ReferenceMoved

LEMMA EveryStepRuns ==
    ActivationInv /\ RunInv /\ [Next]_vars => RunInv'
BY StepsAroundActivationsRun, BeginningRuns, PreparingRuns, HandOverRuns, CommittingRuns,
   RestoringRuns, QuiescingRuns, EndingRuns
DEF Next, JobStep

LEMMA CoveredIsAuthority == ActivationInv /\ RunInv => OnlyAuthorityRuns
<1> SUFFICES ASSUME ActivationInv, RunInv, AtRest
             PROVE  /\ rt.heating \in Owns(active, "heating")
                    /\ rt.running => rt.water = active["water"].rev
  BY DEF OnlyAuthorityRuns, Owns
<1>1. \A m \in Modules : Running(rt, m) \subseteq Owns(active, m)
  BY DEF RunInv, Covered, MayRun, AtRest
<1>2. rt.running \in BOOLEAN /\ (rt.running = TRUE => rt.water # None)
  BY DEF RunInv, IsRuntime
<1>3. rt.heating \in Owns(active, "heating")
  BY <1>1 DEF Running, Modules
<1>4. rt.running = TRUE => rt.water \in Owns(active, "water")
  BY <1>1 DEF Running, Modules
<1>5. rt.running = TRUE => rt.water = active["water"].rev
  BY <1>2, <1>4 DEF Owns
<1> QED
  BY <1>2, <1>3, <1>5

(* What an entry runs is its authority (_async_quiesce_non_authoritative_  *)
(* runtime of activation_backend.py, _async_restore_authority of           *)
(* water_safety_activation.py): once no setup and no activation is in      *)
(* progress, the hosts of an entry run what its active references name -   *)
(* whatever was staged, reloaded, rolled back or interrupted before.       *)
THEOREM OnlyAuthorityIsRun == Spec => []OnlyAuthorityRuns
<1> QED
  BY InitIsAtomic, InitRuns, EveryStepIsAtomic, EveryStepRuns, CoveredIsAuthority, PTL DEF Spec

-----------------------------------------------------------------------------
(* WHAT IS STILL TO BE RECOVERED *)

(* No start, stop or write failed so far. *)
Clean == used["faults"] = 0
UsedInv == used \in [{"crashes", "reloads", "faults"} -> Nat]

(* There is a heating configuration to run; from then on there always is.  *)
HeatingKnown == legacy \/ active["heating"].rev # None

(* Settings that are still the legacy ones leave no room for a reference,  *)
(* and a module without a reference never had one: its attempts follow     *)
(* nothing.                                                                *)
KnownInv ==
    /\ legacy => \A m \in Modules : active[m].rev = None
    /\ \A i \in DOMAIN attempts :
         active[attempts[i].module].rev = None => attempts[i].previous = None
    /\ rt.heating = "legacy" => HeatingKnown

(* An activation's own attempt is the only open one of its module.         *)
OwnInv ==
    job # None =>
        /\ job.rev \in Revisions(job.module)
        /\ job.op # 0 =>
             /\ \A i \in DOMAIN attempts :
                  attempts[i].module = job.module /\ IsOpen(i) => i = job.op
             /\ job.pc = "prepared" => Attempt.state # "applying"
             /\ job.module = "heating" /\ job.pc # "prepared" => Attempt.state # "prepared"

(* Nothing is in progress while the process is down, and while nothing     *)
(* failed an entry that is up is loaded.                                   *)
DownInv == up \in BOOLEAN /\ (up # TRUE => job = None /\ setup = None)
CleanInv == Clean /\ up = TRUE => rt.entry = "loaded" /\ rt.retained = FALSE /\ rt.orphans = {}

(* The setup in progress has yet to look for the attempts of a module.     *)
Awaits(m) ==
    \/ setup.phase = "heating"
    \/ m = "water" /\ setup.phase \in {"each_heating", "water", "hung"}
Each(m) == IF m = "heating" THEN "each_heating" ELSE "each_water"

(* An open attempt is an activation's own or before it, or a setup's to    *)
(* find, or among those that a setup found.                                *)
Attended(m) ==
    \/ Interrupted(m) = {}
    \/ job # None /\ job.module = m
    \/ setup # None /\ Awaits(m)
    \/ setup # None /\ setup.phase = Each(m) /\ Interrupted(m) \subseteq setup.todo

(* A setup that a reload began while a water candidate was staged beside   *)
(* legacy settings took the water-only route.  The activation cannot end   *)
(* before that setup finds the lock taken, and leaves its recovery out.    *)
WillSkip ==
    /\ legacy /\ setup # None /\ setup.phase = "water"
    /\ job # None /\ job.module = "water" /\ job.pc \in {"applying", "loaded", "ready", "restoring"}
    /\ rt.water # None
AllAttended ==
    /\ Attended("water")
    /\ HeatingKnown => Attended("heating") \/ WillSkip
AttendedInv == (Clean /\ up = TRUE /\ skipped # TRUE) => AllAttended
SetupInv == setup \in Recoveries \cup {None}

RecoveryInv ==
    UsedInv /\ KnownInv /\ OwnInv /\ DownInv /\ SetupInv /\ CleanInv /\ AttendedInv

-----------------------------------------------------------------------------
(* WHAT A STEP DOES TO THE ATTEMPTS AND THE COUNTS *)

LEMMA UsedInit == ASSUME used = [crashes |-> 0, reloads |-> 0, faults |-> 0] PROVE UsedInv /\ Clean
  BY DEF UsedInv, Clean

LEMMA FaultsAreCounted ==
    ASSUME UsedInv, NEW n \in Nat, used' = [used EXCEPT !["faults"] = @ + n]
    PROVE  UsedInv' /\ (Clean' => Clean /\ n = 0)
<1>1. used["faults"] \in Nat /\ used'["faults"] = used["faults"] + n /\ UsedInv'
  BY DEF UsedInv
<1> QED
  BY <1>1 DEF Clean

LEMMA ReloadsAreCounted ==
    ASSUME UsedInv, NEW n \in Nat, NEW alone \in {0, 1},
           used' = [used EXCEPT !["faults"] = @ + n, !["reloads"] = @ + alone]
    PROVE  UsedInv' /\ (Clean' => Clean /\ n = 0)
<1>1. used["faults"] \in Nat /\ used'["faults"] = used["faults"] + n /\ UsedInv'
  BY DEF UsedInv
<1> QED
  BY <1>1 DEF Clean

LEMMA CrashesAreCounted ==
    ASSUME UsedInv, Uses("crashes", 1)
    PROVE  UsedInv' /\ (Clean' => Clean)
  BY DEF UsedInv, Clean, Uses

-----------------------------------------------------------------------------
(* WHAT A STEP LEAVES OPEN *)

(* Attempts keep what they are for; one that ended stays as it ended.      *)
Stays ==
    /\ DOMAIN attempts' = DOMAIN attempts
    /\ \A i \in DOMAIN attempts :
         /\ attempts'[i].module = attempts[i].module
         /\ attempts'[i].candidate = attempts[i].candidate
         /\ attempts'[i].previous = attempts[i].previous
         /\ ~IsOpen(i) => attempts'[i].state = attempts[i].state
(* One attempt enters a state; the others keep theirs. *)
Becomes(i, state) ==
    /\ Stays
    /\ \A j \in DOMAIN attempts : attempts'[j].state = IF j = i THEN state ELSE attempts[j].state

LEMMA NothingStays == ASSUME attempts' = attempts PROVE Stays
  BY DEF Stays

LEMMA TransitionStays ==
    ASSUME NEW i, NEW state, attempts \in Seq(Attempts), Transition(i, state),
           (i \in DOMAIN attempts /\ ~IsOpen(i)) => state = attempts[i].state
    PROVE  Becomes(i, state)
<1>1. CASE i \notin DOMAIN attempts
  <2>1. attempts' = attempts
    BY <1>1 DEF Transition
  <2> QED
    BY <1>1, <2>1 DEF Becomes, Stays
<1>2. CASE i \in DOMAIN attempts
  <2>1. attempts' = [attempts EXCEPT ![i].state = state]
    BY DEF Transition
  <2>2. DOMAIN attempts' = DOMAIN attempts
    BY <1>2, <2>1
  <2>3. \A j \in DOMAIN attempts : j # i => attempts'[j] = attempts[j]
    BY <1>2, <2>1
  <2>4. attempts'[i] = [attempts[i] EXCEPT !.state = state] /\ attempts[i] \in Attempts
    BY <1>2, <2>1
  <2>5. /\ attempts'[i].module = attempts[i].module
        /\ attempts'[i].candidate = attempts[i].candidate
        /\ attempts'[i].previous = attempts[i].previous
        /\ attempts'[i].state = state
    BY <2>4 DEF Attempts
  <2> QED
    BY <1>2, <2>2, <2>3, <2>5 DEF Becomes, Stays
<1> QED
  BY <1>1, <1>2

LEMMA RecoveredBecomes ==
    ASSUME ActivationInv, NEW i, NEW rolledBack, Transition(i, Recovered(i, rolledBack))
    PROVE  Becomes(i, Recovered(i, rolledBack))
<1> DEFINE state == Recovered(i, rolledBack)
<1>1. ~IsOpen(i) => state = attempts[i].state
  BY DEF Recovered, IsOpen
<1>2. attempts \in Seq(Attempts)
  BY DEF ActivationInv, DurableInv
<1> HIDE DEF state
<1>3. Transition(i, state)
  BY DEF state
<1>4. Becomes(i, state)
  BY <1>1, <1>2, <1>3, TransitionStays
<1> QED
  BY <1>4 DEF state

LEMMA FewerOpen ==
    ASSUME Stays
    PROVE  \A m \in Modules : Interrupted(m)' \subseteq Interrupted(m)
  BY DEF Stays, Interrupted, IsOpen, Terminal

LEMMA OneFewer ==
    ASSUME NEW i, NEW state \in Terminal, Becomes(i, state)
    PROVE  \A m \in Modules : Interrupted(m)' \subseteq Interrupted(m) \ {i}
<1>1. \A m \in Modules : i \notin Interrupted(m)'
  BY DEF Becomes, Stays, Interrupted
<1> QED
  BY <1>1, FewerOpen DEF Becomes

(* The activation in progress goes on, or its attempt has ended.           *)
JobAttends ==
    \/ job' # None /\ job'.module = job.module
    \/ job' = None /\ \A m \in Modules : m = job.module => Interrupted(m)' = {}

(* The other module has no attempt opened meanwhile. *)
OthersStay == \A m \in Modules : m # job.module => Interrupted(m)' \subseteq Interrupted(m)

LEMMA JobStepAttends ==
    ASSUME AttendedInv, job # None, job.module \in Modules,
           Clean' => Clean, up' = up, skipped' # TRUE => skipped # TRUE,
           OthersStay, setup' = setup,
           Clean' /\ skipped' # TRUE => JobAttends,
           HeatingKnown' => HeatingKnown \/ (job' # None /\ job'.module = "heating"),
           WillSkip => WillSkip'
    PROVE  AttendedInv'
<1> SUFFICES ASSUME Clean', up = TRUE, skipped' # TRUE
             PROVE  AllAttended'
  BY DEF AttendedInv
<1>1. Clean /\ skipped # TRUE /\ AllAttended /\ JobAttends
  BY DEF AttendedInv
<1>2. ASSUME NEW m \in Modules, Attended(m)
      PROVE  Attended(m)'
  <2>2. CASE job.module = m
    BY <1>1, <2>2 DEF JobAttends, Attended
  <2>3. CASE job.module # m
    <3>1. Interrupted(m)' \subseteq Interrupted(m)
      BY <2>3 DEF OthersStay
    <3> QED
      BY <1>2, <2>3, <3>1 DEF Attended, Awaits, Each
  <2> QED
    BY <2>2, <2>3
<1>3. HeatingKnown' => Attended("heating")' \/ WillSkip'
  BY <1>1, <1>2 DEF AllAttended, Modules, Attended
<1> QED
  BY <1>1, <1>2, <1>3 DEF AllAttended, Modules

-----------------------------------------------------------------------------
(* FACTS ABOUT SELECTIONS, OWN ATTEMPTS AND HOSTS *)

LEMMA JobRuns ==
    ASSUME RecoveryInv, job # None, up' = up, setup' = setup
    PROVE  up = TRUE /\ DownInv' /\ SetupInv'
  BY DEF RecoveryInv, DownInv, SetupInv

LEMMA LegacyIsSelected ==
    ASSUME ActivationInv, RunInv, SelectedHeating = "legacy"
    PROVE  HeatingKnown
<1>1. staged["heating"] = StagedFor(job, "heating")
  BY DEF RunInv, Staging, Modules
<1>2. staged["heating"] # "legacy"
  BY <1>1, JobFacts, NoneIsNotLegacy DEF StagedFor
<1>3. active["heating"].rev # "legacy"
  <2>1. active["heating"] \in References
    BY DEF ActivationInv, DurableInv, Modules
  <2> QED
    BY <2>1, RevisionsAreNames, NoneIsNotLegacy DEF References, AnyRevision
<1> QED
  BY <1>2, <1>3, NoneIsNotLegacy DEF SelectedHeating, HeatingKnown

LEMMA KnownStays ==
    ASSUME ActivationInv, RunInv, KnownInv, Stays, active' = active, legacy' = legacy,
           rt'.heating \in {rt.heating, None, SelectedHeating}
    PROVE  KnownInv' /\ HeatingKnown' = HeatingKnown
<1>1. HeatingKnown' = HeatingKnown
  BY DEF HeatingKnown
<1>2. \A i \in DOMAIN attempts' :
         active'[attempts'[i].module].rev = None => attempts'[i].previous = None
  BY DEF KnownInv, Stays
<1>3. rt'.heating = "legacy" => HeatingKnown
  BY LegacyIsSelected, NoneIsNotLegacy DEF KnownInv
<1> QED
  BY <1>1, <1>2, <1>3 DEF KnownInv

LEMMA OwnGoesOn ==
    ASSUME OwnInv, job # None, Stays, SameJob, job'.pc # "prepared",
           job.op # 0 /\ job.module = "heating" => attempts'[job.op].state # "prepared"
    PROVE  OwnInv'
<1>1. job'.module = job.module /\ job'.rev = job.rev /\ job'.op = job.op
  BY DEF SameJob
<1>2. Revisions(job.module)' = Revisions(job'.module) /\ Revisions(job'.module) = Revisions(job.module)
  BY <1>1 DEF Revisions
<1>3. ASSUME job.op # 0, NEW i \in DOMAIN attempts', attempts'[i].module = job.module, IsOpen(i)'
      PROVE  i = job.op
  <2>1. i \in DOMAIN attempts /\ attempts[i].module = job.module /\ IsOpen(i)
    BY <1>3 DEF Stays, IsOpen
  <2> QED
    BY <1>3, <2>1 DEF OwnInv
<1> QED
  BY <1>1, <1>2, <1>3 DEF OwnInv, Attempt

LEMMA OwnEnds ==
    ASSUME job' = None
    PROVE  OwnInv'
  BY DEF OwnInv

(* The own attempt has ended: there is no other. *)
LEMMA EndAttends ==
    ASSUME OwnInv, job # None, job.op # 0, Stays, job' = None,
           job.op \in DOMAIN attempts => attempts'[job.op].state \in Terminal
    PROVE  JobAttends
<1>1. ASSUME NEW m \in Modules, m = job.module
      PROVE  Interrupted(m)' = {}
  <2>1. \A i \in DOMAIN attempts' : attempts'[i].module = m /\ IsOpen(i)' => i = job.op
    BY <1>1 DEF OwnInv, Stays, IsOpen
  <2> QED
    BY <2>1 DEF Interrupted, IsOpen, Stays
<1> QED
  BY <1>1 DEF JobAttends

LoadsSelected ==
    /\ rt'.entry = "loaded" /\ rt'.retained = FALSE /\ rt'.orphans = {}
    /\ rt'.heating = IF Route = "full" THEN SelectedHeating ELSE None
    /\ rt'.water = IF Route = "unconfigured" THEN None ELSE SelectedWater

LEMMA FailuresAreCounted ==
    ASSUME NEW outcome, NEW heats \in BOOLEAN, NEW waters \in BOOLEAN
    PROVE  /\ Failures(outcome, heats, waters) \in Nat
           /\ Failures(outcome, heats, waters) = 0 => outcome = "complete" /\ heats = TRUE /\ waters = TRUE
  BY DEF Failures

LEMMA StartedLoads ==
    ASSUME NEW down, NEW cleaned \in BOOLEAN,
           down = NothingLoaded,
           rt' = Started(down, TRUE, TRUE, cleaned)
    PROVE  LoadsSelected
<1> DEFINE retained == down.retained /\ ~cleaned
           water == StartedWater(down, TRUE, retained)
<1>2. retained = FALSE /\ water = SelectedWater
  BY DEF NothingLoaded, StartedWater
<1>3. rt' = CASE Route = "unconfigured" -> SetUpUnconfigured(down, retained)
              [] Route = "water_only" -> SetUpWaterOnly(down, water, retained)
              [] Route = "full" -> SetUpFull(down, TRUE, water, retained)
  BY DEF Started
<1>4. Route \in {"unconfigured", "water_only", "full"}
  BY DEF Route
<1> HIDE DEF water, retained
<1>5. CASE Route = "unconfigured"
  BY <1>2, <1>3, <1>5 DEF SetUpUnconfigured, Loaded, NothingLoaded, LoadsSelected
<1>6. CASE Route = "water_only"
  BY <1>2, <1>3, <1>6 DEF SetUpWaterOnly, Loaded, NothingLoaded, LoadsSelected
<1>7. CASE Route = "full"
  BY <1>2, <1>3, <1>7 DEF SetUpFull, Loaded, NothingLoaded, LoadsSelected
<1> QED
  BY <1>4, <1>5, <1>6, <1>7

LEMMA CleanReload ==
    ASSUME UsedInv, CleanInv, up = TRUE, NEW alone \in {0, 1}, Reload(alone)
    PROVE  UsedInv' /\ (Clean' => Clean /\ LoadsSelected)
<1>1. CASE rt.entry = "failed_unload" /\ UNCHANGED <<rt, used>>
  BY <1>1 DEF UsedInv, Clean, CleanInv
<1>2. CASE rt.entry # "failed_unload"
  <2>1. PICK outcome \in UnloadOutcomes, heats \in BOOLEAN, waters \in BOOLEAN, cleaned \in BOOLEAN :
            /\ used' = [used EXCEPT !["faults"] = @ + Failures(outcome, heats, waters),
                                    !["reloads"] = @ + alone]
            /\ rt' = IF Unloaded(outcome).entry = "failed_unload" THEN Unloaded(outcome)
                     ELSE Started(Unloaded(outcome), heats, waters, cleaned)
    BY <1>2 DEF Reload
  <2> DEFINE n == Failures(outcome, heats, waters)
  <2>2. n \in Nat /\ (n = 0 => outcome = "complete" /\ heats = TRUE /\ waters = TRUE)
    BY FailuresAreCounted
  <2>3. used' = [used EXCEPT !["faults"] = @ + n, !["reloads"] = @ + alone]
    BY <2>1
  <2> HIDE DEF n
  <2>4. UsedInv' /\ (Clean' => Clean /\ n = 0)
    BY <2>2, <2>3, ReloadsAreCounted
  <2>5. ASSUME Clean'
        PROVE  LoadsSelected
    <3>1. outcome = "complete" /\ heats = TRUE /\ waters = TRUE /\ Clean
      BY <2>2, <2>4, <2>5
    <3>2. rt.entry = "loaded" /\ rt.orphans = {}
      BY <3>1 DEF CleanInv
    <3>3. Unloaded("complete") = NothingLoaded
      <4>1. rt.orphans \ {"water"} = {} /\ ("complete" # "complete") = FALSE
        BY <3>2
      <4>2. Unloaded("complete") = [NothingLoaded EXCEPT !.entry = "not_loaded", !.retained = FALSE,
                                                         !.orphans = {}]
        BY <3>2, <4>1 DEF Unloaded
      <4> QED
        BY <4>2 DEF NothingLoaded
    <3>4. Unloaded("complete").entry # "failed_unload"
      BY <3>3 DEF NothingLoaded
    <3>5. rt' = Started(Unloaded("complete"), TRUE, TRUE, cleaned)
      BY <2>1, <3>1, <3>4
    <3> QED
      BY <3>3, <3>5, StartedLoads
  <2> QED
    BY <2>4, <2>5
<1> QED
  BY <1>1, <1>2 DEF Reload

-----------------------------------------------------------------------------
(* THE STEPS OF AN ACTIVATION *)

(* The entry is loaded, and no start of a host failed. *)
Healthy == rt.entry = "loaded" /\ rt.retained = FALSE /\ rt.orphans = {}

LEMMA JobStepRecovers ==
    ASSUME ActivationInv, RunInv, RecoveryInv, job # None,
           up' = up, setup' = setup, legacy' = legacy, active' = active, Stays,
           UsedInv', Clean' => Clean, skipped' # TRUE => skipped # TRUE,
           rt'.heating \in {rt.heating, None, SelectedHeating}, Clean' => Healthy',
           OwnInv', Clean' /\ skipped' # TRUE => JobAttends, WillSkip => WillSkip'
    PROVE  RecoveryInv'
<1>1. up = TRUE /\ DownInv' /\ SetupInv'
  BY JobRuns
<1>2. KnownInv' /\ HeatingKnown' = HeatingKnown
  BY KnownStays DEF RecoveryInv
<1>3. CleanInv'
  BY DEF CleanInv, Healthy
<1>4. OthersStay /\ job.module \in Modules
  BY FewerOpen, JobFacts DEF OthersStay
<1>5. AttendedInv'
  BY <1>1, <1>2, <1>4, JobStepAttends DEF RecoveryInv
<1> QED
  BY <1>1, <1>2, <1>3, <1>5 DEF RecoveryInv

(* What stays the same when an activation does not touch the hosts. *)
LEMMA SameHosts ==
    ASSUME RecoveryInv, up = TRUE, rt' = rt
    PROVE  rt'.heating \in {rt.heating, None, SelectedHeating} /\ (Clean => Healthy')
  BY DEF RecoveryInv, CleanInv, Healthy

LEMMA FaultCounts ==
    ASSUME RecoveryInv, Uses("faults", 1)
    PROVE  UsedInv' /\ ~Clean'
<1>1. used' = [used EXCEPT !["faults"] = @ + 1]
  BY DEF Uses
<1>2. UsedInv
  BY DEF RecoveryInv
<1>3. UsedInv' /\ (Clean' => Clean /\ 1 = 0)
  BY <1>1, <1>2, FaultsAreCounted
<1> QED
  BY <1>3

LEMMA NoFaultCounts ==
    ASSUME RecoveryInv, used' = used
    PROVE  UsedInv' /\ (Clean' => Clean)
  BY DEF RecoveryInv, UsedInv, Clean

LEMMA OwnFacts ==
    ASSUME ActivationInv, RunInv, RecoveryInv, job # None
    PROVE  /\ JobIsRecord /\ job \in Activations /\ job.module \in Modules /\ up = TRUE
           /\ attempts \in Seq(Attempts)
           /\ job.op = 0 => Clears
           /\ job.op # 0 => HasAttempt /\ job.op \in DOMAIN attempts
           /\ OwnInv
  BY JobFacts DEF ActivationInv, DurableInv, JobInv, HasAttempt, RunInv, RecoveryInv, DownInv

LEMMA GotoIsSame ==
    ASSUME JobIsRecord, NEW pc, Goto(pc)
    PROVE  SameJob /\ job'.pc = pc
  BY DEF Goto, SameJob, JobIsRecord

(* An activation that goes on is still attended to. *)
LEMMA GoingAttends ==
    ASSUME job # None, job \in Activations, NEW pc \in Steps, Goto(pc)
    PROVE  JobAttends
  BY GoesOn DEF Goes, JobAttends

LEMMA ApplyingRecovers ==
    ASSUME ActivationInv, RunInv, RecoveryInv, BeginApplying
    PROVE  RecoveryInv'
<1>1. /\ job # None /\ job.pc = "prepared" /\ up' = up /\ setup' = setup /\ legacy' = legacy
      /\ active' = active /\ skipped' = skipped /\ rt' = rt
  BY DEF BeginApplying, At, history
<1>2. /\ JobIsRecord /\ job \in Activations /\ job.module \in Modules /\ up = TRUE
      /\ attempts \in Seq(Attempts) /\ job.op # 0 /\ HasAttempt /\ job.op \in DOMAIN attempts /\ OwnInv
  BY <1>1, OwnFacts DEF Clears, Undone
<1>3. ~WillSkip
  BY <1>1 DEF WillSkip
<1>4. CASE attempts' = attempts /\ job' = None /\ Attempt.state # "prepared" /\ used' = used
  <2>1. attempts[job.op].state \in Terminal
    <3>1. attempts[job.op] \in Attempts /\ attempts[job.op].state \notin {"prepared", "applying"}
      BY <1>1, <1>2, <1>4 DEF OwnInv, Attempt
    <3> QED
      BY <3>1 DEF Attempts, States
  <2>2. JobAttends
    BY <1>1, <1>2, <1>4, <2>1, EndAttends, NothingStays
  <2> QED
    BY <1>1, <1>2, <1>3, <1>4, <2>2, SameHosts, NoFaultCounts, NothingStays, OwnEnds, JobStepRecovers
<1>5. CASE attempts' = attempts /\ job' = None /\ Uses("faults", 1)
  BY <1>1, <1>2, <1>3, <1>5, SameHosts, FaultCounts, NothingStays, OwnEnds, JobStepRecovers
<1>6. CASE /\ attempts' = attempts /\ job.module # "heating" /\ Goto("restoring")
           /\ used' = used \/ Uses("faults", 1)
  <2>1. OwnInv'
    BY <1>1, <1>2, <1>6, GotoIsSame, NothingStays, OwnGoesOn
  <2>2. JobAttends
    BY <1>1, <1>2, <1>6, GoingAttends DEF Steps
  <2> QED
    BY <1>1, <1>2, <1>3, <1>6, <2>1, <2>2, SameHosts, NoFaultCounts, FaultCounts, NothingStays, JobStepRecovers
<1>7. CASE Attempt.state = "prepared" /\ Transition(job.op, "applying") /\ Goto("applying") /\ used' = used
  <2>1. Becomes(job.op, "applying")
    BY <1>2, <1>7, TransitionStays DEF IsOpen, Attempt, Terminal
  <2>2. Stays /\ attempts'[job.op].state = "applying"
    BY <1>2, <2>1 DEF Becomes
  <2>3. OwnInv'
    BY <1>1, <1>2, <1>7, <2>2, GotoIsSame, OwnGoesOn
  <2>4. JobAttends
    BY <1>1, <1>2, <1>7, GoingAttends DEF Steps
  <2> QED
    BY <1>1, <1>2, <1>3, <1>7, <2>2, <2>3, <2>4, SameHosts, NoFaultCounts, JobStepRecovers
<1> QED
  BY <1>4, <1>5, <1>6, <1>7 DEF BeginApplying, NotApplied, Finish, GiveUp

LEMMA HandingOverRecovers ==
    ASSUME ActivationInv, RunInv, RecoveryInv, HandOver
    PROVE  RecoveryInv'
<1>1. /\ job # None /\ job.pc = "applying" /\ up' = up /\ setup' = setup /\ legacy' = legacy
      /\ active' = active /\ attempts' = attempts /\ skipped' = skipped
      /\ setup = None /\ Reload(0)
  BY DEF HandOver, At, durable, history
<1>2. /\ JobIsRecord /\ job \in Activations /\ up = TRUE /\ job.op # 0 /\ OwnInv
      /\ IsRuntime(rt)
  BY <1>1, OwnFacts DEF Clears, Undone, RunInv
<1>3. UsedInv' /\ (Clean' => Clean /\ LoadsSelected)
  BY <1>1, <1>2, CleanReload DEF RecoveryInv
<1>4. rt'.heating \in {rt.heating, None, SelectedHeating}
  BY <1>1, <1>2, ReloadBrings DEF Brings, Running, SelectedOf, Modules
<1>5. Clean' => Healthy'
  BY <1>3 DEF LoadsSelected, Healthy
<1>6. \E pc \in {"loaded", "restoring"} : Goto(pc)
  BY DEF HandOver, GiveUp
<1>7. OwnInv' /\ JobAttends
  <2>1. PICK pc \in {"loaded", "restoring"} : Goto(pc)
    BY <1>6
  <2>2. SameJob /\ job'.pc # "prepared" /\ JobAttends
    BY <1>1, <1>2, <2>1, GotoIsSame, GoingAttends DEF Steps
  <2>3. job.module = "heating" => attempts'[job.op].state # "prepared"
    BY <1>1, <1>2 DEF OwnInv, Attempt
  <2> QED
    BY <1>1, <1>2, <2>2, <2>3, NothingStays, OwnGoesOn
<1>8. ~WillSkip
  BY <1>1 DEF WillSkip
<1> QED
  BY <1>1, <1>3, <1>4, <1>5, <1>7, <1>8, NothingStays, JobStepRecovers

LEMMA ReadyStays ==
    ASSUME attempts \in Seq(Attempts), NEW i \in DOMAIN attempts,
           attempts' = [attempts EXCEPT ![i].ready = TRUE]
    PROVE  Stays /\ attempts'[i].state = attempts[i].state
<1>1. /\ DOMAIN attempts' = DOMAIN attempts
      /\ \A j \in DOMAIN attempts : j # i => attempts'[j] = attempts[j]
      /\ attempts'[i] = [attempts[i] EXCEPT !.ready = TRUE] /\ attempts[i] \in Attempts
  OBVIOUS
<1>2. /\ attempts'[i].module = attempts[i].module
      /\ attempts'[i].candidate = attempts[i].candidate
      /\ attempts'[i].previous = attempts[i].previous
      /\ attempts'[i].state = attempts[i].state
  BY <1>1 DEF Attempts
<1> QED
  BY <1>1, <1>2 DEF Stays

LEMMA ReadyRecovers ==
    ASSUME ActivationInv, RunInv, RecoveryInv, RecordReady
    PROVE  RecoveryInv'
<1>1. /\ job # None /\ job.pc = "loaded" /\ up' = up /\ setup' = setup /\ legacy' = legacy
      /\ active' = active /\ skipped' = skipped /\ rt' = rt
  BY DEF RecordReady, At, history
<1>2. /\ JobIsRecord /\ job \in Activations /\ up = TRUE /\ job.op # 0 /\ OwnInv
      /\ attempts \in Seq(Attempts) /\ job.op \in DOMAIN attempts
  BY <1>1, OwnFacts DEF Clears, Undone
<1>3. \E pc \in {"ready", "restoring"} : Goto(pc)
  BY DEF RecordReady, GiveUp
<1>4. used' = used \/ Uses("faults", 1)
  BY DEF RecordReady
<1>5. Stays /\ attempts'[job.op].state = attempts[job.op].state
  BY <1>2, NothingStays, ReadyStays DEF RecordReady
<1>6. PICK pc \in {"ready", "restoring"} : Goto(pc)
  BY <1>3
<1>7. SameJob /\ job'.pc = pc /\ JobAttends
  BY <1>1, <1>2, <1>6, GotoIsSame, GoingAttends DEF Steps
<1>8. OwnInv'
  <2>1. job.module = "heating" => attempts'[job.op].state # "prepared"
    BY <1>1, <1>2, <1>5 DEF OwnInv, Attempt
  <2> QED
    BY <1>1, <1>2, <1>5, <1>7, <2>1, OwnGoesOn
<1>9. WillSkip => WillSkip'
  <2>1. job' # None
    BY <1>1, <1>2, <1>6, GoesOn DEF Steps, Goes
  <2> QED
    BY <1>1, <1>7, <2>1 DEF WillSkip, SameJob
<1> QED
  BY <1>1, <1>2, <1>4, <1>5, <1>7, <1>8, <1>9, SameHosts, NoFaultCounts, FaultCounts, JobStepRecovers

LEMMA SwappingRecovers ==
    ASSUME ActivationInv, RunInv, RecoveryInv, Swap
    PROVE  RecoveryInv'
<1>1. /\ job # None /\ job.pc = "ready" /\ up' = up /\ setup' = setup
      /\ attempts' = attempts /\ skipped' = skipped /\ rt' = rt /\ used' = used
  BY DEF Swap, At
<1>2. /\ JobIsRecord /\ job \in Activations /\ up = TRUE /\ job.op # 0 /\ OwnInv
      /\ job.module \in Modules /\ job.rev \notin {None, "legacy"}
  BY <1>1, OwnFacts, JobFacts DEF Clears, Undone
<1>3. \E pc \in {"swapped", "restoring"} : Goto(pc)
  BY DEF Swap, GiveUp
<1>4. PICK pc \in {"swapped", "restoring"} : Goto(pc)
  BY <1>3
<1>5. SameJob /\ job'.pc = pc /\ JobAttends /\ job' # None /\ job'.module = job.module
  BY <1>1, <1>2, <1>4, GotoIsSame, GoingAttends, GoesOn DEF Steps, Goes
<1>6. OwnInv'
  <2>1. job.module = "heating" => attempts'[job.op].state # "prepared"
    BY <1>1, <1>2 DEF OwnInv, Attempt
  <2> QED
    BY <1>1, <1>2, <1>5, <2>1, NothingStays, OwnGoesOn
<1>7. UsedInv' /\ (Clean' => Clean)
  BY <1>1, NoFaultCounts
<1>8. CASE MaySwap
  <2>1. /\ active' = [active EXCEPT ![job.module] =
                        [rev |-> job.rev, gen |-> Attempt.generation + 1, op |-> job.op]]
        /\ legacy' = FALSE
    BY <1>8 DEF Swap
  <2>2. active \in [Modules -> References]
    BY DEF ActivationInv, DurableInv
  <2>3. /\ active'[job.module].rev = job.rev
        /\ \A m \in Modules : m # job.module => active'[m] = active[m]
    BY <1>2, <2>1, <2>2
  <2>4. job.module = "water" => ~legacy
    <3>1. legacy => job.rev \in HeatingRevisions
      BY <1>8, ConversionsAreHeating DEF MaySwap
    <3>2. job.rev \in Revisions(job.module)
      BY <1>1, <1>2 DEF OwnInv
    <3> QED
      BY <3>1, <3>2, RevisionsAreNames DEF Revisions
  <2>5. /\ HeatingKnown' => HeatingKnown \/ job.module = "heating"
        /\ HeatingKnown => HeatingKnown'
    BY <1>2, <2>1, <2>3, <2>4 DEF HeatingKnown, Modules
  <2>6. KnownInv'
    <3>1. \A i \in DOMAIN attempts' :
             active'[attempts'[i].module].rev = None => attempts'[i].previous = None
      <4>1. \A i \in DOMAIN attempts : attempts[i].module \in Modules
        <5>1. \A i \in DOMAIN attempts : attempts[i] \in Attempts
          BY DEF ActivationInv, DurableInv
        <5> QED
          BY <5>1 DEF Attempts
      <4> QED
        BY <1>1, <1>2, <2>3, <4>1 DEF RecoveryInv, KnownInv
    <3> QED
      BY <1>1, <2>1, <2>5, <3>1 DEF RecoveryInv, KnownInv
  <2>7. DownInv' /\ SetupInv' /\ CleanInv'
    BY <1>1, <1>7, JobRuns DEF RecoveryInv, CleanInv
  <2>8. ~WillSkip
    BY <2>4 DEF WillSkip
  <2>9. OthersStay
    BY <1>1, NothingStays, FewerOpen DEF OthersStay
  <2>10. AttendedInv'
    BY <1>1, <1>2, <1>5, <1>7, <2>5, <2>8, <2>9, JobStepAttends DEF RecoveryInv
  <2> QED
    BY <1>6, <1>7, <2>6, <2>7, <2>10 DEF RecoveryInv
<1>9. CASE ~MaySwap
  <2>1. active' = active /\ legacy' = legacy /\ Goto("restoring")
    BY <1>9 DEF Swap, GiveUp
  <2>2. WillSkip => WillSkip'
    <3>1. job'.pc = "restoring"
      BY <1>2, <2>1, GotoIsSame
    <3> QED
      BY <1>1, <1>5, <2>1, <3>1 DEF WillSkip
  <2> QED
    BY <1>1, <1>2, <1>5, <1>6, <1>7, <2>1, <2>2, NothingStays, SameHosts, JobStepRecovers
<1> QED
  BY <1>8, <1>9

LEMMA CommittingRecovers ==
    ASSUME ActivationInv, RunInv, RecoveryInv, RecordCommitted \/ Reconcile
    PROVE  RecoveryInv'
<1>1. /\ job # None /\ job.pc \in {"swapped", "reconciling"} /\ up' = up /\ setup' = setup
      /\ legacy' = legacy /\ active' = active /\ skipped' = skipped /\ rt' = rt
  BY DEF RecordCommitted, Reconcile, At, history
<1>2. /\ JobIsRecord /\ job \in Activations /\ up = TRUE /\ job.op # 0 /\ OwnInv
      /\ attempts \in Seq(Attempts) /\ job.op \in DOMAIN attempts /\ job.op \in swapped
  BY <1>1, OwnFacts DEF Clears, Undone, HasAttempt
<1>3. ~WillSkip
  BY <1>1 DEF WillSkip
<1>4. CASE attempts' = attempts /\ Uses("faults", 1) /\ job' = None
  BY <1>1, <1>2, <1>3, <1>4, SameHosts, FaultCounts, NothingStays, OwnEnds, JobStepRecovers
<1>5. ASSUME attempts' = attempts, used' = used \/ Uses("faults", 1),
             NEW pc \in {"reconciling", "restoring"}, Goto(pc)
      PROVE  RecoveryInv'
  <2>1. SameJob /\ job'.pc = pc /\ JobAttends
    BY <1>1, <1>2, <1>5, GotoIsSame, GoingAttends DEF Steps
  <2>2. OwnInv'
    <3>1. job.module = "heating" => attempts'[job.op].state # "prepared"
      BY <1>1, <1>2, <1>5 DEF OwnInv, Attempt
    <3> QED
      BY <1>1, <1>2, <1>5, <2>1, <3>1, NothingStays, OwnGoesOn
  <2> QED
    BY <1>1, <1>2, <1>3, <1>5, <2>1, <2>2, SameHosts, NoFaultCounts, FaultCounts, NothingStays, JobStepRecovers
<1>6. ASSUME NEW state \in Terminal, Becomes(job.op, state), job' = None, used' = used
      PROVE  RecoveryInv'
  <2>1. Stays /\ attempts'[job.op].state = state
    BY <1>2, <1>6 DEF Becomes
  <2>2. JobAttends
    BY <1>1, <1>2, <1>6, <2>1, EndAttends
  <2> QED
    BY <1>1, <1>2, <1>3, <1>6, <2>1, <2>2, SameHosts, NoFaultCounts, OwnEnds, JobStepRecovers
<1>7. CASE RecordCommitted
  <2>1. CASE Transition(job.op, "committed") /\ job' = None /\ used' = used
    <3>1. ~IsOpen(job.op) => "committed" = attempts[job.op].state
      BY <1>2 DEF ActivationInv, DurableInv, SwapIsKnown, IsOpen, Terminal
    <3>2. Becomes(job.op, "committed") /\ "committed" \in Terminal
      BY <1>2, <2>1, <3>1, TransitionStays DEF Terminal
    <3> QED
      BY <1>6, <2>1, <3>2
  <2>2. CASE Goto("reconciling") /\ attempts' = attempts /\ Uses("faults", 1)
    BY <1>5, <2>2
  <2> QED
    BY <1>7, <2>1, <2>2 DEF RecordCommitted, Finish
<1>8. CASE Reconcile
  <2>1. CASE Transition(job.op, Recovered(job.op, FALSE)) /\ job' = None /\ used' = used
    BY <1>6, <2>1, RecoveredBecomes, RecoveredIsTerminal
  <2>2. CASE Goto("restoring") /\ attempts' = attempts /\ (used' = used \/ Uses("faults", 1))
    BY <1>5, <2>2
  <2> QED
    BY <1>4, <1>8, <2>1, <2>2 DEF Reconcile, Finish, GiveUp
<1> QED
  BY <1>7, <1>8

LEMMA RestoringRecovers ==
    ASSUME ActivationInv, RunInv, RecoveryInv, Restore
    PROVE  RecoveryInv'
<1>1. /\ job # None /\ job.pc = "restoring" /\ up' = up /\ setup' = setup /\ legacy' = legacy
      /\ active' = active /\ attempts' = attempts /\ skipped' = skipped
  BY DEF Restore, At, durable, history
<1>2. JobIsRecord /\ job \in Activations /\ up = TRUE /\ OwnInv /\ IsRuntime(rt)
  BY <1>1, OwnFacts DEF RunInv
<1>3. ASSUME NEW pc \in {"reloaded", "restored"}, NEW restored \in BOOLEAN,
             job' = [job EXCEPT !.pc = pc, !.restored = restored]
      PROVE  OwnInv' /\ JobAttends
  <2>1. SameJob /\ job'.pc # "prepared"
    BY <1>2, <1>3 DEF SameJob, JobIsRecord
  <2>2. JobAttends
    BY <1>1, <1>2, <1>3, UndoGoesOn DEF Steps, Goes, JobAttends
  <2>3. job.op # 0 /\ job.module = "heating" => attempts'[job.op].state # "prepared"
    BY <1>1, <1>2 DEF OwnInv, Attempt
  <2> QED
    BY <1>1, <1>2, <2>1, <2>2, <2>3, NothingStays, OwnGoesOn
<1>4. CASE /\ job.module = "water" /\ WaterAuthorityRuns(rt) /\ rt' = rt /\ used' = used
           /\ job' = [job EXCEPT !.pc = "restored", !.restored = TRUE]
  <2>1. OwnInv' /\ JobAttends
    BY <1>3, <1>4
  <2>2. ~WillSkip
    BY <1>4 DEF WillSkip, WaterAuthorityRuns, RecoveryInv, KnownInv, Modules
  <2> QED
    BY <1>1, <1>2, <1>4, <2>1, <2>2, SameHosts, NoFaultCounts, NothingStays, JobStepRecovers
<1>5. CASE /\ setup = None /\ Reload(0)
           /\ job' = [job EXCEPT !.pc = "reloaded", !.restored = ReloadSucceeded]
  <2>1. OwnInv' /\ JobAttends
    BY <1>3, <1>5 DEF ReloadSucceeded
  <2>2. UsedInv' /\ (Clean' => Clean /\ LoadsSelected)
    BY <1>2, <1>5, CleanReload DEF RecoveryInv
  <2>3. rt'.heating \in {rt.heating, None, SelectedHeating}
    BY <1>2, <1>5, ReloadBrings DEF Brings, Running, SelectedOf, Modules
  <2>4. Clean' => Healthy'
    BY <2>2 DEF LoadsSelected, Healthy
  <2>5. ~WillSkip
    BY <1>5 DEF WillSkip
  <2> QED
    BY <1>1, <2>1, <2>2, <2>3, <2>4, <2>5, NothingStays, JobStepRecovers
<1> QED
  BY <1>4, <1>5 DEF Restore

LEMMA QuiescingRecovers ==
    ASSUME ActivationInv, RunInv, RecoveryInv, Quiesce
    PROVE  RecoveryInv'
<1>1. /\ job # None /\ job.pc = "reloaded" /\ up' = up /\ setup' = setup /\ legacy' = legacy
      /\ active' = active /\ attempts' = attempts /\ skipped' = skipped
  BY DEF Quiesce, At, durable, history
<1>2. JobIsRecord /\ job \in Activations /\ up = TRUE /\ OwnInv /\ IsRuntime(rt) /\ UsedInv
  BY <1>1, OwnFacts DEF RunInv, RecoveryInv
<1>3. OwnInv' /\ JobAttends
  <2>1. \E restored \in BOOLEAN : job' = [job EXCEPT !.pc = "restored", !.restored = restored]
    BY <1>2 DEF Quiesce, Activations, HeatingRestored, WaterAuthorityRuns
  <2>2. PICK restored \in BOOLEAN : job' = [job EXCEPT !.pc = "restored", !.restored = restored]
    BY <2>1
  <2>3. SameJob /\ job'.pc # "prepared"
    BY <1>2, <2>2 DEF SameJob, JobIsRecord
  <2>4. JobAttends
    BY <1>1, <1>2, <2>2, UndoGoesOn DEF Steps, Goes, JobAttends
  <2>5. job.op # 0 /\ job.module = "heating" => attempts'[job.op].state # "prepared"
    BY <1>1, <1>2 DEF OwnInv, Attempt
  <2> QED
    BY <1>1, <1>2, <2>3, <2>4, <2>5, NothingStays, OwnGoesOn
<1>4. ~WillSkip
  BY <1>1 DEF WillSkip
<1>5. /\ UsedInv' /\ (Clean' => Clean)
      /\ rt'.heating \in {rt.heating, None}
      /\ Clean' => rt'.entry = rt.entry /\ rt'.retained = rt.retained /\ rt'.orphans = rt.orphans
  <2>1. CASE job.module = "heating"
    <3>1. used' = used /\ (rt' = rt \/ rt' = [rt EXCEPT !.heating = None])
      BY <1>1, <2>1 DEF Quiesce, Quiesced
    <3> QED
      BY <1>2, <3>1, NoFaultCounts DEF IsRuntime
  <2>2. CASE job.module # "heating"
    <3>1. PICK complete \in BOOLEAN :
            /\ Uses("faults", IF complete THEN 0 ELSE 1)
            /\ rt' = WaterQuiesced(rt, complete)
      BY <1>1, <2>2 DEF Quiesce
    <3> DEFINE n == IF complete THEN 0 ELSE 1
    <3>2. n \in Nat /\ (n = 0 => complete = TRUE) /\ used' = [used EXCEPT !["faults"] = @ + n]
      BY <3>1 DEF Uses
    <3> HIDE DEF n
    <3>3. UsedInv' /\ (Clean' => Clean /\ n = 0)
      BY <1>2, <3>2, FaultsAreCounted
    <3>4. rt' = rt \/ rt' = [rt EXCEPT !.running = FALSE, !.water = IF complete THEN None ELSE @,
                                       !.retained = @ \/ ~complete]
      BY <3>1 DEF WaterQuiesced
    <3>5. rt'.heating = rt.heating /\ rt'.entry = rt.entry /\ rt'.orphans = rt.orphans
      BY <1>2, <3>4 DEF IsRuntime
    <3>6. complete = TRUE /\ rt.retained = FALSE => rt'.retained = rt.retained
      BY <1>2, <3>4 DEF IsRuntime
    <3>7. Clean => rt.retained = FALSE
      BY <1>2 DEF RecoveryInv, CleanInv
    <3> QED
      BY <3>2, <3>3, <3>5, <3>6, <3>7
  <2> QED
    BY <2>1, <2>2
<1>6. Clean' => Healthy'
  BY <1>2, <1>5 DEF RecoveryInv, CleanInv, Healthy
<1> QED
  BY <1>1, <1>3, <1>4, <1>5, <1>6, NothingStays, JobStepRecovers

LEMMA FailingRecovers ==
    ASSUME ActivationInv, RunInv, RecoveryInv, RecordFailure
    PROVE  RecoveryInv'
<1>1. /\ job # None /\ job.pc = "restored" /\ job.op # 0 /\ up' = up /\ setup' = setup
      /\ legacy' = legacy /\ active' = active /\ rt' = rt /\ job' = None
  BY DEF RecordFailure, At, Finish
<1>2. /\ job.module \in Modules /\ up = TRUE /\ OwnInv /\ HasAttempt
      /\ attempts \in Seq(Attempts) /\ job.op \in DOMAIN attempts
  BY <1>1, OwnFacts
<1>3. ~WillSkip
  BY <1>1 DEF WillSkip
<1>4. CASE Transition(job.op, RecordedFailure) /\ used' = used /\ skipped' = skipped
  <2> DEFINE state == RecordedFailure
  <2>1. attempts[job.op].state \in States
    <3>1. attempts[job.op] \in Attempts
      BY <1>2
    <3> QED
      BY <3>1 DEF Attempts
  <2>2. job.module = "heating" => attempts[job.op].state # "prepared"
    BY <1>1, <1>2 DEF OwnInv, Attempt
  <2>3. state \in Terminal /\ (~IsOpen(job.op) => state = attempts[job.op].state)
    <3>1. CASE Attempt.state = "applying" /\ ~(job.module = "water" /\ Durable(job.op))
      BY <3>1 DEF RecordedFailure, Attempt, IsOpen, Terminal
    <3>2. CASE ~(Attempt.state = "applying" /\ ~(job.module = "water" /\ Durable(job.op)))
      <4>1. CASE job.module = "water"
        <5>1. state = Recovered(job.op, job.restored)
          BY <3>2, <4>1 DEF RecordedFailure
        <5> HIDE DEF state
        <5> QED
          BY <5>1, RecoveredIsTerminal DEF Recovered, IsOpen
      <4>2. CASE job.module # "water"
        <5>1. state = attempts[job.op].state /\ attempts[job.op].state # "applying"
          BY <3>2, <4>2 DEF RecordedFailure, Attempt
        <5> QED
          BY <1>2, <2>1, <2>2, <4>2, <5>1 DEF States, Modules
      <4> QED
        BY <4>1, <4>2
    <3> QED
      BY <3>1, <3>2
  <2>4. Transition(job.op, state)
    BY <1>4
  <2> HIDE DEF state
  <2>5. Becomes(job.op, state)
    BY <1>2, <2>3, <2>4, TransitionStays
  <2>6. Stays /\ attempts'[job.op].state \in Terminal
    BY <1>2, <2>3, <2>5 DEF Becomes
  <2>7. JobAttends
    BY <1>1, <1>2, <2>6, EndAttends
  <2> QED
    BY <1>1, <1>2, <1>3, <1>4, <2>6, <2>7, SameHosts, NoFaultCounts, OwnEnds, JobStepRecovers
<1>5. CASE skipped' = TRUE /\ attempts' = attempts /\ used' = used
  BY <1>1, <1>2, <1>3, <1>5, SameHosts, NoFaultCounts, OwnEnds, NothingStays, JobStepRecovers
<1>6. CASE attempts' = attempts /\ skipped' = skipped /\ Uses("faults", 1)
  BY <1>1, <1>2, <1>3, <1>6, SameHosts, FaultCounts, OwnEnds, NothingStays, JobStepRecovers
<1> QED
  BY <1>4, <1>5, <1>6 DEF RecordFailure

LEMMA ClearingRecovers ==
    ASSUME ActivationInv, RunInv, RecoveryInv, ClearAttempt
    PROVE  RecoveryInv'
<1> DEFINE i == NextOf(job.todo)
           rolledBack == job.restored /\ WaterPredecessor(i)
           todo == job.todo \ {i}
           pc == IF job.todo = {i} THEN "unprepared" ELSE job.pc
<1>1. /\ job # None /\ job.pc = "restored" /\ job.op = 0 /\ up' = up /\ setup' = setup
      /\ legacy' = legacy /\ active' = active /\ rt' = rt /\ skipped' = skipped
  BY DEF ClearAttempt, At, history
<1>2. JobIsRecord /\ job \in Activations /\ up = TRUE /\ OwnInv
  BY <1>1, OwnFacts
<1>3. ~WillSkip
  BY <1>1 DEF WillSkip
<1>4. CASE attempts' = attempts /\ job' = None /\ Uses("faults", 1)
  BY <1>1, <1>2, <1>3, <1>4, SameHosts, FaultCounts, OwnEnds, NothingStays, JobStepRecovers
<1>5. CASE /\ Transition(i, Recovered(i, rolledBack)) /\ used' = used
           /\ job' = [job EXCEPT !.todo = @ \ {i}, !.pc = IF job.todo = {i} THEN "unprepared" ELSE @]
  <2>1. pc \in Steps /\ todo \in SUBSET Nat /\ job' = [job EXCEPT !.todo = todo, !.pc = pc]
    BY <1>1, <1>2, <1>5 DEF Activations, Steps
  <2> HIDE DEF i, todo, pc, rolledBack
  <2>2. Stays
    BY <1>5, RecoveredBecomes DEF Becomes
  <2>3. job' \in Activations /\ job'.module = job.module /\ job'.rev = job.rev /\ job'.op = 0
    BY <1>1, <1>2, <2>1 DEF Activations
  <2>4. JobAttends
    BY <2>3, NoneIsNoActivation DEF JobAttends
  <2>5. OwnInv'
    BY <1>1, <1>2, <2>3 DEF OwnInv, Revisions
  <2> QED
    BY <1>1, <1>2, <1>3, <1>5, <2>2, <2>4, <2>5, SameHosts, NoFaultCounts, JobStepRecovers
<1> QED
  BY <1>4, <1>5 DEF ClearAttempt

(* A new attempt, for the activation that job' is. *)
Appends(m, a) ==
    /\ attempts \in Seq(Attempts) /\ attempts' = Append(attempts, a)
    /\ a.module = m /\ a.previous = active[m].rev /\ a.state = "prepared"
    /\ Interrupted(m) = {}

LEMMA AppendedFacts ==
    ASSUME NEW m \in Modules, NEW a, Appends(m, a)
    PROVE  /\ DOMAIN attempts' = DOMAIN attempts \cup {Len(attempts) + 1}
           /\ attempts'[Len(attempts) + 1] = a
           /\ \A i \in DOMAIN attempts : attempts'[i] = attempts[i]
           /\ Len(attempts) + 1 \in Nat \ {0}
  BY DEF Appends

LEMMA AppendingRecovers ==
    ASSUME ActivationInv, RunInv, RecoveryInv, NEW m \in Modules, NEW a, Appends(m, a),
           job' # None, job'.module = m, job'.op = Len(attempts) + 1, job'.pc = "prepared",
           job'.rev \in Revisions(m), job = None \/ job.module = m, ~WillSkip,
           up = TRUE, up' = up, setup' = setup, legacy' = legacy, active' = active, rt' = rt,
           used' = used, skipped' = skipped
    PROVE  RecoveryInv'
<1> DEFINE n == Len(attempts) + 1
<1>1. /\ DOMAIN attempts' = DOMAIN attempts \cup {n} /\ attempts'[n] = a
      /\ \A i \in DOMAIN attempts : attempts'[i] = attempts[i]
      /\ n \in Nat \ {0} /\ job'.op = n
  BY AppendedFacts
<1>2. /\ a.module = m /\ a.previous = active[m].rev /\ a.state = "prepared"
      /\ Interrupted(m) = {}
  BY DEF Appends
<1> HIDE DEF n
<1>3. UsedInv' /\ (Clean' => Clean) /\ HeatingKnown' = HeatingKnown
  BY NoFaultCounts DEF HeatingKnown
<1>4. KnownInv'
  BY <1>1, <1>2, <1>3 DEF RecoveryInv, KnownInv
<1>5. OwnInv'
  <2>1. Revisions(job.module)' = Revisions(m)
    BY DEF Revisions
  <2>2. ASSUME NEW i \in DOMAIN attempts', attempts'[i].module = m, IsOpen(i)'
        PROVE  i = n
    BY <1>1, <1>2, <2>2 DEF Interrupted, IsOpen
  <2> QED
    BY <1>1, <1>2, <2>1, <2>2 DEF OwnInv, Attempt
<1>6. DownInv' /\ SetupInv' /\ CleanInv'
  BY <1>3 DEF RecoveryInv, DownInv, SetupInv, CleanInv
<1>7. \A k \in Modules : k # m => Interrupted(k)' \subseteq Interrupted(k)
  BY <1>1, <1>2 DEF Interrupted
<1>8. AttendedInv'
  <2> SUFFICES ASSUME Clean', skipped' # TRUE
               PROVE  AllAttended'
    BY DEF AttendedInv
  <2>1. AllAttended
    BY <1>3 DEF RecoveryInv, AttendedInv
  <2>2. Attended(m)'
    BY DEF Attended
  <2>3. ASSUME NEW k \in Modules, k # m, Attended(k)
        PROVE  Attended(k)'
    BY <1>7, <2>3 DEF Attended, Awaits, Each
  <2> QED
    BY <1>3, <2>1, <2>2, <2>3 DEF AllAttended, Modules
<1> QED
  BY <1>3, <1>4, <1>5, <1>6, <1>8 DEF RecoveryInv

LEMMA PreparingRecovers ==
    ASSUME ActivationInv, RunInv, RecoveryInv, PrepareWater
    PROVE  RecoveryInv'
<1>1. /\ job # None /\ job.pc = "unprepared" /\ up' = up /\ setup' = setup
      /\ legacy' = legacy /\ active' = active /\ rt' = rt /\ skipped' = skipped
  BY DEF PrepareWater, At, history
<1>2. /\ JobIsRecord /\ job \in Activations /\ up = TRUE /\ job.module \in Modules
      /\ attempts \in Seq(Attempts) /\ job.op = 0 /\ Clears /\ OwnInv
  BY <1>1, OwnFacts DEF HasAttempt
<1>3. job.module = "water" /\ OpenOfWater = {}
  BY <1>1, <1>2 DEF Clears
<1>4. ~WillSkip
  BY <1>1 DEF WillSkip
<1>5. CASE attempts' = attempts /\ job' = None /\ Uses("faults", 1)
  BY <1>1, <1>2, <1>4, <1>5, SameHosts, FaultCounts, OwnEnds, NothingStays, JobStepRecovers
<1>6. CASE /\ Prepared(job) /\ used' = used
           /\ job' = [job EXCEPT !.op = Len(attempts) + 1, !.pc = "prepared"]
  <2> DEFINE a == [module |-> job.module, candidate |-> job.rev,
                   previous |-> active[job.module].rev, generation |-> active[job.module].gen,
                   ready |-> FALSE, state |-> "prepared"]
  <2>1. Appends("water", a)
    BY <1>2, <1>3, <1>6 DEF Appends, Prepared, OpenOfWater
  <2> HIDE DEF a
  <2>2. /\ job'.module = "water" /\ job'.rev = job.rev /\ job'.op = Len(attempts) + 1
        /\ job'.pc = "prepared"
    BY <1>2, <1>3, <1>6 DEF JobIsRecord
  <2>3. job' # None
    <3>1. Len(attempts) + 1 \in Nat
      BY <1>2
    <3>2. job' \in Activations
      BY <1>2, <1>6, <3>1 DEF Activations, Steps
    <3> QED
      BY <3>2, NoneIsNoActivation
  <2>4. job.rev \in Revisions("water") /\ "water" \in Modules
    BY <1>1, <1>2, <1>3 DEF OwnInv, Modules
  <2> QED
    BY <1>1, <1>2, <1>3, <1>4, <1>6, <2>1, <2>2, <2>3, <2>4, AppendingRecovers
<1> QED
  BY <1>5, <1>6 DEF PrepareWater

(* Nothing of what matters here changes, or a command stops the water host. *)
LEMMA QuietlyRecovers ==
    ASSUME RecoveryInv, up' = up, setup' = setup, legacy' = legacy, active' = active,
           attempts' = attempts, job' = job, skipped' = skipped,
           UsedInv', Clean' => Clean,
           rt'.heating = rt.heating, rt'.water = rt.water,
           Clean' => rt'.entry = rt.entry /\ rt'.orphans = rt.orphans
                     /\ (rt.retained = FALSE => rt'.retained = FALSE)
    PROVE  RecoveryInv'
<1>1. KnownInv' /\ DownInv' /\ SetupInv' /\ CleanInv'
  BY DEF RecoveryInv, KnownInv, HeatingKnown, DownInv, SetupInv, CleanInv
<1>2. OwnInv'
  BY DEF RecoveryInv, OwnInv, Revisions, IsOpen, Attempt
<1>3. AttendedInv'
  BY DEF RecoveryInv, AttendedInv, AllAttended, Attended, HeatingKnown, WillSkip, Interrupted,
         Awaits, Each
<1> QED
  BY <1>1, <1>2, <1>3 DEF RecoveryInv

LEMMA BeginningRecovers ==
    ASSUME ActivationInv, RunInv, RecoveryInv, BeginHeating \/ BeginWater
    PROVE  RecoveryInv'
<1>1. /\ job = None /\ up = TRUE /\ up' = up /\ setup' = setup /\ legacy' = legacy
      /\ active' = active /\ rt' = rt /\ skipped' = skipped /\ ~WillSkip
  BY DEF BeginHeating, BeginWater, LockFree, durable, history, RecoveryInv, DownInv, WillSkip
<1>2. attempts \in Seq(Attempts) /\ Len(attempts) + 1 \in Nat
  BY DEF ActivationInv, DurableInv
<1>3. CASE BeginHeating
  <2>1. PICK q \in waiting :
          /\ q.module = "heating"
          /\ \/ attempts' = attempts /\ job' = job /\ used' = used
             \/ /\ ~HeatingRefused(q) /\ Interrupted("heating") = {} /\ Prepared(q)
                /\ job' = Job(q, Len(attempts) + 1, "prepared", {}) /\ used' = used
             \/ attempts' = attempts /\ job' = job /\ Uses("faults", 1)
    BY <1>3 DEF BeginHeating
  <2>2. CASE attempts' = attempts /\ job' = job /\ used' = used
    BY <1>1, <2>2, NoFaultCounts, QuietlyRecovers
  <2>3. CASE attempts' = attempts /\ job' = job /\ Uses("faults", 1)
    BY <1>1, <2>3, FaultCounts, QuietlyRecovers
  <2>4. CASE /\ ~HeatingRefused(q) /\ Interrupted("heating") = {} /\ Prepared(q)
             /\ job' = Job(q, Len(attempts) + 1, "prepared", {}) /\ used' = used
    <3> DEFINE a == [module |-> q.module, candidate |-> q.rev, previous |-> active[q.module].rev,
                     generation |-> active[q.module].gen, ready |-> FALSE, state |-> "prepared"]
    <3>1. Appends("heating", a)
      BY <1>2, <2>1, <2>4 DEF Appends, Prepared
    <3> HIDE DEF a
    <3>2. q.rev \in HeatingRevisions
      BY <2>4 DEF HeatingRefused
    <3>3. job' \in Activations
      BY <1>2, <2>1, <2>4, <3>2 DEF Job, Activations, Modules, Steps
    <3>4. /\ job'.module = "heating" /\ job'.op = Len(attempts) + 1 /\ job'.pc = "prepared"
          /\ job'.rev \in Revisions("heating") /\ "heating" \in Modules
      BY <2>1, <2>4, <3>2 DEF Job, Revisions, Modules
    <3> QED
      BY <1>1, <2>4, <3>1, <3>3, <3>4, NoneIsNoActivation, AppendingRecovers
  <2> QED
    BY <2>1, <2>2, <2>3, <2>4
<1>4. CASE BeginWater
  <2>1. PICK q \in waiting :
          /\ q.module = "water"
          /\ job' = IF q.rev \notin WaterRevisions THEN None
                    ELSE Job(q, 0, IF OpenOfWater = {} THEN "unprepared" ELSE "restoring", OpenOfWater)
    BY <1>4 DEF BeginWater, OpenOfWater
  <2>2. attempts' = attempts /\ used' = used
    BY <1>4 DEF BeginWater, durable
  <2>3. CASE q.rev \notin WaterRevisions
    BY <1>1, <2>1, <2>2, <2>3, NoFaultCounts, QuietlyRecovers
  <2>4. CASE q.rev \in WaterRevisions
    <3> DEFINE pc == IF OpenOfWater = {} THEN "unprepared" ELSE "restoring"
    <3>1. pc \in {"unprepared", "restoring"} /\ OpenOfWater \in SUBSET Nat
      BY <1>2 DEF OpenOfWater, Interrupted
    <3>2. job' = Job(q, 0, pc, OpenOfWater)
      BY <2>1, <2>4
    <3> HIDE DEF pc
    <3>3. job' \in Activations
      BY <2>1, <2>4, <3>1, <3>2 DEF Job, Activations, Modules, Steps
    <3>4. job' # None /\ job'.module = "water" /\ job'.op = 0 /\ job'.rev \in WaterRevisions
      <4>1. job' # None
        BY <3>3, NoneIsNoActivation
      <4>2. job'.module = q.module /\ job'.rev = q.rev /\ job'.op = 0
        BY <3>2 DEF Job
      <4> QED
        BY <2>1, <2>4, <4>1, <4>2
    <3>5. UsedInv' /\ (Clean' => Clean) /\ HeatingKnown' = HeatingKnown
      BY <1>1, <2>2, NoFaultCounts DEF HeatingKnown
    <3>6. KnownInv' /\ DownInv' /\ SetupInv' /\ CleanInv'
      BY <1>1, <2>2, <3>5 DEF RecoveryInv, KnownInv, DownInv, SetupInv, CleanInv
    <3>7. OwnInv'
      BY <3>4 DEF OwnInv, Revisions
    <3>8. AttendedInv'
      <4> SUFFICES ASSUME Clean', skipped' # TRUE
                   PROVE  AllAttended'
        BY DEF AttendedInv
      <4>1. AllAttended
        BY <1>1, <3>5 DEF RecoveryInv, AttendedInv
      <4>2. Attended("water")'
        BY <3>4 DEF Attended
      <4>3. Attended("heating") => Attended("heating")'
        BY <1>1, <2>2 DEF Attended, Awaits, Each, Interrupted
      <4> QED
        BY <1>1, <3>5, <4>1, <4>2, <4>3 DEF AllAttended
    <3> QED
      BY <3>5, <3>6, <3>7, <3>8 DEF RecoveryInv
  <2> QED
    BY <2>3, <2>4
<1> QED
  BY <1>3, <1>4

LEMMA RequestsRecover ==
    ASSUME ActivationInv, RunInv, RecoveryInv,
           NEW r, RequestHeating(r) \/ RequestWater(r) \/ RequestWaterByCommand(r)
    PROVE  RecoveryInv'
<1>1. /\ up' = up /\ setup' = setup /\ legacy' = legacy /\ active' = active
      /\ attempts' = attempts /\ job' = job /\ skipped' = skipped
  BY DEF RequestHeating, RequestWater, RequestWaterByCommand, durable, history
<1>2. CASE rt' = rt /\ used' = used
  BY <1>1, <1>2, NoFaultCounts, QuietlyRecovers
<1>3. CASE RequestWaterByCommand(r)
  <2>1. PICK complete \in BOOLEAN :
          /\ Uses("faults", IF complete THEN 0 ELSE 1)
          /\ rt' = [rt EXCEPT !.running = FALSE, !.retained = ~complete]
    BY <1>3 DEF RequestWaterByCommand
  <2> DEFINE n == IF complete THEN 0 ELSE 1
  <2>2. n \in Nat /\ (n = 0 => complete = TRUE) /\ used' = [used EXCEPT !["faults"] = @ + n]
    BY <2>1 DEF Uses
  <2> HIDE DEF n
  <2>3. UsedInv' /\ (Clean' => Clean /\ n = 0)
    BY <2>2, FaultsAreCounted DEF RecoveryInv
  <2>4. /\ rt'.heating = rt.heating /\ rt'.water = rt.water /\ rt'.entry = rt.entry
        /\ rt'.orphans = rt.orphans /\ (complete = TRUE => rt'.retained = FALSE)
    BY <2>1 DEF RunInv, IsRuntime
  <2> QED
    BY <1>1, <2>2, <2>3, <2>4, QuietlyRecovers
<1> QED
  BY <1>2, <1>3 DEF RequestHeating, RequestWater

-----------------------------------------------------------------------------
(* THE STEPS OF A SETUP AND ITS RECOVERY, CRASHES *)

(* A setup follows the full route once heating has an authority, unless a  *)
(* water candidate is staged beside legacy settings.                       *)
WaterAlone ==
    /\ Route = "water_only" /\ legacy /\ SelectedWater # None
    /\ job # None /\ job.module = "water" /\ job.pc \in {"applying", "loaded", "ready"}

LEMMA KnownRoute ==
    ASSUME ActivationInv, RunInv, KnownInv, HeatingKnown
    PROVE  Route = "full" \/ WaterAlone
<1>1. \A m \in Modules : staged[m] = StagedFor(job, m)
  BY DEF RunInv, Staging
<1>2. "heating" \in Modules /\ "water" \in Modules
  BY DEF Modules
<1>3. CASE active["heating"].rev # None
  BY <1>3 DEF Route, SelectedHeating
<1>4. CASE active["heating"].rev = None /\ staged["heating"] # None
  BY <1>4 DEF Route, SelectedHeating
<1>5. CASE active["heating"].rev = None /\ staged["heating"] = None
  <2>1. legacy /\ active["water"].rev = None
    BY <1>2, <1>5 DEF HeatingKnown, KnownInv
  <2>2. CASE SelectedWater = None
    <3>1. SelectedHeating = "legacy"
      BY <1>5, <2>1 DEF SelectedHeating
    <3> QED
      BY <2>2, <3>1, NoneIsNotLegacy DEF Route
  <2>3. CASE SelectedWater # None
    <3>1. staged["water"] # None /\ Route = "water_only"
      BY <1>5, <2>1, <2>3 DEF SelectedWater, Route
    <3>2. job # None /\ job.module = "water" /\ job.pc \in Handing
      BY <1>1, <1>2, <3>1 DEF StagedFor
    <3>3. job.rev # None
      BY <3>2, JobFacts
    <3>4. job.pc \notin {"swapped", "reconciling"}
      BY <2>1, <3>2, <3>3 DEF RunInv, ReferenceMoved
    <3> QED
      BY <2>1, <2>3, <3>1, <3>2, <3>4 DEF WaterAlone, Handing, Loading
  <2> QED
    BY <2>2, <2>3
<1> QED
  BY <1>3, <1>4, <1>5

(* A setup of its own has everything before it. *)
LEMMA SetupAttends ==
    ASSUME ActivationInv, RunInv, RecoveryInv,
           setup' = AfterStart(rt', Route), up' = TRUE, Clean' => Clean /\ LoadsSelected,
           legacy' = legacy, active' = active, job' = job
    PROVE  SetupInv' /\ CleanInv' /\ AttendedInv'
<1>1. /\ Recovery("heating", {}) \in Recoveries /\ Recovery("water", {}) \in Recoveries
      /\ Recovery("heating", {}).phase = "heating" /\ Recovery("water", {}).phase = "water"
  BY DEF Recovery, Recoveries
<1>2. SetupInv'
  BY <1>1 DEF SetupInv, AfterStart
<1>3. CleanInv'
  BY DEF CleanInv, LoadsSelected
<1>4. AttendedInv'
  <2> SUFFICES ASSUME Clean'
               PROVE  AllAttended'
    BY DEF AttendedInv
  <2>1. /\ setup' # None
        /\ setup'.phase = IF Route = "full" THEN "heating" ELSE "water"
    <3>1. setup' = Recovery(IF Route = "full" THEN "heating" ELSE "water", {})
      BY DEF AfterStart, LoadsSelected
    <3> QED
      BY <1>1, <3>1, NoneIsNoRecovery
  <2>2. Attended("water")'
    BY <2>1 DEF Attended, Awaits
  <2>3. HeatingKnown' => Attended("heating")' \/ WillSkip'
    <3> SUFFICES ASSUME HeatingKnown
                 PROVE  Attended("heating")' \/ WillSkip'
      BY DEF HeatingKnown
    <3>1. CASE Route = "full"
      BY <2>1, <3>1 DEF Attended, Awaits
    <3>2. CASE WaterAlone
      <4>1. rt'.water # None
        BY <3>2 DEF WaterAlone, LoadsSelected
      <4> QED
        BY <2>1, <3>2, <4>1 DEF WaterAlone, WillSkip
    <3> QED
      BY <3>1, <3>2, KnownRoute DEF RecoveryInv
  <2> QED
    BY <2>2, <2>3 DEF AllAttended
<1> QED
  BY <1>2, <1>3, <1>4

LEMMA StartingRecovers ==
    ASSUME ActivationInv, RunInv, RecoveryInv, Start
    PROVE  RecoveryInv'
<1>1. /\ up # TRUE /\ up' = TRUE /\ legacy' = legacy /\ active' = active /\ attempts' = attempts
      /\ job' = job /\ setup' = AfterStart(rt', Route) /\ job = None
  BY DEF Start, durable, RecoveryInv, DownInv
<1>2. PICK heats \in BOOLEAN, waters \in BOOLEAN :
        /\ Uses("faults", Failures("complete", heats, waters))
        /\ rt' = Started(NothingLoaded, heats, waters, TRUE)
  BY DEF Start
<1> DEFINE n == Failures("complete", heats, waters)
<1>3. n \in Nat /\ (n = 0 => heats = TRUE /\ waters = TRUE) /\ used' = [used EXCEPT !["faults"] = @ + n]
  BY <1>2, FailuresAreCounted DEF Uses
<1> HIDE DEF n
<1>4. UsedInv' /\ (Clean' => Clean /\ n = 0)
  BY <1>3, FaultsAreCounted DEF RecoveryInv
<1>5. Clean' => LoadsSelected
  BY <1>2, <1>3, <1>4, StartedLoads
<1>6. SetupInv' /\ CleanInv' /\ AttendedInv'
  BY <1>1, <1>4, <1>5, SetupAttends
<1>7. rt'.heating \in {rt.heating, None, SelectedHeating}
  <2>1. IsRuntime(NothingLoaded) /\ NothingLoaded.heating = None /\ NothingLoaded.running = FALSE
    BY DEF NothingLoaded, IsRuntime
  <2> QED
    BY <1>2, <2>1, StartedBrings DEF BringsSelected, Running, SelectedOf, Modules
<1>8. KnownInv' /\ OwnInv' /\ DownInv'
  BY <1>1, <1>7, NothingStays, KnownStays DEF RecoveryInv, OwnInv, DownInv
<1> QED
  BY <1>4, <1>6, <1>8 DEF RecoveryInv

LEMMA SameOwn ==
    ASSUME OwnInv, job' = job, attempts' = attempts
    PROVE  OwnInv'
  BY DEF OwnInv, Revisions, IsOpen, Attempt

LEMMA ReloadingRecovers ==
    ASSUME ActivationInv, RunInv, RecoveryInv, ReloadAlone
    PROVE  RecoveryInv'
<1>1. /\ up = TRUE /\ up' = up /\ legacy' = legacy /\ active' = active /\ attempts' = attempts
      /\ job' = job /\ setup' = AfterStart(rt', Route) /\ Reload(1)
  BY DEF ReloadAlone, durable, RecoveryInv, DownInv
<1>2. UsedInv' /\ (Clean' => Clean /\ LoadsSelected)
  BY <1>1, CleanReload DEF RecoveryInv
<1>3. SetupInv' /\ CleanInv' /\ AttendedInv'
  BY <1>1, <1>2, SetupAttends
<1>4. rt'.heating \in {rt.heating, None, SelectedHeating}
  BY <1>1, ReloadBrings DEF Brings, Running, SelectedOf, Modules, RunInv
<1>5. KnownInv' /\ OwnInv' /\ DownInv'
  BY <1>1, <1>4, NothingStays, KnownStays, SameOwn DEF RecoveryInv, DownInv
<1> QED
  BY <1>2, <1>3, <1>5 DEF RecoveryInv

(* A setup that goes on.  A recovery that fails to write fails the setup.  *)
LEMMA SetupFacts ==
    ASSUME RecoveryInv, setup # None
    PROVE  up = TRUE /\ setup \in Recoveries
  BY DEF RecoveryInv, DownInv, SetupInv

LEMMA SetupGoesOn ==
    ASSUME ActivationInv, RunInv, RecoveryInv, setup # None, up' = up, legacy' = legacy,
           active' = active, job' = job, rt' = rt, used' = used, attempts' = attempts,
           setup' \in Recoveries \cup {None}, AttendedInv'
    PROVE  RecoveryInv'
<1>1. UsedInv' /\ (Clean' => Clean) /\ OwnInv'
  BY NoFaultCounts, SameOwn DEF RecoveryInv
<1>2. KnownInv' /\ DownInv' /\ SetupInv' /\ CleanInv'
  BY <1>1, NothingStays, KnownStays, SetupFacts DEF RecoveryInv, DownInv, SetupInv, CleanInv
<1> QED
  BY <1>1, <1>2 DEF RecoveryInv

LEMMA SetupRecovers ==
    ASSUME ActivationInv, RunInv, RecoveryInv, setup # None, up' = up, legacy' = legacy,
           active' = active, job' = job, rt' = rt, used' = used,
           NEW i, NEW state \in Terminal, Becomes(i, state),
           setup' \in Recoveries \cup {None}, AttendedInv'
    PROVE  RecoveryInv'
<1>1. UsedInv' /\ (Clean' => Clean)
  BY NoFaultCounts
<1>2. Stays
  BY DEF Becomes
<1>3. KnownInv' /\ DownInv' /\ SetupInv' /\ CleanInv'
  BY <1>1, <1>2, KnownStays, SetupFacts DEF RecoveryInv, DownInv, SetupInv, CleanInv
<1>4. OwnInv'
  <2> SUFFICES ASSUME job # None
               PROVE  OwnInv'
    BY DEF OwnInv
  <2>1. OwnInv /\ (job.op # 0 => job.op \in DOMAIN attempts)
    BY OwnFacts
  <2>2. ASSUME job.op # 0, NEW j \in DOMAIN attempts', attempts'[j].module = job.module, IsOpen(j)'
        PROVE  j = job.op
    <3>1. j \in DOMAIN attempts /\ attempts[j].module = job.module /\ IsOpen(j)
      BY <1>2, <2>2 DEF Stays, IsOpen
    <3> QED
      BY <2>1, <2>2, <3>1 DEF OwnInv
  <2>3. job.op # 0 => attempts'[job.op].state = attempts[job.op].state
                      \/ attempts'[job.op].state \in Terminal
    BY <2>1 DEF Becomes
  <2> QED
    BY <2>1, <2>2, <2>3 DEF OwnInv, Revisions, Attempt, Terminal
<1> QED
  BY <1>1, <1>3, <1>4 DEF RecoveryInv

LEMMA SetupFails ==
    ASSUME ActivationInv, RunInv, RecoveryInv, setup # None, up' = up, legacy' = legacy,
           active' = active, job' = job, attempts' = attempts, Uses("faults", 1),
           rt'.heating \in {rt.heating, None}, setup' = None
    PROVE  RecoveryInv'
<1>1. UsedInv' /\ ~Clean'
  BY FaultCounts
<1>2. KnownInv' /\ OwnInv' /\ DownInv' /\ SetupInv'
  BY NothingStays, KnownStays, SameOwn, SetupFacts DEF RecoveryInv, DownInv, SetupInv
<1> QED
  BY <1>1, <1>2 DEF RecoveryInv, CleanInv, AttendedInv

LEMMA ListingHeatingRecovers ==
    ASSUME ActivationInv, RunInv, RecoveryInv, ListHeatingAttempts
    PROVE  RecoveryInv'
<1> DEFINE todo == {i \in Interrupted("heating") \cup Interrupted("water") :
                       IF active["heating"].rev # None THEN attempts[i].module = "heating"
                       ELSE attempts[i].previous = None}
<1>1. /\ setup # None /\ up' = up /\ legacy' = legacy /\ active' = active /\ attempts' = attempts
      /\ job' = job /\ rt' = rt /\ used' = used
      /\ setup' = IF job # None \/ staged["heating"] # None THEN Recovery("water", {})
                  ELSE Recovery("each_heating", todo)
      /\ skipped' # TRUE => skipped # TRUE /\ job = None
  BY DEF ListHeatingAttempts, durable
<1>2. todo \in SUBSET Nat /\ Interrupted("heating") \subseteq todo
  <2>1. attempts \in Seq(Attempts)
    BY DEF ActivationInv, DurableInv
  <2> QED
    BY <2>1 DEF Interrupted, RecoveryInv, KnownInv
<1> HIDE DEF todo
<1>3. Recovery("water", {}) \in Recoveries /\ Recovery("each_heating", todo) \in Recoveries
  BY <1>2 DEF Recovery, Recoveries
<1>4. setup' \in Recoveries
  BY <1>1, <1>3
<1>5. AttendedInv'
  <2> SUFFICES ASSUME skipped' # TRUE
               PROVE  AllAttended'
    BY DEF AttendedInv
  <2>1. job = None /\ staged["heating"] = None
    BY <1>1 DEF RunInv, Staging, StagedFor, Modules
  <2>2. setup' = Recovery("each_heating", todo)
    BY <1>1, <2>1
  <2>3. setup' # None /\ setup'.phase = "each_heating" /\ setup'.todo = todo
    BY <1>3, <2>2, NoneIsNoRecovery DEF Recovery
  <2>4. Interrupted("heating")' \subseteq todo
    BY <1>1, <1>2 DEF Interrupted
  <2> QED
    BY <2>3, <2>4 DEF AllAttended, Attended, Awaits, Each
<1> QED
  BY <1>1, <1>4, <1>5, SetupGoesOn

LEMMA RecoveringHeatingRecovers ==
    ASSUME ActivationInv, RunInv, RecoveryInv, RecoverHeatingAttempt
    PROVE  RecoveryInv'
<1> DEFINE i == NextOf(setup.todo)
           state == Recovered(i, LoadedPredecessor(i))
<1>1. /\ setup # None /\ setup.phase = "each_heating" /\ up' = up /\ legacy' = legacy
      /\ active' = active /\ job' = job /\ skipped' = skipped
  BY DEF RecoverHeatingAttempt, history
<1>2. CASE Transition(i, state) /\ setup' = [setup EXCEPT !.todo = @ \ {i}] /\ rt' = rt /\ used' = used
  <2>1. Becomes(i, state) /\ state \in Terminal
    BY <1>2, RecoveredBecomes, RecoveredIsTerminal
  <2> HIDE DEF i, state
  <2>2. /\ setup' \in Recoveries /\ setup' # None /\ setup'.phase = "each_heating"
        /\ setup'.todo = setup.todo \ {i}
    <3>1. setup' \in Recoveries /\ setup'.phase = "each_heating" /\ setup'.todo = setup.todo \ {i}
      BY <1>1, <1>2, SetupFacts DEF Recoveries
    <3> QED
      BY <3>1, NoneIsNoRecovery
  <2>3. AttendedInv'
    <3> SUFFICES ASSUME Clean', up = TRUE, skipped # TRUE
                 PROVE  AllAttended'
      BY <1>1 DEF AttendedInv
    <3>1. AllAttended
      BY <1>2, NoFaultCounts DEF RecoveryInv, AttendedInv
    <3>2. Attended("water")'
      BY <2>2 DEF Attended, Awaits
    <3>3. Interrupted("heating")' \subseteq Interrupted("heating") \ {i}
      BY <2>1, OneFewer DEF Modules
    <3>4. Attended("heating") => Attended("heating")'
      BY <1>1, <2>2, <3>3 DEF Attended, Awaits, Each
    <3> QED
      BY <1>1, <3>1, <3>2, <3>4 DEF AllAttended, HeatingKnown, WillSkip
  <2> QED
    BY <1>1, <1>2, <2>1, <2>2, <2>3, SetupRecovers
<1>3. CASE /\ Uses("faults", 1) /\ setup' = None /\ attempts' = attempts
           /\ rt' = [rt EXCEPT !.entry = "failed", !.heating = None, !.water = None, !.running = FALSE]
  <2>1. rt'.heating = None
    BY <1>3 DEF RunInv, IsRuntime
  <2> QED
    BY <1>1, <1>3, <2>1, SetupFails
<1> QED
  BY <1>2, <1>3 DEF RecoverHeatingAttempt

LEMMA HeatingIsRecovered ==
    ASSUME ActivationInv, RunInv, RecoveryInv, HeatingRecovered
    PROVE  RecoveryInv'
<1>1. /\ setup # None /\ setup.phase = "each_heating" /\ setup.todo = {} /\ up' = up
      /\ legacy' = legacy /\ active' = active /\ job' = job /\ skipped' = skipped
      /\ attempts' = attempts /\ rt' = rt /\ used' = used /\ setup' = Recovery("water", {})
  BY DEF HeatingRecovered, durable, history
<1>2. setup' \in Recoveries /\ setup' # None /\ setup'.phase = "water"
  <2>1. Recovery("water", {}) \in Recoveries /\ Recovery("water", {}).phase = "water"
    BY DEF Recovery, Recoveries
  <2> QED
    BY <1>1, <2>1, NoneIsNoRecovery
<1>3. AttendedInv'
  <2> SUFFICES ASSUME Clean', up = TRUE, skipped # TRUE
               PROVE  AllAttended'
    BY <1>1 DEF AttendedInv
  <2>1. AllAttended
    BY <1>1, NoFaultCounts DEF RecoveryInv, AttendedInv
  <2>2. Attended("water")'
    BY <1>2 DEF Attended, Awaits
  <2>3. Attended("heating") => Attended("heating")'
    BY <1>1 DEF Attended, Awaits, Each, Interrupted
  <2> QED
    BY <1>1, <2>1, <2>2, <2>3 DEF AllAttended, HeatingKnown, WillSkip
<1> QED
  BY <1>1, <1>2, <1>3, SetupGoesOn

LEMMA ListingWaterRecovers ==
    ASSUME ActivationInv, RunInv, RecoveryInv, ListWaterAttempts
    PROVE  RecoveryInv'
<1> DEFINE phase == IF WaterAuthorityRuns(rt) THEN "each_water" ELSE "hung"
<1>1. /\ setup # None /\ setup.phase = "water" /\ up' = up /\ legacy' = legacy
      /\ active' = active /\ attempts' = attempts /\ job' = job /\ rt' = rt /\ used' = used
      /\ setup' = IF job # None \/ OpenOfWater = {} THEN None ELSE Recovery(phase, OpenOfWater)
      /\ skipped' # TRUE => skipped # TRUE /\ job = None
  BY DEF ListWaterAttempts, durable, OpenOfWater
<1>2. phase \in {"each_water", "hung"}
  OBVIOUS
<1> HIDE DEF phase
<1>3. OpenOfWater \in SUBSET Nat /\ OpenOfWater' = OpenOfWater /\ Interrupted("water") = OpenOfWater
  <2>1. attempts \in Seq(Attempts)
    BY DEF ActivationInv, DurableInv
  <2> QED
    BY <1>1, <2>1 DEF OpenOfWater, Interrupted
<1>4. /\ Recovery(phase, OpenOfWater) \in Recoveries
      /\ Recovery(phase, OpenOfWater).phase = phase /\ Recovery(phase, OpenOfWater).todo = OpenOfWater
  BY <1>2, <1>3 DEF Recovery, Recoveries
<1>5. AttendedInv'
  <2> SUFFICES ASSUME Clean', up = TRUE, skipped' # TRUE
               PROVE  AllAttended'
    BY <1>1 DEF AttendedInv
  <2>1. AllAttended /\ job = None
    BY <1>1, NoFaultCounts DEF RecoveryInv, AttendedInv
  <2>2. Attended("water")'
    <3>1. CASE OpenOfWater = {}
      BY <1>3, <3>1 DEF Attended, OpenOfWater
    <3>2. CASE OpenOfWater # {}
      <4>1. setup' # None /\ setup'.phase = phase /\ setup'.todo = OpenOfWater
        BY <1>1, <1>4, <2>1, <3>2, NoneIsNoRecovery
      <4> QED
        BY <1>2, <1>3, <4>1 DEF Attended, Awaits, Each, OpenOfWater
    <3> QED
      BY <3>1, <3>2
  <2>3. Attended("heating") => Attended("heating")'
    BY <1>1, <2>1 DEF Attended, Awaits, Each, Interrupted
  <2> QED
    BY <1>1, <2>1, <2>2, <2>3 DEF AllAttended, HeatingKnown, WillSkip
<1> QED
  BY <1>1, <1>4, <1>5, SetupGoesOn

LEMMA RecoveringWaterRecovers ==
    ASSUME ActivationInv, RunInv, RecoveryInv, RecoverWaterAttempt
    PROVE  RecoveryInv'
<1> DEFINE i == NextOf(setup.todo)
           state == Recovered(i, WaterPredecessor(i))
<1>1. /\ setup # None /\ setup.phase = "each_water" /\ up' = up /\ legacy' = legacy
      /\ active' = active /\ job' = job /\ skipped' = skipped
  BY DEF RecoverWaterAttempt, history
<1>2. CASE /\ Transition(i, state) /\ rt' = rt /\ used' = used
           /\ setup' = IF setup.todo = {i} THEN None ELSE [setup EXCEPT !.todo = @ \ {i}]
  <2>1. Becomes(i, state) /\ state \in Terminal
    BY <1>2, RecoveredBecomes, RecoveredIsTerminal
  <2> HIDE DEF i, state
  <2>2. \/ setup' = None /\ setup.todo = {i}
        \/ /\ setup' \in Recoveries /\ setup' # None /\ setup'.phase = "each_water"
           /\ setup'.todo = setup.todo \ {i}
    <3>1. CASE setup.todo # {i}
      <4>1. /\ setup' \in Recoveries /\ setup'.phase = "each_water"
            /\ setup'.todo = setup.todo \ {i}
        BY <1>1, <1>2, <3>1, SetupFacts DEF Recoveries
      <4> QED
        BY <4>1, NoneIsNoRecovery
    <3> QED
      BY <1>2, <3>1
  <2>3. AttendedInv'
    <3> SUFFICES ASSUME Clean', up = TRUE, skipped # TRUE
                 PROVE  AllAttended'
      BY <1>1 DEF AttendedInv
    <3>1. AllAttended
      BY <1>2, NoFaultCounts DEF RecoveryInv, AttendedInv
    <3>2. /\ Interrupted("water")' \subseteq Interrupted("water") \ {i}
          /\ Interrupted("heating")' \subseteq Interrupted("heating")
      BY <2>1, OneFewer DEF Modules
    <3>3. Attended("water")'
      BY <1>1, <2>2, <3>1, <3>2 DEF AllAttended, Attended, Awaits, Each
    <3>4. Attended("heating") => Attended("heating")'
      BY <1>1, <3>2 DEF Attended, Awaits, Each
    <3> QED
      BY <1>1, <3>1, <3>3, <3>4 DEF AllAttended, HeatingKnown, WillSkip
  <2> QED
    BY <1>1, <1>2, <2>1, <2>2, <2>3, SetupRecovers
<1>3. CASE /\ Uses("faults", 1) /\ setup' = None /\ attempts' = attempts
           /\ rt' = [rt EXCEPT !.entry = "failed"]
  <2>1. rt'.heating = rt.heating
    BY <1>3 DEF RunInv, IsRuntime
  <2> QED
    BY <1>1, <1>3, <2>1, SetupFails
<1> QED
  BY <1>2, <1>3 DEF RecoverWaterAttempt

LEMMA CrashingRecovers ==
    ASSUME ActivationInv, RunInv, RecoveryInv, Crash
    PROVE  RecoveryInv'
<1>1. /\ legacy' = legacy /\ active' = active /\ attempts' = attempts /\ job' = None
      /\ setup' = None /\ up' = FALSE /\ rt' = NothingLoaded /\ Uses("crashes", 1)
  BY DEF Crash, durable
<1>2. rt'.heating = None
  BY <1>1 DEF NothingLoaded
<1>3. UsedInv' /\ (Clean' => Clean)
  BY <1>1, CrashesAreCounted DEF RecoveryInv
<1>4. KnownInv' /\ OwnInv' /\ DownInv' /\ SetupInv'
  BY <1>1, <1>2, NothingStays, KnownStays, OwnEnds DEF RecoveryInv, DownInv, SetupInv
<1>5. CleanInv' /\ AttendedInv'
  BY <1>1 DEF CleanInv, AttendedInv
<1> QED
  BY <1>3, <1>4, <1>5 DEF RecoveryInv

LEMMA InitRecovers == Init => RecoveryInv
<1> SUFFICES ASSUME Init PROVE RecoveryInv
  OBVIOUS
<1>1. /\ used = [crashes |-> 0, reloads |-> 0, faults |-> 0] /\ attempts = << >> /\ up = FALSE
      /\ setup = None /\ job = None /\ rt = NothingLoaded
      /\ \A m \in Modules : legacy => active[m] = NoReference
  BY DEF Init
<1>2. UsedInv
  BY <1>1, UsedInit
<1>3. KnownInv
  BY <1>1, NoneIsNotLegacy DEF KnownInv, NoReference, NothingLoaded
<1>4. OwnInv /\ DownInv /\ SetupInv /\ CleanInv /\ AttendedInv
  BY <1>1 DEF OwnInv, DownInv, SetupInv, CleanInv, AttendedInv
<1> QED
  BY <1>2, <1>3, <1>4 DEF RecoveryInv

LEMMA EveryStepRecovers ==
    ActivationInv /\ RunInv /\ RecoveryInv /\ [Next]_vars => RecoveryInv'
<1> SUFFICES ASSUME ActivationInv, RunInv, RecoveryInv, [Next]_vars
             PROVE  RecoveryInv'
  OBVIOUS
<1>1. CASE UNCHANGED vars
  BY <1>1, NoFaultCounts, QuietlyRecovers DEF vars, durable, history
<1>2. CASE SetupStep
  BY <1>2, ListingHeatingRecovers, RecoveringHeatingRecovers, HeatingIsRecovered,
     ListingWaterRecovers, RecoveringWaterRecovers DEF SetupStep
<1>3. CASE JobStep
  BY <1>3, PreparingRecovers, ApplyingRecovers, HandingOverRecovers, ReadyRecovers, SwappingRecovers,
     CommittingRecovers, RestoringRecovers, QuiescingRecovers, FailingRecovers, ClearingRecovers
  DEF JobStep
<1> QED
  BY <1>1, <1>2, <1>3, StartingRecovers, ReloadingRecovers, RequestsRecover, BeginningRecovers,
     CrashingRecovers DEF Next

LEMMA NothingIsLeftOpen ==
    ActivationInv /\ RunInv /\ RecoveryInv => RestartsAreRecovered
<1> SUFFICES ASSUME ActivationInv, RunInv, RecoveryInv, AtRest, Clean, ~skipped
             PROVE  /\ Interrupted("water") = {}
                    /\ rt.heating # None => Interrupted("heating") = {}
  BY DEF RestartsAreRecovered, Clean
<1>1. job = None /\ setup = None /\ up = TRUE /\ skipped # TRUE
  BY DEF AtRest, RecoveryInv, DownInv
<1>2. AllAttended
  BY <1>1 DEF RecoveryInv, AttendedInv
<1>3. rt.heating # None => HeatingKnown
  <2>1. OnlyAuthorityRuns
    BY CoveredIsAuthority
  <2> QED
    BY <2>1 DEF OnlyAuthorityRuns, HeatingKnown, RecoveryInv, KnownInv
<1> QED
  BY <1>1, <1>2, <1>3 DEF AllAttended, Attended, WillSkip

(* Once nothing is in progress, no attempt is still open: while no start,  *)
(* stop or write failed and no recovery was left out, the recovery that    *)
(* follows a setup (async_recover_interrupted_activation,                  *)
(* async_recover_water_activation and _async_recover_attempts) closes      *)
(* every attempt that a crash or a reload interrupted, however many there  *)
(* were and wherever they struck, another recovery included.               *)
THEOREM NothingStaysInterrupted == Spec => []RestartsAreRecovered
<1> QED
  BY InitIsAtomic, InitRuns, InitRecovers, EveryStepIsAtomic, EveryStepRuns, EveryStepRecovers,
     NothingIsLeftOpen, PTL DEF Spec
========================================================================================
