---------------------------------- MODULE SetupStore ----------------------------------
(***************************************************************************)
(* The durable setup document of a config entry - drafts, validation       *)
(* reports, immutable canonical revisions - and the entry's reference to   *)
(* the revision in force; and the sessions that edit it: dialogs of the    *)
(* options flow, which hold a draft and a candidate in memory, and         *)
(* websocket clients, which send the ids and revisions they have read.     *)
(* Every repository call is atomic under the repository's lock; a session  *)
(* that makes two of them lets the others run in between.                  *)
(* (infrastructure/home_assistant/setup_persistence.py,                    *)
(* custom_components/controlel/setup_backend.py)                           *)
(*                                                                         *)
(* Only the latest revision of a draft is kept: no operation reads an      *)
(* earlier one.  A revision of a draft is stamped with its own time, so    *)
(* none is equal to one that is stored.  A new draft or revision gets a    *)
(* fresh id (uuid4, or the client's).                                      *)
(***************************************************************************)
EXTENDS Values, Sequences, FiniteSets, SequencesExt

CONSTANTS
    Flows, Clients,    \* dialogs and websocket clients
    Registry,          \* entities, services Home Assistant may know
    Volatile,          \* bound: those that come and go
    MaxRequests,       \* bound: requests of clients, per module
    MaxDrafts,         \* bound: drafts ever started
    MaxDraftRevision,  \* bound: revisions of a draft
    MaxRevisions,      \* bound: revisions made of drafts
    MaxGeneration      \* bound: generations of the active reference

Sessions == Flows \cup Clients

ASSUME SessionsDiffer == Flows \cap Clients = {}
ASSUME SetupBounds == {MaxDrafts, MaxDraftRevision, MaxRevisions, MaxGeneration} \subseteq Nat
ASSUME RequestBounds == MaxRequests \in [{"heating", "water"} -> Nat]
ASSUME VolatileKnown == Volatile \subseteq Registry

VARIABLES
    module,    \* which module is set up: "heating" or "water"
    store,     \* durable: [drafts, reports, revisions, active, legacy]
    known,     \* what Home Assistant's registries resolve now
    sessions,  \* [draft, candidate, work] of each session
    requests,  \* how many requests clients have made
    started    \* how many drafts were started

authoringVars == <<module, store, known, sessions, requests, started>>

Idle == [step |-> "idle"]
Closed == [draft |-> None, candidate |-> 0, work |-> Idle]

Step(s) == sessions[s].work.step
IsIdle(s) == Step(s) = "idle"
Works(s, work) == sessions' = [sessions EXCEPT ![s].work = work]
Rests(s) == Works(s, Idle)

(* The id of a draft that is started now: a new one. *)
NewId == started + 1
MayStart == started < MaxDrafts

(* The bound on the requests of clients. *)
Asks(s) ==
    /\ s \in Clients => requests < MaxRequests[module]
    /\ requests' = IF s \in Clients THEN requests + 1 ELSE requests

-----------------------------------------------------------------------------
(* DRAFTS, the most recently saved last *)

Stored == {store.drafts[i].id : i \in DOMAIN store.drafts}

(* get_draft without a revision, get_canonical_draft_v3 *)
Latest(id) == CHOOSE d \in ToSet(store.drafts) : d.id = id

Without(id) ==
    LET position == CHOOSE i \in DOMAIN store.drafts : store.drafts[i].id = id
    IN  IF id \in Stored THEN RemoveAt(store.drafts, position) ELSE store.drafts

(* next_revision: what a draft is stays, but its content and its number. *)
NextRevision(d, content) == [d EXCEPT !.rev = @ + 1, !.content = content]

(* save_draft: a revision follows the stored one, of the same draft. *)
AcceptsDraft(d) ==
    IF d.id \in Stored
    THEN d.rev = Latest(d.id).rev + 1 /\ d.conf = Latest(d.id).conf
    ELSE d.rev = 1

(* save_canonical_draft_v3: and based on the same reference. *)
AcceptsDraftV3_Renumbers(d) ==
    d.id \in Stored => d.conf = Latest(d.id).conf /\ d.base = Latest(d.id).base
AcceptsDraftV3(d) ==
    IF d.id \in Stored
    THEN /\ d.rev = Latest(d.id).rev + 1
         /\ d.conf = Latest(d.id).conf /\ d.base = Latest(d.id).base
    ELSE d.rev = 1

WithDraft(d) == [store EXCEPT !.drafts = Append(Without(d.id), d)]

(* ... whose drafts nothing reads in the order they were saved. *)
WithDraftV3(d) ==
    [store EXCEPT !.drafts =
        IF d.id \in Stored THEN [i \in DOMAIN @ |-> IF @[i].id = d.id THEN d ELSE @[i]]
        ELSE Append(@, d)]

(* delete_draft: nothing, unless the stored revision is the expected one. *)
AcceptsDelete(d) == d.id \in Stored /\ Latest(d.id).rev = d.rev
WithoutDraft(d) == [store EXCEPT !.drafts = Without(d.id)]

(* delete_canonical_draft_v3: the draft's reports go with it. *)
AcceptsDeleteV3(d) == d.id \in Stored /\ Latest(d.id).rev = d.rev
WithoutDraftV3(d) ==
    [store EXCEPT !.drafts = Without(d.id),
                  !.reports = {r \in @ : r.draft # d.id}]

-----------------------------------------------------------------------------
(* REPORTS AND REVISIONS *)

(* ValidationReport, CanonicalConfigurationValidationV3: an assessment of  *)
(* one revision of a draft.                                                *)
ReportOn(d, ready) == [draft |-> d.id, rev |-> d.rev, content |-> d.content, ready |-> ready]

Assesses(report, d) ==
    report.draft = d.id /\ report.rev = d.rev /\ report.content = d.content

(* save_validation_report, save_canonical_validation_v3.  A report that is *)
(* not ready, or on an earlier revision of its draft, is refused by all    *)
(* that read it: only the others are kept.                                 *)
WithReport(st, report) ==
    [st EXCEPT !.reports =
        {r \in @ : r.draft = report.draft => r.rev = report.rev}
            \cup (IF report.ready THEN {report} ELSE {})]

(* The revision that a draft becomes; report: history, what it was made on *)
RevisionOf(d, report, number, parent) ==
    [schema |-> 3, conf |-> d.conf, number |-> number, parent |-> parent, origin |-> d.origin,
     content |-> d.content, draft |-> d.id, draftRev |-> d.rev, report |-> report]
Made == Len(SelectSeq(store.revisions, LAMBDA r : r.report # None))

(* add_canonical_revision *)
WithRevision(r) == [store EXCEPT !.revisions = Append(@, r)]

-----------------------------------------------------------------------------
(* THE ACTIVE REFERENCE *)

ActiveRevision == store.revisions[store.active.rev]

(* CanonicalConfigurationRevision.revision + 1 and its id, or of a first. *)
NextNumber == IF store.active = None THEN 1 ELSE ActiveRevision.number + 1
Parent == IF store.active = None THEN 0 ELSE store.active.rev

(* compare_and_swap_active_reference: the reference is the expected one,   *)
(* the module's reference is of the candidate's configuration.             *)
Swaps(expected, candidate) ==
    /\ candidate \in DOMAIN store.revisions
    /\ store.active = expected
    /\ store.active # None => ActiveRevision.conf = store.revisions[candidate].conf

(* ConfigEntryActiveReferenceStore.set: legacy settings are replaced by an *)
(* explicit conversion only, and are gone with it.                         *)
ReplacesLegacy(candidate) ==
    store.legacy # None => store.revisions[candidate].origin = "legacy"
WithActive(candidate) ==
    [store EXCEPT !.active = [rev |-> candidate,
                              gen |-> IF store.active = None THEN 1 ELSE store.active.gen + 1],
                  !.legacy = None]
==============================================================================
