-------------------------------- MODULE HeatingAuthoring --------------------------------
(***************************************************************************)
(* Authoring of a heating configuration (canonical v3): a draft is started *)
(* from nothing, from the configuration in force, or by a conversion of an *)
(* earlier schema; edited section by section; validated against what Home  *)
(* Assistant's registries resolve; made an immutable revision; activated.  *)
(* The dialogs of the options flow and the websocket clients call the same *)
(* service.  (canonical_v3_lifecycle.py, canonical_v3_service.py,          *)
(* config_flow.py, setup_write_websocket.py, setup_discovery.py)           *)
(*                                                                         *)
(* A content is [sensor, rest]: the reference of the temperature sensor,   *)
(* which stands for every reference the runtime needs, and the settings.   *)
(* An operation's reads up to its first write are one step, except where   *)
(* it reads a draft twice; the write is a step of its own.  A request that *)
(* is refused changes nothing and is no step.                              *)
(*                                                                         *)
(* What a conversion does to the content itself, field by field, is in     *)
(* ConfigurationUpgrade; here it only has to resolve every reference.      *)
(***************************************************************************)
EXTENDS SetupStore

CONSTANTS Sensors, Settings

HeatingContents == [sensor : Sensors, rest : Settings]

(* HomeAssistantReferenceResolver.resolve: an exact registry identity, or  *)
(* nothing - a recovery candidate is shown, never taken.                   *)
Resolves(reference) == reference \in known

(* canonical_reference_bindings_v3 *)
Required(content) == {content.sensor}

(* _reference_health of a content: what it refers to, and if all resolve *)
Health(content) ==
    [of |-> Required(content), ready |-> \A r \in Required(content) : Resolves(r)]

(* _require_complete_reference_health *)
Covers(health, d) == health.of = Required(d.content)

(* _authority_kind; legacy settings beside a reference do not occur *)
AuthorityKind ==
    IF store.active = None THEN IF store.legacy # None THEN "legacy" ELSE "empty"
    ELSE IF ActiveRevision.schema = 3 THEN "v3" ELSE "v2"

NewDraft(id, base, conf, origin, content) ==
    [id |-> id, rev |-> 1, base |-> base, conf |-> conf, origin |-> origin, content |-> content]

-----------------------------------------------------------------------------
(* STARTING A DRAFT: what the draft will be, with the id it will have *)

(* start_greenfield: of what the registry has; a new configuration *)
GreenfieldDrafts(id) ==
    IF AuthorityKind = "empty"
    THEN {NewDraft(id, None, id, "greenfield", c) : c \in {c \in HeatingContents : Resolves(c.sensor)}}
    ELSE {}

(* edit_from_active, clone_active_to_draft *)
EditDrafts(id) ==
    IF AuthorityKind = "v3"
    THEN {NewDraft(id, store.active, ActiveRevision.conf, ActiveRevision.origin, ActiveRevision.content)}
    ELSE {}

(* start_conversion_draft: of what an earlier schema was projected to *)
ConversionDraft(id, base, projection) ==
    NewDraft(id, base, projection.conf, projection.origin, projection.content)

(* migrate_heating_v2_revision_to_v3: of the same configuration *)
V2Projection == [conf |-> ActiveRevision.conf, origin |-> "v2", content |-> ActiveRevision.content]

(* convert_v2: the stable references of a v2 revision are taken as they are. *)
V2Drafts(id) ==
    IF AuthorityKind = "v2" THEN {ConversionDraft(id, store.active, V2Projection)} ELSE {}

(* convert_legacy_heating_config: a new configuration *)
LegacyProjection(id) == [conf |-> id, origin |-> "legacy", content |-> store.legacy]

(* _v2_binding_resolution: the entity ids of legacy settings need an exact *)
(* match in the registry.                                                  *)
Matched(content) == \A r \in Required(content) : Resolves(r)

(* convert_legacy: otherwise the conversion is not ready. *)
LegacyDrafts(id) ==
    IF AuthorityKind = "legacy" /\ Matched(store.legacy)
    THEN {ConversionDraft(id, None, LegacyProjection(id))}
    ELSE {}

(* The way the authority allows *)
Starts(s) ==
    /\ module = "heating" /\ IsIdle(s) /\ sessions[s].draft = None /\ MayStart
    /\ \E d \in GreenfieldDrafts(NewId) \cup EditDrafts(NewId)
                  \cup V2Drafts(NewId) \cup LegacyDrafts(NewId) :
         Works(s, [step |-> "save", draft |-> d, basis |-> None])
    /\ started' = NewId
    /\ Asks(s)
    /\ UNCHANGED <<module, store, known>>

Begin(f) == f \in Flows /\ Starts(f)
ClientBegin(c) == c \in Clients /\ Starts(c)

(* async_step_resume_draft, reopen_draft *)
Resume(f) ==
    /\ module = "heating" /\ f \in Flows /\ IsIdle(f) /\ sessions[f].draft = None
    /\ \E id \in Stored : sessions' = [sessions EXCEPT ![f].draft = Latest(id)]
    /\ UNCHANGED <<module, requests, store, known, started>>

-----------------------------------------------------------------------------
(* EDITING *)

(* update_draft: the latest revision is read and must be the expected one. *)
Updates(s, id, expected, content) ==
    /\ id \in Stored /\ Latest(id).rev = expected /\ expected < MaxDraftRevision
    /\ Works(s, [step |-> "save", draft |-> NextRevision(Latest(id), content), basis |-> Latest(id)])
    /\ Asks(s)
    /\ UNCHANGED <<module, store, known, started>>

(* A section of the dialog, with references of the registry now; an        *)
(* unchanged document is not saved (_persist_heating_document).            *)
SectionEdits(content) ==
    {[content EXCEPT !.sensor = r] : r \in {r \in Sensors : Resolves(r)}}
        \cup {[content EXCEPT !.rest = v] : v \in Settings}
EditSection(f) ==
    /\ module = "heating" /\ f \in Flows /\ IsIdle(f)
    /\ sessions[f].draft # None /\ sessions[f].candidate = 0
    /\ LET mine == sessions[f].draft
       IN  \E c \in SectionEdits(mine.content) \ {mine.content} : Updates(f, mine.id, mine.rev, c)

(* A client sends the whole configuration and the revision it has read. *)
ClientUpdate(c) ==
    /\ module = "heating" /\ c \in Clients /\ IsIdle(c)
    /\ \E d \in ToSet(store.drafts), content \in HeatingContents : Updates(c, d.id, d.rev, content)

(* save_canonical_draft_v3: a dialog goes on with what it saved, or has    *)
(* what it had.                                                            *)
FinishSave(s) ==
    /\ module = "heating" /\ Step(s) = "save"
    /\ LET d == sessions[s].work.draft
       IN  IF AcceptsDraftV3(d)
           THEN /\ store' = WithDraftV3(d)
                /\ sessions' = [sessions EXCEPT ![s].work = Idle,
                                                ![s].draft = IF s \in Flows THEN d ELSE @]
           ELSE Rests(s) /\ UNCHANGED store
    /\ UNCHANGED <<module, requests, known, started>>

-----------------------------------------------------------------------------
(* REVIEW *)

(* validate_draft of the service: the health of the latest revision *)
Validates(s, id) ==
    /\ id \in Stored
    /\ Works(s, [step |-> "assess", id |-> id, health |-> Health(Latest(id).content)])
    /\ Asks(s)
    /\ UNCHANGED <<module, store, known, started>>

(* async_step_heating_review *)
Review(f) ==
    /\ module = "heating" /\ f \in Flows /\ IsIdle(f)
    /\ sessions[f].draft # None /\ sessions[f].candidate = 0
    /\ Validates(f, sessions[f].draft.id)

ClientValidate(c) ==
    /\ module = "heating" /\ c \in Clients /\ IsIdle(c)
    /\ \E id \in Stored : Validates(c, id)

(* canonicalize_draft of the service: the health of the latest revision *)
Canonicalizing(report) ==
    [step |-> "check", report |-> report, health |-> Health(Latest(report.draft).content)]

(* validate_draft of the lifecycle: it reads the draft again, and reports  *)
(* on what it reads.  A dialog shows the report; with it the user goes on. *)
(* Saving the report is merged: a draft deleted in between takes the       *)
(* report with it or leaves one that nothing refers to.                    *)
FinishAssess(s) ==
    /\ module = "heating" /\ Step(s) = "assess"
    /\ LET work == sessions[s].work
           fits == work.id \in Stored /\ Covers(work.health, Latest(work.id))
           report == ReportOn(Latest(work.id), work.health.ready)
       IN  IF fits
           THEN /\ store' = WithReport(store, report)
                /\ \/ Rests(s)
                   \/ /\ s \in Flows /\ sessions[s].candidate = 0 /\ report.ready
                      /\ Works(s, Canonicalizing(report))
           ELSE Rests(s) /\ UNCHANGED store
    /\ UNCHANGED <<module, requests, known, started>>

(* A client sends the id of any report. *)
ClientCanonicalize(c) ==
    /\ module = "heating" /\ c \in Clients /\ IsIdle(c)
    /\ \E r \in store.reports : r.draft \in Stored /\ Works(c, Canonicalizing(r))
    /\ Asks(c)
    /\ UNCHANGED <<module, store, known, started>>

(* canonicalize_draft of the lifecycle: the report assesses the latest     *)
(* revision and is ready, the references still resolve, and the draft is   *)
(* based on the reference of its configuration.                            *)
BaseIsActive(d) ==
    d.base = (IF store.active # None /\ ActiveRevision.conf = d.conf THEN store.active ELSE None)
Canonical_UnreadReport(d, report, health) ==
    /\ report.draft = d.id /\ report.ready
    /\ Covers(health, d) /\ health.ready
    /\ BaseIsActive(d)
Canonical(d, report, health) ==
    /\ Assesses(report, d) /\ report.ready
    /\ Covers(health, d) /\ health.ready
    /\ BaseIsActive(d)
    /\ d.base # None /\ ActiveRevision.schema = 2 => d.origin \in {"v2", "legacy"}

(* ... and refused, a dialog validates again and shows why. *)
FinishCheck(s) ==
    /\ module = "heating" /\ Step(s) = "check"
    /\ LET work == sessions[s].work
           id == work.report.draft
           base == Latest(id).base
       IN  IF /\ id \in Stored /\ work.report \in store.reports
              /\ Canonical(Latest(id), work.report, work.health)
           THEN Works(s, [step |-> "store",
                          revision |-> RevisionOf(Latest(id), work.report,
                                                  IF base = None THEN 1 ELSE NextNumber,
                                                  IF base = None THEN 0 ELSE Parent)])
           ELSE IF s \in Flows /\ id \in Stored
           THEN Works(s, [step |-> "assess", id |-> id, health |-> Health(Latest(id).content)])
           ELSE Rests(s)
    /\ UNCHANGED <<module, requests, store, known, started>>

FinishStore(s) ==
    /\ Step(s) = "store" /\ Made < MaxRevisions
    /\ store' = WithRevision(sessions[s].work.revision)
    /\ sessions' = [sessions EXCEPT ![s].work = Idle,
                                    ![s].candidate = IF s \in Flows THEN Len(store'.revisions) ELSE @]
    /\ UNCHANGED <<module, requests, known, started>>

-----------------------------------------------------------------------------
(* ACTIVATION, and the end of a draft *)

(* async_step_heating_activate: the reference the draft was based on is    *)
(* the expected one; the activation itself is ConfigurationActivation's.   *)
ExpectedByDraft(f) == sessions[f].draft.base
Activate(f) ==
    /\ module = "heating" /\ f \in Flows /\ IsIdle(f) /\ sessions[f].candidate # 0
    /\ LET candidate == sessions[f].candidate
       IN  /\ Swaps(ExpectedByDraft(f), candidate) /\ ReplacesLegacy(candidate)
           /\ store.active # None => store.active.rev # candidate /\ store.active.gen < MaxGeneration
           /\ store' = WithActive(candidate)
    /\ Works(f, [step |-> "delete", basis |-> sessions[f].draft])
    /\ UNCHANGED <<module, requests, known, started>>

(* ... and failed, the draft is validated again. *)
ActivationFails(f) ==
    /\ module = "heating" /\ f \in Flows /\ IsIdle(f) /\ sessions[f].candidate # 0
    /\ Validates(f, sessions[f].draft.id)

(* A client activates any revision, expecting the reference it has read. *)
ClientActivate(c) ==
    /\ module = "heating" /\ c \in Clients /\ IsIdle(c)
    /\ \E candidate \in DOMAIN store.revisions :
         /\ Swaps(store.active, candidate) /\ ReplacesLegacy(candidate)
         /\ store.active # None => store.active.rev # candidate /\ store.active.gen < MaxGeneration
         /\ store.revisions[candidate].schema = 3
         /\ store' = WithActive(candidate)
    /\ Asks(c)
    /\ UNCHANGED <<module, known, sessions, started>>

(* async_step_abandon_current: one call, with the dialog's revision *)
AbandonCurrent(f) ==
    /\ module = "heating" /\ f \in Flows /\ IsIdle(f)
    /\ sessions[f].draft # None /\ sessions[f].candidate = 0
    /\ AcceptsDeleteV3(sessions[f].draft)
    /\ store' = WithoutDraftV3(sessions[f].draft)
    /\ sessions' = [sessions EXCEPT ![f] = Closed]
    /\ UNCHANGED <<module, requests, known, started>>

Deletes(s) ==
    /\ module = "heating" /\ IsIdle(s) /\ sessions[s].draft = None
    /\ \E d \in ToSet(store.drafts) : Works(s, [step |-> "delete", basis |-> d])
    /\ Asks(s)
    /\ UNCHANGED <<module, store, known, started>>

(* async_step_abandon_draft reopens a listed draft and deletes what it     *)
(* read; a client deletes the revision it has read.                        *)
Abandon(f) == f \in Flows /\ Deletes(f)
ClientAbandon(c) == c \in Clients /\ Deletes(c)

(* The dialog ends, whether or not the draft could be deleted. *)
FinishDelete(s) ==
    /\ module = "heating" /\ Step(s) = "delete"
    /\ store' = IF AcceptsDeleteV3(sessions[s].work.basis)
                THEN WithoutDraftV3(sessions[s].work.basis) ELSE store
    /\ sessions' = [sessions EXCEPT ![s] = Closed]
    /\ UNCHANGED <<module, requests, known, started>>

HeatingNext(s) ==
    \/ Begin(s) \/ ClientBegin(s) \/ Resume(s) \/ EditSection(s) \/ ClientUpdate(s) \/ FinishSave(s)
    \/ Review(s) \/ ClientValidate(s) \/ FinishAssess(s)
    \/ ClientCanonicalize(s) \/ FinishCheck(s) \/ FinishStore(s)
    \/ Activate(s) \/ ActivationFails(s) \/ ClientActivate(s)
    \/ AbandonCurrent(s) \/ Abandon(s) \/ ClientAbandon(s) \/ FinishDelete(s)
==============================================================================
