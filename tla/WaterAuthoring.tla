--------------------------------- MODULE WaterAuthoring ---------------------------------
(***************************************************************************)
(* Authoring of the water safety configuration.  The dialog holds no       *)
(* draft: each section reads the draft last saved, or the configuration in *)
(* force, when it is submitted, and saves a draft only where the intent    *)
(* differs from both.  Review makes a revision of the draft, activation    *)
(* puts it in force.  (water_safety_draft_semantics.py,                    *)
(* water_safety_configure_view.py, water_safety_area_sensor.py,            *)
(* water_safety_notifications.py, water_safety_sirens.py,                  *)
(* water_safety_shutoff_valves.py, water_safety_setup_host.py,             *)
(* water_safety_setup_adapter.py, config_flow.py,                          *)
(* setup_write_websocket.py)                                               *)
(*                                                                         *)
(* A content is [sensor, notifications, sirens, valves]: the moisture      *)
(* sensor or None, and the targets of each output.  The base of a draft is *)
(* recorded by the code and never compared: it is None here.               *)
(***************************************************************************)
EXTENDS SetupStore

CONSTANTS
    MoistureSensors, NotifyTargets, SirenTargets, ValveTargets,
    MaxTargets   \* bound: output targets of one content

(* The bound on the contents. *)
Fits(content) ==
    Cardinality(content.notifications) + Cardinality(content.sirens)
        + Cardinality(content.valves) <= MaxTargets

WaterContents ==
    {c \in [sensor : MoistureSensors \cup {None}, notifications : SUBSET NotifyTargets,
            sirens : SUBSET SirenTargets, valves : SUBSET ValveTargets] : Fits(c)}
NoIntent == [sensor |-> None, notifications |-> {}, sirens |-> {}, valves |-> {}]

(* WaterSafetySetupAdapter.validate: a draft needs its sensor; outputs are *)
(* optional, and what the dialog saves is confirmed and stable.            *)
WaterReady(content) == content.sensor # None
WaterReport(d) == ReportOn(d, WaterReady(d.content))

-----------------------------------------------------------------------------
(* THE VIEW: the draft last saved *)

(* async_list_module_drafts, latest first; async_build_..._configure_view *)
ViewedDraft == IF store.drafts = << >> THEN None ELSE Last(store.drafts)

(* The editors start from the draft, or the configuration in force. *)
EditorSource ==
    IF ViewedDraft # None THEN ViewedDraft.content
    ELSE IF store.active # None THEN ActiveRevision.content
    ELSE NoIntent

(* water_intent_matches_draft, water_intent_matches_active *)
MatchesDraft(content) == ViewedDraft # None /\ content = ViewedDraft.content
MatchesActive(content) == store.active # None /\ content = ActiveRevision.content

(* async_commit_water_draft_if_changed: what the section still has to do *)
Commits(content) ==
    LET current == ViewedDraft
        fresh == [id |-> NewId, rev |-> 1, base |-> None, origin |-> "configure", content |-> content,
                  conf |-> IF store.active = None THEN NewId ELSE ActiveRevision.conf]
    IN  IF MatchesDraft(content) THEN Idle
        ELSE IF MatchesActive(content)
        THEN IF current = None THEN Idle ELSE [step |-> "delete", basis |-> current]
        ELSE IF current # None
        THEN [step |-> "save", draft |-> NextRevision(current, content), basis |-> current]
        ELSE [step |-> "save", draft |-> fresh, basis |-> None]

(* A section is submitted: what it makes of the content is committed.      *)
Submits(f, edits) ==
    /\ module = "water" /\ f \in Flows /\ IsIdle(f) /\ sessions[f].candidate = 0
    /\ IF ViewedDraft = None THEN MayStart ELSE ViewedDraft.rev < MaxDraftRevision
    /\ \E content \in edits :
         Fits(content) /\ Commits(content) # Idle /\ Works(f, Commits(content))
    /\ started' = IF ViewedDraft = None THEN NewId ELSE started
    /\ UNCHANGED <<module, requests, store, known>>

(* HomeAssistantDiscoveryAdapter.snapshot, recommend: what there is now *)
Discovered(targets) == targets \cap known

(* The sections.  What is selected has to be known to Home Assistant now,  *)
(* also where it was saved earlier.                                        *)
OfferedSensors == Discovered(MoistureSensors)
AreaSensorSection(f) ==
    Submits(f, {[EditorSource EXCEPT !.sensor = x] : x \in {None} \cup OfferedSensors})

OfferedNotifyTargets == Discovered(NotifyTargets)
NotificationsSection(f) ==
    Submits(f, {[EditorSource EXCEPT !.notifications = T] : T \in SUBSET OfferedNotifyTargets})

OfferedSirens == Discovered(SirenTargets)
SirensSection(f) ==
    Submits(f, {[EditorSource EXCEPT !.sirens = T] : T \in SUBSET OfferedSirens})

OfferedValves == Discovered(ValveTargets)
ShutoffValvesSection(f) ==
    Submits(f, {[EditorSource EXCEPT !.valves = T] : T \in SUBSET OfferedValves})

(* save_draft, and a report on what was saved; the second write is merged: *)
(* a review makes a report of its own.                                     *)
FinishWaterSave(s) ==
    /\ module = "water" /\ Step(s) = "save"
    /\ LET d == sessions[s].work.draft
       IN  IF AcceptsDraft(d)
           THEN store' = WithReport(WithDraft(d), WaterReport(d))
           ELSE UNCHANGED store
    /\ Rests(s)
    /\ UNCHANGED <<module, requests, known, started>>

-----------------------------------------------------------------------------
(* REVIEW *)

(* async_step_water_safety_validation: of the draft and the revision in    *)
(* force that the dialog sees                                              *)
WaterReview(f) ==
    /\ module = "water" /\ f \in Flows /\ IsIdle(f) /\ sessions[f].candidate = 0
    /\ ViewedDraft # None
    /\ Works(f, [step |-> "assess", viewed |-> ViewedDraft, number |-> NextNumber, parent |-> Parent])
    /\ UNCHANGED <<module, requests, store, known, started>>

(* validate_water_draft on the latest revision, then the latest report: it *)
(* is this one, unless another session saves in between.  The user goes on *)
(* if it is on what the dialog has seen.                                   *)
FinishWaterAssess(f) ==
    /\ module = "water" /\ f \in Flows /\ Step(f) = "assess"
    /\ LET work == sessions[f].work
           id == work.viewed.id
           report == WaterReport(Latest(id))
       IN  IF id \in Stored
           THEN /\ store' = WithReport(store, report)
                /\ \/ Rests(f)
                   \/ /\ Assesses(report, work.viewed) /\ report.ready
                      /\ Works(f, [work EXCEPT !.step = "check"])
           ELSE Rests(f) /\ UNCHANGED store
    /\ UNCHANGED <<module, requests, known, started>>

(* canonicalize_water_draft: the latest revision is read, validated, and - *)
(* from_validated_draft - made a revision, also if it is a later one than  *)
(* the dialog has seen.                                                    *)
WaterRevision(d, number, parent) ==
    [RevisionOf(d, WaterReport(d), number, parent) EXCEPT !.schema = 2]
MayBecomeRevision(d, report) == Assesses(report, d) /\ report.ready
FinishWaterCheck(s) ==
    /\ module = "water" /\ Step(s) = "check"
    /\ LET work == sessions[s].work
           id == work.viewed.id
           d == Latest(id)
       IN  IF id \in Stored
           THEN /\ store' = WithReport(store, WaterReport(d))
                /\ IF MayBecomeRevision(d, WaterReport(d))
                   THEN sessions' =
                          [sessions EXCEPT
                             ![s].work = [step |-> "store",
                                          revision |-> WaterRevision(d, work.number, work.parent)],
                             ![s].draft = IF s \in Flows THEN work.viewed ELSE @]
                   ELSE Rests(s)
           ELSE Rests(s) /\ UNCHANGED store
    /\ UNCHANGED <<module, requests, known, started>>

-----------------------------------------------------------------------------
(* ACTIVATION, and the end of a draft *)

(* activate_canonical_revision: expected is what its prepare reads. *)
WaterActivates(candidate) ==
    /\ Swaps(store.active, candidate)
    /\ store.active # None => store.active.gen < MaxGeneration
    /\ store' = WithActive(candidate)

(* async_step_water_safety_activate *)
WaterActivate(f) ==
    /\ module = "water" /\ f \in Flows /\ IsIdle(f) /\ sessions[f].candidate # 0
    /\ WaterActivates(sessions[f].candidate)
    /\ Works(f, [step |-> "delete", basis |-> sessions[f].draft])
    /\ UNCHANGED <<module, requests, known, started>>

(* async_step_water_safety_abandon: the draft it sees, when it is confirmed *)
WaterAbandon(f) ==
    /\ module = "water" /\ f \in Flows /\ IsIdle(f) /\ sessions[f].candidate = 0
    /\ ViewedDraft # None
    /\ Works(f, [step |-> "delete", basis |-> ViewedDraft])
    /\ UNCHANGED <<module, requests, store, known, started>>

(* delete_draft; the reports on it stay. *)
FinishWaterDelete(s) ==
    /\ module = "water" /\ Step(s) = "delete"
    /\ store' = IF AcceptsDelete(sessions[s].work.basis)
                THEN WithoutDraft(sessions[s].work.basis) ELSE store
    /\ sessions' = [sessions EXCEPT ![s] = Closed]
    /\ UNCHANGED <<module, requests, known, started>>

-----------------------------------------------------------------------------
(* WEBSOCKET CLIENTS *)

(* start_new_water_safety_setup: any content, of a configuration the       *)
(* client names: a new one, or the one in force                            *)
ClientWaterStart(c) ==
    /\ module = "water" /\ c \in Clients /\ IsIdle(c)
    /\ MayStart
    /\ \E content \in WaterContents,
          conf \in {NewId} \cup (IF store.active = None THEN {} ELSE {ActiveRevision.conf}) :
         Works(c, [step |-> "save", basis |-> None,
                   draft |-> [id |-> NewId, rev |-> 1, base |-> None, origin |-> "wizard",
                              content |-> content, conf |-> conf]])
    /\ started' = NewId
    /\ Asks(c)
    /\ UNCHANGED <<module, store, known>>

(* update_water_draft *)
ClientWaterUpdate(c) ==
    /\ module = "water" /\ c \in Clients /\ IsIdle(c)
    /\ \E d \in ToSet(store.drafts), content \in WaterContents :
         /\ d.rev < MaxDraftRevision
         /\ Works(c, [step |-> "save", draft |-> NextRevision(d, content), basis |-> d])
    /\ Asks(c)
    /\ UNCHANGED <<module, store, known, started>>

(* canonicalize_water_draft, with a number and a parent of the client *)
ClientWaterCanonicalize(c) ==
    /\ module = "water" /\ c \in Clients /\ IsIdle(c)
    /\ \E d \in ToSet(store.drafts) :
         Works(c, [step |-> "check", viewed |-> d, number |-> NextNumber, parent |-> Parent])
    /\ Asks(c)
    /\ UNCHANGED <<module, store, known, started>>

(* _activate_water_setup: any revision; and the draft is validated again. *)
ClientWaterActivate(c) ==
    /\ module = "water" /\ c \in Clients /\ IsIdle(c)
    /\ \E candidate \in DOMAIN store.revisions : WaterActivates(candidate)
    /\ Asks(c)
    /\ UNCHANGED <<module, known, sessions, started>>

(* _delete *)
ClientWaterDelete(c) ==
    /\ module = "water" /\ c \in Clients /\ IsIdle(c)
    /\ \E d \in ToSet(store.drafts) : Works(c, [step |-> "delete", basis |-> d])
    /\ Asks(c)
    /\ UNCHANGED <<module, store, known, started>>

WaterNext(s) ==
    \/ AreaSensorSection(s) \/ NotificationsSection(s) \/ SirensSection(s) \/ ShutoffValvesSection(s)
    \/ FinishWaterSave(s)
    \/ WaterReview(s) \/ FinishWaterAssess(s) \/ FinishWaterCheck(s)
    \/ WaterActivate(s) \/ WaterAbandon(s) \/ FinishWaterDelete(s)
    \/ ClientWaterStart(s) \/ ClientWaterUpdate(s) \/ ClientWaterCanonicalize(s)
    \/ ClientWaterActivate(s) \/ ClientWaterDelete(s)
==============================================================================
