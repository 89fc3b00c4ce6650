-------------------------------- MODULE HeatingSchema --------------------------------
(***************************************************************************)
(* What a heating configuration of schema 3 may say: the validators of the *)
(* canonical document, section by section, and the references it makes.    *)
(* (application/configuration/canonical_v3.py, canonical_v3_lifecycle.py,  *)
(* application/setup/model.py, domain/notifications/model.py,              *)
(* infrastructure/home_assistant/setup_discovery.py)                       *)
(*                                                                         *)
(* A number is an integer or NotFinite: NaN, an infinity, no number.       *)
(* Fields have the source's names without their units (turn_on is          *)
(* heating_turn_on_differential_celsius).  Sections that the code nests    *)
(* stand side by side; a document has one zone, source and delivery, as    *)
(* the schema demands.  All references are Home Assistant's, of one        *)
(* instance.  Left out: provenance, fingerprints, categories of a          *)
(* recipient, values of a type that JSON schemas refuse.                   *)
(***************************************************************************)
EXTENDS Values, Sequences, FiniteSets

CONSTANTS
    NotFinite,     \* NaN, an infinity, or no number
    Absent,        \* a key that is not there
    MaxSeconds,    \* timedelta.max
    Slugs,         \* the strings that match ^[a-z0-9_]+$
    DomainOf       \* entity id -> the part before its dot

ASSUME MaxSecondsIsNat == MaxSeconds \in Nat
ASSUME NoNumbers == {None, NotFinite, Absent} \cap Int = {}
ASSUME NoneIsNoEntity == None \notin DOMAIN DomainOf
ASSUME NoneIsNoSlug == None \notin Slugs
ASSUME NamesAreNotEmpty == "" \notin Slugs \cup DOMAIN DomainOf

(* _finite_number *)
Finite(x) == x \notin {None, NotFinite, Absent}
AtLeast(x, low) == Finite(x) /\ x >= low
Within(x, low, high) == AtLeast(x, low) /\ x <= high

(* timedelta(seconds=...) raises OverflowError on what it cannot hold. *)
IsTimedelta(x) == x <= MaxSeconds

IsSlug(id) == id \in Slugs
IsEntityId(id) == id \in DOMAIN DomainOf

-----------------------------------------------------------------------------
(* REFERENCES *)

(* ProviderReference; the evidence kept with it: its domain, whether it    *)
(* advertises a temperature, whether its target can be set                 *)
StableReference(native, locator, area, floor, evidence) ==
    [quality |-> "STABLE", native |-> native, locator |-> locator,
     area |-> area, floor |-> floor, evidence |-> evidence]

NoEvidence == [domain |-> None, temperature |-> FALSE, settable |-> FALSE]

(* _entity_reference: what the entity registry says of an entity now *)
EntityReference(e) ==
    StableReference(e.native, e.locator, e.area, e.floor,
        [domain |-> DomainOf[e.locator], temperature |-> e.temperature, settable |-> e.settable])

(* identity_shape_must_be_truthful *)
ReferenceShape(r) ==
    \/ r.quality = "STABLE" /\ r.native # None
    \/ r.quality = "EPHEMERAL" /\ r.native = None /\ r.locator # None

(* semantic_data: a stable reference is what it names, however it is       *)
(* called now.                                                             *)
Identity(r) == IF r.quality = "STABLE" THEN <<"STABLE", r.native>> ELSE <<"EPHEMERAL", r.locator>>

(* HomeAssistantReferenceResolver.resolve: the entity with the stable id,  *)
(* as it is now; an endpoint without one is as it was.  None: missing, or  *)
(* a candidate that only a user may take.                                  *)
Resolved(r, registry) ==
    IF r.quality = "EPHEMERAL" THEN r
    ELSE IF \E e \in registry : e.native = r.native
    THEN EntityReference(CHOOSE e \in registry : e.native = r.native)
    ELSE None

-----------------------------------------------------------------------------
(* NOTIFICATIONS: [enabled, recipients, maximum, window, critical_maximum, *)
(* critical_window, capacity]; recipients are a sequence of                *)
(* [id, target, enabled, level].                                           *)

MaxRecipients == 16
Day == 86400

(* recipients_must_be_bounded_and_unique *)
DistinctRecipients(recipients) ==
    /\ Len(recipients) <= MaxRecipients
    /\ \A i, j \in DOMAIN recipients :
         i # j =>
            /\ recipients[i].id # recipients[j].id
            /\ recipients[i].enabled /\ recipients[j].enabled
                => recipients[i].target # recipients[j].target

BoundedRates(n) ==
    /\ Within(n.maximum, 1, 100) /\ Within(n.window, 1, Day)
    /\ Within(n.critical_maximum, 1, 200) /\ Within(n.critical_window, 1, Day)
    /\ Within(n.capacity, 1, 1000)

IsNotifyTarget(target) == IsEntityId(target) /\ DomainOf[target] = "notify"

(* NotificationRecipientConfigurationV3 *)
RecipientV3(r) == IsSlug(r.id) /\ IsNotifyTarget(r.target)

(* NotificationsConfigurationV3 *)
NotificationsV3(n) ==
    /\ \A i \in DOMAIN n.recipients : RecipientV3(n.recipients[i])
    /\ DistinctRecipients(n.recipients)
    /\ BoundedRates(n)

(* NotificationRecipient, NotificationPolicy: what the runtime takes *)
RuntimeRecipient(r) == r.id # "" /\ r.target # ""
RuntimePolicy(n) ==
    /\ \A i \in DOMAIN n.recipients : RuntimeRecipient(n.recipients[i])
    /\ DistinctRecipients(n.recipients)
    /\ BoundedRates(n)

-----------------------------------------------------------------------------
(* THE DOCUMENT: [future_skew, zone, topology, sensor, demand, strategy,   *)
(* observations, protection, source, delivery, diagnostics, notifications] *)

(* _stable_reference *)
Stable(r) == r # None /\ r.quality = "STABLE"
StableOrNone(r) == r = None \/ Stable(r)

(* _logical_id_must_be_separate *)
Separate(id, r) == id \notin {r.native, r.locator}
SeparateOrNone(id, r) == r = None \/ Separate(id, r)

(* ZoneTopologyV3; both references are of the one instance. *)
TopologyV3(t) == StableOrNone(t.area) /\ StableOrNone(t.floor)

(* PrimaryTemperatureSensorV3 *)
SensorV3(s) ==
    /\ IsSlug(s.sensor_id) /\ s.display_name # ""
    /\ Stable(s.reference) /\ Separate(s.sensor_id, s.reference)

(* ZoneDemandPolicyV3: no upper bound on the confirmation *)
DemandPolicyV3(d) ==
    /\ Finite(d.target)
    /\ \A x \in {d.turn_on, d.turn_off, d.confirmation} : AtLeast(x, 0)
    /\ Finite(d.max_age) /\ d.max_age > 0

(* ZoneConfigurationV3 *)
ZoneV3(doc) ==
    /\ IsSlug(doc.zone.zone_id) /\ doc.zone.display_name # ""
    /\ SeparateOrNone(doc.zone.zone_id, doc.topology.area)

(* HeatingGlobalConfigurationV3 *)
GlobalV3(doc) == AtLeast(doc.future_skew, 0)

(* ProviderServiceCallV3 *)
ServiceCallV3(c) ==
    /\ IsSlug(c.domain) /\ IsSlug(c.service) /\ c.domain # "controlel"
    /\ Stable(c.target)

(* HeatSourceCommandStrategyV3: a simple source is one switch. *)
StrategyV3_AnySwitch(s) ==
    /\ ServiceCallV3(s.enable) /\ ServiceCallV3(s.disable)
    /\ s.mode \in {"simple", "custom"}
StrategyV3(s) ==
    /\ ServiceCallV3(s.enable) /\ ServiceCallV3(s.disable)
    /\ s.mode \in {"simple", "custom"}
    /\ s.mode = "simple" =>
         /\ s.enable.domain = "switch" /\ s.enable.service = "turn_on"
         /\ s.disable.domain = "switch" /\ s.disable.service = "turn_off"
         /\ Identity(s.enable.target) = Identity(s.disable.target)

(* HeatSourceObservationBindingsV3: a report of the actuator is no         *)
(* evidence of the physical operation.                                     *)
ObservationsV3(o) ==
    /\ StableOrNone(o.reported) /\ StableOrNone(o.physical)
    /\ o.reported # None /\ o.physical # None => Identity(o.reported) # Identity(o.physical)

(* HeatSourceProtectionPolicyV3 *)
ProtectionV3(p) ==
    /\ \A x \in {p.grace, p.minimum_on, p.minimum_off} : AtLeast(x, 0)
    /\ p.timeout_action \in Actions

(* HeatSourceConfigurationV3 *)
SourceReferences(doc) ==
    {doc.source.reference, doc.strategy.enable.target, doc.strategy.disable.target,
     doc.observations.reported, doc.observations.physical}
SourceV3(doc) ==
    /\ IsSlug(doc.source.heat_source_id) /\ doc.source.display_name # ""
    /\ StableOrNone(doc.source.reference)
    /\ \A r \in SourceReferences(doc) : SeparateOrNone(doc.source.heat_source_id, r)

(* ZoneHeatDeliveryConfigurationV3 *)
DeliveryV3(d) ==
    /\ IsSlug(d.zone_id) /\ StableOrNone(d.actuator) /\ Finite(d.assist_target)
    /\ d.mode \in {"unmanaged", "setpoint_assist"}
    /\ d.ownership \in {"device_owned", "controlel_owned"}
    /\ d.assist_policy \in {"no_assist", "always_assist_while_heating"}
    /\ IF d.mode = "setpoint_assist" THEN d.actuator # None /\ d.ownership = "controlel_owned"
       ELSE d.actuator = None

(* DiagnosticsConfigurationV3, DiagnosticDebugPolicyV3 *)
DebugPolicyV3(d) == Finite(d.debug_duration) /\ d.debug_duration > 0 /\ d.until_changed \in BOOLEAN
DiagnosticsV3(d) == d.steady_profile \in {"basic", "detailed"} /\ DebugPolicyV3(d)

(* HeatingConfigurationV3 *)
HeatingV3(doc) ==
    /\ GlobalV3(doc) /\ TopologyV3(doc.topology) /\ SensorV3(doc.sensor)
    /\ DemandPolicyV3(doc.demand) /\ ZoneV3(doc)
    /\ StrategyV3(doc.strategy) /\ ObservationsV3(doc.observations)
    /\ ProtectionV3(doc.protection) /\ SourceV3(doc)
    /\ DeliveryV3(doc.delivery) /\ doc.delivery.zone_id = doc.zone.zone_id

(* CanonicalConfigurationRevisionV3 *)
Admitted(doc) == HeatingV3(doc) /\ DiagnosticsV3(doc.diagnostics) /\ NotificationsV3(doc.notifications)

(* _require_new_v1_deferred_defaults, _require_deferred_fields_unchanged:  *)
(* what an author may not set, and may not change                          *)
NewDeferredDefaults(doc) == doc.observations.physical = None /\ ~doc.diagnostics.until_changed

(* canonical_reference_bindings_v3: the references the runtime needs, by   *)
(* their path                                                              *)
RequiredBindings(doc) ==
    [sensor |-> doc.sensor.reference,
     enable |-> doc.strategy.enable.target, disable |-> doc.strategy.disable.target,
     reported |-> doc.observations.reported, actuator |-> doc.delivery.actuator]
==============================================================================
