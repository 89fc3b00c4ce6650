------------------------------ MODULE ConfigurationUpgrade ------------------------------
(***************************************************************************)
(* One configuration on its way to schema 3: the data of a config entry,   *)
(* or a revision of schema 2, is loaded, converted and loaded again as a   *)
(* document; a document that a client wrote takes the last step only.      *)
(* Between the steps a user renames, moves or removes an entity.           *)
(* (custom_components/controlel/legacy_config_converter.py,                *)
(* canonical_v3_service.py, canonical_runtime.py,                          *)
(* application/configuration/canonical_v3_migration.py)                    *)
(*                                                                         *)
(* Who saves, checks and activates the document is SetupAuthoring and      *)
(* ConfigurationActivation; here is what becomes of its content.           *)
(***************************************************************************)
EXTENDS RuntimeConfiguration

CONSTANTS
    Entities,         \* the entity registry at first: [native, locator, area, floor, temperature, settable]
    EntryInputs,      \* bound: the data and options of config entries, [data, options]
    RevisionInputs,   \* bound: the revisions of schema 2
    DocumentInputs,   \* bound: the documents clients write
    NewNames,         \* bound: entity id -> the name a user gives to the entity
    NewArea           \* bound: the area a user moves an entity to

Moved(e) == [e EXCEPT !.area = NewArea]
Renamed(e) == [e EXCEPT !.locator = NewNames[@]]

(* Every entity there may be *)
AnyEntity ==
    Entities \cup {Moved(e) : e \in Entities}
             \cup {Renamed(e) : e \in {f \in Entities : f.locator \in DOMAIN NewNames}}

(* Registry ids and entity ids are unique; Home Assistant refuses a name   *)
(* that is taken.                                                          *)
ASSUME EntitiesAreRecords ==
    \A e \in Entities : DOMAIN e = {"native", "locator", "area", "floor", "temperature", "settable"}
ASSUME EntitiesAreUnique ==
    \A e, f \in Entities : e.native = f.native \/ e.locator = f.locator => e = f
ASSUME NewNamesAreFree ==
    \A e, f \in Entities : e.locator \in DOMAIN NewNames => NewNames[e.locator] # f.locator
ASSUME NewNamesKeepTheDomain ==
    \A id \in DOMAIN NewNames : DomainOf[NewNames[id]] = DomainOf[id]
ASSUME EntitiesAreSomething ==
    \A e \in AnyEntity : e.native # None /\ IsEntityId(e.locator) /\ EntityReference(e) # None
(* An endpoint without a registry entry is a state of Home Assistant. *)
ASSUME RevisionsHaveReferences ==
    \A r \in RevisionInputs : \A role \in Roles :
        r.bindings[role] # None =>
            LET reference == r.bindings[role].reference
            IN  /\ reference # None /\ ReferenceShape(reference)
                /\ reference.quality = "EPHEMERAL" => IsEntityId(reference.locator)

VARIABLES
    entities,         \* the entity registry
    stage,            \* how far the configuration is
    entry,            \* the config entry: its data and options
    revision,         \* the revision of schema 2
    document,         \* the document of schema 3
    requested,        \* role -> the reference that the client asked for, or None
    before, config,   \* what ran before the conversion, and what runs after it
    seen, taken       \* history: the registry at the load and at the conversion

upgradeVars == <<entities, stage, entry, revision, document, requested, before, config, seen, taken>>

NoRequest == [role \in Roles |-> None]
-----------------------------------------------------------------------------
(* FROM A CONFIG ENTRY TO SCHEMA 2 *)

(* _ephemeral_reference *)
EphemeralReference(id) ==
    [quality |-> "EPHEMERAL", native |-> None, locator |-> id, area |-> None, floor |-> None,
     evidence |-> [NoEvidence EXCEPT !.domain = DomainOf[id]]]

(* _migrated_binding: the user chose the entity once. *)
MigratedBinding(id) == [reference |-> EphemeralReference(id), confirmed |-> TRUE]

(* _debug_until_changed, _source_configuration, _heat_delivery_configuration: *)
(* what a payload cannot say                                               *)
Convertible(c) ==
    /\ c.debug_duration \in {None, c.configured_debug}
    /\ IF c.control_mode = "simple"
       THEN c.controlled # None
            /\ [enable |-> c.enable, disable |-> c.disable] = SwitchCalls(c.controlled)
       ELSE c.controlled = None
    /\ (c.delivery_mode = "unmanaged") <=> (c.actuator = None)

(* convert_legacy_heating_config *)
Converted(c) ==
    [payload |->
        [zone_id |-> c.zone_id, zone_name |-> c.zone_name,
         sensor_id |-> c.sensor_id, sensor_name |-> c.sensor_name,
         target |-> c.target, max_age |-> c.max_age, future_skew |-> c.future_skew,
         grace |-> c.grace, timeout_action |-> c.timeout_action,
         turn_on |-> c.turn_on, turn_off |-> c.turn_off, confirmation |-> c.confirmation,
         minimum_on |-> c.minimum_on, minimum_off |-> c.minimum_off,
         control_mode |-> c.control_mode,
         enable  |-> [domain |-> c.enable.domain,  service |-> c.enable.service],
         disable |-> [domain |-> c.disable.domain, service |-> c.disable.service],
         reported |-> c.control_mode = "simple",
         delivery_mode |-> c.delivery_mode, actuator |-> c.delivery_mode = "setpoint_assist",
         ownership |-> c.ownership,
         assist_policy |-> c.assist_policy, assist_target |-> c.assist_target,
         profile |-> c.profile, configured_debug |-> c.configured_debug,
         until_changed |-> c.debug_duration = None, before_debug |-> c.before_debug,
         notifications |-> c.notifications],
     bindings |->
        [sensor |-> MigratedBinding(c.temperature_entity),
         enable |-> MigratedBinding(c.enable.target), disable |-> MigratedBinding(c.disable.target),
         reported |-> IF c.control_mode = "simple" THEN MigratedBinding(c.controlled) ELSE None,
         actuator |-> IF c.delivery_mode = "setpoint_assist" THEN MigratedBinding(c.actuator) ELSE None]]

ASSUME NoneIsNoBinding == \A id \in DOMAIN DomainOf : MigratedBinding(id) # None
ASSUME NoneIsNoRevision ==
    /\ None \notin RevisionInputs
    /\ \A input \in EntryInputs :
         LET d == Merged(input.data, input.options) IN AcceptsEntry(d) => Converted(EntryConfig(d)) # None

-----------------------------------------------------------------------------
(* FROM SCHEMA 2 TO SCHEMA 3 *)

(* _v2_binding_resolution: what the client asks for, else the one entity   *)
(* of that very entity id, else what the revision has                      *)
Exact(r, registry) == {e \in registry : e.locator = r.locator}
ResolvedBinding(rev, role, asked, registry) ==
    LET r == ReferenceOf(rev, role)
    IN  IF asked[role] # None THEN asked[role]
        ELSE IF r.quality = "EPHEMERAL" /\ Exact(r, registry) # {}
        THEN EntityReference(CHOOSE e \in Exact(r, registry) : TRUE)
        ELSE r
Bindings(rev, asked, registry) ==
    [role \in Bound(rev) |-> ResolvedBinding(rev, role, asked, registry)]

(* No binding stays an entity id; otherwise the conversion is not ready.   *)
AllStable(rev, asked, registry) ==
    \A role \in Bound(rev) : Stable(ResolvedBinding(rev, role, asked, registry))

(* _migrated_logical_id: an id that the schema does not take, or that      *)
(* names an object of Home Assistant, gives way to the next free name.     *)
SensorNames == <<"primary_temperature_sensor", "primary_temperature_sensor_2", "primary_temperature_sensor_3">>
ZoneNames == <<"main_zone", "main_zone_2", "main_zone_3">>
FirstFree(names, values) ==
    LET free == {i \in DOMAIN names : names[i] \notin values}
    IN  names[CHOOSE i \in free : \A j \in free : i <= j]
MigratedId_AsItIs(id, names, values) == id
MigratedId(id, names, values) ==
    IF IsSlug(id) /\ id \notin values THEN id ELSE FirstFree(names, values)

(* _project_topology: where the sensor is, as its reference has it *)
Topology(sensor) ==
    [area  |-> IF sensor.area = None THEN None
               ELSE StableReference(sensor.area, None, None, sensor.floor, NoEvidence),
     floor |-> IF sensor.floor = None THEN None
               ELSE StableReference(sensor.floor, None, None, None, NoEvidence)]
AreaValues(topology) == IF topology.area = None THEN {} ELSE {topology.area.native}

(* _shared_stable_source_reference *)
SharedReference(enable, disable) == IF Identity(enable) = Identity(disable) THEN enable ELSE None

(* The names that a conversion gives are ids as the schema wants them; a   *)
(* registry id is no such name, and an entity id has a dot in it.          *)
ASSUME GivenNamesAreSlugs ==
    {SensorNames[i] : i \in 1 .. 3} \cup {ZoneNames[i] : i \in 1 .. 3} \cup {"main_heat_source"} \subseteq Slugs
ASSUME GivenNamesAreFree ==
    /\ \A e \in AnyEntity : "main_heat_source" \notin {e.native, e.locator}
    /\ \A r \in RevisionInputs : \A role \in Bound(r) :
         Separate("main_heat_source", ReferenceOf(r, role))

(* The debug profile is a state of the runtime, not of its configuration. *)
SteadyProfile(p) == IF p.profile = "debug" THEN p.before_debug ELSE p.profile

(* The parts of the document; at: role -> reference *)
ProtectionOf_SwappedTimes(p) ==
    [grace |-> p.grace, timeout_action |-> p.timeout_action,
     minimum_on |-> p.minimum_off, minimum_off |-> p.minimum_on]
ProtectionOf(p) ==
    [grace |-> p.grace, timeout_action |-> p.timeout_action,
     minimum_on |-> p.minimum_on, minimum_off |-> p.minimum_off]
StrategyOf(p, at) ==
    [mode |-> p.control_mode,
     enable  |-> [domain |-> p.enable.domain,  service |-> p.enable.service,  target |-> at["enable"]],
     disable |-> [domain |-> p.disable.domain, service |-> p.disable.service, target |-> at["disable"]]]

(* migrate_heating_v2_revision_to_v3 *)
Migrated(rev, at) ==
    LET p == rev.payload
        topology == Topology(at["sensor"])
        zone_id == MigratedId(p.zone_id, ZoneNames, AreaValues(topology))
    IN  [future_skew |-> p.future_skew,
         zone |-> [zone_id |-> zone_id, display_name |-> p.zone_name],
         topology |-> topology,
         sensor |-> [sensor_id |-> MigratedId(p.sensor_id, SensorNames,
                                        {at["sensor"].native, at["sensor"].locator}),
                     display_name |-> p.sensor_name, reference |-> at["sensor"]],
         demand |-> [target |-> p.target, turn_on |-> p.turn_on, turn_off |-> p.turn_off,
                     confirmation |-> p.confirmation, max_age |-> p.max_age],
         strategy |-> StrategyOf(p, at),
         observations |-> [reported |-> IF p.reported THEN at["reported"] ELSE None, physical |-> None],
         protection |-> ProtectionOf(p),
         source |-> [heat_source_id |-> "main_heat_source", display_name |-> "Main heat source",
                     reference |-> SharedReference(at["enable"], at["disable"])],
         delivery |-> [zone_id |-> zone_id, mode |-> p.delivery_mode,
                       actuator |-> IF p.actuator THEN at["actuator"] ELSE None,
                       ownership |-> p.ownership,
                       assist_policy |-> p.assist_policy, assist_target |-> p.assist_target],
         diagnostics |-> [steady_profile |-> SteadyProfile(p), debug_duration |-> p.configured_debug,
                          until_changed |-> p.until_changed],
         notifications |-> p.notifications]

-----------------------------------------------------------------------------
(* THE STEPS *)

(* async_select_runtime_configuration, of an entry without an authority *)
LoadEntry ==
    LET d == Merged(entry.data, entry.options)
    IN  /\ stage = "entry"
        /\ IF AcceptsEntry(d)
           THEN stage' = "legacy" /\ before' = EntryConfig(d)
           ELSE stage' = "refused" /\ UNCHANGED before
        /\ seen' = entities
        /\ UNCHANGED <<entities, entry, revision, document, requested, config, taken>>

(* ... of an entry whose authority is a revision of schema 2 *)
LoadRevision ==
    /\ stage = "v2"
    /\ IF CompilesV2(revision, entities)
       THEN stage' = "running" /\ before' = EffectiveConfig(revision, entities)
       ELSE stage' = "refused" /\ UNCHANGED before
    /\ seen' = entities
    /\ UNCHANGED <<entities, entry, revision, document, requested, config, taken>>

(* A client may name another entity for a role. *)
Request(role, e) == [NoRequest EXCEPT ![role] = EntityReference(e)]
Requests(rev, registry) ==
    {NoRequest} \cup {Request(role, e) : role \in Bound(rev), e \in registry}

(* _convert_v2_revision *)
Converts(rev) ==
    /\ requested' \in Requests(rev, entities)
    /\ LET doc == Migrated(rev, Bindings(rev, requested', entities))
       IN  IF AllStable(rev, requested', entities) /\ Admitted(doc)
           THEN stage' = "draft" /\ document' = doc
           ELSE stage' = "unconverted" /\ UNCHANGED document
    /\ revision' = rev /\ taken' = entities
    /\ UNCHANGED <<entities, entry, before, config, seen>>

(* convert_v2: of the revision in force, whether or not it loaded *)
ConvertRevision == stage \in {"v2", "running"} /\ Converts(revision)

(* convert_legacy *)
ConvertLegacy ==
    /\ stage = "legacy"
    /\ Convertible(before) /\ ValidV2(Converted(before))
    /\ Converts(Converted(before))

(* LegacyHeatingConversionError *)
ConversionFails ==
    /\ stage = "legacy"
    /\ ~(Convertible(before) /\ ValidV2(Converted(before)))
    /\ stage' = "unconverted"
    /\ UNCHANGED <<entities, entry, revision, document, requested, before, config, seen, taken>>

(* Every revision of a draft is validated as it is written; a new one has  *)
(* the defaults of what the runtime does not do yet.                       *)
WriteDocument ==
    /\ stage = "authored"
    /\ stage' = IF Admitted(document) /\ NewDeferredDefaults(document) THEN "draft" ELSE "inadmissible"
    /\ UNCHANGED <<entities, entry, revision, document, requested, before, config, seen, taken>>

(* _async_compile_canonical_runtime_v3, once the document is in force *)
LoadDocument ==
    /\ stage = "draft"
    /\ IF CompilesV3(document, entities)
       THEN stage' = "v3" /\ config' = CompiledV3(document, entities)
       ELSE stage' = "uncompiled" /\ UNCHANGED config
    /\ UNCHANGED <<entities, entry, revision, document, requested, before, seen, taken>>

(* External: a user renames, moves or removes an entity. *)
EntityChanges ==
    /\ stage \in {"legacy", "v2", "running", "draft"}
    /\ entities = Entities
    /\ \E e \in entities :
         \/ entities' = entities \ {e}
         \/ entities' = (entities \ {e}) \cup {Moved(e)}
         \/ e.locator \in DOMAIN NewNames /\ entities' = (entities \ {e}) \cup {Renamed(e)}
    /\ UNCHANGED <<stage, entry, revision, document, requested, before, config, seen, taken>>

UpgradeInit ==
    /\ entities = Entities
    /\ requested = NoRequest /\ before = None /\ config = None /\ seen = None /\ taken = None
    /\ \/ stage = "entry" /\ entry \in EntryInputs /\ revision = None /\ document = None
       \/ /\ stage = "v2" /\ revision \in RevisionInputs /\ entry = None /\ document = None
          /\ ReadyV2(revision, Entities)
       \/ stage = "authored" /\ document \in DocumentInputs /\ entry = None /\ revision = None

UpgradeNext ==
    \/ LoadEntry \/ LoadRevision \/ ConvertLegacy \/ ConversionFails \/ ConvertRevision
    \/ WriteDocument \/ LoadDocument \/ EntityChanges

UpgradeSpec == UpgradeInit /\ [][UpgradeNext]_upgradeVars

-----------------------------------------------------------------------------
(* PROPERTIES *)

(* Fields that no conversion touches *)
Kept == {"sensor_name", "zone_name", "target", "turn_on", "turn_off", "minimum_on", "minimum_off",
         "max_age", "future_skew", "grace", "timeout_action", "control_mode", "configured_debug",
         "confirmation", "delivery_mode", "ownership", "assist_policy", "assist_target", "notifications"}

(* The entities a configuration names, by role *)
EntityOf(c) ==
    [sensor |-> c.temperature_entity, enable |-> c.enable.target, disable |-> c.disable.target,
     reported |-> c.controlled, actuator |-> c.actuator]

(* What is behind an entity id, whatever it is called *)
Native(id, registry) == {e.native : e \in {f \in registry : f.locator = id}}

(* An id that a document may not have: no slug, or the name of something   *)
(* that the document refers to                                             *)
Unfit(id, values) == ~IsSlug(id) \/ id \in values

RunsConverted == stage = "v3" /\ before # None

(* Every policy and limit, and both services.  A debug session in progress *)
(* is not carried over: the profile is the steady one.                     *)
PolicyIsKept ==
    RunsConverted =>
        /\ \A field \in Kept : config[field] = before[field]
        /\ \A call \in {"enable", "disable"} :
             /\ config[call].domain = before[call].domain
             /\ config[call].service = before[call].service
        /\ config.profile = SteadyProfile(before)

(* What a role was bound to: a stable reference is the entity it was at    *)
(* the load, an entity id is whatever has that id at the conversion.       *)
Was(role) ==
    Native(EntityOf(before)[role],
           IF ReferenceOf(revision, role).quality = "EPHEMERAL" THEN taken ELSE seen)

(* The same entities, even if renamed meanwhile, but for what was asked    *)
EntitiesAreKept ==
    RunsConverted => \A role \in Roles :
        LET is == EntityOf(config)[role]
        IN  /\ (is = None) <=> (EntityOf(before)[role] = None)
            /\ is # None => Native(is, entities) = IF requested[role] = None THEN Was(role)
                                                  ELSE {requested[role].native}

(* The same ids, unless a document cannot have them *)
IdsAreKept ==
    RunsConverted =>
        /\ \/ config.zone_id = before.zone_id
           \/ Unfit(before.zone_id, AreaValues(document.topology))
        /\ \/ config.sensor_id = before.sensor_id
           \/ LET sensor == document.sensor.reference
              IN  Unfit(before.sensor_id, {sensor.native, sensor.locator})

(* Invariant: what runs on a converted document is what ran before it,     *)
(* whatever entities were renamed, moved or asked for in between.          *)
(* (convert_legacy_heating_config, migrate_heating_v2_revision_to_v3 and   *)
(* compile_canonical_heating_config_v3 copy some thirty fields each; a     *)
(* wrong one is a wrong heating policy that no validator sees)             *)
UpgradeKeepsTheConfiguration == PolicyIsKept /\ EntitiesAreKept /\ IdsAreKept

(* A role of the revision that names an entity id nobody has any more *)
SomeUnmatched ==
    \E role \in Bound(revision) :
        /\ ReferenceOf(revision, role).quality = "EPHEMERAL"
        /\ requested[role] = None
        /\ Exact(ReferenceOf(revision, role), entities) = {}

SomeMissing(references) == \E r \in references \ {None} : Resolved(r, entities) = None

(* What the schemas admit and the runtime does not take: a name of blanks, *)
(* a longer confirmation than a day, an assist through something that is   *)
(* no climate entity, a duration that timedelta cannot hold                *)
BeyondTheRuntime(names, durations, confirmation, actuator) ==
    \/ names \cap Blank # {}
    \/ \E x \in durations \cup {confirmation} : ~IsTimedelta(x)
    \/ ~(confirmation <= MaxConfirmation)
    \/ actuator # None /\ Resolved(actuator, entities).evidence.domain # "climate"

DocumentBeyondTheRuntime(doc) ==
    BeyondTheRuntime({doc.sensor.display_name, doc.zone.display_name},
        {doc.demand.max_age, doc.future_skew, doc.protection.grace, doc.protection.minimum_on,
         doc.protection.minimum_off, doc.diagnostics.debug_duration},
        doc.demand.confirmation, doc.delivery.actuator)
RevisionBeyondTheRuntime(p) ==
    BeyondTheRuntime({p.sensor_name, p.zone_name},
        {p.max_age, p.future_skew, p.grace, p.minimum_on, p.minimum_off, p.configured_debug},
        p.confirmation, None)

(* A client may ask for anything; what it asked for need not fit together. *)
AsksForIt == requested # NoRequest

(* Invariant: what one stage took no later stage refuses, but for reasons  *)
(* that are named.  A configuration that ran is convertible, unless an     *)
(* entity of it is gone, or an actuator is left over from another delivery *)
(* mode; a document of a configuration that ran loads, unless an entity is *)
(* gone; an admitted document or revision loads, unless an entity is gone  *)
(* or it is beyond the runtime.  (four validators that are written apart:  *)
(* config.py:163, heating_setup_adapter.py:295, canonical_v3.py:140, and   *)
(* the conversions between them)                                           *)
AcceptedGoesThrough ==
    /\ stage = "unconverted" =>
         \/ revision = None /\ before.delivery_mode = "unmanaged" /\ before.actuator # None
         \/ revision # None /\ SomeUnmatched
         \/ AsksForIt
    /\ stage = "uncompiled" =>
         \/ SomeMissing({RequiredBindings(document)[path] :
                            path \in DOMAIN RequiredBindings(document)})
         \/ (before = None \/ AsksForIt) /\ DocumentBeyondTheRuntime(document)
    /\ stage = "refused" /\ revision # None =>
         \/ SomeMissing({ReferenceOf(revision, role) : role \in Bound(revision)})
         \/ RevisionBeyondTheRuntime(revision.payload)
==============================================================================
