------------------------------ MODULE RuntimeConfiguration ------------------------------
(***************************************************************************)
(* The one configuration a heating runtime takes, and the three ways to    *)
(* it: from the data and options of a config entry, from a revision of     *)
(* schema 2, from a document of schema 3.                                  *)
(* (custom_components/controlel/config.py, canonical_runtime.py)           *)
(*                                                                         *)
(* An entity is its entity id here.  A service call is [domain, service,   *)
(* target].                                                                *)
(***************************************************************************)
EXTENDS HeatingPayload

MaxConfirmation == 86400

Blank == {"", " "}

(* HomeAssistantServiceCall *)
ServiceCall(c) ==
    IsSlug(c.domain) /\ IsSlug(c.service) /\ IsEntityId(c.target) /\ c.domain # "controlel"

(* HomeAssistantIntegrationConfig.__post_init__; and what its parts demand *)
RuntimeConfig(c) ==
    /\ {c.sensor_name, c.zone_name} \cap Blank = {} /\ IsEntityId(c.temperature_entity)
    /\ \A x \in {c.max_age, c.future_skew, c.grace, c.minimum_on, c.minimum_off,
                 c.confirmation, c.configured_debug} : IsTimedelta(x)
    /\ c.max_age > 0
    /\ \A x \in {c.future_skew, c.grace, c.turn_on, c.turn_off, c.minimum_on, c.minimum_off} : x >= 0
    /\ Within(c.confirmation, 0, MaxConfirmation)
    /\ ServiceCall(c.enable) /\ ServiceCall(c.disable)
    /\ c.control_mode \in {"simple", "custom"}
    /\ c.profile \in {"basic", "detailed", "debug"} /\ c.before_debug \in {"basic", "detailed"}
    /\ c.debug_duration # None => c.debug_duration > 0
    /\ c.configured_debug > 0
    /\ c.delivery_mode \in {"unmanaged", "setpoint_assist"}
    /\ c.ownership \in {"device_owned", "controlel_owned"}
    /\ c.assist_policy \in {"no_assist", "always_assist_while_heating"}
    /\ Finite(c.assist_target)
    /\ c.delivery_mode = "setpoint_assist" =>
         /\ c.actuator # None /\ IsEntityId(c.actuator) /\ DomainOf[c.actuator] = "climate"
         /\ c.ownership = "controlel_owned"
    /\ RuntimePolicy(c.notifications)

-----------------------------------------------------------------------------
(* FROM A CONFIG ENTRY: records of all keys, some Absent *)

IdentityKeys == {"sensor_id", "zone_id"}

(* merged_entry_configuration: options override data, but no identity. *)
Merged(data, options) ==
    [k \in DOMAIN data |->
        IF k \in IdentityKeys \/ options[k] = Absent THEN data[k] ELSE options[k]]

Given(d, key, default) == IF d[key] = Absent THEN default ELSE d[key]

(* _required_string *)
HasString(d, key) == d[key] \notin Blank \cup {Absent, None}

(* _finite_optional_number, _finite_duration: those with a legacy default  *)
HasDuration(d, key) == AtLeast(d[key], 0) /\ IsTimedelta(d[key])
MayHaveDuration(d, key) == d[key] = Absent \/ HasDuration(d, key)
MayHaveNumber(d, key) == d[key] = Absent \/ Finite(d[key])

(* infer_control_mode *)
IsSwitched(d) ==
    /\ d.enable_domain = "switch" /\ d.enable_service = "turn_on"
    /\ d.disable_domain = "switch" /\ d.disable_service = "turn_off"
    /\ d.enable_target = d.disable_target
ControlMode(d) ==
    IF d.control_mode # Absent THEN d.control_mode
    ELSE IF IsSwitched(d) THEN "simple" ELSE "custom"

(* The controlled entity of a simple source *)
Controlled(d) == Given(d, "controlled", d.enable_target)

(* simple_heat_source_binding *)
SwitchCalls(entity) ==
    [enable  |-> [domain |-> "switch", service |-> "turn_on",  target |-> entity],
     disable |-> [domain |-> "switch", service |-> "turn_off", target |-> entity]]
CustomCalls(d) ==
    [enable  |-> [domain |-> d.enable_domain, service |-> d.enable_service, target |-> d.enable_target],
     disable |-> [domain |-> d.disable_domain, service |-> d.disable_service, target |-> d.disable_target]]
SourceCalls(d) == IF ControlMode(d) = "simple" THEN SwitchCalls(Controlled(d)) ELSE CustomCalls(d)

DefaultNotifications ==
    [enabled |-> FALSE, recipients |-> << >>, maximum |-> 10, window |-> 60,
     critical_maximum |-> 20, critical_window |-> 60, capacity |-> 100]

(* _notification_policy *)
ReadsNotifications(n) ==
    /\ Len(n.recipients) <= MaxRecipients
    /\ \A i \in DOMAIN n.recipients :
         IsSlug(n.recipients[i].id) /\ IsNotifyTarget(n.recipients[i].target)
    /\ \A x \in {n.maximum, n.window, n.critical_maximum, n.critical_window, n.capacity} : Finite(x)
    /\ IsTimedelta(n.window) /\ IsTimedelta(n.critical_window)

(* integration_config_from_entry_data: what it reads ... *)
ReadsEntry(d) ==
    /\ \A key \in {"sensor_id", "zone_id", "sensor_name", "zone_name", "temperature_entity"} : HasString(d, key)
    /\ d.timeout_action \in Actions
    /\ Finite(d.target)
    /\ \A key \in {"turn_on", "turn_off", "assist_target"} : MayHaveNumber(d, key)
    /\ \A key \in {"minimum_on", "minimum_off", "confirmation", "configured_debug"} : MayHaveDuration(d, key)
    /\ \A key \in {"future_skew", "grace", "max_age"} : HasDuration(d, key)
    /\ ControlMode(d) \in {"simple", "custom"}
    /\ IF ControlMode(d) = "simple"
       THEN Controlled(d) \in DOMAIN DomainOf /\ DomainOf[Controlled(d)] = "switch"
       ELSE \A key \in {"enable_domain", "enable_service", "enable_target",
                        "disable_domain", "disable_service", "disable_target"} : HasString(d, key)
    /\ d.notifications # Absent => ReadsNotifications(d.notifications)

(* ... and what it makes of it *)
EntryConfig(d) ==
    [sensor_id |-> d.sensor_id, sensor_name |-> d.sensor_name, temperature_entity |-> d.temperature_entity,
     zone_id |-> d.zone_id, zone_name |-> d.zone_name,
     target |-> d.target, turn_on |-> Given(d, "turn_on", 0), turn_off |-> Given(d, "turn_off", 0),
     minimum_on |-> Given(d, "minimum_on", 0), minimum_off |-> Given(d, "minimum_off", 0),
     max_age |-> d.max_age, future_skew |-> d.future_skew, grace |-> d.grace,
     timeout_action |-> d.timeout_action,
     enable |-> SourceCalls(d).enable, disable |-> SourceCalls(d).disable,
     control_mode |-> ControlMode(d),
     controlled |-> IF ControlMode(d) = "simple" THEN Controlled(d) ELSE None,
     profile |-> Given(d, "profile", "detailed"),
     debug_duration |-> IF Given(d, "until_changed", FALSE) THEN None ELSE Given(d, "configured_debug", 3600),
     configured_debug |-> Given(d, "configured_debug", 3600),
     before_debug |-> Given(d, "before_debug", "detailed"),
     confirmation |-> Given(d, "confirmation", 0),
     delivery_mode |-> Given(d, "delivery_mode", "unmanaged"),
     actuator |-> IF Given(d, "actuator", None) \in Blank THEN None ELSE Given(d, "actuator", None),
     ownership |-> Given(d, "ownership", "device_owned"),
     assist_policy |-> Given(d, "assist_policy", "no_assist"),
     assist_target |-> Given(d, "assist_target", 30),
     notifications |-> Given(d, "notifications", DefaultNotifications)]

AcceptsEntry(d) == ReadsEntry(d) /\ RuntimeConfig(EntryConfig(d))

-----------------------------------------------------------------------------
(* FROM A REVISION OF SCHEMA 2 *)

(* derive_real_runtime_configuration, _required_locator: the entity ids    *)
(* the roles have now                                                      *)
Locator(rev, role, registry) ==
    IF rev.bindings[role] = None THEN None ELSE Resolved(ReferenceOf(rev, role), registry).locator

(* compile_effective_heating_config *)
EffectiveConfig(rev, registry) ==
    LET p == rev.payload
        At(role) == Locator(rev, role, registry)
    IN  [sensor_id |-> p.sensor_id, sensor_name |-> p.sensor_name, temperature_entity |-> At("sensor"),
         zone_id |-> p.zone_id, zone_name |-> p.zone_name,
         target |-> p.target, turn_on |-> p.turn_on, turn_off |-> p.turn_off,
         minimum_on |-> p.minimum_on, minimum_off |-> p.minimum_off,
         max_age |-> p.max_age, future_skew |-> p.future_skew, grace |-> p.grace,
         timeout_action |-> p.timeout_action,
         enable  |-> [domain |-> p.enable.domain,  service |-> p.enable.service,  target |-> At("enable")],
         disable |-> [domain |-> p.disable.domain, service |-> p.disable.service, target |-> At("disable")],
         control_mode |-> p.control_mode,
         controlled |-> IF p.reported THEN At("reported") ELSE None,
         profile |-> p.profile,
         debug_duration |-> DebugDuration(p), configured_debug |-> p.configured_debug,
         before_debug |-> p.before_debug,
         confirmation |-> p.confirmation,
         delivery_mode |-> p.delivery_mode, actuator |-> IF p.actuator THEN At("actuator") ELSE None,
         ownership |-> p.ownership,
         assist_policy |-> p.assist_policy, assist_target |-> p.assist_target,
         notifications |-> p.notifications]

(* async_compile_canonical_runtime *)
CompilesV2(rev, registry) == ReadyV2(rev, registry) /\ RuntimeConfig(EffectiveConfig(rev, registry))

-----------------------------------------------------------------------------
(* FROM A DOCUMENT OF SCHEMA 3 *)

(* compile_canonical_heating_config_v3: at maps a path to an entity id *)
CanonicalConfig(doc, at) ==
    [sensor_id |-> doc.sensor.sensor_id, sensor_name |-> doc.sensor.display_name,
     temperature_entity |-> at["sensor"],
     zone_id |-> doc.zone.zone_id, zone_name |-> doc.zone.display_name,
     target |-> doc.demand.target, turn_on |-> doc.demand.turn_on, turn_off |-> doc.demand.turn_off,
     minimum_on |-> doc.protection.minimum_on, minimum_off |-> doc.protection.minimum_off,
     max_age |-> doc.demand.max_age, future_skew |-> doc.future_skew, grace |-> doc.protection.grace,
     timeout_action |-> doc.protection.timeout_action,
     enable  |-> [domain |-> doc.strategy.enable.domain, service |-> doc.strategy.enable.service,
                  target |-> at["enable"]],
     disable |-> [domain |-> doc.strategy.disable.domain, service |-> doc.strategy.disable.service,
                  target |-> at["disable"]],
     control_mode |-> doc.strategy.mode, controlled |-> at["reported"],
     profile |-> doc.diagnostics.steady_profile,
     debug_duration |-> None, configured_debug |-> doc.diagnostics.debug_duration,
     before_debug |-> doc.diagnostics.steady_profile,
     confirmation |-> doc.demand.confirmation,
     delivery_mode |-> doc.delivery.mode, actuator |-> at["actuator"],
     ownership |-> doc.delivery.ownership,
     assist_policy |-> doc.delivery.assist_policy, assist_target |-> doc.delivery.assist_target,
     notifications |-> doc.notifications]

(* _async_compile_canonical_runtime_v3 *)
AllResolve(doc, registry) ==
    \A path \in DOMAIN RequiredBindings(doc) :
        RequiredBindings(doc)[path] # None => Resolved(RequiredBindings(doc)[path], registry) # None
Locators(doc, registry) ==
    [path \in DOMAIN RequiredBindings(doc) |->
        IF RequiredBindings(doc)[path] = None THEN None
        ELSE Resolved(RequiredBindings(doc)[path], registry).locator]
CompiledV3(doc, registry) == CanonicalConfig(doc, Locators(doc, registry))
CompilesV3(doc, registry) == AllResolve(doc, registry) /\ RuntimeConfig(CompiledV3(doc, registry))
==============================================================================
