-------------------------------- MODULE HeatingPayload --------------------------------
(***************************************************************************)
(* A heating configuration of schema 2: a payload and the bindings of its  *)
(* roles, [payload, bindings], where bindings maps a role to its           *)
(* [reference, confirmed], or to None.                                     *)
(* (application/configuration/heating_setup_adapter.py,                    *)
(* application/setup/effective.py)                                         *)
(***************************************************************************)
EXTENDS HeatingSchema

(* supported_roles *)
Roles == {"sensor", "enable", "disable", "reported", "actuator"}
RequiredRoles == {"sensor", "enable", "disable"}

(* HeatingServiceCallSetup *)
ServiceCallV2(c) == IsSlug(c.domain) /\ IsSlug(c.service) /\ c.domain # "controlel"

(* HeatingDiagnosticPolicy *)
DiagnosticsV2(p) ==
    /\ p.profile \in {"basic", "detailed", "debug"} /\ p.before_debug \in {"basic", "detailed"}
    /\ Finite(p.configured_debug) /\ p.configured_debug > 0
    /\ p.until_changed \in BOOLEAN

(* debug_duration_seconds *)
DebugDuration(p) == IF p.until_changed THEN None ELSE p.configured_debug

(* HeatingNotificationRecipient *)
RecipientV2(r) == IsSlug(r.id) /\ IsNotifyTarget(r.target)

(* HeatingNotificationPolicy *)
NotificationsV2(n) ==
    /\ \A i \in DOMAIN n.recipients : RecipientV2(n.recipients[i])
    /\ DistinctRecipients(n.recipients)
    /\ BoundedRates(n)

(* numeric_values_must_be_finite and the fields' bounds *)
NumbersV2(p) ==
    /\ Finite(p.target) /\ Finite(p.assist_target)
    /\ Finite(p.max_age) /\ p.max_age > 0
    /\ \A x \in {p.future_skew, p.grace, p.turn_on, p.turn_off, p.confirmation,
                 p.minimum_on, p.minimum_off} : AtLeast(x, 0)

(* service_roles_must_match_supported_bindings: reported and actuator say  *)
(* whether the payload uses the role.                                      *)
RolesV2(p) ==
    /\ p.control_mode \in {"simple", "custom"}
    /\ p.control_mode = "simple" =>
         /\ p.enable.domain = "switch" /\ p.enable.service = "turn_on"
         /\ p.disable.domain = "switch" /\ p.disable.service = "turn_off"
    /\ p.reported => p.control_mode = "simple"
    /\ p.delivery_mode \in {"unmanaged", "setpoint_assist"}
    /\ p.ownership \in {"device_owned", "controlel_owned"}
    /\ p.assist_policy \in {"no_assist", "always_assist_while_heating"}
    /\ IF p.delivery_mode = "setpoint_assist" THEN p.actuator /\ p.ownership = "controlel_owned"
       ELSE ~p.actuator

(* HeatingSetupPayload *)
Payload(p) ==
    /\ "" \notin {p.zone_id, p.zone_name, p.sensor_id, p.sensor_name}
    /\ NumbersV2(p) /\ p.timeout_action \in Actions
    /\ ServiceCallV2(p.enable) /\ ServiceCallV2(p.disable)
    /\ RolesV2(p) /\ DiagnosticsV2(p) /\ NotificationsV2(p.notifications)

-----------------------------------------------------------------------------
(* VALIDATION *)

(* _capability_issues, those that are errors: what a resolved reference    *)
(* must be able to do in its role                                          *)
Suits(role, r, p) ==
    CASE role = "sensor" -> r.evidence.domain = "sensor" /\ r.evidence.temperature
      [] role \in {"enable", "disable"} -> p.control_mode = "simple" => r.evidence.domain = "switch"
      [] role = "reported" -> r.evidence.domain \in {"switch", "binary_sensor", "input_boolean"}
      [] role = "actuator" -> r.evidence.domain = "climate" /\ r.evidence.settable

(* _resolution_issues, those that are errors: only the target of a custom  *)
(* service may be an endpoint without a stable identity.                   *)
Binds(role, r, p, registry) ==
    IF r.quality = "EPHEMERAL" THEN role \in {"enable", "disable"} /\ p.control_mode = "custom"
    ELSE Resolved(r, registry) # None /\ Suits(role, Resolved(r, registry), p)

Bound(rev) == {role \in Roles : rev.bindings[role] # None}
ReferenceOf(rev, role) == rev.bindings[role].reference

(* The roles that the payload requires *)
Requires(p) ==
    RequiredRoles \cup (IF p.delivery_mode = "setpoint_assist" THEN {"actuator"} ELSE {})
                  \cup (IF p.reported THEN {"reported"} ELSE {})

(* HeatingSetupAdapter.validate without a snapshot of the registries *)
ValidV2(rev) ==
    LET p == rev.payload
        SameSource(role) ==
            rev.bindings[role] # None => Identity(ReferenceOf(rev, role)) = Identity(ReferenceOf(rev, "enable"))
    IN  /\ Payload(p)
        /\ \A role \in Requires(p) \cup Bound(rev) :
             rev.bindings[role] # None /\ rev.bindings[role].confirmed
        /\ p.control_mode = "simple" =>
             SameSource("disable") /\ (p.reported => SameSource("reported"))

(* ... and with one *)
ReadyV2(rev, registry) ==
    /\ ValidV2(rev)
    /\ \A role \in Bound(rev) : Binds(role, ReferenceOf(rev, role), rev.payload, registry)
==============================================================================
