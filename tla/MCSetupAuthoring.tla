-------------------------------- MODULE MCSetupAuthoring --------------------------------
(***************************************************************************)
(* The setup store with one dialog and one client, and, in behaviours of   *)
(* their own, one configuration on its way to schema 3.  The two share no  *)
(* state: the first decides which revision is converted and put in force,  *)
(* the second what becomes of its content.                                 *)
(***************************************************************************)
EXTENDS SetupAuthoring, ConfigurationUpgrade

MCMaxRequests == [heating |-> 1, water |-> 1]
MCInitialHeating == {[sensor |-> "s1", rest |-> "r1"]}
MCInitialWater == {[sensor |-> "s1", notifications |-> {}, sirens |-> {}, valves |-> {}]}

-----------------------------------------------------------------------------
(* THE REGISTRY: a sensor, a switch and a radiator valve; script.boiler    *)
(* and sensor.gone are in no registry.                                     *)

MCDomainOf == [id \in {"sensor.living", "sensor.lounge", "sensor.gone"} |-> "sensor"]
           @@ [id \in {"switch.boiler", "switch.burner"} |-> "switch"]
           @@ [id \in {"climate.valve", "climate.radiator"} |-> "climate"]
           @@ [id \in {"script.boiler"} |-> "script"]
           @@ [id \in {"notify.phone", "notify.tablet"} |-> "notify"]

Sensor == [native |-> "n_sensor", locator |-> "sensor.living", area |-> "living", floor |-> "ground",
           temperature |-> TRUE, settable |-> FALSE]
Switch == [native |-> "n_switch", locator |-> "switch.boiler", area |-> None, floor |-> None,
           temperature |-> FALSE, settable |-> FALSE]
Valve == [native |-> "n_valve", locator |-> "climate.valve", area |-> "living", floor |-> None,
          temperature |-> TRUE, settable |-> TRUE]
MCEntities == {Sensor, Switch, Valve}

MCNewNames == "sensor.living" :> "sensor.lounge" @@ "switch.boiler" :> "switch.burner"
           @@ "climate.valve" :> "climate.radiator"
MCSlugs == {"t1", "z1", "living", "main_zone", "main_zone_2", "main_zone_3", "n_sensor",
            "primary_temperature_sensor", "primary_temperature_sensor_2", "primary_temperature_sensor_3",
            "main_heat_source", "switch", "climate", "script", "turn_on", "turn_off", "r1", "r2"}

-----------------------------------------------------------------------------
(* THE INPUTS: some bases that the system takes, each with one field       *)
(* varied.  The numbers of a base differ, so that no two can be swapped.   *)

Recipient(id, target, enabled) == [id |-> id, target |-> target, enabled |-> enabled, level |-> "warning"]
MCNotifications ==
    [enabled |-> TRUE, recipients |-> <<Recipient("r1", "notify.phone", TRUE), Recipient("r2", "notify.phone", FALSE)>>,
     maximum |-> 7, window |-> 61, critical_maximum |-> 9, critical_window |-> 62, capacity |-> 50]
OtherNotifications ==
    {[MCNotifications EXCEPT !.recipients[2].enabled = TRUE], [MCNotifications EXCEPT !.recipients[1].id = "r2"],
     [MCNotifications EXCEPT !.recipients[1].target = "switch.boiler"],
     [MCNotifications EXCEPT !.maximum = 0], [MCNotifications EXCEPT !.window = Day + 1]}

TooLong == MaxSeconds + 1
Durations == {0, -1, TooLong, NotFinite}

(* Other values of the fields that entries and payloads share *)
OtherValues ==
    [sensor_id |-> {"", "no slug", "n_sensor"}, sensor_name |-> {"", " "},
     zone_id |-> {"no slug", "living", "main_zone"}, zone_name |-> {" "},
     target |-> {NotFinite, 0}, turn_on |-> {-1, NotFinite}, turn_off |-> {0, -1},
     minimum_on |-> Durations, minimum_off |-> Durations, max_age |-> Durations,
     future_skew |-> Durations, grace |-> Durations,
     confirmation |-> Durations \cup {MaxConfirmation, MaxConfirmation + 1},
     timeout_action |-> {"enable", "other"}, control_mode |-> {"simple", "custom", "other"},
     profile |-> {"basic", "debug", "other"}, before_debug |-> {"detailed", "debug"},
     configured_debug |-> {0, TooLong}, until_changed |-> {TRUE},
     delivery_mode |-> {"unmanaged", "setpoint_assist", "other"}, ownership |-> {"device_owned", "controlel_owned"},
     assist_policy |-> {"always_assist_while_heating", "other"}, assist_target |-> {NotFinite},
     notifications |-> OtherNotifications]
Optional == {"turn_on", "turn_off", "minimum_on", "minimum_off", "confirmation", "control_mode", "profile",
             "before_debug", "configured_debug", "until_changed", "delivery_mode", "ownership",
             "assist_policy", "assist_target", "notifications", "future_skew", "grace", "max_age", "target"}
OtherInEntry == [key \in DOMAIN OtherValues |-> OtherValues[key] \cup (IF key \in Optional THEN {Absent} ELSE {})]
    @@ [temperature_entity |-> {"sensor.gone", "sensor.lounge", Absent}, controlled |-> {Absent, "climate.valve", "sensor.gone"},
        actuator |-> {"climate.valve", "switch.boiler", "", Absent},
        enable_domain |-> {Absent, "controlel"}, enable_service |-> {"turn_off"}, enable_target |-> {"script.boiler"},
        disable_domain |-> {"script"}, disable_service |-> {Absent, "no slug"}, disable_target |-> {"climate.valve"}]

Simple ==
    [sensor_id |-> "t1", sensor_name |-> "Sensor", temperature_entity |-> "sensor.living",
     zone_id |-> "z1", zone_name |-> "Zone", target |-> 20, turn_on |-> 1, turn_off |-> 2,
     minimum_on |-> 300, minimum_off |-> 600, max_age |-> 900, future_skew |-> 5, grace |-> 120,
     timeout_action |-> "disable", control_mode |-> "simple", controlled |-> "switch.boiler",
     enable_domain |-> Absent, enable_service |-> Absent, enable_target |-> Absent,
     disable_domain |-> Absent, disable_service |-> Absent, disable_target |-> Absent,
     profile |-> "detailed", configured_debug |-> 3600, until_changed |-> FALSE, before_debug |-> "basic",
     confirmation |-> 30, delivery_mode |-> "unmanaged", actuator |-> Absent, ownership |-> "device_owned",
     assist_policy |-> "no_assist", assist_target |-> 28, notifications |-> MCNotifications]
Inferred ==
    [Simple EXCEPT !.control_mode = Absent, !.controlled = Absent,
                   !.enable_domain = "switch", !.enable_service = "turn_on", !.enable_target = "switch.boiler",
                   !.disable_domain = "switch", !.disable_service = "turn_off", !.disable_target = "switch.boiler"]
Custom == [Inferred EXCEPT !.control_mode = "custom", !.disable_domain = "climate", !.disable_target = "climate.valve"]
Unlisted == [Custom EXCEPT !.enable_domain = "script", !.enable_target = "script.boiler"]
Assist == [Simple EXCEPT !.delivery_mode = "setpoint_assist", !.actuator = "climate.valve",
                         !.ownership = "controlel_owned", !.profile = "debug"]

NoOptions == [key \in DOMAIN Simple |-> Absent]
MCEntryInputs ==
    UNION {{[data |-> [b EXCEPT ![key] = v], options |-> NoOptions] : v \in OtherInEntry[key]}
              \cup {[data |-> b, options |-> [NoOptions EXCEPT ![key] = v]] : v \in OtherInEntry[key]} :
           b \in {Simple, Inferred, Custom, Unlisted, Assist}, key \in DOMAIN Simple}

(* Revisions of schema 2: those of the entries, bound by stable references *)
At(id) == EntityReference(CHOOSE e \in MCEntities : e.locator = id)
Authored(b) ==
    LET rev == Converted(EntryConfig(b))
    IN  [rev EXCEPT !.bindings = [role \in Roles |->
            IF @[role] = None \/ @[role].reference.locator = "script.boiler" THEN @[role]
            ELSE [reference |-> At(@[role].reference.locator), confirmed |-> TRUE]]]
MCRevisionInputs ==
    UNION {{[Authored(b) EXCEPT !.payload[key] = v] : v \in OtherValues[key]} :
           b \in {Simple, Custom, Unlisted, Assist}, key \in DOMAIN OtherValues}
    \cup {[Authored(Simple) EXCEPT !.bindings[role] = None] : role \in Roles}

(* Documents: one field of a section varied *)
Document(b) ==
    LET rev == Authored(b)
    IN  Migrated(rev, [role \in {r \in Roles : rev.bindings[r] # None} |-> rev.bindings[role].reference])
OtherInSection ==
    [zone |-> [zone_id |-> {"living", "no slug"}, display_name |-> {"", " "}],
     topology |-> [area |-> {None, EphemeralReference("sensor.living")}],
     sensor |-> [sensor_id |-> {"n_sensor"}, display_name |-> {" "},
                 reference |-> {EphemeralReference("sensor.living"), At("climate.valve"),
                                StableReference("n_gone", "sensor.gone", None, None, NoEvidence)}],
     demand |-> [confirmation |-> {MaxConfirmation, MaxConfirmation + 1, -1}, max_age |-> {0, TooLong},
                 target |-> {NotFinite}],
     strategy |-> [mode |-> {"custom", "simple", "other"}],
     observations |-> [reported |-> {None, At("climate.valve")}, physical |-> {At("switch.boiler"), At("climate.valve")}],
     protection |-> [grace |-> Durations, timeout_action |-> {"enable"}, minimum_on |-> {TooLong}],
     source |-> [heat_source_id |-> {"n_sensor", "no slug"}, reference |-> {None, EphemeralReference("switch.boiler")}],
     delivery |-> [zone_id |-> {"main_zone"}, mode |-> {"setpoint_assist", "unmanaged"},
                   actuator |-> {None, At("climate.valve"), At("switch.boiler")}],
     diagnostics |-> [steady_profile |-> {"basic", "debug"}, debug_duration |-> {0, TooLong}, until_changed |-> {TRUE}]]
MCDocumentInputs ==
    UNION {UNION {{[d EXCEPT ![section] = [@ EXCEPT ![key] = v]] : v \in OtherInSection[section][key]} :
                  key \in DOMAIN OtherInSection[section]} :
           section \in DOMAIN OtherInSection, d \in {Document(Simple), Document(Custom), Document(Assist)}}
    \cup {[Document(Simple) EXCEPT !.notifications = n] : n \in OtherNotifications}

-----------------------------------------------------------------------------

NoUpgrade ==
    /\ entities = {} /\ stage = "none" /\ entry = None /\ revision = None /\ document = None
    /\ requested = None /\ before = None /\ config = None /\ seen = None /\ taken = None
NoSetup ==
    /\ module = "none" /\ store = EmptyStore /\ known = {} /\ sessions = << >> /\ requests = 0 /\ started = 0

MCInit == (AuthoringInit /\ NoUpgrade) \/ (UpgradeInit /\ NoSetup)
MCNext ==
    \/ stage = "none" /\ AuthoringNext /\ UNCHANGED upgradeVars
    \/ stage # "none" /\ UpgradeNext /\ UNCHANGED authoringVars
MCSpec == MCInit /\ [][MCNext]_<<authoringVars, upgradeVars>>
==============================================================================
