-------------------------- MODULE DeviceAssignment --------------------------
(* Which device serves which room, in which role and mode: the bridge's      *)
(* device list, the assignments by page and by map, rooms that come and go,  *)
(* the display channels of controllers - and what follows of it in three     *)
(* places that must agree: what the pass sends, what the map draws, what the *)
(* data flow shows.                                                          *)
(*                                                                           *)
(* A request is one transaction. It reads from a snapshot that may be old by *)
(* the time it writes; `seen` holds one such snapshot of a device's rows,    *)
(* and every handler runs on the rows of now or on that snapshot. MariaDB    *)
(* refuses to write or lock a row that changed since the snapshot; SQLite    *)
(* refuses every write after another commit, so its requests are fresh ones. *)
EXTENDS Optional, FiniteSets

CONSTANTS
    Zone,      \* rooms that may exist
    Device,    \* devices on the bridge
    Exposes,   \* Device -> what it says of itself in the bridge's list
    Slots      \* [Device -> slots it is tried in] bounds the assignments

\* One entry of a description: a name, where it stands, whether it may be set.
Feature == [property : STRING, branch : STRING, writable : BOOLEAN]

ASSUME DescriptionAssumption == Exposes \in [Device -> SUBSET Feature]

VARIABLES
    zones,     \* rooms that exist
    known,     \* Device -> what the database holds of its description
    rows,      \* ZoneDevice: [zone, device, role, mode]
    source,    \* Zone.temperature_source_device_id
    channels,  \* devices with a write channel (ControllerChannel)
    seen       \* None, or an open request's snapshot of one device's rows

plantVars == <<zones, known, rows, source, channels, seen>>

MODES == {"controlled", "self_regulating", "reading_only"}
VALVE_SLOTS == {"actuator", "setpoint", "room_temperature"}

role_for_slot(slot) == IF slot \in VALVE_SLOTS THEN "actuator" ELSE slot

-----------------------------------------------------------------------------
(* What a device is, from its description.                                   *)

CapabilityOf(property) ==
    CASE property \in {"temperature", "local_temperature"} -> {"temperature"}
      [] property = "occupied_heating_setpoint" -> {"setpoint"}
      [] property = "contact" -> {"contact"}
      [] OTHER -> {}

\* A setpoint in a branch of features, and one that may be set: a wall unit that
\* only mirrors a thermostat is none.
_is_thermostat(features) ==
    \E f \in features : f.property = "occupied_heating_setpoint" /\ f.branch # "top" /\ f.writable

_collect_capabilities(features) ==
    (UNION {CapabilityOf(f.property) : f \in features})
        \cup (IF \E f \in features : f.property = "state" /\ f.branch = "switch"
                THEN {"switch"} ELSE {})

capabilities_from_exposes(features) ==
    _collect_capabilities(features)
        \cup (IF _is_thermostat(features) THEN {"thermostat"} ELSE {})

properties_from_exposes(features) == {f.property : f \in {g \in features : g.writable}}

Capabilities(d) == capabilities_from_exposes(known[d])
Writable(d) == properties_from_exposes(known[d])

HasSetpoint(d) == "occupied_heating_setpoint" \in Writable(d)
\* temperature_property_name: some name of the list is writable.
HasActual(d) == "external_temperature" \in Writable(d)

REQUIRED_CAPABILITY(slot) ==
    CASE slot = "temperature_source" -> {"temperature"}
      [] slot = "actuator" -> {"switch", "thermostat"}
      [] slot = "window_contact" -> {"contact"}
      [] OTHER -> {}

\* A device nothing is known of is let through.
check_capability(d, slot) ==
    \/ REQUIRED_CAPABILITY(slot) = {}
    \/ Capabilities(d) = {}
    \/ Capabilities(d) \cap REQUIRED_CAPABILITY(slot) # {}

-----------------------------------------------------------------------------
(* The three modes of a thermostat, and the lines of the map.                *)

writes_setpoint(mode) == mode = "self_regulating"
writes_actual(mode) == mode \in {"self_regulating", "reading_only"}
switches(mode) == mode = "controlled"

writes_anything(mode, hasSetpoint) == writes_setpoint(mode) => hasSetpoint

lines_for_mode(mode, hasSetpoint, hasActual) ==
    IF ~writes_anything(mode, hasSetpoint) THEN {}
    ELSE {slot \in VALVE_SLOTS :
            \/ slot = "actuator" /\ switches(mode)
            \/ slot = "setpoint" /\ writes_setpoint(mode) /\ hasSetpoint
            \/ slot = "room_temperature" /\ writes_actual(mode) /\ hasActual}

mode_for_lines(lines, hasActual) ==
    {mode \in MODES : lines # {} /\ lines_for_mode(mode, TRUE, hasActual) = lines}

\* The inputs of a valve the map knows: those of a device it takes for a thermostat.
ValveChannel(d, slot) ==
    /\ "thermostat" \in Capabilities(d)
    /\ \/ slot = "setpoint" /\ HasSetpoint(d)
       \/ slot = "room_temperature" /\ HasActual(d)

device_port(d, slot) ==
    IF slot \in {"setpoint", "room_temperature"} THEN ValveChannel(d, slot)
    ELSE Capabilities(d) \cap REQUIRED_CAPABILITY(slot) # {}

\* The lines a row has in the graph. A row none of whose lines can be drawn is
\* listed as a heating command all the same, so that it can be taken away.
device_lines(row) ==
    LET lines == lines_for_mode(row.mode, ValveChannel(row.device, "setpoint"),
                                ValveChannel(row.device, "room_temperature"))
    IN IF lines = {} THEN {"actuator"} ELSE lines

Rows(S, z, d, role) == {r \in S : r.zone = z /\ r.device = d /\ r.role = role}
Actuators(S, z) == {r \in S : r.zone = z /\ r.role = "actuator"}

may_be_written(S, d) ==
    /\ \E r \in S : r.device = d /\ r.role = "controller"
    /\ ~\E r \in S : r.device = d /\ r.role = "actuator"

-----------------------------------------------------------------------------
(* Requests. `Reads(d)` are the states of d's rows a request may work on.    *)

Reads(d) ==
    {{r \in rows : r.device = d}}
        \cup (IF seen = None THEN {} ELSE IF seen.device = d THEN {seen.rows} ELSE {})

\* The same question asked of the snapshot.
unlocked_exclusive(S, z, d) ==
    ~\E r \in S : r.device = d /\ r.role = "actuator" /\ r.zone # z

\* The locking read: other rooms' assignments as they are committed now.
check_actuator_exclusive(S, z, d) ==
    ~\E r \in rows : r.device = d /\ r.role = "actuator" /\ r.zone # z

\* A row that changed since the snapshot cannot be written.
Replace(old, new) == old \subseteq rows /\ rows' = (rows \ old) \cup new

Free(S, z, d, role) == Rows(S, z, d, role) = {} /\ Rows(rows, z, d, role) = {}

NewRow(z, d, role) == [zone |-> z, device |-> d, role |-> role, mode |-> "controlled"]

assign_device(S, z, d, role) ==
    /\ Free(S, z, d, role)
    /\ check_capability(d, role)
    /\ role = "actuator" => check_actuator_exclusive(S, z, d)
    /\ Replace({}, {NewRow(z, d, role)})
    /\ UNCHANGED source

detach_device(row) == Replace({row}, {}) /\ UNCHANGED source

set_thermostat_mode(row, mode) ==
    /\ row.role = "actuator" /\ "thermostat" \in Capabilities(row.device)
    /\ row.mode # mode
    /\ Replace({row}, {[row EXCEPT !.mode = mode]})
    /\ UNCHANGED source

set_temperature_source(z, d) ==
    /\ d # None => check_capability(d, "temperature_source")
    /\ source' = [source EXCEPT ![z] = d]
    /\ UNCHANGED rows

\* Every slot is checked before the first write; the new device begins in the
\* default mode, and a row it already has stays as it is.
swap_device(S, z, old, new) ==
    LET theirs == {r \in S : r.zone = z /\ r.device = old}
        created == {r \in theirs : Rows(rows, z, new, r.role) = {}}
    IN /\ old # new
       /\ theirs # {} \/ source[z] = old
       /\ source[z] = old => check_capability(new, "temperature_source")
       /\ \A r \in theirs : check_capability(new, r.role)
       /\ (\E r \in created : r.role = "actuator") => check_actuator_exclusive(S, z, new)
       /\ Replace(theirs, {NewRow(z, new, r.role) : r \in created})
       /\ source' = IF source[z] = old THEN [source EXCEPT ![z] = new] ELSE source

can_connect(S, z, slot, d) ==
    LET held == UNION {device_lines(r) : r \in Rows(S, z, d, "actuator")}
        hasActual == slot = "room_temperature" \/ (slot = "setpoint" /\ HasActual(d))
    IN /\ device_port(d, slot)
       /\ slot = "room_temperature" => source[z] # None
       /\ slot = "temperature_source" => source[z] = None
       /\ slot \in VALVE_SLOTS =>
            /\ slot \notin held
            /\ mode_for_lines(held \cup {slot}, hasActual) # {}
            /\ ~\E r \in S : r.device = d /\ r.role = "actuator" /\ r.zone # z

connect_ports(S, z, slot, d) ==
    /\ can_connect(S, z, slot, d)
    /\ \/ slot = "temperature_source" /\ set_temperature_source(z, d)
       \/ slot \notin {"temperature_source", "setpoint", "room_temperature"}
            /\ assign_device(S, z, d, role_for_slot(slot))
       \/ /\ slot \in {"setpoint", "room_temperature"}
          /\ LET had == Rows(S, z, d, "actuator")
                 now == Rows(rows, z, d, "actuator")
                 held == UNION {device_lines(r) : r \in had}
                 hasActual == slot = "room_temperature" \/ HasActual(d)
             IN \E mode \in mode_for_lines(held \cup {slot}, hasActual) :
                  IF had = {}
                  THEN /\ Free(S, z, d, "actuator")
                       /\ check_capability(d, "actuator") /\ check_actuator_exclusive(S, z, d)
                       /\ Replace({}, {[NewRow(z, d, "actuator") EXCEPT !.mode = mode]})
                       /\ UNCHANGED source
                  \* fresh_lines: the row, locked and read again, still has them
                  ELSE \E r \in now : device_lines(r) = held /\ set_thermostat_mode(r, mode)

disconnect_connection(S, z, slot, d) ==
    \/ slot = "temperature_source" /\ source[z] = d /\ set_temperature_source(z, None)
    \/ /\ slot \notin VALVE_SLOTS \cup {"temperature_source"}
       /\ \E r \in Rows(S, z, d, slot) : detach_device(r)
    \/ /\ slot \in VALVE_SLOTS
       /\ \E r \in Rows(S, z, d, "actuator") :
            /\ slot \in device_lines(r)
            /\ LET remaining == device_lines(r) \ {slot}
               IN IF remaining = {} THEN detach_device(r)
                  ELSE \E mode \in mode_for_lines(remaining, ValveChannel(d, "room_temperature")) :
                         set_thermostat_mode(r, mode)

-----------------------------------------------------------------------------
(* The actions.                                                              *)

Closed == seen' = None \/ UNCHANGED seen

\* Roles and slots a device is tried in: a bound of the model.
Tries(d, slot) == slot \in Slots[d]

Assign ==
    \E z \in zones, d \in Device, role \in {"actuator", "controller"} : \E S \in Reads(d) :
        Tries(d, role) /\ assign_device(S, z, d, role)

Detach == \E d \in Device : \E S \in Reads(d) : \E r \in S : detach_device(r)

Regulation ==
    \E d \in Device : \E S \in Reads(d) : \E r \in S, mode \in MODES : set_thermostat_mode(r, mode)

SetSource ==
    \E z \in zones, d \in Device \cup {None} :
        (d # None => Tries(d, "temperature_source")) /\ set_temperature_source(z, d)

Swap ==
    \E z \in zones, old, new \in Device : \E S \in Reads(old) :
        /\ \A r \in S : r.zone = z => Tries(new, r.role)
        /\ source[z] = old => Tries(new, "temperature_source")
        /\ swap_device(S, z, old, new)

Connect ==
    \E z \in zones, d \in Device, slot \in VALVE_SLOTS \cup {"temperature_source"} :
        \E S \in Reads(d) : Tries(d, role_for_slot(slot)) /\ connect_ports(S, z, slot, d)

Disconnect ==
    \E z \in zones, d \in Device, slot \in VALVE_SLOTS \cup {"temperature_source"} :
        \E S \in Reads(d) : disconnect_connection(S, z, slot, d)

configure_channel ==
    \E d \in Device : \E S \in Reads(d) :
        /\ Writable(d) # {} /\ may_be_written(S, d)
        /\ channels' = channels \cup {d}
        /\ UNCHANGED <<zones, known, rows, source>>

create_zone ==
    \E z \in Zone \ zones :
        /\ zones' = zones \cup {z}
        /\ UNCHANGED <<known, rows, source, channels>>

\* A room takes its assignments with it.
delete_zone ==
    \E z \in zones :
        /\ zones' = zones \ {z}
        /\ rows' = {r \in rows : r.zone # z}
        /\ source' = [source EXCEPT ![z] = None]
        /\ UNCHANGED <<known, channels>>

\* The room's own form names the measuring source too; any device will do.
save_room ==
    \E z \in zones, d \in {e \in Device : Tries(e, "temperature_source")} \cup {None} :
        /\ d # source[z]
        /\ source' = [source EXCEPT ![z] = d]
        /\ UNCHANGED <<zones, known, rows, channels>>

\* The bridge's list replaces what was known; a device not interviewed to the end
\* is in it without a definition.
_process_device_list ==
    \E d \in Device : \E features \in {Exposes[d], {}} :
        /\ features # known[d]
        /\ known' = [known EXCEPT ![d] = features]
        /\ UNCHANGED <<zones, rows, source, channels>>

\* A request begins: it has read the device's rows, and answers later.
Open ==
    /\ seen = None
    /\ \E d \in Device : seen' = [device |-> d, rows |-> {r \in rows : r.device = d}]
    /\ UNCHANGED <<zones, known, rows, source, channels>>

Page == Assign \/ Detach \/ Regulation \/ SetSource \/ Swap \/ Connect \/ Disconnect

DeviceStep ==
    \/ Page /\ Closed /\ UNCHANGED <<zones, known, channels>>
    \/ configure_channel /\ Closed
    \/ (create_zone \/ delete_zone \/ save_room \/ _process_device_list) /\ UNCHANGED seen
    \/ Open

PlantInit ==
    /\ zones = Zone /\ known = Exposes
    /\ rows = {} /\ source = [z \in Zone |-> None]
    /\ channels = {} /\ seen = None

DeviceSpec == PlantInit /\ [][DeviceStep]_plantVars

-----------------------------------------------------------------------------
(* What follows of the rows: what a pass sends, draws and shows.             *)

switch_commands(z) ==
    {r.device : r \in {q \in Actuators(rows, z) : switches(q.mode) /\ "switch" \in Capabilities(q.device)}}

thermostat_commands(z) ==
    {r.device : r \in {q \in Actuators(rows, z) :
        switches(q.mode) /\ "thermostat" \in Capabilities(q.device)
            /\ "switch" \notin Capabilities(q.device)}}

\* A setpoint-writing mode without a setpoint to write is skipped whole; the room's
\* temperature goes along where there is one and the valve takes it.
valve_commands(z) ==
    {[device |-> r.device,
      values |-> (IF writes_setpoint(r.mode) THEN {"setpoint"} ELSE {})
                   \cup (IF HasActual(r.device) /\ source[z] # None THEN {"room_temperature"} ELSE {})] :
        r \in {q \in Actuators(rows, z) :
                 /\ writes_actual(q.mode)
                 /\ writes_anything(q.mode, HasSetpoint(q.device))
                 /\ writes_setpoint(q.mode) \/ (HasActual(q.device) /\ source[z] # None)}}

_send_controller_channels == {d \in channels : may_be_written(rows, d)}

Executed(z, d) ==
    (IF d \in switch_commands(z) \cup thermostat_commands(z) THEN {"actuator"} ELSE {})
        \cup UNION {c.values : c \in {v \in valve_commands(z) : v.device = d}}

\* The lines the map draws to a device: where both ends have a port.
_connections(z, d) ==
    UNION {{slot \in lines_for_mode(r.mode, ValveChannel(d, "setpoint"), ValveChannel(d, "room_temperature")) :
              device_port(d, slot) /\ (slot = "room_temperature" => source[z] # None)} :
           r \in Rows(rows, z, d, "actuator")}

\* Edges to a valve whether the room measures or not.
edges_without_source(mode, z, d) ==
    {slot \in VALVE_SLOTS :
        \/ slot = "actuator" /\ switches(mode) /\ Capabilities(d) \cap {"switch", "thermostat"} # {}
        \/ slot = "setpoint" /\ writes_setpoint(mode) /\ HasSetpoint(d)
        \/ slot = "room_temperature" /\ writes_actual(mode) /\ HasActual(d)}

\* The solid edges of the data flow.
_actuator_edges(mode, z, d) ==
    {slot \in VALVE_SLOTS :
        \/ slot = "actuator" /\ switches(mode) /\ Capabilities(d) \cap {"switch", "thermostat"} # {}
        \/ slot = "setpoint" /\ writes_setpoint(mode) /\ HasSetpoint(d)
        \/ slot = "room_temperature" /\ writes_actual(mode) /\ HasActual(d)
             /\ writes_anything(mode, HasSetpoint(d)) /\ source[z] # None}

build_data_flow(z, d) ==
    UNION {_actuator_edges(r.mode, z, d) : r \in Rows(rows, z, d, "actuator")}

-----------------------------------------------------------------------------
(* Properties.                                                               *)

\* Who writes to a device in a pass: a room's switch or thermostat path, a room's
\* valve path, or the display path.
Writers(d) ==
    {<<z, "switch">> : z \in {y \in zones : d \in switch_commands(y)}}
        \cup {<<z, "thermostat">> : z \in {y \in zones : d \in thermostat_commands(y)}}
        \cup {<<z, "valve">> : z \in {y \in zones : \E c \in valve_commands(y) : c.device = d}}
        \cup (IF d \in _send_controller_channels THEN {<<None, "display">>} ELSE {})

\* A device has one master: whatever requests ran across each other, no two rooms
\* drive the same valve, no valve is switched and aimed at once, and no display
\* channel (which bypasses the bolts) writes to a device that some room drives
\* (device_assignment.py, switch_commands.py, controller_channels.py).
OneVoice == \A d \in Device : Cardinality(Writers(d)) <= 1

\* The map draws and the data flow shows exactly what the pass will send
\* (mapping_map.py: "Gezeichnet wird, was die Regelkette ausführt").
DrawnIsExecuted ==
    \A z \in zones, d \in Device :
        _connections(z, d) = Executed(z, d) /\ build_data_flow(z, d) = Executed(z, d)

\* What a room measures with can measure (device_assignment.py: the column "needs
\* the same check").
SourceMeasures ==
    \A z \in zones : source[z] # None => "temperature" \in capabilities_from_exposes(Exposes[source[z]])
=============================================================================
