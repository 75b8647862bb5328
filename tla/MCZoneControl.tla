---------------------------- MODULE MCZoneControl ----------------------------
EXTENDS ZoneControl

Switch == [mode |-> "controlled", capabilities |-> {"switch", "power"}]
OwnValve == [mode |-> "self_regulating", capabilities |-> {"thermostat"}]

Usual == [name |-> "emergency", temperature_offset_k |-> 1, hysteresis_k |-> 1,
          min_on_seconds |-> 2, min_off_seconds |-> 2,
          window_resume_delay_seconds |-> 2,
          valve_protection_enabled |-> FALSE, protection_interval |-> 0,
          protection_duration |-> 0, solar_gain_percent |-> 0, solar_setback_max_k |-> 5,
          pi |-> FALSE, pi_min_on_seconds |-> 1, pi_min_off_seconds |-> 1,
          actuators |-> {Switch, OwnValve}]

Plan == [override |-> None, vacation |-> None, mode |-> "day"]
Off == [Plan EXCEPT !.mode = "frost"]
Override(id) == [Plan EXCEPT !.override = id]
AllContexts == {Plan, Override(1), Off}
AllStages == {"normal", "ersatzquelle", "notbetrieb"}

\* A floor circuit whose protection run is shorter than its min_on, in a sunny
\* room whose setback would go below frost if it were not bounded; a zone whose
\* switch stands beside a self-regulating valve, through emergencies; the same
\* under PI, armed and disarmed; and PI switched on and off through emergencies.
MCZone ==
  {[Usual EXCEPT !.name = "floor", !.actuators = {Switch}, !.min_on_seconds = 3,
        !.valve_protection_enabled = TRUE, !.protection_interval = 4,
        !.protection_duration = 2, !.solar_gain_percent = 100],
   Usual,
   [Usual EXCEPT !.name = "pi_armed", !.pi = TRUE, !.pi_min_on_seconds = 2],
   [Usual EXCEPT !.name = "pi_emergency", !.pi = TRUE]}

Nothing == [contexts |-> {Plan}, forecasts |-> {None}, stages |-> {"normal"}, delays |-> {1, 3}, windows |-> BOOLEAN,
            temperatures |-> {-3, 3, 6}, stale |-> {-3, 6}, switched |-> {}]

\* The first hour that lies beyond the horizon.
Ahead == Lookahead

MCSeen(name) ==
  CASE name = "floor" ->
         [Nothing EXCEPT !.contexts = AllContexts, !.windows = {FALSE}, !.forecasts = {None, {0}, {Ahead}}]
    [] name = "emergency" -> [Nothing EXCEPT !.stages = AllStages]
    [] name = "pi_armed" ->
         [Nothing EXCEPT !.contexts = {Plan, Override(1)}, !.temperatures = {-3, 2, 6},
            !.stale = {}, !.switched = {"armed"}]
    [] name = "pi_emergency" ->
         [Nothing EXCEPT !.contexts = {Plan, Off}, !.delays = {1},
            !.stages = {"normal", "notbetrieb"}, !.windows = {FALSE}, !.temperatures = {-3, 2}, !.stale = {-3},
            !.switched = {"pi"}]
=============================================================================
