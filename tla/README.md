# Verification of thermoctl

TLA+ models of thermoctl - its control core, what people change about it, and
what it tells others -, the TLC configurations that check them on small
instances, and TLAPS proofs of what matters most for every instance. Line numbers
refer to `src/thermoctl/…` unless a path says otherwise.

Contents: [1 The system](#1-the-system) · [2 The plan](#2-the-plan) ·
[3 The modules](#3-the-modules) · [4 The runs](#4-the-runs) ·
[5 The proofs](#5-the-proofs) · [6 Where code and documents disagree](#6-where-code-and-documents-disagree) ·
[7 What is not modelled](#7-what-is-not-modelled)

## 1 The system

thermoctl heats rooms. Measurements arrive over MQTT, a *shadow loop* decides
once per interval (60 s by default) for every zone whether it should heat, and
sends commands to Zigbee2MQTT valves, thermostats and Meross sockets. It runs as
one process or as an active/standby pair over one database. A zone whose wall
probe fails goes into an *emergency operation* of its own, which works with a
thermostat's temperature, or with none at all on a fixed takt of on and off
phases.

The loop is one asyncio task. A pass is a sequence of awaits - the cluster
claim, the cloud sign-in, every command - with commits in between, next to MQTT
ingest, web requests, webhook sends and the Meross device list in tasks of their
own. What is hard is not the arithmetic but what may happen between two of these
steps: another instance takes over, the process dies, the operator disarms, a
command fails or fails *and arrives all the same*, a pass comes too late.

| Component | Code | State | Operations | Hard | Correct means |
|---|---|---|---|---|---|
| Cluster claim | `services/cluster.py`, loop in `app.py` | row `cluster_claim` (holder, expiry) | `try_become_leader`, `is_leader`, `release` | clock read before the UPDATE; passes that outlive a lease; crash; missing row | a lease is nobody else's; a dead leader is replaced |
| Bolts before an actuator | `integrations/actuators.py`, `app.py`, `mqtt/client.py` | `setting.control_armed`, the bolt frozen at start, the Setting object of the pass | `control_armed_at_startup`, `switching_allowed`, `arm` | three bolts, read at three different times | no command without leadership; arming alone moves nothing; disarming silences; nobody is locked out |
| Emergency operation (stages) | `domain/emergency_operation.py`, `services/shadow_run.py` | `zone_sensor_failure_state`, `sensor_failure_episode` | `advance`, `_persist_episode` | long sequences: fall back, source switches, partial counts | one open episode; one handover signal; no return without proof |
| Emergency notices | `app.py` 214-392 | `notification_state`, tasks and `_emergency_in_flight` of a process | `_emergency_notices`, `_deliver_emergency_notice` | crash between state, send and verdict; takeover; a dead webhook | told once or twice, never not at all; no false all-clear |
| Handover and restore of thermostats | `services/publishing.py` 537-807 | `actuator_emergency_state` of the assignment | `_send_emergency_handover`, `_send_emergency_restore` | crash between commit and message; residents at the device; dry run | one handover, one restore |
| Command memory | `services/publishing.py` 146-191, 1161-1660 | `PublicationState` of a process | `_send_actuator_switches`, `_send_self_regulating_valves`, `_invalidate_dedup` | failures that arrived, takeover, emergency commands in between | skip only what is really so; the device follows |
| Emergency takt | `domain/emergency_cycle.py`, `services/emergency_prior.py`, `services/publishing.py` 810-1158 | armed columns of `actuator_emergency_state`, command log | `advance`, `_enter`, `entry_prior_hint`, `_seed_recovery_phase_marker` | phases reconstructed from deadlines; late passes; failed commands; two clocks for one relay | minimum durations are kept; the takt pulses |
| Regular control | `domain/control_loop.py`, `services/shadow_run.py` | decision history, valve protection, window | `decide`, `_process_zone`, `_previous_state`, `_effective_override` | rules that overrule each other; state rebuilt from history; a late cycle | the relay keeps its minimum durations; a cold room is heated; a protection run ends |
| PI control | `domain/pi_control.py`, `services/shadow_run.py` | PI columns of `zone_state` | window modulator, integrator, resets, safe start | handing a phase from one controller to the other; gates during a safe start | a safe start waits; a phase keeps its minimum whoever began it |
| Week plans | `domain/schedule.py`, `web/ui_api_schedule.py`, `api/`, `mcp/` | switch points, audit version | gestures, undo, unversioned point operations | snapshot reads before the row lock; chains of undo | a gesture changes exactly its minutes; undo skips nobody's edit |
| Setpoints and change log | `domain/schedule.py`, `modes.py`, `absence.py`, `remote_control.py`, `change_log.py`, `zone_settings.py` | overrides, vacations, absences, modes, settings, log | every request of web, REST, MCP, broker, kiosk and wall; revert | overlapping transactions; ends of overrides | reverted once and exactly; a preview that comes true; coming home ends one's own |
| Access | `domain/administration.py`, `authz.py`, `oauth.py`, `passkey.py`, `auth/sessions.py`, `web/` | users, groups, authorizations, tokens, sessions, challenges | every request that changes them | calls overlapping between read and claim; requests that wait | nobody locks everybody out; what was revoked or spent stays so |
| Sensing | `services/ingest.py`, `domain/fault*.py`, `window_*.py`, `temperature_source_health.py`, `controller*.py` | readings, contacts, window judgement, command log, presses | ingest, `advance_zone_state`, source selection, presses | lost, repeated and late messages; missed cycles; failed writes that arrived | an opening is neither forgotten nor counted anew; no echo replaces a probe; a press counts once |
| Meross session | `services/meross_session.py`, `meross_discovery.py` | `MerossSessionCache` | `ensure_transport`, `fetch_devices`, `invalidate` | two tasks on one cache across awaits; backoff | sign-ins wait longer and longer; a working cloud switches again |
| Device assignment | `domain/device_assignment.py`, `mapping_map.py`, `data_flow.py`, `services/switch_commands.py` | device roles, modes, channels | every request that assigns, on fresh and on old snapshots | write after a stale read; three places that decide alike | one master per device; what is drawn is what is executed |
| Publication, history | `services/publishing.py` 1663-1865, `integrations/mqtt/`, `domain/statistics.py`, `history.py`, `services/retention.py` | discovered entities, retained values, decision and command rows | announcing, taking back, values; evaluations and retention | a connection that breaks between messages; gaps and cut-off beginnings | Home Assistant follows; evaluations say what the rows say |
| Web pages, formats, forecast fetch, migrations, configuration, frontend | see `PROJECT.json` | | | | not modelled, see section 7 |

How they interact. The *loop* owns the order: claim, sign-in, then in one
session measurements, `cycle()` with the stage machine of every zone, the
collection of notices, and `publication_cycle()`, which commits before its first
message. The stage of a zone, written by the stage machine, is all that
actuation and takt know of the emergency; `EmergencyContract` states what they
may rely on. Actuation, takt and the ordinary paths share the command memory
and the bolts. Leadership is asked in three places: before a pass, before a
command, nowhere in between. Web and API requests act on the plant through the
database only: they arm and disarm, switch the emergency operation and notices
on and off.

The rest meets the loop in the database. Requests (pages, REST, language models
over MCP, broker commands, kiosk and wall displays) are transactions with plain
reads of a snapshot and writes on the rows of now; the loop reads what they leave
when its next pass begins. Messages from the house become rows in the ingest
tasks, one transaction each. Home Assistant hears of all this through retained
messages of the publisher.

## 2 The plan

Done, in the order of the damage done when it goes wrong:

1. **Who may move the plant:** `Cluster`, `SwitchGate`; the emergency's abstract
   `EmergencyContract`, the stage machine that implements it, and its consumers
   `EmergencyNotice`, `EmergencyActuation`, `EmergencyCycle`.
2. **What is sent:** `CommandMemory` and `MerossSession`, composed in `Commands`.
3. **What is decided:** `ControlLoop`, `PiControl`, composed with history, relay
   and stages in `ZoneControl`.
4. **What people change:** `WeekPlan`/`PlanEditing`, `Setpoints`/`Settings`/
   `ChangeLog`, composed in `Household`; `Administration`, `OAuthGrants`, `SignIn`,
   composed in `Access`.
5. **What comes in and goes out:** `ZoneSensing`, `SourceHealth`, `Ingest`,
   composed in `Sensing`; `DeviceAssignment`, `Publication`, `History`, composed in
   `Plant`.
6. **What is proved:** the safety of `Cluster` and `SwitchGate`, of
   `EmergencyContract`, `EmergencyOperation`, `EmergencyNotice`,
   `EmergencyActuation` and `EmergencyCycle`, of `Access`, of `Sensing`, of
   `ZoneControl`, of `DeviceAssignment`, the backoff of `MerossSession`, and of
   `Household` that a gesture on the week changes what it names, that undo leads back
   through the zone's own plans, that a logged change is taken back once and restored
   exactly, that the preview comes true and that a finished absence is over.

Left:

* **Theorems:** the minimum durations of `ZoneControl` for a zone under PI whose
  commands fail.
* **Abstract specifications:** an exclusion of leases that `Cluster` implements, a
  mailbox "told at least once" for `EmergencyNotice`.
* **Composition:** the ordinary clock of `ZoneControl` with the takt of
  `EmergencyCycle` on one relay, where now each module models the other's side by
  what it leaves behind.

Every module has its parameters as CONSTANTS, with named assumptions where a proof
needs them, and one action per operation. Only `History` has RECURSIVE operators:
its evaluations fold over rows and are checked, not proved.

## 3 The modules

Each component module can be read on its own; `MC…` modules only instantiate
them. Operators marked *Mutant* in a comment are the plausible bugs each property
is tried against; the specifications do not use them. Variables whose comment
says *history* exist for the properties alone and influence nothing.

### Cluster

`claim` is the row (or `NoRow`: the code fails open without it), `now` the
database's clock, `pc[i]` an instance's place in `_shadow_loop`, `dbnow[i]` the
time it fetched. A claim is two steps, `ReadClock` (the SELECT) and `ClaimWon` or
`ClaimLost` (the UPDATE and its row count), with anything in between; a pass lasts
as long as it likes; `BeginShutdown`, `Release` and `Crash` end a process.
`ClaimFails` is a database error.

### SwitchGate (composed with Cluster)

Every action of `Cluster`, with what the actuator path adds: `Arm`/`Disarm` write
`control_armed`; `StartProcess` freezes `bolt`; `LoadSetting` is the pass's first
`session.get(Setting, 1)`, whose answer (`seen`) stays in the session's identity
map for the rest of the pass (`expire_on_commit=False`, `db/engine.py:109`);
`SendCommand` asks `BoltsOpen` and puts a command on its way; `CommandOver` is the
device's answer, whatever it is.

### EmergencyContract (abstract)

The stages of a zone, its open episode, the announcement of the handover, and
what became of each episode row. `Open`, `Move`, `Recover`, `Deactivate` are all
anybody else may see the stage machine do.

### EmergencyOperation (implements EmergencyContract)

`row` is `zone_sensor_failure_state`; each disjunct of `Advance` is one branch of
`advance()` and its helpers, `Pass` one evaluation of `_apply_sensor_failure` in
its savepoint. Sources report (`Measure`) and fall silent (`Tick`) as they like;
the coldest usable thermostat is any usable one. The refinement mapping is plain
projection: `stage`, `episode`, `announced` are columns of `row`.

### EmergencyNotice

`state` is `notification_state`; `queue`, `tasks` and `inFlight` are memory of a
process. `Collect` is a committed pass with `_emergency_notices`, whose hand-over
may be lost (`kept`) when the pass raises after a commit; `StartTasks`, `Attempt`,
`Mute`, `GiveBack`, `Settle`, `SettleFails` are the dispatch and
`_deliver_emergency_notice`; `Crash` and `Takeover` happen at any time. Passes of
two instances do not overlap here; that they may is Cluster's subject.

### EmergencyActuation (composed with EmergencyContract)

`row` is the assignment's `actuator_emergency_state`, `mode` the device's own
mode, `reported` what it last told. `Evaluate` is the pass up to its commit (the
contract moves or not), then exactly one of `BeginHandover`/`SendHandover`,
`StaySilent`, `BeginRestore`/`SendRestore`, `WithholdRestore`, `CloseRow`,
`NothingOpen`. The commit lies between *Begin* and *Send*, and so does the crash.
`armed` is what `switching_allowed` answers, `bolt` the release frozen in the MQTT
client. Left out: the emergency setpoint and the reason texts.

### Commands: CommandMemory and MerossSession

Two scenes that share no state.

`CommandMemory`: `memory[i]` is the entry `PublicationState` of process *i* has for
the device. `SendValve`, `SendSwitch` and `SendThermostat` are the three write
paths; their key is what the code's key is - the whole payload for a
self-regulating valve, only "heating" for switches and for thermostats under
thermoctl's own hysteresis. Attempts are executed, suppressed, or failed and
perhaps carried out all the same. `Takt`, `Handover` and `Return` are the
emergency's own commands and `_invalidate_dedup`.

`MerossSession`: `cache` is `MerossSessionCache`, `loop` and `task` the places of its
two callers, the control pass and the task that fetches the device list. Every
await is a step boundary, and each caller compares with a `now` of its own. The
cloud accepts, rejects, locks out the account (each attempt renews the lockout),
cannot be reached, or revokes a token behind everybody's back.

### EmergencyCycle (composed with EmergencyContract)

`takt` is the stored cycle state with its deadline as the time still to go,
`log` the newest executed commands, `relay` the relay. `Enter`, `ResolvePair`,
`Advance` are the pure functions of `domain/emergency_cycle.py`, including the
reconstruction of a phase's start from deadline and duration. `would`/`wouldAge`
are the ordinary decision and its age, and `History` the marker that hands the
relay back. All times are relative and saturate where nothing compares them any
more, so the clock has no bound. `Decide` is the ordinary decision in any pass: off
at once where a rule asks for it before the minimum durations are looked at (no
source, which an episode ended by hand leaves behind, or an open window), free once
the minimum is over or in a valve protection run, else what it was; `early` is
history and remembers which of the three it was. Abstractions: a pass takes no
time, the clock never jumps back, the command log is retained, and after the
episode the minimum durations are those of the hysteresis - what PI does with its
own is `ZoneControl`'s subject. The simulated twin (the dry-run columns) is the same
algorithm without commands.

### ZoneControl (with ControlLoop, PiControl, Optional)

`ControlLoop` is `decide()` rule by rule, `PiControl` the PI arithmetic and its window
modulator; both are pure operators. `ZoneControl` is `_process_zone`: one action
`Cycle` rebuilds the state from the zone's past decisions or the recovery marker
(`PreviousState`), advances the valve protection, resolves the setpoint with its
solar setback (`WithSolarSetback`), decides, runs PI over its persisted columns
(`pi`), writes the row, and the relay follows once the plant is armed. `Arm` and
`EnablePi` change the settings in between. Time lies between two cycles as a delay;
points in time are relative to the running PI window, ages saturate at the largest
threshold they are compared with. Temperatures and duties are integers on a coarse
grid.

### Household: WeekPlan and PlanEditing, Setpoints, Settings and ChangeLog

`WeekPlan`: a plan is a partial function from the minutes of the week to modes; a
gesture is a record, `Apply` what it makes of a plan. `PlanEditing` sends gestures:
`Begin` is the request and its snapshot, the *Finish…* actions take the row lock,
read again, compare versions, write, and sign the undo token. `MovePoint` and the
other unversioned operations are those of API and MCP.

`Setpoints` and `Settings` are operators on a record `db` of tables, each taking the
tables its transaction read (`seen`) and the tables as they are; rows are never
removed, so an index is an id. `ChangeLog` makes requests of them: a request
begins with a snapshot, is served against the rows of now, and commits in one
step together with its log entry; requests of different clients overlap and the
clock moves between. `Repertoires` groups the requests that bear on one part.
Switches stand in local time: `local_time` and `utc_time` are the two conversions
around one change of the clock, forward or back, with `fold=0` for a time that comes
twice; `BarEnd` is one turn of the preview's loop, with the branch for a switch that
is not ahead of the cursor. The loop's bound of 672 turns is left out: no
plan of the interface's 15-minute grid reaches it within the horizon of a day.

### Access: Administration, OAuthGrants, SignIn

`Administration` has one action per request that changes accounts, groups or
permissions, each reading and committing in one step. `OAuthGrants` is one
authorization from registration to revocation; a call arrives with a snapshot
(`call[c].seen`) and commits its conditional UPDATEs against the tables of now, or
is turned down by the database. `SignIn` is one account with password, passkey
and sessions; a request that waits (throttle, Argon2 in a thread) is several
steps and believes what it read before. An answer to a passkey challenge is two
steps: `Present` finds the rows by plain SELECTs, `verify_authentication` deletes,
judges and commits, and any number of others may lie between; `RequestFails` rolls
one back. `SnapshotIsolation` says whether the database refuses a write on a row
changed since the snapshot (MariaDB from 11.6 on does by default, and SQLite never
lets the two writers overlap). In the scene "grants" the administration
of `Administration` changes the owner's permissions while tokens are in use.

### Sensing: ZoneSensing, SourceHealth, Ingest

`ZoneSensing`: `Cycle` is `advance_zone_state` as a whole - sensor state, stuck
reading, window by contact or by a fall of the temperature, and the notices of the
change; `Interval` lets a control interval pass with or without readings and
contact messages; `Edit` changes the zone's settings. `SourceHealth`: which
thermostat replaces a lost probe, with the writes whose echo it must not believe.
A write commits what is `pending`, sends, remembers, and adds its own row, which is
committed later (`Commit`) or not at all: `record_command` swallows an insert that
fails, the pass is rolled back (`RolledBack`, the memory stays), the process dies
(`NewProcess`, the memory goes too). Abstractions: a pass ends in the control interval
it began in, and `trim_device_commands_to_size` spares the rows of the last half
hour. `Ingest`: one operating device, the broker's retained messages, receivers that
connect and break off, and the transaction of each message. A message is stamped
with the tick of its event; `Stored` is what a time is once it has been through the
database, cut off to `Resolution` ticks: `sa.DateTime()` is whole seconds on MariaDB
and exact on SQLite.

### Plant: DeviceAssignment, Publication, History

`DeviceAssignment`: one action per request, on the rows of now or on the snapshot
`seen`; `Writers` is what the pass sends, `_connections` what the map draws,
`build_data_flow` what the data flow shows. `Publication`: a pass announces, takes
back and sends message by message (`pass.step`), a command's answer comes from
another task, the connection breaks between any two messages. `History`: `log`
and `commands` are the rows; statistics, setback log, switch log, heating time and
series are derived operators, compared with definitions over the rows that are
left after retention. The switch log also merges the rows of `actuator_decision`, a
third list of the same form, which is left out.

The modules composed in `Commands`, `Household`, `Access`, `Sensing` and `Plant` share
no variable in the code either (`Access` excepted, where accounts and grants do):
the composition is a choice of scene, made in Init, and no step leaves it.

## 4 The runs

`tlc -config <cfg> <module>`. Deadlock is checked except in runs whose bounded
clock or bounded number of requests may end every behaviour.

| Run | Properties | Shows |
|---|---|---|
| `switch_gate` | `LeaseIsExclusive`, `StandbyTakesOver`, `CommandStartsUnderOwnLease`, `DisarmTakesEffect`, `ArmedLeaderKeepsSending` | However old the time an instance brings to its UPDATE, no live lease is taken; a crashed leader is replaced; the three bolts let nothing through they should hold, and lock nobody out |
| `emergency_operation` | `KeepsContract`, `ReturnIsProven` | The stage machine implements its contract; the recovery count is right in every order of events |
| `emergency_notice` | `NoFalseAllClear`, `TwoAttempts`, `EveryEpisodeIsTold` | Through crashes, lost hand-overs and takeovers nothing is taken back that was never reported, nothing is repeated for ever or withheld for ever |
| `emergency_actuation` | `OneHandoverPerStay`, `RestoreFollowsHandover`, `HandoverComes` | At most one handover per stay in the takt whatever dies in between, a restore only after one, and an armed plant does hand over |
| `emergency_cycle` | `KeepsMinimumOn`, `ReturnKeepsMinimum`, `TaktPulses` | Minimum durations hold through late passes, failed commands, restarts, and through the return as far as the regular decision asks for them; in the cold the takt neither stops nor sticks |
| `commands` | `DeviceFollows`, `SwitchesAgain`, `WaitGrows` | A process that keeps the lead brings the device where its decision wants it, whatever it remembered; sockets are switched again once the cloud is well; no two callers together sign in faster than the backoff allows |
| `zone_control` | `RelayHeldMinimum`, `SafeStartWaits`, `FrostIsHeated`, `ProtectionRunEnds` | The relay of an armed plant keeps the minimum durations from controller to controller and over late cycles; a freezing room waits no longer than one off duration and one PI window |
| `household` | `GestureIsExact`, `TokensRetrace`, `RevertedOnce`, `RevertIsExact`, `PreviewKeepsItsWord`, `FinishEndsTheAbsence` | A gesture meets the plan of now and changes only its minutes; undo leads back through plans there were; a change is taken back once and wholly; the preview comes true where no switch falls into the hour of a clock change; coming home ends one's own overrides only |
| `access` | `StillManaged`, `OneLiveRefresh`, `ChallengeOpensOne`, `DeadStaysDead` | No sequence of requests leaves a plant nobody can administer; overlapping calls never make two of one token, nor two sessions of one challenge where the database refuses the second; what died is not revived |
| `sensing` | `AlarmFollowsTheOpening`, `EchoIsNotTrusted`, `PressOnce` | A window alarm is about one opening, also over silence and missed cycles; only a write without a committed row can make an echo believed; a press whose time the database keeps as it is is carried out once over any number of connections |
| `plant` | `OneVoice`, `DrawnIsExecuted`, `HomeAssistantFollows`, `HistoryIsTrue` | Requests on old snapshots give no device two masters; map, data flow and pass agree; Home Assistant ends up showing what is; evaluations say what the rows left say |
| `second_handover` | `OneHandoverPerEpisode` | Counterexample to what a document says, see section 6 |

The type invariants of the modules section 5 covers are proved there; the other
modules that declare one (`TypeOK` and its kin) keep it as a definition a run can
check.

### Bounds, and why they are enough

* `switch_gate`: two instances, one actuator, a lease of 1, a clock to 2, so a
  lease can run out between two commands or under one and be taken over. The
  clock only orders leases; the proofs cover any number of instances.
* `emergency_operation`: two thermostats (a switch of the tracked source needs
  two), 2 samples, a clock to 3, two episodes (a second one must start clean).
  The proofs cover every value.
* `emergency_notice`: one episode - episodes share nothing but the pass - two
  processes, attempts counted to 3: one more than allowed. Once an episode was
  cut off from a verdict only *whether* a notice went out is still counted,
  since the bound on attempts is not claimed from there on.
* `emergency_actuation`: two episodes (a row left over from the first), two
  modes.
* `emergency_cycle`: minimum and fixed durations of 2 with a pass at least every
  2 units, a cold and a warm outdoor temperature or none, one episode. Ages
  saturate at 2, which no comparison exceeds.
* `commands`: two processes, three values (off and two kinds of on), the three
  write paths; a session of 6, a backoff that grows 1, 2, 4, a lockout of 3, and a
  `now` at most 1 old, so that rejections of both callers meet.
* `zone_control`: four zones - floor heating with sun, a zone in emergencies, PI
  armed at any moment, PI in emergencies - with PI windows of 3 and cycles 1 or 3
  apart (3 is late: a whole window). The floor zone has no window contact, whose
  exemptions the emergency zone already meets. Duties are 0, 1 or 2 of 2, which still has a
  proper fraction whose remainder is carried. No other bound on time.
* `household`: plans of three days of two minutes (a day between two others, and
  a seam), six initial plans, four edits, one undo behind the newest: a chain
  needs two. The log: five repertoires, each with three or four requests of two
  clients in any order and overlap, a week of 4, a preview of 5, so it crosses the
  week's end. The clock goes back at moment 2, by two slots: one more than the
  shortest distance of two switches, so that one can lie in the repeated time.
* `access`: two users and three groups, one authorization with one selection of
  permissions, two callers and three pairs (each the successor of the one before,
  so that a refresh meets one it has not seen), two browsers, two sessions, one
  password change, one challenge, which both browsers answer at once,
  `SnapshotIsolation` on. Callers, browsers and users other than the
  owner are interchangeable in the code and in the properties: the symmetry is
  sound for safety.
* `sensing`: thresholds of 1 to 3 intervals, falls of the temperature below, at
  and above the threshold; echoes 2 intervals long; three events, two broken
  connections and one device list for one receiver (a retained message delivered
  after, before and instead of the live one); a `Resolution` of 2, which keeps the
  second event's time and cuts those of the first and the third.
* `plant`: a plug and a valve in two rooms; one room with two values and one
  restart (what a process forgets it forgets at the first); a past of a few cycles
  with missed ones, a retention of 3 cycles and 4 rows.

### Fairness, and why the code justifies it

* The loop is a `while True` that catches every exception of a pass
  (`app.py` 568-811) and whose awaits all have timeouts: weak fairness of the
  pass's steps. A database or a device may fail again and again, but a step that
  is *attempted* for ever is assumed not to fail every single time: strong
  fairness of the successful outcome (`ClaimWon`, `SendCommand`,
  `Collect(…, TRUE)`, `TaktExecuted`, `SwitchSocket(TRUE)`, …). Nothing is assumed
  of operators, residents, crashes, starts, or takeovers.
* `StandbyTakesOver`, `DeviceFollows`, `SwitchesAgain` and `HomeAssistantFollows` only
  speak of stretches in which their actors keep running and the broker or the
  cloud answers.
* The device list's task is started anew after it ends (`meross_discovery.py`), and
  every outcome of a command but EXECUTED is attempted again: weak fairness of
  both callers of the session, strong fairness of a socket that switches.
* The publisher goes on message by message, each with a timeout, and the task that
  answers a command does: `PublicationFairness`.
* `TaktPulses` needs passes often enough that a phase cannot be found stale
  (`MaxGap` of at most `Stale` + 1). The code sets `stale_state_seconds` to
  five intervals and at least 300 s (`services/publishing.py:1076`). With later
  passes it is false: every late pass starts the off phase over.

## 5 The proofs

`tlapm <module>`. Every theorem holds for every value of the constants under the
named assumptions of the modules (`NoHolderAssumption`, `ZoneAssumption`, …), which
TLC evaluates in the runs; what a theorem assumes beyond them stands in its
statement and below. The assumptions say that the markers "none", "nobody" and
"unknown" are no values, and what the validation of the settings lets through: a
protection run has a length and an interval, a timeout is not zero.

Each proof has the same shape: an inductive invariant holds initially
(`…Init`), one lemma per action keeps it, and the property follows from it. The
runs' state properties are hardly ever inductive; what had to be added is the
content of the proof.

**`SwitchGate_proofs`**, `Cluster` and the gate. `LeaseExclusive`, `OnePass` and
`TakeoverStale` rest on `LeaseInv`: the time an instance fetched is never ahead of
the clock, and an unexpired lease is the row. An UPDATE with an old time finds
*less* expired, never more: that is why reading the clock in a statement of its
own is safe. The row's own expiry may lie up to `Timeout` ahead of an old time, so
`LeaseIsExclusive` is about the expiry written, not about the moment of writing.
`GateImplementsCluster` maps every step of the gate to a step of the cluster or a
stutter; with it the leases stay exclusive for the instances that switch
(`GateLeaseExclusive`). `StartsUnderOwnLease`, `OverlapAfterExpiry` and
`ArmingMovesNothing` need two facts more (`GateInv`): the row an instance holds is
the lease it wrote last, and the frozen bolt is what `control_armed` was when the
process started.

**`EmergencyOperation_proofs`**. `OperationTypeCorrect`, `OneEpisode`,
`SignalledOnce`, `AttemptWitnessed`, `ReturnProven`, `ContractKept`, from one
invariant (`OperationInvariant`). The latch `announced` must be tied to the stage
(from "notbetrieb" on it is set, in the normal stage it is not), an episode not yet
opened must have no signal, and the persisted count must be tied to the readings
the passes saw: the last counted reading is the latest of the unbroken streak of
the tracked source, so one that differs from it is new, and the count never exceeds
the readings of the streak. `ContractKept` maps every disjunct of `Advance` to a
step of `EmergencyContract` or a stutter.

**`EmergencyEffects_proofs`**, the actuators. `ContractHolds` (one open episode, no takt
before its announcement) for the abstract contract; `ActuationImplementsContract`
carries it over to the zone as its commands see it. `HandoverOncePerStay`,
`HandoverAnnounced`, `RestoreAfterHandover` from `ActuationInv`: what was handed over
in this stay is in the row of this episode, which is committed before the message,
so a process that dies in between leaves an attempt spent and never a second one.

The notices, for any number of processes and episodes.
`AllClearIsTrue` and `SettledWasTold` from `ToldInv`: an all-clear that waits, runs
or has a verdict belongs to an episode that has recovered and was reported, and a
task with a verdict has tried. `OneSend` and `AtMostTwoAttempts` from `AttemptInv`:
until something cuts an episode off, one notice of it at most is under way, in the
process that leads and remembers it, and what it has used up of its two attempts is
known from the state of the row. The model's cap on the counter, `MaxAttempts`, is
only assumed to be positive: the bound of two comes from the state, not from the cap.

**`EmergencyCycle_proofs`**, for every takt, curve, weather and gap between passes.
`CycleInv` relates three clocks that the code never compares: the deadline of the
phase in the row, the age of the newest commands in the log, and the age of the
decision. A deadline lies no earlier than the end of the minimum duration as the
*log* measures it, and a heating phase ends no later than its own length after now
(else the reconstructed start would lie in the future, and the phase count as
disturbed). From it `OnAfterMinimumOff` (`HeatsOnlyAfterMinimumOff`, which is
proved only) and `OnForTheMinimum`; a command that is not
sent because the memory has it already is covered, since the memory agrees with the
log. `BackAfterTheMinimum` follows the recovery marker from the pass that ends the
episode to the first regular command, over every decision and failure in between.
A decision is held to the minimum only where `decide()` is: off for want of a
source, off at an open window and a valve protection run are not, and the theorem
says so (`early`). `MinimumAppliesOnReturn`, without the exceptions, is what the
documentation says and is false (section 6).
The curve's interpolation only has to give whole seconds (`InterpolatedIs`), which
needs a nearest point on each side of the outdoor temperature (`NearestPoint`, from
the well-foundedness of the naturals).

**`Access_proofs`**, for any users, groups, permissions, callers, browsers and
challenges. `ManagedForGood` is inductive once the accounts have their types: each
request that takes something away counts who is left. For the authorization the
content is what the calls under way may have seen: an earlier state of the same
family of pairs, of which every pair but the last is replaced and what is replaced
is revoked (`OAuthInv`). From it `OneRefreshLives`, `NothingBeyondTheGift`,
`DeadForGood` and `ReuseIsTheEnd`. `OneSessionPerChallenge` and
`ChangeEndsThoseItSaw` rest on `SignInInv`: a challenge that opened a session is
gone, and a request that waits remembers sessions that there were.
`OneSessionPerChallenge` assumes `SnapshotIsolation`: two answers may both have found
the row, and the code itself does not decide between them.

**`Sensing_proofs`**, for every threshold. `AlarmIsTheOpenings`: the row keeps the age of
the opening itself, and the alarm it shows is the one this age asks for until time
goes on (`ZoneInv`). `EchoIsNoticed`: what was written is on record at least as
young as it is, unless the last write has no committed row, and an echo is measured
less than the delay after a write on record (`SourceInv`); a commit makes a pending
write the youngest on record (`LoggedIs`). `PressActsOnce`: with one
receiver - an assumption of the theorem, since with two it is false, see
section 6 - the job under way knows the time kept of the newest press acted upon.
Cutting off keeps the order (`StoredGrows`), so a press whose time is kept as it is
finds itself again; one that is not does not, and the theorem does not speak of it. `RefusalIsCheap`
is an action property of the same module.

**`Control_proofs`**, the regular control, for every set of zones, window length, gain, integral time and
delay. `ZoneTypeCorrect` bounds the ages by their caps, PI's duty, integral and remainder,
and the wait of a safe start. `PiOnlyWhereSound`: PI never decides where a window,
frost protection, an emergency or a missing reading governs. `SafeStartIsWaitedFor`
ties the persisted columns to the moment the safe start began, through every reset
and gap. `ProtectionRunIsOver`: an on-state nobody else wants is as old as its protection
run at most.

`RelayKeepsMinimum` has two cases. Where PI is not released and stays so
(`HysteresisAlone`), arming, disarming and failing commands are included: `RelayInv`
says that the relay knows the phase that began its state and that the marker of an
emergency is the state the takt left it in. Where every command arrives
(`CommandsArrive`: none fails, and the plant is not armed on the way), PI may be
switched on and off, reset and take over at any cycle: what the hysteresis began at
the relay is then its phase, and PI is kept from cutting that short
(`_hysteresis_phase_still_holding`). The two do not add up to every zone, since the
code asks for the phase of its own decisions and never for the relay.

A room below the frost band is heated. `ColdZoneIsHeated`, without PI, shows more than
the run asks: the room waits less than its minimum off duration
(`ColdNoLongerThanOff`). `ColdZoneUnderPi` is about every zone, if the error of a
freezing room asks for the full duty (`Saturated`; with a small gain, or a setpoint
next to frost protection, PI heats for a share of the time and means to). The duty
is frozen at the first cycle of a window, so a window that began before the room was
cold may keep it waiting, but only one: `WaitInv` says that a window that began cold
has the full duty, that the room has waited no longer than its zone has been off
plus one window, and that after a window only the minimum off duration keeps it off.
`ProtectionRunIsOver` and the two about cold rooms assume that the plan never asks
for less than frost protection (`Frost <= Comfort`): with a lower setpoint the code
heats to that one.

The device assignment, for every set of rooms and devices and every description.
`OneMaster` and `MapDrawsThePass` rest on `DeviceInv`: a device drives one room at most,
whatever snapshot a request wrote on, because the exclusive check reads what is
there now; and a mode that writes was only ever given to what is a thermostat by
its own description. `DrawnOfRow` and `SentOfRow` show separately that the map and
the pass come to the same slots of a row, mode by mode. The session with the cloud:
`WaitIsServed` needs the cache to know the next wait of the whole row of
rejections, whoever recorded them, and its deadline to lie ahead by what is left of
the wait, up to the age of the clock it was set by (`SessionInv`).

**`Household_proofs`**, for every repertoire of changes, every number of requests at work
and every delay between what a request reads and what it writes.
`EntriesRevertedOnce` from `LogInv`: the log is a sequence of entries that only
grows, an undo names the entry it reverts, and the mark on the reverted entry is
set by one UPDATE that looks at the entry of now, so two open requests that both
read it unmarked cannot both succeed. `FinishEndsOwn` needs `RowsOK`: the override of
an absence has the absence's own end and is over with it. That has to hold of the
tables and of everything each open request has read, because the request decides on
its reading and writes on the rows of now; the two are related by `Follows` (rows
keep their identity, and what was over stays over).

`PreviewIsKept` and `RevertRestores` rest on the larger `FitInv`, again of the tables
and of everything an open request has read, each at its own moment. The tables fit:
overrides have begun by now and end at a number or not at all, a vacation has a
begin and an end, the points of a zone are finitely many with an identity each and
lie within the week, and rows have their columns. The log fits the tables: an entry
that can still be taken back names a row there is and two values that differ. For
the preview the moments between two neighbouring bars are then regulated alike,
because the week is a ring of switch points, the bars start after the running
override, and a vacation begins or ends at one; which bar holds at a moment is the
last begun. With a change of the clock that holds of every horizon into which no
switch falls in the repeated or the omitted hour (`Unaffected`, a condition of the
property): elsewhere the conversions are inverse to each other and keep the order.
For the revert there is one lemma per kind of entry.

`HouseholdRevertedOnce`, `HouseholdFinishEnds`, `HouseholdPreviewKept` and
`HouseholdRevertRestores` carry the four to the composition with the week plan.
Assumed are finitely many zones, tables without overrides, vacations, absences and
log to begin with (`Fresh`), and requests as the forms and schemas let them through
(`Asked`).

The week plans (`W!` names `WeekPlan` and `PlanEditing` there) are proved about for a
ring of any size and every plan on it. `Dist` is how far one minute lies behind
another, and the point that governs a minute is the nearest behind it (`Governs`);
from what adding a point, dropping one and painting an arc do to the governors there
is one lemma per gesture, `PaintIsExact` to `CopyIsExact`, and for all of them
`GesturesAreExact`: the plan a gesture writes has at every minute the mode the gesture
means there, `Canonical` having changed none. `GesturesChangeWhatTheyName` is that for
every step of several people: an edit that passes the second reading under the lock
is written on the plan in force, because `PlanInv` knows what open requests and
tokens hold (plans, versions no younger than the zone's).

Undo needs more. `RetraceInv` says that a token whose version is still the zone's holds
the zone's own past, newest first, and a version alone does not give that: the version
is compared in the request's snapshot, and under the lock only the rows are. Three
edits of single points, which carry no version, can lead back to the same rows and
identities in between (create one, move another onto its slot, delete that one);
the gesture then extends a token over edits it does not tell. `TokensLeadBack` and
`EditsAreExact` therefore assume `[]NoReturn`: rows that an open request finds
unchanged under the lock have not been changed and changed back. Everything else, who
edits what with which delay, is left open. `BlocksNeverReturn` proves the condition of
every behaviour in which only blocks are edited, whose operations give all points
of the zone new rows; `GesturesChangeWhatTheyName` needs it nowhere.

**Model-checked only.**

* All liveness, which needs fairness and ENABLED: `StandbyTakesOver`,
  `DisarmTakesEffect`, `ArmedLeaderKeepsSending`, `EveryEpisodeIsTold`,
  `HandoverComes`, `TaktPulses`, `DeviceFollows`, `SwitchesAgain`,
  `HomeAssistantFollows`.
* `RelayHeldMinimum` for a zone that PI is released for and whose commands fail or
  that is armed on the way; `FrostIsHeated` for one whose duty a freezing room does
  not saturate.
* What folds over data: the evaluations of `History` (`HistoryIsTrue`), and the outdoor
  curve, against reference definitions over the runs' bounds.
* `TokensRetrace` and the undo of `GestureIsExact` without `NoReturn`, of which they are no
  theorems for all constants. The run's repertoire does not hold the triple of
  edits that breaks them.

## 6 Where code and documents disagree

Found while modelling. The first is the run `second_handover`. The others name a
property that is defined in the module and false of it: given to TLC as INVARIANT
or PROPERTY in place of those of the module's run, it yields the counterexample.
(`SourceMeasures`, `ChallengeOpensOne` and the second `PressOnce` need other constants,
which the row names.)

| Module, property | What happens |
|---|---|
| `EmergencyActuation`, `OneHandoverPerEpisode` | Returning to the replacement source clears `armed_episode_id` (`publishing.py:1127`); falling back hands the thermostat over a second time in the same episode, which `docs/bedienung.md:326-327` excludes |
| `EmergencyActuation`, `DryRunIsNoAttempt` | Armed after the start, the frozen bolt refuses the handover only after its one attempt is spent |
| `EmergencyActuation`, `RestoreIsTheStateBefore` | A restore withheld in a dry run is wiped by the next episode, whose handover records thermoctl's own "manual" as the state before |
| `EmergencyCycle`, `EntryServesMinimumOn` | A relay that is on when the takt begins on a warm pair is switched off at the second pass: the reconstructed start lies in the future |
| `EmergencyCycle`, `MinimumAppliesOnReturn` | An episode that is ended by hand while the probe is still silent leaves a zone without a source, which rule 1 of `decide()` switches off at once, and so do an open window and a protection run (`control_loop.py:103-111`); `docs/bedienung.md:342-343` says that the minimum durations go on to apply |
| `EmergencyCycle`, `EveryReturnKeepsMinimum` | The recovery marker is only set when the episode ends; back to the replacement source the ordinary path does not know what the takt has just switched |
| `EmergencyCycle`, `CreditIsReached` | A command that failed and arrived is not in the log the entry hint reads |
| `EmergencyOperation`, `ReturnIsContinuous` | A probe that was silent while no pass ran completes its recovery at the first pass afterwards |
| `EmergencyOperation`, `ErsatzquelleHasReplacement` | While the wall probe is counted, nobody asks whether the replacement is still usable |
| `SwitchGate`, `DryRunIsImmediate` | The pass that is running goes on with the `control_armed` it loaded first |
| `CommandMemory`, `SkipMeansAchieved` | `publication_state` survives the loss of leadership, and its key for thermostats lacks the setpoint: a command is skipped although it is not so (`publishing.py:170-171`, `:1609`) |
| `MerossSession`, `CycleGoesOn` | A sign-in that fails on the network, where only a rejection is caught, ends the whole pass, without a backoff (`meross_session.py:269`) |
| `MerossSession`, `LoginIsReused` | `record_login` leaves `invalid` as it was, so a good session is not used |
| `ChangeLog`, `SummerTimeIsNoSpecialCase` | A switch in the hour that comes twice is not ahead of a cursor in its second half: the preview draws one bar to the end of the horizon (`schedule.py:1656-1662`), and in the hours around a change shows what will not apply, against "Summer time needs no special case either" (`:1587-1592`) |
| `ChangeLog`, `DialIsHeard` | A dial turned during a vacation or below a younger override is accepted and changes nothing (`remote_control.py:74-77`, `:93-94`) |
| `OAuthGrants`, `RevokeIsFinal` | A revocation that overlaps a refresh does not see the pair committed meanwhile and leaves it working (`oauth.py:369-377`) |
| `SignIn`, `ChallengeOpensOne` with `SnapshotIsolation` FALSE (MariaDB before 11.6, or switched off) | Two answers that read the challenge before either commits both open a session: the second DELETE finds no row, of which the ORM only warns (`passkey.py:93-104`); "a reusable challenge cancels out the protection" (`db/models/passkey.py`) |
| `SignIn`, `OnlyTheAskerStays` | A session opened while the change of the password waited outlives it |
| `SourceHealth`, `NoEchoIsTrusted` | A write that fails as the last one did is not logged again; one that arrived all the same makes an echo pass for a reading. So does one whose row is lost after the message, with its pass, its process or a failed insert; when only the row is lost the memory says "executed" and none is written until the setpoint changes (`publishing.py:1230-1285`). Both are within the 30 minutes after an attempt, failed ones included, that `glossar.md:132` promises |
| `ZoneSensing`, `OneSensorNotice` | The notices of a failed and of a stuck sensor are told in one cycle, which `fault_notice.py` says can never happen for the same zone |
| `ZoneSensing`, `AlarmIsTakenBack` | An alarm that Home Assistant shows is not always taken back once it is over |
| `Ingest`, `TurnOnce` | A turn of the dial acts again each time its message is delivered again |
| `Ingest`, `PressCostsNothing` | A refused press costs the readings of its message (`controller_channels.py:171-175`) |
| `Ingest`, `EveryPressOnce` | MariaDB drops the milliseconds of a press's time (`db/models/measurement.py:36`), so the same press, delivered again, is later than the last one on record (`ingest.py:257`) and runs again, against `docs/mqtt.md:186`; with `Resolution` 1 it holds |
| `Ingest`, `PressOnce` with two receivers | Both execute the press (`docs/mqtt.md:186`) |
| `DeviceAssignment`, `SourceMeasures`, with a slot "temperature_source" of a device that does not measure | The room form and the API set the temperature source without the check `device_assignment.py:52-56` asks for |

Met while reading, without a property of their own:

* **Notices of an emergency.** A process that dies during the retry leaves the
  intermediate state, and the next one retries again, so "never a third attempt"
  (`app.py:260-261`) holds only while nobody dies, as `TwoAttempts` states it
  (`docs/bedienung.md:345-349` admits it).
* **Memory.** Switching a valve from self-regulating to controlled and back leaves a
  matching entry, so its setpoint is skipped. `command_failures` belongs to a
  process: after a restart a recovery is never told, after a takeover a failure
  may not be, and an exception later in the pass loses the notice.
* **Cloud.** A broker that refuses while the HTTP sign-in works leads to a sign-in in
  every pass without a backoff, against "etwa vier Anmeldungen am Tag".
* **Regular control.** From "notbetrieb" to "ersatzquelle" no recovery marker is
  written; `_write_pi_state` and `_load_pi_state` are no exact inverses; a
  protection run begun while a return is being checked exempts the first ordinary
  heating from the minimum off duration.
* **Week plan.** Pulling a lone block from its start leaves the whole week in its mode,
  against the docstring (`schedule.py` 399-404); `set_schedule_day_times` on an
  empty day changes the days after it, against "All other days stay untouched".
* **Setpoints.** A frost setpoint of 0.0 counts as missing and becomes 16 °C
  (`schedule.py` 1325-1333). A command from the broker is executed by both
  instances; the comment near `app.py:905` calls that idempotent, but a boost makes
  two overrides and cancelling ends two. A forecast forgets an older override that
  outlasts a younger one. `_rounded_end` gives an override during a vacation no
  end. An unforced revert on an old snapshot writes over a newer value. A zone's
  minimum times and the profile may contradict each other when saved at once.
  Kiosk and wall steps are not atomic although `modes.step_setpoint` is.
* **Access.** `exchange_code` raises when the owner lost a right since the consent,
  and the rollback leaves the code unspent, against "Auch bei Fehlschlag
  verbraucht". Overlapping requests of two administrators can together remove the
  last one; the model serves one request at a time. Wrong logins at the same time
  count once.
* **Ingest.** Without `last_seen` an old retained reading counts as measured when it is
  received; a retained press whose measurement the retention has deleted runs
  again; the bridge's device list deletes and writes anew the rows that hold
  `last_value_at`.
* **Publication.** `_deregister_deleted` forgets the room even if the message failed,
  and a restart forgets all: a thermostat nobody operates stays behind. A renamed
  room keeps its old name until a restart; the entity of a deleted mode is not taken
  back; a value that becomes unknown keeps its old retained state.
* **Assignment.** `disconnect_connection` has no check of fresh lines where
  `connect_ports` has one: only the database's refusal keeps it from overwriting.
* **History.** At the beginning of what the retention left a running setback appears as
  new; `device_commands.py` says its table has no retention, deliberately, and
  `retention.py` deletes from it.

## 7 What is not modelled

* **Notices of the bridge and of failing commands:** edges between two passes of one
  process, of the same form as the sensor notices of `ZoneSensing`, with no effect
  on the plant.
* **The MQTT client and message formats:** connections enter as messages lost,
  repeated and refused; parsing, topics and wording are data.
* **The forecast's fetch and cache:** a forecast is an input of `ZoneControl`.
* **The migration lock:** the exclusion is the database's or the operating system's.
* **Storage, engine and migrations; configuration, command line, audit; the
  single-page frontend.**
* **Partly modelled:** pages and routes that only read, icons, names and the order of
  rooms; bounds of single numbers in forms; the values of a valve's payload and the range
  a device accepts them in; devices of integrations that are not wired to switch; plant-wide
  entities of Home Assistant; the drawing of charts, averages and projections;
  availability of devices; tables whose retention is by age alone.

Assumptions: from a locked read to its commit a transaction is one step; what the
database refuses is what the modules say it refuses (`SnapshotIsolation`, unique keys,
conditional UPDATEs); a message a
thermostat takes, it takes at once; a device's capability and its writable setpoint
come from one description. Formatting, logging and texts are left out everywhere.
