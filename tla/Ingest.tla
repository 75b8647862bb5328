------------------------------- MODULE Ingest -------------------------------
(* The messages of one operating device: its presses and the turns of its    *)
(* dial on their way from Zigbee2MQTT into the database, each handled in a   *)
(* transaction of its own (services/ingest.py, domain/reading.py,            *)
(* domain/controller.py, domain/controller_channels.py, integrations/mqtt).  *)
(* The broker keeps the last message and the device list and delivers both   *)
(* again on every connection.  A message is stamped with the time of the     *)
(* event it reports (last_seen), one tick after the other; the database keeps*)
(* a time only down to Resolution ticks: MariaDB's DATETIME drops the        *)
(* milliseconds, SQLite keeps them (Resolution = 1).                         *)
EXTENDS Optional, SequencesExt, FiniteSets

CONSTANTS Receivers,     \* processes that subscribe
          Resolution,    \* ticks per time the database can tell apart
          MaxEvents, MaxDrops, MaxLists  \* bounds

ASSUME IngestAssumption ==
    /\ Receivers # {} /\ Resolution \in Nat \ {0}
    /\ {MaxEvents, MaxDrops, MaxLists} \subseteq Nat

VARIABLES
    sent,      \* the messages the device has sent, the last one retained
    queue,     \* [r |-> what the broker has still to deliver to r]
    job,       \* [r |-> None, or the message r works on and what it has read]
    measured,  \* the events whose readings are in measurement
    applied,   \* device_property.last_value_at of the dial
    done,      \* the commands executed: [event, what], oldest first
    drops, lists

ingestVars == <<sent, queue, job, measured, applied, done, drops, lists>>

List == [at |-> 0, press |-> FALSE, dial |-> FALSE, bad |-> FALSE]
\* A time as it is read back from the database: cut off, not rounded.
Stored(at) == IF at = None THEN None ELSE at - (at % Resolution)

Presses == {e \in measured : sent[e].press}
Newest(S) == IF S = {} THEN None ELSE CHOOSE e \in S : \A f \in S : f <= e

\* The device reports an event: a press, a turn, or a reading alone; the zone
\* may be unable to take it (a setpoint out of its bounds).
Report ==
    /\ Len(sent) < MaxEvents
    /\ \E press, dial, bad \in BOOLEAN :
         LET m == [at |-> Len(sent) + 1, press |-> press, dial |-> dial, bad |-> bad]
         IN /\ press /\ dial => FALSE
            /\ bad => press \/ dial
            /\ sent' = Append(sent, m)
            /\ queue' = [r \in Receivers |-> IF queue[r] = None THEN None ELSE Append(queue[r], m)]
    /\ UNCHANGED <<job, measured, applied, done, drops, lists>>

\* run of integrations/mqtt/client.py: a lost connection loses what was under
\* way; a new one starts with what is retained.
Disconnect(r) ==
    /\ queue[r] # None /\ drops < MaxDrops
    /\ drops' = drops + 1
    /\ queue' = [queue EXCEPT ![r] = None]
    /\ job' \in {job, [job EXCEPT ![r] = None]}
    /\ UNCHANGED <<sent, measured, applied, done, lists>>

Connect(r) ==
    /\ queue[r] = None /\ job[r] = None
    /\ queue' = [queue EXCEPT ![r] = IF sent = <<>> THEN <<List>> ELSE <<List, Last(sent)>>]
    /\ UNCHANGED <<sent, job, measured, applied, done, drops, lists>>

\* Zigbee2MQTT publishes its device list again.
DeviceList ==
    /\ lists < MaxLists /\ lists' = lists + 1
    /\ queue' = [r \in Receivers |-> IF queue[r] = None THEN None ELSE Append(queue[r], List)]
    /\ UNCHANGED <<sent, job, measured, applied, done, drops>>

\* The transaction of a message begins: what it sees is what is committed now.
_process_mqtt_message(r) ==
    /\ queue[r] # None /\ queue[r] # <<>> /\ job[r] = None
    /\ job' = [job EXCEPT ![r] = [message |-> Head(queue[r]),
                                  last_pressed |-> Stored(Newest(Presses)),
                                  last_value_at |-> applied]]
    /\ queue' = [queue EXCEPT ![r] = Tail(@)]
    /\ UNCHANGED <<sent, measured, applied, done, drops, lists>>

_execute_button_pressMutant(j) ==
    j.message.press /\ ~(j.last_pressed # None /\ j.message.at < j.last_pressed)

\* Whether the press is executed: the time of the message, as it was sent,
\* against the time of the last press, as it is kept.
_execute_button_press(j) ==
    j.message.press /\ ~(j.last_pressed # None /\ j.message.at <= j.last_pressed)

\* Whether the value of the dial counts as changed.
changed_values(j) ==
    j.message.dial /\ (j.last_value_at = None \/ j.message.at > j.last_value_at)

\* A value the zone does not take is logged and left; a press is not.
apply_read_channels(j) ==
    [executes |-> changed_values(j) /\ ~j.message.bad, raises |-> FALSE]

execute_action(j) ==
    [executes |-> _execute_button_press(j) /\ ~j.message.bad,
     raises   |-> _execute_button_press(j) /\ j.message.bad]

Executed(at, what) == <<[event |-> at, what |-> what]>>

\* The commit of a state message; what raises rolls all of it back.
_process_state(r) ==
    /\ job[r] # None /\ job[r].message # List
    /\ LET j == job[r]  m == j.message
           press == execute_action(j)  dial == apply_read_channels(j)
       IN IF press.raises \/ dial.raises
          THEN UNCHANGED <<measured, applied, done>>
          ELSE /\ measured' = measured \cup {m.at}
               /\ applied' = IF m.dial THEN Stored(m.at) ELSE applied
               /\ done' = done \o (IF press.executes THEN Executed(m.at, "press") ELSE <<>>)
                               \o (IF dial.executes THEN Executed(m.at, "dial") ELSE <<>>)
    /\ job' = [job EXCEPT ![r] = None]
    /\ UNCHANGED <<sent, queue, drops, lists>>

\* The device list: every property is deleted and written anew, without a value.
_process_device_list(r) ==
    /\ job[r] # None /\ job[r].message = List
    /\ applied' = None
    /\ job' = [job EXCEPT ![r] = None]
    /\ UNCHANGED <<sent, queue, measured, done, drops, lists>>

IngestInit ==
    /\ sent = <<>> /\ measured = {} /\ applied = None /\ done = <<>>
    /\ queue = [r \in Receivers |-> None] /\ job = [r \in Receivers |-> None]
    /\ drops = 0 /\ lists = 0

IngestNext == \/ Report \/ DeviceList
              \/ \E r \in Receivers : \/ Disconnect(r) \/ Connect(r)
                                      \/ _process_mqtt_message(r) \/ _process_state(r)
                                      \/ _process_device_list(r)

-----------------------------------------------------------------------------
Times(e, what) == Cardinality({i \in DOMAIN done : done[i] = [event |-> e, what |-> what]})

\* A press whose time the database keeps as it is acts only once, however often
\* the broker delivers it again.
PressOnce == \A e \in DOMAIN sent : Stored(e) = e => Times(e, "press") <= 1

\* The same press acts only once, whatever its time (docs/mqtt.md, "Derselbe
\* Tastendruck wirkt nur einmal").
EveryPressOnce == \A e \in DOMAIN sent : Times(e, "press") <= 1

\* A turn of the dial the zone does not take costs nothing but itself: the
\* readings of the message are kept (domain/controller_channels.py: "One
\* rejected value would then have aborted the whole payload").
RefusalCostsNothing ==
    [][\A r \in Receivers :
         job[r] # None /\ job[r].message.dial /\ job[r].message.bad
         /\ job'[r] = None /\ queue' = queue
           => job[r].message.at \in measured']_ingestVars

\* The same for a press.
PressCostsNothing ==
    [][\A r \in Receivers :
         job[r] # None /\ job[r].message.press /\ job[r].message.bad
         /\ job'[r] = None /\ queue' = queue
           => job[r].message.at \in measured']_ingestVars

\* A turn of the dial acts only once.
TurnOnce == \A e \in DOMAIN sent : Times(e, "dial") <= 1
=============================================================================
