---------------------------- MODULE Publication ----------------------------
(* What Home Assistant sees: a pass announces the rooms' entities, takes     *)
(* deleted rooms back and sends every room's values, message by message over *)
(* a connection that may break, while a command is answered in between from  *)
(* another task. What was announced is remembered in the process alone; what *)
(* was sent is retained at the broker.                                       *)
EXTENDS Naturals

CONSTANTS
    Room,         \* rooms that may exist
    Values,        \* values a room's topic may carry
    Unknown,      \* no value: an empty text
    MaxRestarts   \* bound: starts of a new process

VARIABLES
    rooms,        \* rooms in the database
    modes,        \* whether there is a setpoint mode with an entity of its own
    value,        \* Room -> what holds, or Unknown
    registered,   \* PublicationState.registered: Room -> topics
    retained,     \* Room -> config topics the broker holds
    shown,        \* Room -> value the broker holds of the state topic
    online,       \* the connection to the broker
    pass,         \* the pass under way
    reply,        \* the answer to a command, read and not yet sent
    restarts

publicationVars ==
    <<rooms, modes, value, registered, retained, shown, online, pass, reply, restarts>>

NoPass == [step |-> "idle", rooms |-> {}, todo |-> {}, read |-> Unknown]
NoReply == [room |-> Unknown, read |-> Unknown]

\* The entities every room has stand as one, and so do those per setpoint mode.
ZoneEntities == {"climate"}
ModeEntities == IF modes THEN {"mode"} ELSE {}
_discovery_messages == ZoneEntities \cup ModeEntities

\* Which of some messages go out: all, those before the break, or none.
Sends(messages, sent) ==
    \/ online /\ sent = messages /\ UNCHANGED online
    \/ online /\ sent \in SUBSET messages \ {messages} /\ online' = FALSE
    \/ ~online /\ sent = {} /\ UNCHANGED online

PublicationInit ==
    /\ rooms \in SUBSET Room /\ modes \in BOOLEAN
    /\ value = [z \in Room |-> Unknown]
    /\ registered = [z \in Room |-> {}] /\ retained = [z \in Room |-> {}]
    /\ shown = [z \in Room |-> Unknown]
    /\ online = TRUE /\ pass = NoPass /\ reply = NoReply /\ restarts = 0

\* cycle: the rooms of the whole pass are read once.
StartPass ==
    /\ pass.step = "idle"
    /\ pass' = [step |-> "register", rooms |-> rooms, todo |-> rooms, read |-> Unknown]
    /\ UNCHANGED <<rooms, modes, value, registered, retained, shown, online, reply, restarts>>

\* Remembered as announced before it is sent.
register_before_sending ==
    /\ pass.step = "register"
    /\ \/ \E z \in pass.todo :
            \E sent \in SUBSET (_discovery_messages \ registered[z]) :
               /\ Sends(_discovery_messages \ registered[z], sent)
               /\ registered' = [registered EXCEPT ![z] = @ \cup _discovery_messages]
               /\ retained' = [retained EXCEPT ![z] = @ \cup sent]
               /\ pass' = [pass EXCEPT !.todo = @ \ {z}]
       \/ /\ pass.todo = {}
          /\ pass' = [pass EXCEPT !.step = "deregister",
                                  !.todo = {z \in Room : registered[z] # {}} \ pass.rooms]
          /\ UNCHANGED <<registered, retained, online>>
    /\ UNCHANGED <<rooms, modes, value, shown, reply, restarts>>

_register_zone ==
    /\ pass.step = "register"
    /\ \/ \E z \in pass.todo :
            \E sent \in SUBSET (_discovery_messages \ registered[z]) :
               /\ Sends(_discovery_messages \ registered[z], sent)
               /\ registered' = [registered EXCEPT ![z] = @ \cup sent]
               /\ retained' = [retained EXCEPT ![z] = @ \cup sent]
               /\ pass' = [pass EXCEPT !.todo = @ \ {z}]
       \/ /\ pass.todo = {}
          /\ pass' = [pass EXCEPT !.step = "deregister",
                                  !.todo = {z \in Room : registered[z] # {}} \ pass.rooms]
          /\ UNCHANGED <<registered, retained, online>>
    /\ UNCHANGED <<rooms, modes, value, shown, reply, restarts>>

\* The memory of a deleted room goes, whether its messages went out or not.
_deregister_deleted ==
    /\ pass.step = "deregister"
    /\ \/ \E z \in pass.todo : \E sent \in SUBSET registered[z] :
            /\ Sends(registered[z], sent)
            /\ retained' = [retained EXCEPT ![z] = @ \ sent]
            /\ registered' = [registered EXCEPT ![z] = {}]
            /\ pass' = [pass EXCEPT !.todo = @ \ {z}]
       \/ /\ pass.todo = {}
          /\ pass' = [pass EXCEPT !.step = "read", !.todo = pass.rooms]
          /\ UNCHANGED <<registered, retained, online>>
    /\ UNCHANGED <<rooms, modes, value, shown, reply, restarts>>

\* A room's values are read together, before the first of them is sent ...
ReadState ==
    /\ pass.step = "read"
    /\ IF pass.todo = {} THEN pass' = NoPass
       ELSE \E z \in pass.todo :
              pass' = [pass EXCEPT !.step = "send", !.todo = @ \ {z}, !.rooms = {z}, !.read = value[z]]
    /\ UNCHANGED <<rooms, modes, value, registered, retained, shown, online, reply, restarts>>

Show(z, v) == shown' = [shown EXCEPT ![z] = IF v # Unknown /\ online THEN v ELSE @]

\* ... and an empty one is not sent: it would delete the retained message.
_send_zone_state ==
    /\ pass.step = "send"
    /\ \E z \in pass.rooms : Show(z, pass.read)
    /\ pass' = [pass EXCEPT !.step = "read", !.rooms = {}, !.read = Unknown]
    /\ UNCHANGED <<rooms, modes, value, registered, retained, online, reply, restarts>>

\* publish() raises when the connection breaks under it: the pass is over.
Raise ==
    /\ ~online /\ pass.step # "idle"
    /\ pass' = NoPass
    /\ UNCHANGED <<rooms, modes, value, registered, retained, shown, online, reply, restarts>>

\* A command changes its room and reads the answer in the same transaction.
_process_mqtt_message ==
    /\ online /\ reply = NoReply
    /\ \E z \in rooms, v \in Values :
          /\ v # value[z]
          /\ value' = [value EXCEPT ![z] = v]
          /\ reply' = [room |-> z, read |-> v]
    /\ UNCHANGED <<rooms, modes, registered, retained, shown, online, pass, restarts>>

SendReply ==
    /\ reply # NoReply
    /\ Show(reply.room, reply.read)
    /\ reply' = NoReply
    /\ UNCHANGED <<rooms, modes, value, registered, retained, online, pass, restarts>>

\* The plan, a page, a sensor.
Change ==
    /\ \E z \in rooms : \E v \in (Values \cup {Unknown}) \ {value[z]} :
          value' = [value EXCEPT ![z] = v]
    /\ UNCHANGED <<rooms, modes, registered, retained, shown, online, pass, reply, restarts>>

Rooms ==
    /\ \E z \in Room : rooms' = IF z \in rooms THEN rooms \ {z} ELSE rooms \cup {z}
    /\ UNCHANGED <<modes, value, registered, retained, shown, online, pass, reply, restarts>>

Modes ==
    /\ modes' = ~modes
    /\ UNCHANGED <<rooms, value, registered, retained, shown, online, pass, reply, restarts>>

Broker ==
    /\ online' = ~online
    /\ UNCHANGED <<rooms, modes, value, registered, retained, shown, pass, reply, restarts>>

\* A new process, or another instance that takes over, has announced nothing.
NewProcess ==
    /\ restarts < MaxRestarts
    /\ registered' = [z \in Room |-> {}]
    /\ pass' = NoPass /\ reply' = NoReply /\ restarts' = restarts + 1
    /\ UNCHANGED <<rooms, modes, value, retained, shown, online>>

PassStep == StartPass \/ _register_zone \/ _deregister_deleted \/ ReadState \/ _send_zone_state

PublicationNext ==
    \/ PassStep \/ Raise
    \/ _process_mqtt_message \/ SendReply \/ Change
    \/ Rooms \/ Modes \/ Broker \/ NewProcess

\* A room that stays appears with all its entities, once the connection holds, and
\* shows a value that stays, whatever answer and pass overtook each other; a room that
\* is gone disappears, as long as the process that announced it lives and the broker
\* hears it (publishing.py: "a thermostat that nobody operates anymore would stay
\* behind in Home Assistant").
HomeAssistantFollows ==
    \A z \in Room :
        /\ <>[](online /\ z \in rooms /\ modes) => <>[]({"climate", "mode"} \subseteq retained[z])
        /\ \A v \in Values : <>[](online /\ z \in rooms /\ value[z] = v) => <>[](shown[z] = v)
        /\ [](online /\ restarts = 0) /\ <>[](z \notin rooms) => <>[](retained[z] = {})
=============================================================================
