------------------------------ MODULE MCPlant ------------------------------
EXTENDS Plant

Entry(p, b, w) == [property |-> p, branch |-> b, writable |-> w]

\* A plug, and a valve with a wall probe's value to write.
MCExposes == [d \in Device |->
    IF d = "plug" THEN {Entry("state", "switch", TRUE)}
    ELSE {Entry("local_temperature", "climate", FALSE),
          Entry("occupied_heating_setpoint", "climate", TRUE),
          Entry("external_temperature", "top", TRUE)}]

MCSlots == [d \in Device |->
    IF d = "plug" THEN {"actuator"}
    ELSE {"actuator", "controller", "temperature_source"}]

MCLastMinute == [b \in Book |-> CASE b = "both" -> 3 [] b = "commands" -> 4 [] OTHER -> 5]
=============================================================================
