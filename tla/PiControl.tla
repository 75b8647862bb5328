------------------------------ MODULE PiControl ------------------------------
(***************************************************************************)
(* domain/pi_control.py: the PI arithmetic, the window modulator, the      *)
(* combined state and the eligibility of a zone, as pure operators.        *)
(*                                                                         *)
(* The duty cycle is an integer 0..Full (a share of Full), the integral    *)
(* likewise; the remainder is counted in duty times time.  A point in time *)
(* is an integer, windows begin at its multiples of WindowSeconds.         *)
(***************************************************************************)
EXTENDS Optional

CONSTANTS
    WindowSeconds,    \* 900 in the code
    MaxControlCycle,  \* 60 in the code
    Full,             \* the duty cycle 1
    Gain,             \* duty per kelvin, in units of Full
    IntegralTime      \* the integral time: Gain * e * dt \div IntegralTime per step

ASSUME PiAssumption ==
    /\ WindowSeconds \in Nat \ {0}
    /\ MaxControlCycle \in Nat
    /\ Full \in Nat \ {0}
    /\ Gain \in Nat
    /\ IntegralTime \in Nat \ {0}

RemainderLimit == WindowSeconds * Full

Clamp(low, x, high) == IF x < low THEN low ELSE IF x > high THEN high ELSE x
Clamp01(u) == Clamp(0, u, Full)
ClampRemainder(r) == Clamp(-RemainderLimit, r, RemainderLimit)

window_start_for(now) == now - (now % WindowSeconds)

\* No step over a gap: after a stop the past must not become one long deviation.
pi_dt(evaluated, now, expected) ==
  IF evaluated = None THEN None
  ELSE LET dt == now - evaluated
       IN  IF dt <= 0 \/ dt > 2 * expected THEN None ELSE dt

\* Conditional integration: a saturated duty that the error pushes further
\* freezes the integral.
new_integral(integral, error, dt) ==
  LET before == Clamp01(Gain * error + integral)
  IN  IF (before = Full /\ error > 0) \/ (before = 0 /\ error < 0)
        THEN integral
        ELSE Clamp01(integral + (Gain * error * dt) \div IntegralTime)

pi_arithmetic(integral, error, dt) ==
  LET i == new_integral(integral, error, dt)
  IN  [u |-> Clamp01(Gain * error + i), integral |-> i]

NeutralModulator ==
  [on |-> FALSE, held |-> None, remainder |-> 0, window |-> None, duty |-> None]

\* The duty is frozen at the first cycle of a window and kept for all of it.
FreezeDuty(m, now, u) ==
  IF m.window # window_start_for(now) \/ m.duty = None
    THEN [m EXCEPT !.window = window_start_for(now), !.duty = u]
    ELSE m

BelowMinimum(m, min_on, min_off) ==
  m.held # None /\ m.held < (IF m.on THEN min_on ELSE min_off)

OwedAfter(m, on, dt) == m.remainder + m.duty * dt - (IF on THEN Full * dt ELSE 0)

Settle(m, on, dt, reason) ==
  LET switched == on # m.on
  IN  [on |-> on,
       switched |-> switched,
       reason_code |-> reason,
       hold_integrator |-> ~switched /\ reason = "gehalten_mindestdauer",
       state |-> [m EXCEPT
           !.on = on,
           !.held = IF switched \/ m.held = None THEN dt ELSE m.held + dt,
           !.remainder = ClampRemainder(OwedAfter(m, on, dt))]]

\* A duty of 0 or 1 is absolute; below its minimum a state is held unless that
\* would drive the remainder past its bound; else the remainder's sign decides.
window_modulate(state, now, u, dt, min_on, min_off) ==
  LET m == FreezeDuty(state, now, u)
      below == BelowMinimum(m, min_on, min_off)
      owed == OwedAfter(m, m.on, dt)
  IN  IF m.duty \in {0, Full}
        THEN Settle(m, m.duty = Full, dt,
               IF below /\ m.on # (m.duty = Full) THEN "pi_tastgrad_vorrang" ELSE "regulaer")
      ELSE IF below /\ owed \in -RemainderLimit .. RemainderLimit
        THEN Settle(m, m.on, dt, "gehalten_mindestdauer")
      ELSE IF below THEN Settle(m, ~m.on, dt, "pi_tastgrad_vorrang")
      ELSE Settle(m, m.remainder > 0, dt, "regulaer")

----------------------------------------------------------------------------

reset_pi_state(now) ==
  [integral |-> 0, evaluated |-> now, key |-> None, modulator |-> NeutralModulator,
   awaiting |-> None]

\* The safe start after arming or without a state: hysteresis until the next boundary.
await_next_boundary(now) ==
  [reset_pi_state(now) EXCEPT !.awaiting = window_start_for(now) + WindowSeconds]

Unavailable(state) == [state |-> state, pi_available |-> FALSE, heating |-> FALSE,
                       switched |-> FALSE]

\* One regular cycle; c is [now, error, key, expected, min_on, min_off].
pi_cycle(state, c) ==
  LET context_changed == state.key # None /\ state.key # c.key
      base == IF context_changed THEN reset_pi_state(state.evaluated) ELSE state
      dt == pi_dt(base.evaluated, c.now, c.expected)
      pi == pi_arithmetic(base.integral, c.error, dt)
      m == window_modulate(base.modulator, c.now, pi.u, dt, c.min_on, c.min_off)
  IN  IF state.awaiting # None /\ c.now < state.awaiting
        THEN Unavailable([state EXCEPT !.evaluated = c.now])
      ELSE IF dt = None
        THEN Unavailable([reset_pi_state(c.now) EXCEPT !.key = c.key])
      ELSE [state |-> [integral |-> IF m.hold_integrator THEN base.integral ELSE pi.integral,
                       evaluated |-> c.now,
                       key |-> c.key,
                       modulator |-> m.state,
                       awaiting |-> None],
            pi_available |-> TRUE,
            heating |-> m.on,
            switched |-> m.switched]

----------------------------------------------------------------------------

\* An actuator is [mode, switch, thermostat]; a valve thermoctl does not switch
\* is skipped, one it would command by setpoint excludes the zone.
Ordinary(actuators) == {a \in actuators : a.mode = "controlled"}

pi_eligible(actuators, cycle, min_on, min_off) ==
  /\ Ordinary(actuators) # {}
  /\ \A a \in Ordinary(actuators) : ~a.thermostat /\ a.switch
  /\ cycle \in 1 .. MaxControlCycle
  /\ cycle <= min_on /\ cycle <= min_off
=============================================================================
