------------------------------ MODULE Household ------------------------------
(* What people change: the weekly plans, PlanEditing, and everything that is *)
(* regulated to or logged, ChangeLog, in two scenes.  The points of a plan   *)
(* are the same rows in both; PlanEditing takes them as gestures see them,   *)
(* ChangeLog as the log and the resolution of a setpoint do, so that neither *)
(* scene moves what the other one keeps.                                     *)
EXTENDS ChangeLog

CONSTANTS Days, DayMinutes, WarmMode, CoolMode,
          InitialPlans, First, Later, MaxUndoSteps, MaxEvents

VARIABLES plan, event, rewrite, journal, view, edits, trail, scene

\* The weekly plans and their editing.
W == INSTANCE PlanEditing WITH request <- edits

ASSUME PlanAssumption == W!EditingConstants /\ Repertoires # {}

logVars == <<db, clock, request, repertoire, served>>
editVars == <<plan, event, rewrite, journal, view, edits, trail>>

\* One state of what does not take part.
APlan == CHOOSE p \in InitialPlans[CHOOSE z \in Zones : TRUE] : TRUE
AShow == CHOOSE r \in Repertoires : TRUE

HouseholdInit ==
    \/ /\ scene = "plans" /\ W!Init
       /\ repertoire = AShow
       /\ db = (CHOOSE tables \in AShow.initial : TRUE)
       /\ clock = 0 /\ served = 0
       /\ request = [c \in Clients |-> Idle]
    \/ /\ scene = "log" /\ Init
       /\ plan = [z \in Zones |-> APlan]
       /\ event = [z \in Zones |-> 0] /\ rewrite = event
       /\ journal = [z \in Zones |-> W!Vacant]
       /\ view = [c \in Clients |-> [version |-> event, token |-> W!NoToken]]
       /\ edits = [c \in Clients |-> W!Vacant]
       /\ trail = [z \in Zones |-> <<APlan>>]

HouseholdNext ==
    /\ \/ scene = "plans" /\ W!Next /\ UNCHANGED logVars
       \/ scene = "log" /\ Next /\ UNCHANGED editVars
    /\ UNCHANGED scene

HouseholdSpec == HouseholdInit /\ [][HouseholdNext]_<<logVars, editVars, scene>>

-----------------------------------------------------------------------------

\* The chain of undo steps in a browser's hands never skips over what somebody
\* else has written in between (PlanEditing).
TokensRetrace == W!TokensRetrace

\* Every written gesture changes exactly the minutes it is about, on the plan
\* in force a moment before (PlanEditing).
GestureIsExact == W!GestureIsExact

\* The preview shows what the zone will be regulated to, if nobody intervenes
\* (ChangeLog, schedule.py:1567-1647).
PreviewKeepsItsWord == scene = "log" => ForecastKeepsItsWord
=============================================================================
