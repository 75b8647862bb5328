---------------------------- MODULE MCHousehold ----------------------------
(* Two rooms and two clients.                                                *)
(*                                                                           *)
(* Plans: three days of two minutes, three modes.  Zone a begins with an     *)
(* empty plan, a lone block, two blocks over the seam, a day with exactly    *)
(* two points, a redundant point or a point at every minute; its first       *)
(* gesture is any there is, the later ones split or delete a block.  Zone b  *)
(* only takes part in copying the week.                                      *)
(*                                                                           *)
(* Log: five plants, each with the requests that bear on one part of it: a   *)
(* room with overrides and vacations, two rooms with two people's absences,  *)
(* the settings of a room and of the plant, a week plan whose points move,   *)
(* and the setpoints of the modes.                                           *)
EXTENDS Household

CONSTANTS a, b, u, v, c1, c2

Weekly == INSTANCE WeekPlan

MCInitialPlans == (b :> {3 :> "cool"}) @@ (a :>
    {Weekly!Empty, (3 :> "warm"), (1 :> "warm") @@ (4 :> "cool"),
     (0 :> "cool") @@ (2 :> "warm") @@ (3 :> "cool") @@ (5 :> "frost"),
     (1 :> "cool") @@ (3 :> "cool") @@ (5 :> "warm"),
     [m \in Weekly!Minutes |-> IF m = 4 THEN "frost" ELSE IF m % 2 = 0 THEN "warm" ELSE "cool"]})

Drop  == [op |-> "delete_block", at |-> 4]
Split == [op |-> "create_point", at |-> 2, mode |-> "frost"]

MCMaxEvents == (a :> 4) @@ (b :> 1)

MCFirst == (a :> Weekly!Gestures) @@ (b :> {})
MCLater == (a :> {Split, Drop}) @@ (b :> {})

-----------------------------------------------------------------------------

MCCurve == <<"cold", "mild", "warm">>

MCVisible == (u :> {a, b}) @@ (v :> {b})

Point(id, slot, mode) == [id |-> id, slot |-> slot, mode |-> mode]

Room == [min_on |-> None, pi |-> FALSE, enabled |-> TRUE, setpoint |-> None, offset |-> None]

Plant == [interval |-> 1, min_on |-> 2, fixed |-> 2, setpoint |-> 15, cold |-> 3,
          mild |-> None, warm |-> 0]

Tables(points, frost) ==
    [off |-> [z \in Zones |-> FALSE],
     point |-> [z \in Zones |-> IF z = a THEN points ELSE {}],
     setpoint |-> [z \in Zones |-> "frost" :> frost @@ "cool" :> 18 @@ "warm" :> 21],
     mode |-> Modes,
     override |-> <<>>, vacation |-> <<>>, absence |-> <<>>,
     zone |-> [z \in Zones |-> IF z = a THEN Room ELSE [Room EXCEPT !.enabled = FALSE]],
     plant |-> Plant, change |-> <<>>]

WarmFirst == {Point(1, 0, "warm"), Point(2, 2, "cool")}

Reverts(most) == [kind : {"revert"}, by : {"web"}, change : 1 .. most, force : BOOLEAN]

Overrides ==
    [initial |-> {Tables(WarmFirst, 0), Tables({}, 12)}, most |-> 3, clock |-> 2,
     requests |->
        {[kind |-> "override", by |-> "web", zone |-> a, temp |-> 23, end |-> "duration",
          duration |-> 1],
         [kind |-> "override", by |-> "mcp", zone |-> a, temp |-> 19, end |-> "open"],
         [kind |-> "override", by |-> "api", zone |-> a, temp |-> 24, end |-> "next_switch"],
         [kind |-> "boost", by |-> "mcp", zone |-> a],
         [kind |-> "cancel", by |-> "web", zone |-> a],
         [kind |-> "dial", by |-> "mqtt", zone |-> a, temp |-> 22],
         [kind |-> "turn", by |-> "wall", zone |-> a, step |-> 1],
         [kind |-> "vacation", by |-> "web", from |-> 1, until |-> 3, setback |-> 14],
         [kind |-> "cancel_vacation", by |-> "mcp"],
         [kind |-> "operating_mode", by |-> "wall", zone |-> a, off |-> TRUE]}
        \cup [kind : {"jump"}, by : {"web"}, zone : {a}, replace : BOOLEAN] \cup Reverts(2)]

Absences ==
    [initial |-> {Tables(WarmFirst, 12)}, most |-> 4, clock |-> 1,
     requests |->
        {[kind |-> "override", by |-> "api", zone |-> b, temp |-> 23, end |-> "open"],
         [kind |-> "cancel", by |-> "kiosk", zone |-> b],
         [kind |-> "start_absence", by |-> "web", user |-> u, temp |-> 17, until |-> 2],
         [kind |-> "start_absence", by |-> "web", user |-> v, temp |-> 16, until |-> 1]}
        \cup [kind : {"finish_absence"}, by : {"web"}, user : {u, v}]]

Controls ==
    [initial |-> {Tables({}, 12)}, most |-> 3, clock |-> 0,
     requests |->
        [kind : {"parameter"}, by : {"mcp"}, zone : {a}, name : {"min_on"}, value : {1, 2, 3}]
        \cup [kind : {"parameter"}, by : {"api"}, zone : {a}, name : {"pi"}, value : BOOLEAN]
        \cup {[kind |-> "zone_form", by |-> "web", zone |-> a,
               values |-> [min_on |-> 3, pi |-> FALSE],
               policy |-> [enabled |-> FALSE, setpoint |-> None]]}
        \cup [kind : {"policy"}, by : {"mcp"}, zone : {a},
              policy : {[enabled |-> TRUE, setpoint |-> 14, offset |-> 1],
                        [enabled |-> FALSE, setpoint |-> None]}]
        \cup [kind : {"defaults"}, by : {"mcp"},
              values : {[fixed |-> 3, setpoint |-> 15, cold |-> 3, mild |-> 1, warm |-> 0],
                        [fixed |-> 3, setpoint |-> 16, cold |-> None, mild |-> None,
                         warm |-> None],
                        [fixed |-> 1, setpoint |-> 15, cold |-> 1, mild |-> 3, warm |-> 0]}]
        \cup [kind : {"settings"}, by : {"web"},
              values : {[interval |-> 2, min_on |-> 3], [interval |-> 1, min_on |-> 1]}]
        \cup Reverts(2)]

Points ==
    [initial |-> {Tables(WarmFirst, 12)}, most |-> 4, clock |-> 0,
     requests |->
        [kind : {"move_point"}, by : {"web"}, zone : {a}, point : {1, 2}, slot : {1, 3}]
        \cup {[kind |-> "repaint", by |-> "web", zone |-> a]} \cup Reverts(2)]

Steps ==
    [initial |-> {Tables(WarmFirst, 12),
                  [Tables({Point(1, 0, "warm")}, 12) EXCEPT !.setpoint[a]["cool"] = None]},
     most |-> 4, clock |-> 0,
     requests |->
        [kind : {"step"}, by : {"web"}, zone : {a}, mode : {"warm", "cool", "frost"},
         step : {1, -1}]
        \cup [kind : {"setpoint"}, by : {"api"}, zone : {a}, mode : {"cool", "warm"},
              temp : {None, 20}]
        \cup {[kind |-> "turn", by |-> "kiosk", zone |-> a, step |-> 1]}
        \cup [kind : {"delete_mode"}, by : {"web"}, mode : {"cool", "frost"}]]

MCRepertoires == {Overrides, Absences, Controls, Points, Steps}

Symmetric == Permutations(Clients)
=============================================================================
