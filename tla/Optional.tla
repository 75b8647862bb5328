------------------------------ MODULE Optional ------------------------------
(***************************************************************************)
(* What the modules of the zone share: the value of an empty column, and   *)
(* ages, which are kept up to the largest threshold they are compared with.*)
(***************************************************************************)
EXTENDS Integers

CONSTANT None   \* NULL in the database, None in the program

ASSUME NoneAssumption == None \notin Int

AtMost(x, cap) == IF x > cap THEN cap ELSE x
AtLeast(x, floor) == IF x < floor THEN floor ELSE x

\* An age after dt more, None staying None.
Older(age, dt, cap) == IF age = None THEN None ELSE AtMost(age + dt, cap)
=============================================================================
