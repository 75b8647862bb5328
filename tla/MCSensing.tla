----------------------------- MODULE MCSensing -----------------------------
(* One contact, one thermostat, one receiver; thresholds of one to four      *)
(* control intervals, so that each is met, missed by one and outlived.       *)
EXTENDS Sensing

MCOffset == [t \in Thermostats |-> 1]
=============================================================================
