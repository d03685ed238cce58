------------------------------ MODULE MCTelemetry ------------------------------
(***************************************************************************)
(* A small instance of Telemetry for TLC: hot readings of two sensors,     *)
(* subscriptions for the alerter and a client that asks for the first      *)
(* sensor, and a client of the alerts.  Thresholds are the defaults, or    *)
(* below zero, where the rest of the path to an alert can be seen.         *)
(***************************************************************************)
EXTENDS TelemetryProperties

CONSTANTS k1, k2, m1, m2, a1

HotReadings == [key : {k1, k2}, temp : {30}, hum : {75}]
OfFirstSensor == {{k1}}
DefaultOrNegative == {[temp |-> 28, hum |-> 70], [temp |-> -1, hum |-> -1]}
===============================================================================
