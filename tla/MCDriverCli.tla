---------------------------- MODULE MCDriverCli ----------------------------
(* DriverCli with one process more than the table has entries.             *)
EXTENDS DriverCli

CONSTANTS d1, d2, d3

MCDrivers == {d1, d2, d3}
MCTimers == {1, 2}
=============================================================================
