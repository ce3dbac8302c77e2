------------------------------ MODULE MCWatchdog ------------------------------
(* Watchdog for TLC: two Campaigns and one event for the first.             *)
EXTENDS Watchdog

OneEvent == <<1>>
===============================================================================
