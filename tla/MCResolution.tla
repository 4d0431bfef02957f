---------------------------- MODULE MCResolution ----------------------------
(* Resolution with one route that goes through auth and one that does not.   *)
EXTENDS Resolution

MCRoutes  == {"login", "data"}
MCFailing == {"login"}
MCSinces  == {2}
=============================================================================
