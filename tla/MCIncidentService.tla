-------------------------- MODULE MCIncidentService --------------------------
(* Instances of IncidentService small enough to check exhaustively.           *)
EXTENDS IncidentProperties, TLC

(* Requests are interchangeable, and so are incidents.  Used by the runs      *)
(* that check no liveness property.                                           *)
Interchangeable == Permutations(Handlers) \cup Permutations(Incidents)
=============================================================================
