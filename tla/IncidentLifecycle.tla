------------------------- MODULE IncidentLifecycle -------------------------
(***************************************************************************)
(* What the incident-response service promises about one incident, seen    *)
(* from outside: by the client that delivered it, the operator who reviews *)
(* it and the channel its diagnosis is posted to.  The threads, the queue, *)
(* the store transactions and the crashes of the service are all invisible *)
(* here; IncidentService refines this module.                              *)
(***************************************************************************)

CONSTANT
  Incidents          \* idempotency keys a client may deliver

VARIABLES
  stage,             \* the incident's row in the store, or "absent"
  accepted,          \* incidents a client was told are accepted
  published          \* incidents whose diagnosis reached the channel

lifecycleVars == <<stage, accepted, published>>

Unsettled == {"queued", "running"}
Closed    == {"posted", "rejected", "failed"}
Stages    == {"absent", "pending_review"} \cup Unsettled \cup Closed

LifecycleTypeOK ==
  /\ stage \in [Incidents -> Stages]
  /\ accepted \subseteq Incidents
  /\ published \subseteq Incidents

LifecycleInit ==
  /\ stage = [i \in Incidents |-> "absent"]
  /\ accepted = {}
  /\ published = {}

Move(i, from, to) ==
  /\ stage[i] \in from
  /\ stage' = [stage EXCEPT ![i] = to]

(* The id is claimed, and freed again only while nobody was told so.       *)
Claim(i)    == Move(i, {"absent"}, "queued") /\ UNCHANGED <<accepted, published>>
Withdraw(i) == /\ i \notin accepted
               /\ Move(i, {"queued"}, "absent")
               /\ UNCHANGED <<accepted, published>>

Accept(i) ==
  /\ stage[i] # "absent"
  /\ accepted' = accepted \cup {i}
  /\ UNCHANGED <<stage, published>>

(* An investigation starts: the first one, one a restart recovered, or the *)
(* one an operator's steer asks for.                                       *)
Investigate(i) ==
  /\ Move(i, Unsettled \cup {"pending_review"}, "running")
  /\ UNCHANGED <<accepted, published>>

Propose(i) == Move(i, {"running"}, "pending_review") /\ UNCHANGED <<accepted, published>>

Fail(i) ==
  /\ Move(i, Unsettled \cup {"pending_review"}, "failed")
  /\ UNCHANGED <<accepted, published>>

(* The diagnosis leaves the service only while it is under review, and an  *)
(* incident is closed as posted only after it left.                        *)
Publish(i) ==
  /\ stage[i] = "pending_review"
  /\ published' = published \cup {i}
  /\ UNCHANGED <<stage, accepted>>

ClosePosted(i) ==
  /\ i \in published
  /\ Move(i, {"pending_review"}, "posted")
  /\ UNCHANGED <<accepted, published>>

CloseRejected(i) ==
  /\ Move(i, {"pending_review"}, "rejected")
  /\ UNCHANGED <<accepted, published>>

LifecycleNext ==
  \E i \in Incidents :
    \/ Claim(i) \/ Withdraw(i) \/ Accept(i)
    \/ Investigate(i) \/ Propose(i) \/ Fail(i)
    \/ Publish(i) \/ ClosePosted(i) \/ CloseRejected(i)

LifecycleSpec == LifecycleInit /\ [][LifecycleNext]_lifecycleVars

-----------------------------------------------------------------------------
(* Consequences of the promise alone.                                      *)

(* A client that was told its incident is accepted can find it.            *)
AcceptedExists == \A i \in accepted : stage[i] # "absent"

(* Posted means published.                                                 *)
PostedWasPublished == \A i \in Incidents : stage[i] = "posted" => i \in published
=============================================================================
