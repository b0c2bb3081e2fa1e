-------------------------- MODULE DeliveryContract --------------------------
(***************************************************************************)
(* What the outbox promises to those who write events and to those who     *)
(* consume them, with no workers, leases, statements or clock: a committed *)
(* event stays open, whatever happens, until the downstream system has     *)
(* received it and it is acknowledged, or until MaxFailures publish        *)
(* failures are on record and it is given up on.                           *)
(***************************************************************************)
EXTENDS Naturals

CONSTANTS Events, MaxFailures

VARIABLES
    phase,      \* "absent", "open", "published", "dead_letter" or "purged"
    failures,   \* the publish failures on record
    delivered   \* the events the downstream system has received

contractVars == <<phase, failures, delivered>>

ContractInit ==
    /\ phase     = [e \in Events |-> "absent"]
    /\ failures  = [e \in Events |-> 0]
    /\ delivered = {}

Commit(e) ==
    /\ phase[e] = "absent"
    /\ phase' = [phase EXCEPT ![e] = "open"]
    /\ UNCHANGED <<failures, delivered>>

\* Any number of times, also after the event is settled: consumers deduplicate.
Receive(e) ==
    /\ phase[e] # "absent"
    /\ delivered' = delivered \cup {e}
    /\ UNCHANGED <<phase, failures>>

Acknowledge(e) ==
    /\ phase[e] = "open"
    /\ e \in delivered
    /\ phase' = [phase EXCEPT ![e] = "published"]
    /\ UNCHANGED <<failures, delivered>>

RecordFailedAttempt(e) ==
    /\ phase[e] = "open"
    /\ failures' = [failures EXCEPT ![e] = @ + 1]
    /\ UNCHANGED <<phase, delivered>>

GiveUpOn(e) ==
    /\ phase[e] = "open"
    /\ failures[e] + 1 >= MaxFailures
    /\ phase'    = [phase EXCEPT ![e] = "dead_letter"]
    /\ failures' = [failures EXCEPT ![e] = @ + 1]
    /\ UNCHANGED delivered

Expire(e) ==
    /\ phase[e] = "published"
    /\ phase' = [phase EXCEPT ![e] = "purged"]
    /\ UNCHANGED <<failures, delivered>>

ContractNext ==
    \E e \in Events :
        \/ Commit(e)
        \/ Receive(e)
        \/ Acknowledge(e)
        \/ RecordFailedAttempt(e)
        \/ GiveUpOn(e)
        \/ Expire(e)

ContractSpec == ContractInit /\ [][ContractNext]_contractVars
=============================================================================
