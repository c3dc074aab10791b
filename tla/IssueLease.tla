----------------------------- MODULE IssueLease -----------------------------
(***************************************************************************)
(* What the orchestrator promises about an issue: it is free, leased to    *)
(* one agent, or waiting for a retry.  There are never more leases than    *)
(* slots; an agent works only under a lease, alone; and a lease is given   *)
(* back only when its agent is gone.  Closing the service revokes every    *)
(* lease; agents then only end.                                            *)
(***************************************************************************)
EXTENDS Naturals, FiniteSets

CONSTANTS Issues, Slots

VARIABLES
    lease,   \* issue -> "free", "leased" or "waiting"
    agents,  \* issue -> how many agents work on it
    open     \* the service has not been stopped

leaseVars == <<lease, agents, open>>

Leased == {i \in Issues : lease[i] = "leased"}

LeaseInit ==
    /\ lease = [i \in Issues |-> "free"]
    /\ agents = [i \in Issues |-> 0]
    /\ open = TRUE

\* An agent starts on an issue nobody works on.
Grant(i) ==
    /\ open
    /\ lease[i] # "leased"
    /\ agents[i] = 0
    /\ Cardinality(Leased) < Slots
    /\ lease' = [lease EXCEPT ![i] = "leased"]
    /\ agents' = [agents EXCEPT ![i] = 1]
    /\ UNCHANGED open

\* The agent is gone; its lease is not given back yet.
Leave(i) ==
    /\ agents[i] = 1
    /\ agents' = [agents EXCEPT ![i] = 0]
    /\ UNCHANGED <<lease, open>>

GiveBack(i) ==
    /\ open
    /\ lease[i] = "leased"
    /\ agents[i] = 0
    /\ \E next \in {"free", "waiting"} : lease' = [lease EXCEPT ![i] = next]
    /\ UNCHANGED <<agents, open>>

\* The retry of an issue is dropped.
Forget(i) ==
    /\ open
    /\ lease[i] = "waiting"
    /\ lease' = [lease EXCEPT ![i] = "free"]
    /\ UNCHANGED <<agents, open>>

Close ==
    /\ open
    /\ open' = FALSE
    /\ lease' = [i \in Issues |-> "free"]
    /\ UNCHANGED agents

LeaseNext == \/ \E i \in Issues : Grant(i) \/ Leave(i) \/ GiveBack(i) \/ Forget(i)
             \/ Close

LeaseSpec == LeaseInit /\ [][LeaseNext]_leaseVars
=============================================================================
