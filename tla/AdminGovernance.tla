--------------------------- MODULE AdminGovernance ---------------------------
(***************************************************************************)
(* The admin state machine of spec.md 4.4 as explicit tagged states, per  *)
(* integrator: Unregistered, Active(admin), Pending(admin, pending) and    *)
(* the terminal Immutable.  config stands for everything an admin-gated   *)
(* instruction may change (the adapter registry and the chain configs);   *)
(* it may change only while the integrator is Active.                      *)
(***************************************************************************)
CONSTANTS Integrators, Users

VARIABLES gov, config

vars == <<gov, config>>

Unregistered   == [state |-> "Unregistered"]
Active(a)      == [state |-> "Active", admin |-> a]
Pending(a, p)  == [state |-> "Pending", admin |-> a, pending |-> p]
Immutable      == [state |-> "Immutable"]

Step(i, from, to) ==
    /\ gov[i] = from
    /\ gov' = [gov EXCEPT ![i] = to]
    /\ UNCHANGED config

Register(i) == \E u \in Users : Step(i, Unregistered, Active(u))
Transfer(i) == \E a, p \in Users : Step(i, Active(a), Pending(a, p))
Claim(i)    == \E a, p \in Users : Step(i, Pending(a, p), Active(p))
Update(i)   == \E a, b \in Users : Step(i, Active(a), Active(b))
Discard(i)  == \E a \in Users : Step(i, Active(a), Immutable)

(* An admin-gated change of integrator i's configuration.                  *)
Configure(i) ==
    /\ gov[i].state = "Active"
    /\ config'[i] /= config[i]
    /\ \A j \in Integrators \ {i} : config'[j] = config[j]
    /\ UNCHANGED gov

Next ==
    \E i \in Integrators :
        Register(i) \/ Transfer(i) \/ Claim(i) \/ Update(i) \/ Discard(i)
        \/ Configure(i)

Spec == (\A i \in Integrators : gov[i] = Unregistered) /\ [][Next]_vars

=============================================================================
