--------------------------- MODULE DeliveryLedger ---------------------------
(***************************************************************************)
(* What the attestation ledger promises, per message, in terms of adapter *)
(* identities rather than bitmap indices (spec.md 4.7): adapters attest a *)
(* message at most once each, attestations are never withdrawn, and a     *)
(* message is handed to the integrator once, only after some adapter has  *)
(* attested it.                                                            *)
(***************************************************************************)
EXTENDS Naturals

CONSTANTS Msgs, Adapters

VARIABLES
    attesters,  \* adapters that have attested each message
    executed,   \* whether each message has been delivered
    delivered   \* how many times each message was handed to the integrator

vars == <<attesters, executed, delivered>>

Init ==
    /\ attesters = [m \in Msgs |-> {}]
    /\ executed  = [m \in Msgs |-> FALSE]
    /\ delivered = [m \in Msgs |-> 0]

Attest(a, m) ==
    /\ a \notin attesters[m]
    /\ attesters' = [attesters EXCEPT ![m] = @ \cup {a}]
    /\ UNCHANGED <<executed, delivered>>

Deliver(m) ==
    /\ attesters[m] /= {}
    /\ ~executed[m]
    /\ executed'  = [executed EXCEPT ![m] = TRUE]
    /\ delivered' = [delivered EXCEPT ![m] = @ + 1]
    /\ UNCHANGED attesters

Next == \E m \in Msgs : Deliver(m) \/ \E a \in Adapters : Attest(a, m)

Spec == Init /\ [][Next]_vars

=============================================================================
