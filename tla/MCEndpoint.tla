---------------------------- MODULE MCEndpoint ----------------------------
(***************************************************************************)
(* Model-checking instance of Endpoint: one integrator, two admin keys,   *)
(* three adapters for two adapter slots (so MaxAdaptersReached happens),  *)
(* one chain, a u64 counter shrunk to MaxSeq = 2 (so the overflow check   *)
(* is reached), and one inbound message key.   *)
(***************************************************************************)
EXTENDS Endpoint

CONSTANTS i1, u1, u2, a1, a2, a3, c1, s1, h1, h2

MCIntegrators == {i1}
MCUsers       == {u1, u2}
MCAdapters    == {a1, a2, a3}
MCChains      == {c1}
MCSenders     == {s1}
MCInSeqs      == {0}
MCPayloads    == {h1}

(* Two inbound messages, for the runs about which AttestationInfo a call *)
(* may use, with one admin key and one outbound message.                 *)
MCTwoPayloads == {h1, h2}
MCOneUser     == {u1}

=============================================================================
