------------------------------ MODULE Endpoint ------------------------------
(***************************************************************************)
(* The endpoint program of the GMP router (src/sdk/ts/src/idls/endpoint.ts)*)
(* as a state machine: one action per instruction of the IDL.  Each       *)
(* instruction is a Solana transaction: it commits all of its effect or   *)
(* none, so an action is the whole instruction and a failing check is a   *)
(* false guard (the transaction aborts and nothing changes).               *)
(*                                                                         *)
(* Accounts are state:                                                     *)
(*   IntegratorConfig       admin, pendingAdmin, adapterInfos              *)
(*   AdapterInfo            adapterIndex                                   *)
(*   IntegratorChainConfig  chainCfg (None until first enable)             *)
(*   SequenceTracker        sequence                                       *)
(*   OutboxMessage          outbox (a set of live accounts)                *)
(*   AttestationInfo        attestation (None until first attestation)     *)
(* Bitmaps (u128) are sets of adapter indices 0..MaxAdapters-1.            *)
(* sentMsgs, pickups, attests and deliveries are history variables.     *)
(***************************************************************************)
EXTENDS Integers, Sequences, FiniteSets, Functions, Bags

CONSTANTS
    Integrators,  \* integrator program ids
    Users,        \* keys that can sign as admin
    Adapters,     \* adapter program ids
    Chains,       \* Wormhole chain ids
    Senders,      \* source addresses of inbound messages
    InSeqs,       \* sequence numbers of inbound messages
    Payloads,     \* payload hashes of inbound messages
    MaxAdapters,  \* bitmap width and cap on adapters (128 in the program)
    MaxSeq,       \* largest value of the u64 sequence counter (2^64-1)
    None          \* Option::None / account not initialised

ASSUME MaxAdapters \in Nat \ {0} /\ MaxSeq \in Nat \ {0}

VARIABLES
    registered,    \* integrators whose IntegratorConfig exists
    admin,         \* IntegratorConfig.admin
    pendingAdmin,  \* IntegratorConfig.pending_admin
    adapterInfos,  \* IntegratorConfig.adapter_infos (vec of adapter ids)
    adapterIndex,  \* AdapterInfo(integrator, adapter).index, or None
    chainCfg,      \* IntegratorChainConfig(integrator, chain), or None
    sequence,      \* SequenceTracker.sequence
    outbox,        \* live OutboxMessage accounts
    attestation,   \* AttestationInfo per message key, or None
    sentMsgs,      \* history: every outbox message created
    pickups,       \* history: bag of successful pick-ups <<integrator, sequence, adapter>>
    attests,       \* history: bag of successful attestations <<key, adapter>>
    deliveries     \* history: successful recv/exec per message key

govVars == <<registered, admin, pendingAdmin>>
regVars == <<adapterInfos, adapterIndex>>
outVars == <<sequence, outbox, sentMsgs, pickups>>
inVars  == <<attestation, attests, deliveries>>
vars == <<govVars, regVars, chainCfg, outVars, inVars>>

Idx == 0..MaxAdapters-1

(* Message identity of AttestationInfo: the tuple (src_chain, src_addr,   *)
(* sequence, dst_chain, dst_addr, payload_hash).  dst_chain is this chain *)
(* and dst_addr the integrator program id.                                 *)
Keys == [srcChain : Chains, srcAddr : Senders, sequence : InSeqs,
         dstAddr : Integrators, payloadHash : Payloads]

EmptyChainConfig == [send |-> {}, recv |-> {}]
EmptyAttestation == [attestedAdapters |-> {}, executed |-> FALSE]

(***************************************************************************)
(* Bitmap: test/set/clear, failing BitmapIndexOutOfBounds for i >= width.  *)
(***************************************************************************)
InBounds(i) == i \in Idx
BitmapSet(bm, i)   == bm \cup {i}
BitmapClear(bm, i) == bm \ {i}

(* has_one = admin plus the pending_admin rule: while a transfer is       *)
(* pending no admin-gated instruction is authorised.                       *)
IsAdmin(i, caller) ==
    /\ i \in registered
    /\ admin[i] = caller
    /\ pendingAdmin[i] = None

(***************************************************************************)
(* Governance                                                              *)
(***************************************************************************)
Register(i, u) ==
    /\ i \notin registered                      \* `init`: not yet registered
    /\ registered'   = registered \cup {i}
    /\ admin'        = [admin EXCEPT ![i] = u]
    /\ pendingAdmin' = [pendingAdmin EXCEPT ![i] = None]
    /\ sequence'     = [sequence EXCEPT ![i] = 0]
    /\ UNCHANGED <<regVars, chainCfg, outbox, sentMsgs, pickups, inVars>>

TransferAdmin(i, caller, new) ==
    /\ IsAdmin(i, caller)                       \* AdminTransferInProgress
    /\ pendingAdmin' = [pendingAdmin EXCEPT ![i] = new]
    /\ UNCHANGED <<registered, admin, regVars, chainCfg, outVars, inVars>>

ClaimAdmin(i, caller) ==
    /\ i \in registered
    /\ pendingAdmin[i] /= None                  \* NoAdminTransferInProgress
    /\ pendingAdmin[i] = caller                 \* CallerNotAuthorized
    /\ admin'        = [admin EXCEPT ![i] = caller]
    /\ pendingAdmin' = [pendingAdmin EXCEPT ![i] = None]
    /\ UNCHANGED <<registered, regVars, chainCfg, outVars, inVars>>

UpdateAdmin(i, caller, new) ==
    /\ IsAdmin(i, caller)
    /\ admin' = [admin EXCEPT ![i] = new]
    /\ UNCHANGED <<registered, pendingAdmin, regVars, chainCfg, outVars, inVars>>

(* Fault: discard checks has_one = admin but not the pending transfer.     *)
DiscardAdminIgnoringPending(i, caller) ==
    /\ i \in registered
    /\ admin[i] = caller
    /\ admin' = [admin EXCEPT ![i] = None]
    /\ UNCHANGED <<registered, pendingAdmin, regVars, chainCfg, outVars, inVars>>

DiscardAdmin(i, caller) ==
    /\ IsAdmin(i, caller)
    /\ admin' = [admin EXCEPT ![i] = None]
    /\ UNCHANGED <<registered, pendingAdmin, regVars, chainCfg, outVars, inVars>>

(***************************************************************************)
(* Adapter registry                                                        *)
(***************************************************************************)
(* Fault: the cap compared with <= lets index MaxAdapters through.         *)
AddAdapterPastCap(i, caller, a) ==
    /\ IsAdmin(i, caller)
    /\ adapterIndex[i][a] = None
    /\ Len(adapterInfos[i]) <= MaxAdapters
    /\ adapterIndex' = [adapterIndex EXCEPT ![i][a] = Len(adapterInfos[i])]
    /\ adapterInfos' = [adapterInfos EXCEPT ![i] = Append(@, a)]
    /\ UNCHANGED <<govVars, chainCfg, outVars, inVars>>

(* Fault: the AdapterInfo is created but adapter_infos is not pushed.     *)
AddAdapterWithoutPush(i, caller, a) ==
    /\ IsAdmin(i, caller)
    /\ adapterIndex[i][a] = None
    /\ Len(adapterInfos[i]) < MaxAdapters
    /\ adapterIndex' = [adapterIndex EXCEPT ![i][a] = Len(adapterInfos[i])]
    /\ UNCHANGED <<govVars, adapterInfos, chainCfg, outVars, inVars>>

AddAdapter(i, caller, a) ==
    /\ IsAdmin(i, caller)
    /\ adapterIndex[i][a] = None                \* `init`: AccountAlreadyInUse
    /\ Len(adapterInfos[i]) < MaxAdapters       \* MaxAdaptersReached
    /\ adapterIndex' = [adapterIndex EXCEPT ![i][a] = Len(adapterInfos[i])]
    /\ adapterInfos' = [adapterInfos EXCEPT ![i] = Append(@, a)]
    /\ UNCHANGED <<govVars, chainCfg, outVars, inVars>>

(***************************************************************************)
(* Chain config: kind is "send" or "recv".  enable uses init_if_needed on *)
(* the chain config; disable requires it to exist.                         *)
(***************************************************************************)
EnableAdapter(kind, i, c, caller, a) ==
    LET k   == adapterIndex[i][a]
        cfg == IF chainCfg[i][c] = None THEN EmptyChainConfig ELSE chainCfg[i][c]
    IN /\ IsAdmin(i, caller)
       /\ k /= None                             \* AccountNotInitialized
       /\ InBounds(k)
       /\ k \notin cfg[kind]                    \* AdapterAlreadyEnabled
       /\ chainCfg' = [chainCfg EXCEPT ![i][c] =
                         [cfg EXCEPT ![kind] = BitmapSet(@, k)]]
       /\ UNCHANGED <<govVars, regVars, outVars, inVars>>

DisableAdapter(kind, i, c, caller, a) ==
    LET k == adapterIndex[i][a]
    IN /\ IsAdmin(i, caller)
       /\ k /= None
       /\ chainCfg[i][c] /= None                \* AccountNotInitialized
       /\ InBounds(k)
       /\ k \in chainCfg[i][c][kind]            \* AdapterAlreadyDisabled
       /\ chainCfg' = [chainCfg EXCEPT ![i][c][kind] = BitmapClear(@, k)]
       /\ UNCHANGED <<govVars, regVars, outVars, inVars>>

EnableSendAdapter(i, c, caller, a)  == EnableAdapter("send", i, c, caller, a)
EnableRecvAdapter(i, c, caller, a)  == EnableAdapter("recv", i, c, caller, a)
DisableSendAdapter(i, c, caller, a) == DisableAdapter("send", i, c, caller, a)
DisableRecvAdapter(i, c, caller, a) == DisableAdapter("recv", i, c, caller, a)

(***************************************************************************)
(* Outbox                                                                  *)
(***************************************************************************)
SendMessage(i, c) ==
    LET s == sequence[i]
        m == [src |-> i, sequence |-> s, dstChain |-> c,
              outstandingAdapters |-> chainCfg[i][c].send]
    IN /\ i \in registered
       /\ chainCfg[i][c] /= None                \* AccountNotInitialized
       /\ chainCfg[i][c].send /= {}             \* AdapterNotEnabled
       /\ s + 1 <= MaxSeq                       \* checked_add, overflow aborts
       /\ sequence' = [sequence EXCEPT ![i] = s + 1]
       /\ outbox'   = outbox \cup {m}
       /\ sentMsgs' = sentMsgs \cup {[src |-> i, sequence |-> s,
                                      snapshot |-> m.outstandingAdapters]}
       /\ UNCHANGED <<govVars, regVars, chainCfg, pickups, inVars>>

(* Fault: the account is not closed when the last adapter picks up.      *)
PickUpMessageNoClose(m, a) ==
    LET k == adapterIndex[m.src][a]
    IN /\ k /= None
       /\ InBounds(k)
       /\ k \in m.outstandingAdapters
       /\ outbox' = (outbox \ {m}) \cup
                    {[m EXCEPT !.outstandingAdapters = BitmapClear(@, k)]}
       /\ pickups' = pickups (+) SetToBag({<<m.src, m.sequence, a>>})
       /\ UNCHANGED <<govVars, regVars, chainCfg, sequence, sentMsgs, inVars>>

(* Fault: pick-up also requires the adapter to be send-enabled now.       *)
PickUpMessageIfEnabled(m, a) ==
    LET k   == adapterIndex[m.src][a]
        rem == BitmapClear(m.outstandingAdapters, k)
    IN /\ k /= None
       /\ InBounds(k)
       /\ k \in m.outstandingAdapters
       /\ k \in chainCfg[m.src][m.dstChain].send
       /\ outbox' = (outbox \ {m}) \cup
                    (IF rem = {} THEN {} ELSE {[m EXCEPT !.outstandingAdapters = rem]})
       /\ pickups' = pickups (+) SetToBag({<<m.src, m.sequence, a>>})
       /\ UNCHANGED <<govVars, regVars, chainCfg, sequence, sentMsgs, inVars>>

(* The adapter signs for its own program id; its AdapterInfo is looked up *)
(* under the message's src_addr.  Emptying the bitmap closes the account. *)
PickUpMessage(m, a) ==
    LET k   == adapterIndex[m.src][a]
        rem == BitmapClear(m.outstandingAdapters, k)
    IN /\ k /= None                             \* AccountNotInitialized
       /\ InBounds(k)
       /\ k \in m.outstandingAdapters           \* MessageAlreadyPickedUp
       /\ outbox' = (outbox \ {m}) \cup
                    (IF rem = {} THEN {} ELSE {[m EXCEPT !.outstandingAdapters = rem]})
       /\ pickups' = pickups (+) SetToBag({<<m.src, m.sequence, a>>})
       /\ UNCHANGED <<govVars, regVars, chainCfg, sequence, sentMsgs, inVars>>

(***************************************************************************)
(* Attestation and delivery.  The attestation_info account is chosen by   *)
(* the caller (the IDL gives it no seeds): acct is the message whose      *)
(* AttestationInfo is passed, key the message named by the arguments.     *)
(* The program derives the account from the hash of the arguments' tuple  *)
(* and rejects any other (InvalidMessageHash).                             *)
(***************************************************************************)
MessageHashMatches(acct, key) == acct = key

(* Fault: the attested bitmap is assigned 1 << index instead of or-ed.   *)
AttestMessageOverwrite(a, key, acct) ==
    LET i   == key.dstAddr
        k   == adapterIndex[i][a]
        cfg == chainCfg[i][key.srcChain]
        rec == IF attestation[acct] = None THEN EmptyAttestation ELSE attestation[acct]
    IN /\ MessageHashMatches(acct, key)
       /\ k /= None
       /\ cfg /= None
       /\ InBounds(k)
       /\ k \in cfg.recv
       /\ k \notin rec.attestedAdapters
       /\ attestation' = [attestation EXCEPT ![acct] = [rec EXCEPT !.attestedAdapters = {k}]]
       /\ attests' = attests (+) SetToBag({<<key, a>>})
       /\ UNCHANGED <<govVars, regVars, chainCfg, outVars, deliveries>>

(* Fault: no DuplicateMessageAttestation check; or-ing a set bit is a    *)
(* no-op, so a retried attestation succeeds again.                         *)
AttestMessageNoDupCheck(a, key, acct) ==
    LET i   == key.dstAddr
        k   == adapterIndex[i][a]
        cfg == chainCfg[i][key.srcChain]
        rec == IF attestation[acct] = None THEN EmptyAttestation ELSE attestation[acct]
    IN /\ MessageHashMatches(acct, key)
       /\ k /= None
       /\ cfg /= None
       /\ InBounds(k)
       /\ k \in cfg.recv
       /\ attestation' = [attestation EXCEPT ![acct] =
                            [rec EXCEPT !.attestedAdapters = BitmapSet(@, k)]]
       /\ attests' = attests (+) SetToBag({<<key, a>>})
       /\ UNCHANGED <<govVars, regVars, chainCfg, outVars, deliveries>>

AttestMessage(a, key, acct) ==
    LET i   == key.dstAddr
        k   == adapterIndex[i][a]
        cfg == chainCfg[i][key.srcChain]
        rec == IF attestation[acct] = None THEN EmptyAttestation ELSE attestation[acct]
    IN /\ MessageHashMatches(acct, key)         \* InvalidMessageHash
       /\ k /= None                             \* AccountNotInitialized
       /\ cfg /= None                           \* AccountNotInitialized
       /\ InBounds(k)
       /\ k \in cfg.recv                        \* AdapterNotEnabled
       /\ k \notin rec.attestedAdapters         \* DuplicateMessageAttestation
       /\ attestation' = [attestation EXCEPT ![acct] =
                            [rec EXCEPT !.attestedAdapters = BitmapSet(@, k)]]
       /\ attests' = attests (+) SetToBag({<<key, a>>})
       /\ UNCHANGED <<govVars, regVars, chainCfg, outVars, deliveries>>

(* recv_message and exec_message take no IntegratorChainConfig account:   *)
(* the only quorum they can evaluate is over the stored bitmap.            *)
QuorumMet(rec) == rec.attestedAdapters /= {}

(* Fault: the executed flag is not checked.                                *)
DeliverNoReplayCheck(key, acct, rec) ==
    /\ QuorumMet(rec)
    /\ attestation' = [attestation EXCEPT ![acct] = [rec EXCEPT !.executed = TRUE]]
    /\ deliveries'  = [deliveries EXCEPT ![key] = @ + 1]
    /\ UNCHANGED <<govVars, regVars, chainCfg, outVars, attests>>

(* Marks the passed account executed and hands the arguments' message to  *)
(* the integrator.                                                         *)
Deliver(key, acct, rec) ==
    /\ QuorumMet(rec)                           \* AdapterNotEnabled
    /\ ~rec.executed                            \* AlreadyExecuted
    /\ attestation' = [attestation EXCEPT ![acct] = [rec EXCEPT !.executed = TRUE]]
    /\ deliveries'  = [deliveries EXCEPT ![key] = @ + 1]
    /\ UNCHANGED <<govVars, regVars, chainCfg, outVars, attests>>

(* Fault: the passed account is used without checking its message hash.  *)
RecvMessageAnyAccount(key, acct) ==
    /\ attestation[acct] /= None
    /\ Deliver(key, acct, attestation[acct])

RecvMessage(key, acct) ==
    /\ attestation[acct] /= None                \* UnknownMessageAttestation
    /\ MessageHashMatches(acct, key)            \* InvalidMessageHash
    /\ Deliver(key, acct, attestation[acct])

(* init_if_needed on the attestation account: an unseen key gets an empty *)
(* record, which then fails the quorum check and the transaction aborts.  *)
ExecMessage(key, acct) ==
    /\ MessageHashMatches(acct, key)            \* InvalidMessageHash
    /\ Deliver(key, acct, IF attestation[acct] = None THEN EmptyAttestation
                                                      ELSE attestation[acct])

(***************************************************************************)
(* Specification                                                           *)
(***************************************************************************)
Init ==
    /\ registered   = {}
    /\ admin        = [i \in Integrators |-> None]
    /\ pendingAdmin = [i \in Integrators |-> None]
    /\ adapterInfos = [i \in Integrators |-> <<>>]
    /\ adapterIndex = [i \in Integrators |-> [a \in Adapters |-> None]]
    /\ chainCfg     = [i \in Integrators |-> [c \in Chains |-> None]]
    /\ sequence     = [i \in Integrators |-> 0]
    /\ outbox       = {}
    /\ attestation  = [key \in Keys |-> None]
    /\ sentMsgs     = {}
    /\ pickups      = EmptyBag
    /\ attests      = EmptyBag
    /\ deliveries   = [key \in Keys |-> 0]

Next ==
    \/ \E i \in Integrators, u \in Users : Register(i, u) \/ ClaimAdmin(i, u)
                                           \/ DiscardAdmin(i, u)
    \/ \E i \in Integrators, u, v \in Users : TransferAdmin(i, u, v)
                                              \/ UpdateAdmin(i, u, v)
    \/ \E i \in Integrators, u \in Users, a \in Adapters : AddAdapter(i, u, a)
    \/ \E i \in Integrators, c \in Chains, u \in Users, a \in Adapters :
          \/ EnableSendAdapter(i, c, u, a)  \/ EnableRecvAdapter(i, c, u, a)
          \/ DisableSendAdapter(i, c, u, a) \/ DisableRecvAdapter(i, c, u, a)
    \/ \E i \in Integrators, c \in Chains : SendMessage(i, c)
    \/ \E m \in outbox, a \in Adapters : PickUpMessage(m, a)
    \/ \E a \in Adapters, key, acct \in Keys : AttestMessage(a, key, acct)
    \/ \E key, acct \in Keys : RecvMessage(key, acct) \/ ExecMessage(key, acct)

Spec == Init /\ [][Next]_vars

(* Adapters' relayers keep polling the outbox: an adapter that can pick   *)
(* up a given message keeps trying until it does.  Nothing in the program *)
(* schedules them; this is the assumption under which outbox rent is      *)
(* refunded.                                                               *)
PickUpOf(i, s, a) == \E m \in outbox : m.src = i /\ m.sequence = s /\ PickUpMessage(m, a)

FairSpec ==
    /\ Spec
    /\ \A i \in Integrators, s \in 0..MaxSeq, a \in Adapters : WF_vars(PickUpOf(i, s, a))

(***************************************************************************)
(* Properties                                                              *)
(***************************************************************************)
Opt(S) == S \cup {None}
Bitmaps == SUBSET Idx

TypeOK ==
    /\ registered \subseteq Integrators
    /\ admin \in [Integrators -> Opt(Users)]
    /\ pendingAdmin \in [Integrators -> Opt(Users)]
    /\ \A i \in Integrators : adapterInfos[i] \in Seq(Adapters)
    /\ adapterIndex \in [Integrators -> [Adapters -> Opt(Idx)]]
    /\ chainCfg \in [Integrators -> [Chains -> Opt([send : Bitmaps, recv : Bitmaps])]]
    /\ sequence \in [Integrators -> 0..MaxSeq]
    /\ \A m \in outbox : m \in [src : Integrators, sequence : 0..MaxSeq,
                                dstChain : Chains, outstandingAdapters : Bitmaps]
    /\ attestation \in [Keys -> Opt([attestedAdapters : Bitmaps, executed : BOOLEAN])]
    /\ deliveries \in [Keys -> Nat]
    /\ IsABag(pickups) /\ IsABag(attests)

(* The AdapterInfo accounts and IntegratorConfig.adapter_infos describe   *)
(* the same registry: adapter a has index n exactly when it is entry n of *)
(* the vector.  add_adapter writes both; an index taken from a stale      *)
(* length, or a push without its AdapterInfo, breaks it.                   *)
RegistryConsistent ==
    \A i \in Integrators :
        /\ \A a \in Adapters : adapterIndex[i][a] /= None =>
               /\ adapterIndex[i][a] < Len(adapterInfos[i])
               /\ adapterInfos[i][adapterIndex[i][a] + 1] = a
        /\ \A n \in 1..Len(adapterInfos[i]) : adapterIndex[i][adapterInfos[i][n]] = n - 1

(* Every outbox message is accounted for: the adapters that picked it up  *)
(* and the bits still outstanding partition the send bitmap snapshotted   *)
(* at send_message, whatever was enabled or disabled since; the account   *)
(* is open exactly while some adapter has not picked it up, and there is *)
(* one account per (integrator, sequence).                                 *)
OutboxAccounting ==
    \A s \in sentMsgs :
        LET live   == {m \in outbox : m.src = s.src /\ m.sequence = s.sequence}
            picked == {adapterIndex[s.src][a] :
                         a \in {b \in Adapters : BagIn(<<s.src, s.sequence, b>>, pickups)}}
            rest   == UNION {m.outstandingAdapters : m \in live}
        IN /\ Cardinality(live) <= 1
           /\ picked \cup rest = s.snapshot
           /\ picked \cap rest = {}
           /\ (live = {}) <=> (picked = s.snapshot)

(* Relayers retry pick_up_message and attest_message when they miss the  *)
(* confirmation.  A retry of a pick-up or an attestation that already     *)
(* succeeded must fail (MessageAlreadyPickedUp,                            *)
(* DuplicateMessageAttestation), however many other pick-ups,             *)
(* attestations, enables and disables happened in between: each           *)
(* (message, adapter) pick-up and attestation succeeds at most once.      *)
RetriesRejected ==
    /\ \A t \in BagToSet(pickups) : CopiesIn(t, pickups) = 1
    /\ \A t \in BagToSet(attests) : CopiesIn(t, attests) = 1

(* Replay protection across both delivery paths: a message key is         *)
(* delivered by recv_message or exec_message at most once, and the        *)
(* executed flag records exactly whether it has been.                      *)
DeliveredAtMostOnce ==
    \A key \in Keys :
        /\ deliveries[key] <= 1
        /\ (deliveries[key] = 1) <=> (attestation[key] /= None /\ attestation[key].executed)

(* The attestation ledger only grows: a record, once created, stays; an   *)
(* attested bit is never cleared; executed never returns to false.  A     *)
(* re-initialisation of an existing AttestationInfo would break it.       *)
LedgerMonotonic ==
    [][\A key \in Keys :
         attestation[key] /= None =>
            /\ attestation'[key] /= None
            /\ attestation[key].attestedAdapters \subseteq attestation'[key].attestedAdapters
            /\ attestation[key].executed => attestation'[key].executed]_attestation

(* IntegratorConfig's pair of options read as the spec's tagged states.  *)
GovState(i) ==
    CASE i \notin registered        -> [state |-> "Unregistered"]
      [] pendingAdmin[i] /= None    -> [state |-> "Pending", admin |-> admin[i],
                                        pending |-> pendingAdmin[i]]
      [] admin[i] = None            -> [state |-> "Immutable"]
      [] OTHER                      -> [state |-> "Active", admin |-> admin[i]]

Governance == INSTANCE AdminGovernance WITH
                  gov    <- [i \in Integrators |-> GovState(i)],
                  config <- [i \in Integrators |-> <<adapterInfos[i], chainCfg[i]>>]

(* The Option pair (admin, pending_admin) implements the spec's admin     *)
(* state machine: no step reaches a combination the tagged states rule    *)
(* out (a pending transfer without an admin), admin changes follow         *)
(* register/transfer/claim/update/discard only, Immutable is final, and   *)
(* the registry and chain configs change only while an admin is Active    *)
(* with no transfer pending.                                               *)
AdminRefinement == Governance!Spec

(* Every outbox message is eventually closed (and its rent refunded)     *)
(* once the adapters in its snapshot pick it up, whatever the admin does  *)
(* to the send bitmap or the registry in the meantime.                     *)
OutboxDrains ==
    \A i \in Integrators, s \in 0..MaxSeq :
        (\E m \in sentMsgs : m.src = i /\ m.sequence = s)
            ~> ~\E m \in outbox : m.src = i /\ m.sequence = s

(* The ledger seen through adapter identities: an attested index stands  *)
(* for the adapter registered under it for the message's integrator.       *)
Attesters(key) ==
    IF attestation[key] = None THEN {}
    ELSE {a \in Adapters : adapterIndex[key.dstAddr][a] \in attestation[key].attestedAdapters}

Ledger == INSTANCE DeliveryLedger WITH
              Msgs      <- Keys,
              attesters <- [key \in Keys |-> Attesters(key)],
              executed  <- [key \in Keys |-> attestation[key] /= None
                                             /\ attestation[key].executed],
              delivered <- deliveries

(* The endpoint implements the abstract ledger: every step either leaves  *)
(* the adapters' attestations and deliveries alone or is one attestation  *)
(* by one adapter of one message, or one delivery of an attested message *)
(* not yet delivered.  An index shared by two adapters, an account used   *)
(* for another message, or a replay shows up as a step the ledger lacks.  *)
LedgerRefinement == Ledger!Spec

(* The spec's quorum rule: a message is delivered only if some adapter    *)
(* that attested is receive-enabled for its source chain at delivery.     *)
DeliveredOnlyWithEnabledAttestation ==
    [][\A key \in Keys :
         deliveries'[key] > deliveries[key] =>
            attestation[key] /= None
            /\ attestation[key].attestedAdapters
                 \cap chainCfg[key.dstAddr][key.srcChain].recv /= {}]_vars

=============================================================================
