# TLA+ model of the GMP router endpoint

The repository's only source is `src/sdk/ts/src/idls/endpoint.ts`, the Anchor
IDL of the Solana `endpoint` program: fifteen instructions with their accounts,
constraints (`init`, `init_if_needed`, `has_one`, PDA seeds) and docs, six
account types, and fourteen error codes. The model translates that interface.
Where the IDL does not say what a handler does, `spec.md` fills the gap. The
handler bodies themselves are not in the repository.

## 1. Inventory

### Components and their state

| Component | State (account) | Operations |
|---|---|---|
| Governance | `IntegratorConfig.admin`, `.pending_admin` (both `Option<Pubkey>`) | `register`, `transferAdmin`, `claimAdmin`, `updateAdmin`, `discardAdmin` |
| Adapter registry | `AdapterInfo(integrator, adapter).index: u8`; `IntegratorConfig.adapter_infos: Vec<Pubkey>` | `addAdapter` |
| Chain config | `IntegratorChainConfig(integrator, chain)`: `send_adapter_bitmap`, `recv_adapter_bitmap` (u128) | `enable/disableSendAdapter`, `enable/disableRecvAdapter` |
| Sequence tracker | `SequenceTracker(integrator).sequence: u64` | used by `sendMessage` |
| Outbox | `OutboxMessage` accounts (fresh keypair): src, sequence, dst chain/addr, payload hash, `outstanding_adapters`, refund recipient | `sendMessage`, `pickUpMessage` |
| Attestation ledger | `AttestationInfo` (address = hash of the message tuple): `attested_adapters`, `executed` | `attestMessage`, `recvMessage`, `execMessage` |
| Bitmap | `Bitmap { map: u128 }`, a set of adapter indices 0..127 (only the type and the error are in the IDL) | `BitmapIndexOutOfBounds` |

Not modelled: signer and PDA verification (the Solana runtime does it; the model
takes the caller as an input and keeps only identity comparisons), rent and
lamport refunds, discriminators and seed bytes (encoding), and the TypeScript
type wrapper.

### How they interact

Each instruction is one Solana transaction. It commits all of its writes or
none. Solana serialises transactions that write the same account, so the only
concurrency is the interleaving of whole instructions from different actors:

- the **admin** changes the registry and chain configs;
- the **integrator program** calls `sendMessage`, `recvMessage` and `execMessage`;
- the **adapters' relayers** call `pickUpMessage` and `attestMessage`.

Every operation reads the registry and the chain config. `sendMessage` reads
the send bitmap, takes the next sequence number, and copies the bitmap into a
new outbox account. Later enable or disable calls do not touch that copy.
`attestMessage` reads the receive bitmap of the source chain.
`recvMessage`/`execMessage` read only the attestation account.

### What is hard

The hard parts are orders of instructions that no unit test writes:

- A disable can land between an attestation and its delivery.
- A disable can land between a send and its pick-ups.
- A pending admin transfer can overlap a discard.
- A message can be replayed through the second delivery entry point.
- A relayer can retry a pick-up or an attestation.

There is also a capacity edge: the 129th adapter.
PROJECT.json `hazards` lists each hazard at its line.

### What makes each component correct

- **Registry:** the AdapterInfo indices and the `adapter_infos` vector agree,
  and indices stay in the bitmap's range.
- **Outbox:** pick-ups and the outstanding bits split the snapshot exactly. The
  account closes exactly when the last adapter picks up, and it is eventually
  closed. A retried pick-up or attestation is rejected.
- **Ledger:** records only grow, and each key is delivered at most once across
  both entry points. Delivery needs an attestation by a currently enabled
  adapter (per the spec).
- **Governance:** the `Option` pair `(admin, pending_admin)` behaves as the
  spec's tagged states, a discard is final, and configuration changes only
  while an admin is Active.

## 2. Plan

1. **`Endpoint.tla`** (done): all fifteen instructions over all six account
   types. Bitmaps are sets.
2. **`AdminGovernance.tla`** (done): the admin state machine as the spec's
   tagged states. `Endpoint` refines it through `GovState`.
3. **`DeliveryLedger.tla`** (done): the per-message ledger. `Endpoint` refines
   it, with the attestation account chosen by the caller.
4. Two integrators with symmetry, to check that the per-integrator accounts do
   not interfere (for example, `pickUpMessage` looks up AdapterInfo under
   `outbox.src_addr`).
5. Liveness of delivery under fair relayers and attesters.

## 3. Modules and correspondence

`Endpoint.tla` has one variable per account field:

| Variable | Account field |
|---|---|
| `registered`, `admin`, `pendingAdmin`, `adapterInfos` | IntegratorConfig |
| `adapterIndex` | AdapterInfo (`None` = not initialised) |
| `chainCfg` | IntegratorChainConfig (`None` until the first enable) |
| `sequence` | SequenceTracker |
| `outbox` | live OutboxMessage accounts |
| `attestation` | AttestationInfo |

`sentMsgs`, `pickups`, `attests` and `deliveries` are history variables for the
properties. `pickups` and `attests` are bags that count successful pick-up and
attestation transactions, so a retry that succeeds a second time is visible
even though it leaves the bitmaps as they were.

There is one action per instruction. Its guards are the IDL's constraints and
error codes, in order. A failing guard is an aborted transaction.

- `IsAdmin` is `has_one = admin` plus the rule on `pending_admin` (line 2478):
  while a transfer is pending, no admin-gated instruction is authorised.
- `EnableAdapter` uses `init_if_needed`. `DisableAdapter` requires the chain
  config to exist.
- `ExecMessage` lazily builds an empty record for an unseen key. That record
  always fails the quorum check, so the transaction aborts.
- The `attestation_info` account of `attestMessage`, `recvMessage` and
  `execMessage` has no seeds in the IDL (lines 296, 1190, 1411), so the caller
  chooses it. Each of these actions takes two inputs. `key` is the message
  named by the arguments, and `acct` is the message whose record is passed.
  `MessageHashMatches` is the `InvalidMessageHash` check that ties them
  together.
- `QuorumMet` is `attested_adapters ≠ ∅`. `recvMessage` and `execMessage`
  receive no chain-config account, so this is the only quorum they can
  evaluate (see Findings).

Operators named `...PastCap`, `...WithoutPush`, `...NoDupCheck`, `...NoClose`,
`...IfEnabled`, `...Overwrite`, `...NoReplayCheck` and `...IgnoringPending` are
plausible faults of the action that follows them. The mutation check uses them
to show that each property can fail.

`MCEndpoint.tla` instantiates the model with model values.

### Abstract specifications and refinement

- **`DeliveryLedger.tla`** is the per-message ledger the endpoint promises.
  Its state is the set of adapters that attested each message, an executed
  flag, and a delivery count. `Attest` adds a new attester. `Deliver` needs an
  attester and no earlier delivery. `Endpoint` maps each attested index back
  to its adapter (`Attesters`). `LedgerRefinement` checks `Ledger!Spec`.
  Sharing an index, using an account for the wrong message, or replaying a
  delivery would each be a step the ledger does not allow.
- **`AdminGovernance.tla`** has the tagged states Unregistered, Active,
  Pending and Immutable, and a `Configure` step that is allowed only in
  Active. `GovState` reads `(registered, admin, pendingAdmin)` as one of these
  states. `AdminRefinement` checks `Governance!Spec`, with the registry and
  chain configs as `config`.

## 4. Runs

| Run | Config | Checks | Result |
|---|---|---|---|
| endpoint_safety | `MCEndpoint.cfg` | TypeOK, RegistryConsistent, RetriesRejected, OutboxAccounting, DeliveredAtMostOnce, LedgerMonotonic, AdminRefinement | pass, 345k distinct states, depth 22 |
| ledger_accounts | `MCEndpointLedger.cfg` | LedgerRefinement | pass, 128k distinct states |
| outbox_liveness | `MCEndpointLive.cfg` | OutboxDrains under `FairSpec` | pass |
| quorum_current_recv | `MCEndpointQuorum.cfg` | DeliveredOnlyWithEnabledAttestation | violation (7 steps) |

### Bounds

All runs use the following bounds:

- **1 integrator.**
- **2 admin keys**, so transfer, claim and a wrong claimer can happen.
- **3 adapters for `MaxAdapters = 2` slots**, so `MaxAdaptersReached` is hit
  and the bitmap is full.
- **1 chain.** Send and receive configs are independent per chain, and two
  chains would only multiply states.
- **One inbound message key.**
- **`MaxSeq = 2`** in the safety run, so two messages can be outstanding at
  once and the checked increment aborts a third send. The liveness run uses `MaxSeq = 1`, to keep the
  liveness-graph search short.

`ledger_accounts` uses one admin key, **two payloads** (so that there are two
distinct message keys, and a record can be passed for the wrong message) and
`MaxSeq = 1`.

Every action fires. The cases the properties are about all occur: an
attestation followed by a disable, a send followed by a disable, a transfer
pending while a discard is attempted, both delivery paths on the same key, and a second pick-up or attestation by
the same adapter of the same message.

### Fairness

`FairSpec` adds weak fairness on picking up each `(integrator, sequence,
adapter)` message. The program schedules nothing itself. This fairness is the
assumption that relayers keep polling the outbox, and outbox rent is refunded
only under it. No fairness is assumed for admins, integrators or attestations.

Deadlock checking is off: the program may legitimately reach a state where
no instruction succeeds.

## 5. Findings

- **Quorum uses stale enablement.** `recvMessage` and `execMessage` (IDL lines
  1368 and 1147) have no `IntegratorChainConfig` account. Delivery therefore
  succeeds on an attestation by an adapter that was disabled after it attested.
  spec.md §4.7 requires `attested ∩ current recv bitmap ≠ ∅`. TLC finds the
  7-step trace: register, add adapter, enable recv, attest, disable recv,
  `recvMessage`.

## 6. Not modelled, and why

- **The hash function itself:** an account stands for the message whose tuple
  it stores. Hash collisions are not modelled.
- **Payload hashes and destination addresses of outbound messages:** no
  property distinguishes them.
- **Bit-level bitmap code:** the repository declares only the u128 field and
  the out-of-bounds error, so bitmaps are sets of indices.
- **Sequence wrap-around:** the checked increment is kept as a guard, but no
  property is stated about reaching u64::MAX (2^64 sends).
- **Rent and refunds.**
- **Signature and PDA derivation.**
