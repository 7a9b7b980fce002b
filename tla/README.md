# TLA+ models of redot's validator service

This directory holds TLA+ models of the parts of the redot repository whose
behaviour depends on the order things happen in. TLC configurations check them
on small instances, and TLAPS proofs cover what holds for every instance.

## The system

`src/` holds these parts of redot:

| part | source | what it does |
|---|---|---|
| Validator `Service` | `crates/rc-validator/src/service.rs` | async facade: each method (`rotate_key`, `start_signing`, `setup`, `add_validators`, `remove_validators`) builds a oneshot channel, sends a `Command` carrying the oneshot sender on an mpsc channel, and awaits the reply |
| Validator `Worker` | `crates/rc-validator/src/worker.rs` | one task; `run` subscribes to `dkg_topic` and `sign_topic`, then a `futures::select!` loop takes gossip messages and commands one at a time. RotateKey and Sign start a FROST round and park their sender in `dkg_sender` / `sign_sender`; the round's phase-2 gossip later `take()`s the sender and answers it |
| wiring | `crates/rc-validator/src/lib.rs` | `mpsc::channel(8)` between Service and Worker |
| `AddrCache` | `crates/rc-validator-network/src/discovery.rs` | validator -> multiaddresses, plus a reverse peer id -> validators index |
| `SignedValidatorRecord` | same file | signing and verifying DHT records |
| network `Service` | `crates/rc-validator-network/src/service.rs` | facade over a libp2p network worker; that worker is not in `src/` |
| looper | `redlight/src/looper.rs` | per finalised header: query DAS, sign `(block, hash, available, id, nonce)` via the validator Service, submit to the chain |
| DAS / chain clients, rc-validator-fetch | `redlight/src/das_rpc.rs`, `redoxt/src/lib.rs`, `crates/rc-validator-fetch/src/lib.rs` | request/response I/O |

The FROST engine (`FrostDkg`, in `redot_core_primitives`) and the `Command`
type (`shared.rs`) are not under `src/`. They are modelled from the spec and
marked `spec_modelled` in `PROJECT.json`.

The parts interact like this. The looper calls the Service. The Service queues
commands for the Worker. The Worker drives the engine and publishes engine
output through the network Service. It answers the Service's callers either
at once (Setup, AddValidators, RemoveValidators) or when another validator's
phase-2 gossip completes the round (RotateKey, Sign).

## Modules

### `ValidatorWorker` (core), `MC_ValidatorWorker`

This module models one Worker and a set `Callers` of concurrent Service
callers.

State, and the code each variable stands for:

- `worker`: `init` before `run` has subscribed, then `running`, or `stopped` when `run` returned its error and the Worker was dropped.
- `command_receiver`: the mpsc channel, as a sequence of `[op, caller]` records.
- `dkg_sender`, `sign_sender`: the slots. Each holds a caller or `NoSender`.
- `op`, `reply`: for each caller, the method of its current call and the result that call has received. `"none"` means it is still awaiting. `"canceled"` means the oneshot sender was dropped. `"sendfail"` means the channel was closed. `"busy"` is the "Another sign request is in progress" answer.
- `dkg_round`, `sign_round`: the engine abstracted to whether a round of each protocol is in progress.
- `published`: the set of (topic, payload kind) pairs ever published successfully.

Actions, with the code each one models:

- `Call(c, o)`: a Service method. It models `rotate_key`, `start_signing`, `setup`, `add_validators` and `remove_validators`.
- `Start`: the two `subscribe` calls at the top of `run`. They either succeed, or fail and drop every queued sender.
- `RotateKey`, `Sign`, `Setup`, `AddValidators`, `RemoveValidators`: the arms of `handle_command`. `RotateKey` calls `StartDkg` (`start_dkg`) and `Sign` calls `StartSign` (`start_sign`). Their errors are only logged, exactly as in the code.
- `DkgPart1`, `DkgPart2`, `SignPart1`, `SignPart2`: the arms of `handle_dkg_message` and `handle_sign_message`. They include `handle_send!` (`Answer`) and `serialize_and_publish` (`Publish`, which succeeds or fails).
- Gossip is an unconstrained environment: any phase arrives at any time. An engine phase-2 call outside a round fails; inside a round it completes, stays pending or fails.

Fairness is `WF(Start) /\ WF(HandleCommand)`. `select!` polls its ready branches
in random order, so a ready command cannot be starved by gossip. Gossip comes
from other validators and gets no fairness.

### `ReplyServer` (abstract)

This module states what the Service promises its callers, with no Worker,
engine or channel in it. It has the same `op` and `reply` variables and a
`server` phase. Its actions are:

- `Call`.
- `Run`, and `Stop`, which cancels every pending call.
- `Answer(c, r)`: allowed only while running, only for a pending caller, and only with an answer its operation allows. "busy" is allowed only for Sign. "canceled" is allowed while running only for RotateKey: this is the existing overwrite, which spec section 9 flags as an open question.

`ValidatorWorker` instantiates it with `server <- worker` and
`RefinesReplyServer == RS!Spec`.

### `AddrCache`, `MC_AddrCache`

This module models `AddrCache::new`, `add_validator`, `validator_addresses` and
`addresses_to_peer_ids`. A multiaddress is a model value. `PeerOf` gives the
peer id of its last `/p2p` component, or `NoPeer`. The history variable `seen`
records every peer id ever derived for each validator. It is not program state;
it is there to state what the reverse map contains.

### `SignedValidatorRecord`, `MC_SignedValidatorRecord`

This module models `sign_record` and `verify_signature` (discovery.rs:61-110).

Signatures are abstract. The signature of key `k` over message `m` is the
record `Sig(k, m) = [signer |-> k, msg |-> m]`, which only a holder of `k` can
make. The signed message is `Message(record)`, the flattened segments (lines
67 and 90-91). An `auth_signature` that does not decode is the model value
`Malformed`.

State and actions:

- `sign_record` is one step per await-free stage of the code.
  - `SignRecord` enumerates the keystore once (line 85): `keys` is any ordering of it.
  - `SignNextKey` is one loop iteration. If the key has vanished from the keystore, or the keystore fails, `?` returns Err and drops the records signed so far.
  - `SignDone` returns `Ok`, and the caller puts the records into the DHT.
- The rest of the node may add and remove keys at any time (`AddKey`, `RemoveKey`, spec_modelled).
- `VerifySignature` is a peer checking a record it was handed. The record is one from the DHT, or one a faulty peer built. A faulty peer builds records from its own keys (`FaultyKeys`) and from the signatures it has seen, and may use any `validator_id` and any payload. A `Malformed` signature panics the verifying task (the `expect` at line 63).

`key()` is a hash and is left out.

### `NetworkService`, `NetworkReplyServer`, `MC_NetworkService`

This module models the validator network `Service` (rc-validator-network/src/service.rs).

- Each method clones the mpsc sender and sends one command (`SendCommand`).
  - A fresh clone always has a slot, so the send fails only when the Worker's receiver is gone. The caller's `reply` is then "sendfail".
  - `MaxQueue` only bounds the state space.
- The five replying methods (`Request`) then await their oneshot.
- `new_validators` and `remove_validators` (`Notify`) return `Ok` at once.

The network Worker is not under `src/`, so it is modelled from the spec
(spec_modelled):

- `HandleCommand` takes commands in order. It answers a request with ok or err, and applies a notification with no answer.
- `End` drops the receiver. With it go the queued commands and their oneshot senders, whose callers get "recvfail".

The history variable `lost` records that a notification was dropped after its
caller had been told `Ok`.

`NetworkReplyServer` is the abstract specification: what a caller of the
network Service can observe, with no channel and no Worker in it. A request
waits for exactly one answer, ok or err; a notification returns Ok at once; a
call made after the end fails at once; and the end fails every waiting call.
`NetworkService` instantiates it with `server <- net`.

### `Looper`, `MC_Looper`

This module models `finalized_headers` (redlight/src/looper.rs) composed with
`ValidatorWorker`. It `EXTENDS` the Worker module. The looper is the
Service's only caller (`Callers = {Looper}`). It makes its calls through the
Worker's `Call` and reads `reply[Looper]`.

The actions follow the task's await points:

- `Subscribe`.
- `RotateKeyCall`, then `KeyReturned` (the unwrap, and `new_key`).
- `NextHeader`: one loop turn. The DAS and chain answers are nondeterministic outcomes.
- `SignCall`, then `SignatureReturned` (the unwrap, `submit_metadata` and `nonce += 1`).

`MaxHeaders` bounds the header stream. The Worker keeps its fairness, and the
looper task runs whenever it is not awaiting. Deadlock checking is off: once
`run()` has failed and the looper has returned, nothing is left to run.

## Properties and runs

| run | cfg | result | what it shows |
|---|---|---|---|
| vw_safety | `ValidatorWorker.cfg` | pass (222k states, 75 s) | 3 callers under caller symmetry, all commands and gossip outcomes; also checks that `ValidatorWorker` implements `ReplyServer` |
| vw_liveness | `ValidatorWorkerLive.cfg` | pass (53k states) | 2 callers, no symmetry (liveness) |
| addrcache | `AddrCache.cfg` | pass | 2 validators, 4 addresses (one without a peer id, two sharing one), 2 peer ids |
| looper | `Looper.cfg` | pass (8k states) | looper + Worker, 3 headers: two full sign/submit cycles and a third start |
| svr_safety | `SignedValidatorRecord.cfg` | pass (109k states, 11 s) | 2 honest keys, 1 faulty key, 2 payloads with the same bytes cut differently, key symmetry |
| net_safety | `NetworkService.cfg` | pass (3.3k states) | 2 callers, queue bound 3, all seven methods, Worker answering or ending; no symmetry (liveness); also checks the refinement of `NetworkReplyServer` |
| vw_rotate_key_dropped | `VW_NoRequestDropped.cfg` | violation | finding 1 |
| vw_sign_slot_without_round | `VW_SignSlotBackedByRound.cfg` | violation | finding 2 |
| vw_dkg_publishes_null | `VW_DkgPublishesDecodable.cfg` | violation | finding 3 |
| svr_resegmented | `SVR_AcceptedWasPublished.cfg` | violation | finding 4 |
| svr_malformed_panics | `SVR_VerifyNeverAborts.cfg` | violation | finding 5 |
| net_silent_drop | `NS_NoSilentDrop.cfg` | violation | finding 6 |

What the properties say:

- **SlotOwnership**: every waiting call is held in exactly one place the Worker answers from. That place is the channel (once) or the slot of its own kind. A slot only holds a caller still waiting on that operation. A reply sent to the wrong sender breaks it, and so does a slot that keeps an answered caller.
- **NoSignRequestDropped**: a `start_signing` caller is dropped unanswered only after `run` ended. This rests on the busy check at worker.rs:112.
- **RequestEventuallyTaken** (liveness): every call is eventually answered or parked.
- **LooperNeverBusyOrDropped**: while the Worker runs, the looper never gets "busy" or a canceled channel. It calls `start_signing` again only after `take()` emptied `sign_sender`. So its `unwrap`s fail only on protocol errors.
- **RefinesReplyServer**: the detailed Worker and Service implement the abstract reply server.
- **RefinesNetworkReplyServer**: the network Service with its Worker implements `NetworkReplyServer`. Each oneshot answer goes to a caller awaiting that call, a send fails only after the Worker has ended, and the Worker's end fails exactly the calls still awaiting. Notifications are invisible to the abstract server, so the silent drop (finding 6) is not excluded by it.
- **ReverseIndexIsHistory**: a validator is in `peer_id_to_authority_ids[p]` iff `p` was ever derived from an address set it was given.
- **SignedRecordsComplete**: an `Ok` from `sign_record` holds one record per enumerated key, in order. Each record is over the payload and passes verification. This holds even when keys are rotated while the call runs.
- **AcceptedIsAuthentic**: a record that verifies for an honest key has the message (the concatenated bytes) of a record that key published, whatever faulty peers send.
- **CallReturns** (liveness): every awaiting call of the network Service returns. It gets the Worker's answer, or a receive error when the Worker ends. The fairness is weak fairness of the Worker's step: the Worker is a task the executor polls while it has input. Deadlock is checked: a caller can always call again, and after the Worker ends its send fails.

Two payloads whose bytes are equal but cut differently (`<<1>>,<<2>>` and
`<<1,2>>`) are what it takes for re-segmentation to show. Two honest keys let
one key vanish while the other has already signed. In the network Service, 2
callers and a queue of 3 let a request and a notification be queued together
when the Worker ends.

Bounds: 3 callers are enough for every slot conflict. One caller is parked, a
second Sign is busy, and a third is queued behind them. Two concurrent
RotateKeys already show the overwrite. Rounds are flags, so what matters is the
order of gossip steps, not how many there are. Every action and every disjunct
fires in the passing runs.

Each property of a passing run has a mutant in `PROJECT.json`: a faulty variant
defined in the module (`SignBusyToParked`, `SignNoBusyCheck`, `SignRequeueBusy`,
`SignPart2NoTake`, `StartSignWrongTopic`, `AddressesToPeerIdsUnfiltered`,
`AddValidatorOldAfterInsert`, `SignNextKeyFirstSegment`, `VerifySignatureAnySigner`,
`NotifyIgnoringSendError`, `EndKeepingQueue`). TLC finds each one's property violated.

## Findings

1. worker.rs:109: a second `rotate_key` while one is pending overwrites
   `dkg_sender`. The first caller is silently dropped ("Failed to receive
   response from worker"). The spec says commands are always answered.
2. worker.rs:120: `start_sign` only logs an engine error, and the sender is
   parked anyway. The caller waits on a round that does not exist, and every
   later Sign gets "busy". The spec says errors reach the request's channel.
   A failed publish after a successful engine call is logged the same way. It
   leaves the round active, so `SignSlotBackedByRound` does not flag it.
3. worker.rs:167: `dkg_part2` returning `Ok(None)` publishes the serialisation
   of `None` (`null`) on the DKG topic.
4. discovery.rs:67 and 91: the signature covers only the concatenation of the
   segments. A peer can re-cut a published record's segments, and
   `verify_signature` accepts the result. The spec says a record that
   verifies is the one the validator published (spec gap).
5. discovery.rs:63: `verify_signature` panics on an undecodable signature,
   and that signature comes from a remote peer. Its doc comment promises
   true or false, and the spec says invalid records are rejected.
6. network service.rs:104 and 116: `new_validators` and `remove_validators`
   return `Ok` once the command is queued. If the Worker ends before it takes
   the command, the command is dropped and nobody is told. The spec says
   commands are never silently dropped.

## Proofs (TLAPS)

`ValidatorWorkerProofs` proves these, for every finite set of callers
(`CallersAssumption`: `Callers` is finite and does not contain `NoSender`):

- `TypeCorrect`: `Spec => []TypeOK`.
- `SlotOwnershipHolds`: `Spec => []SlotOwnership`.
- `NoSignRequestDroppedHolds`: `Spec => []NoSignRequestDropped`.

The inductive invariant is `TypeOK /\ SlotOwnership /\ StartedBeforeParking`.
`SlotOwnership` alone is not inductive: when `Start` fails it empties the
channel, and that step only preserves the invariant if no sender is parked
before `run` subscribes. TLC checked this strengthening as an invariant before
it was proved.

There is one lemma per action, and one step per conjunct the action disturbs.
Shared lemmas cover the rest:

- `TailQueue` and `AppendQueue`: the sequence facts.
- `TakeHead`: taking the head command.
- `ReleaseSlot`: answering a slot and emptying it.
- `AnswerFacts`.

`NoSignRequestDropped` follows from `CancelStep`. That lemma says only
RotateKey's displaced sender or a stopped Worker is ever canceled, and the
displaced sender is a RotateKey caller by `SlotOwnership`. It also uses
`StoppedForever`.

`AddrCacheProofs` proves `TypeCorrect` and `ReverseIndex`
(`Spec => []ReverseIndexIsHistory`) for all constants satisfying
`PeerOfAssumption`. The strengthening `CurrentInHistory` says the current peer
ids are in the history. It is needed because `add_validator` skips the peer ids
it finds in the old set.

`RefinementProofs` proves `Refinement` (`Spec => RefinesReplyServer`) for
every set of callers:

- `InitRefines`: the initial state maps to the abstract initial state.
- `StepRefines`: under `IInv`, every step maps to an abstract step or a stutter.
  - `Call` maps to `Call`, and `Start` maps to `Run` or `Stop`.
  - Every `handle_send!` and every direct reply in `handle_command` maps to `Answer`. `IInv` supplies `Answer`'s guard: a slot or the head of the channel holds a waiting caller of the right operation.
  - For `Stop` to match `Start`'s failure, `SlotOwnership` and `StartedBeforeParking` show that the queued callers are exactly the pending ones.

`LooperProofs` proves `LooperNeverBusyOrDroppedHolds`
(`LSpec => []LooperNeverBusyOrDropped`) for every `MaxHeaders`.

- Every step of the composition is a Worker step or leaves the Worker alone (`LNextIsNext`), so the Worker's `IInv` carries over (`LooperIInv`).
- With a single caller, the command at the head of the channel is the looper's, and `SlotOwnership` says a parked caller is not queued. So both slots are empty whenever the looper's command is handled (`SlotsEmptyAtHead`).
- Hence the busy branch never fires and `RotateKey` displaces nobody (`SingleCallerStep`).

It also proves `LooperRefinement` (`LSpec => RefinesReplyServer`): the Worker
driven by the looper still implements `ReplyServer`. This follows from
`LNextIsNext` and the Worker's own `StepRefines`. TLC checks the refinement
only for the Worker with three arbitrary callers (vw_safety); the theorem
carries it over to the composition.

`SignedValidatorRecordProofs` proves these, for every finite set of honest
keys, any faulty keys disjoint from them, and any payloads (`KeysAssumption`):

- `SignedRecordsCompleteHolds`: `Spec => []SignedRecordsComplete`.
- `AcceptedIsAuthenticHolds`: `Spec => []AcceptedIsAuthentic`.
- `TypeCorrect`: `Spec => []TypeOK`.

The inductive invariant adds three facts:

- `SignedPrefix`: the records pushed so far are those of the first enumerated keys.
- `ReturnedAll`: an Ok returned them all.
- `DhtValid`: every DHT record is valid and of an honest key.

`DhtValid` is the one that matters. Faulty peers hold no honest key, so a
forged record that verifies for an honest key carries a signature seen in the
DHT, and that signature's message is the published record's message.
`Message` is never expanded, so the argument holds for any encoding.

`NetworkServiceProofs` proves `TypeCorrect` and `Refinement` (below) for
every set of callers and queue bound. Both rest on one inductive invariant.
Its core is `AwaitedCommandQueued`: a caller awaiting a reply has its command
queued before a running Worker. In the code this holds by construction,
because a failed send drops the oneshot sender with the command. So it is a
lemma of the proof, not a property a run checks. It is not inductive alone,
and the strengthening adds two facts:

- `QueuedRequests`: a queued request belongs to a caller awaiting that very operation, and there is at most one per caller. Without it, `HandleCommand` could answer a command whose caller has moved on.
- `EndedEmpty`: the queue is empty once the Worker has ended.

It also proves `Refinement` (`Spec => RefinesNetworkReplyServer`): the
Service with its Worker implements `NetworkReplyServer` under the mapping
`server <- net`. Each step maps as follows:

- A send maps to the abstract `Call`, whose result is `CallResult`.
- The Worker answering the head request maps to `Answer`. `QueuedRequests` supplies `Answer`'s guard: the caller is pending on exactly that request.
- A notification being applied maps to a stutter.
- `End` maps to `Stop`. `AwaitedCommandQueued` and `QueuedRequests` together say that the callers whose requests are queued are exactly the pending ones.

While writing this proof, the abstract `CallResult` was first written as a
CASE with overlapping guards. Such a CASE has no defined value when the server
has ended and the call is a request, so it is written with IF/ELSE instead.

Every safety property and action property of a passing run is proved.

Two properties were removed after review, because they held whatever the
code did:

- `OutcomeFromOwnRound`: its cross-slot half is already enforced by the variant pattern of `handle_send!` (worker.rs:36).
- `AwaitedCommandQueued` as a checked property: see above.

The hazard they were listed against (worker.rs:165, a stale round's result
answering a newer request) needs round identities. The single-node model does
not have them.
Only TLC checks the two liveness properties (`RequestEventuallyTaken`,
`CallReturns`). Their proofs would need fairness and ENABLED reasoning, which
the installed TLAPS backends do not support.

## Not modelled, and the plan

Next, in this order:

1. **Multi-node gossip** (`ValidatorNetwork`): several Workers whose published
   payloads are delivered to the others through a message pool that loses,
   duplicates and reorders, with round tags. Questions:
   - the SignPart1 echo (worker.rs:201);
   - a stale or duplicated part2 answering the wrong request (worker.rs:165, 173, 213);
   - whether a DKG completes end to end.
2. **Looper with more callers**: if other node code also called
   `start_signing`, the looper could meet "busy" and panic. Checking that
   needs a second, unconstrained caller beside the looper.
3. `SignedValidatorRecord` and the network `Service` are modelled. The
   network Worker behind the Service is modelled from the spec only.
   The RPC clients (redoxt, das_rpc) and rc-validator-fetch stay out of
   scope. They are request/response I/O with no state of their own, and
   rc-validator-fetch declares a module whose file is absent.
