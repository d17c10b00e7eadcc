# Verification of the PQ-over-BLE handshake

A Central (a Python program on Windows, `src/src/`) and a Peripheral (Zephyr
firmware for an nRF board, `src/firmware/src/`) agree on application keys over
Bluetooth LE: an SMP pairing at Security Mode 1 Level 4 with a Numeric Comparison,
an ML-KEM-768 handshake inside that link, and, in the later profiles, a resumption
that skips ML-KEM for a limited time. This directory holds TLA+ modules of the
parts in which order, failure and time matter, TLC configurations that check them
on small instances, and TLAPS proofs, for every size of every constant, of the
resumption service, the security gate, the v1 handshake, the sessions of the default
build, and the three systems in which the Peripheral is composed with its Central:
the default build, profile v1.0 and profile v1.1.

Paths below are relative to the repository's root as in `PROJECT.json`, where
`map` gives the source lines each definition stands for.

## 1. Inventory

| Component | State it keeps | Operations | Talks to |
|---|---|---|---|
| Resumption core, `firmware/src/pq_resume.c` | ticket (root, owner, age, successes, replay cache), session (state, keys, deadline) | issue, eligible, accept, finish, commit, clear, prune | called under the service's mutex |
| Resumption service, `pq_resume_service.c` | `owner`, `bond_at_connect`, `rx_c2p`, `tx_p2c`, `hybrid_pending`, `expiry_work` | INIT, FINISH_C, APP, full issue, connected, disconnected, abort, bond changed, expiry | main.c, crypto worker, host, system work queue |
| Security gate, `pq_v1_security.c` | tracked and pending connection, generations, `sec_state`, `nc_accepted`, `buttons_armed`, timeout | host callbacks, button scan, arming, timeout, bond erasure | Bluetooth host, buttons, main.c |
| Protocol handlers, `main.c` | current connection, ciphertext transfer, CP2 and CP3 state, epochs, timeout | connect, disconnect, subscribe, ciphertext and control writes, result callbacks | all of the above |
| Crypto worker, `mlkem_session.c` | one job slot, epochs, session secrets and counters | submit, take, compute, store, deliver, commit, invalidate | main.c's result callbacks |
| Central resumption, `src/central/resumption.py` | the run's ticket, keys, sequence number | run_session, _exchange, full fallback | link, ticket store |
| Ticket store, `src/common/resume_store.py` | one file | load, save, delete | Central |
| Central flows v1.0, `src/central/v1_*.py`, `CentralHandshake` and `CentralApplication` of `src/common` | handshake state, counters, the link they belong to, queue of notifications | pairing, probes, CP1 to CP4, negative tests, report | WinRT pairing, BLE client |
| WinRT pairing, `src/central/winrt_pairing.py` | the ceremony: event, deferral, decision task | PairAsync, handler, decision, stop | Windows, operator |
| BLE client, `src/central/ble_client.py` | the current link and the sessions it owns | connect, reconnect, write, subscribe, disconnect | link |
| Default build (Phases 2 to 7): handlers of `main.c`, jobs of `mlkem_session.c`, `pq_secure_channel.c`, `pq_phase5.c` to `pq_phase7.c` | phases of v0.5/v0.6 and of v0.7, retained keys, sequence numbers | START, START3, START5, START7, START7_AUTH, FINISHED_C, DATA_REQUEST, encrypted writes | Bluetooth host, crypto worker |
| Central flows of Phases 2 to 7, `src/central/phase*.py`, `mlkem_e2e.py`, `src/common/session.py` | one session each: SAS, keys, two channels with counters, queue of notifications | handshake, SAS decision, rounds, test modes, cleanup, exit status | link |
| Codecs, key schedules, ML-KEM, CLI | none that outlives a call | | |

What is hard here, and what makes each part correct:

* **Resumption service.** GATT callbacks, the crypto worker's issue, bond callbacks
  and the expiry work item contend for one mutex, and a notification may fail after
  keys were derived. Correct when a key is never derived twice, no AES-GCM nonce
  repeats, the use count belongs to the right ticket, a revoked or expired ticket
  is gone for good, and expiry needs no connection.
* **Security gate.** The operator's press is polled on the work queue while host
  callbacks replace the connection. Correct when the gate opens only for a link
  whose own challenge was accepted, and no comparison pends for ever.
* **Handlers and worker.** A result is delivered in several lock sections, between
  which the link can go, be replaced, lose L4 or time out. Correct when no stale
  result stores secrets, wipes another connection's transfer, or repeats a nonce,
  and when no handshake waits for a job that no longer exists.
* **Phases 2 to 7.** Three authenticated protocols share one job slot, one transfer
  and one pair of phases, and a Central may mix their commands. Correct when keys
  belong to the connection that is up, an IDLE phase retains none, v0.7 keys become
  active only after FINISHED_P was queued, no sequence number repeats, K_app is used
  in one way only, and no phase or transfer stays busy.
* **Central flows.** A coroutine awaits notifications that may be late, doubled,
  missing or meant for an earlier request, while the link can go at every await.
  Correct when an undisturbed process passes whatever the one before it left behind,
  exit status zero is earned, no answer of another session is taken, keys follow only
  a confirmed SAS or an accepted Numeric Comparison, and every process ends.
* **WinRT pairing.** Windows calls back on its own thread, also twice or late, and
  the time limit races the operator. Correct when a ceremony that is over holds no
  deferral and accepts nothing.
* **Resumption, Central and Peripheral together.** Either side can lose its ticket, its bond or
  the last confirmation. Correct when both ends that reach APP_SECURE agree, the
  Central never counts a use the Peripheral did not, and an undisturbed run always
  recovers through a full handshake.

`PROJECT.json` lists each hazard at its line with the properties that cover it.

## 2. Modules

| Module | Models | Uses |
|---|---|---|
| `ResumePolicy` | what resumption promises, with no mutex, timer or frame | |
| `ResumePeripheral` | `pq_resume.c` and `pq_resume_service.c`, builds v0.8 and v1.1 | refines `ResumePolicy` |
| `MCResumePeripheral` | symmetry for TLC | `ResumePeripheral` |
| `ResumePeripheralProofs` | theorems: types, keys and nonces | `ResumePeripheral`, TLAPS |
| `ResumeLimitProofs` | theorems: use limit, revocation, bonded link, expiry; `ResumePeripheral` implements `ResumePolicy` | `ResumePeripheralProofs` |
| `ResumeSystem` | Central, ticket file, BLE link, dispatch of main.c, profile v1.1 | extends `ResumePeripheral` |
| `ResumeSystemProofs` | theorems about the composed system of profile v1.1 | `ResumeSystem`, `ResumeLimitProofs` |
| `V1Security` | `pq_v1_security.c` | |
| `V1SecurityProofs` | theorems | `V1Security`, TLAPS |
| `V1Handshake` | v1.0 handlers of `main.c`, v1 jobs of `mlkem_session.c` | |
| `V1HandshakeProofs` | theorems | `V1Handshake`, TLAPS |
| `V1Pairing` | `winrt_pairing.py`, with Windows as its environment | |
| `V1Central` | CP1 to CP4 and the negative tests of the Central of profile v1.0 | composes `V1Handshake` and `V1Pairing` |
| `V1CentralProofs` | theorems about the composed system | `V1Central`, `V1HandshakeProofs` |
| `V07Session` | handlers of `main.c` and jobs of `mlkem_session.c` in the default build, Phases 2 to 7 | |
| `V07SessionProofs` | theorems | `V07Session`, TLAPS |
| `CentralClient` | BLE client, channels and shared steps of the Central's flows | extends `V07Session` |
| `CentralOneShot` | flows of Phase 2, Phase 3 and the Phase 7 diagnostic | extends `CentralClient` |
| `CentralPhase5`, `CentralPhase6`, `CentralPhase7` | the flows of Phases 5, 6 and 7 with their test modes | extend `CentralClient` |
| `V07Central` | the commands and their exit status, the link and its disturbances | composes the flows with `V07Session` |
| `V07CentralProofs` | theorems about the composed default build | `V07Central`, `V07SessionProofs` |

**ResumePeripheral.** `ticket` and `session` are the two structs; the other
variables carry the C names or the comment beside them. `InitTaken` and
`InitRejected` are the two ends of the INIT handler, `FinishAnswered`,
`FinishRejected` and `Commit` those of FINISH_C, `AppAnswered` and `ControlDenied`
the application handler, `FullIssued` and `FullRefused` the issue from a full
handshake, `TakeHybrid` the v0.8 hand-over, and `Connected`, `Disconnected`,
`Abort`, `BondChanged`, `Expire` the remaining entry points. FINISH_C is two actions
because FINISH_P is notified between them; `resume_lock` is held across both, which
`pc` and `Unlocked` say. `derived`, `sealed` and `revoked` are history.

**ResumeSystem.** The Central is `central.pc` and `central.step`; a GATT write
waits for its ATT response while notifications may overtake it. The Peripheral's
steps are `ResumePeripheral`'s actions with the frame the Central wrote as their
argument. Disturbances (lost link, crash, reboot, erased bond, unpairing, a slow
peer, a failed issue) are counted by `faults`; a run in which one happens is not `clean`.

**V1Security.** Host callbacks are atomic because the host's thread runs them one
at a time and each takes `state_lock` once or changes nothing in between; a work
item is one action per `state_lock` section, with `worker` as its program counter.

**V1Handshake.** Each `protocol_lock` or `session_lock` section is one action. `w`
is the worker's program counter and what it read before it unlocked. Epochs only
grow and are only compared, so a job carries `fresh`, which `Retired` clears where
the code increments the epoch.

**V07Session.** `p5` and `p7` are `phase5_state` and `phase7_state`; `s5`, `s6` and
`s7` are what the session retains for v0.5, v0.6 and v0.7, with `root` naming the
START its secrets come from. The host's callbacks are one `protocol_lock` section
each; the connection and CCC callbacks then reset the session after they released
it, and `resets` holds the resets still owed. `Start`, `Phase5FinishedC`,
`Phase5Data`, `Phase7FinishedC` and `WriteSecureData` submit jobs. The worker takes
a job (`TakeJob`), computes and stores in one step per `session_lock` section
(`Start5` to `Data7`), frees the slot (`JobDone`) and delivers: `Result` is the first
section of `mlkem_result_ready`, `Notify` the unlocked notification, and `Wait7`,
`Commit7`, `Auth7`, `Fail7`, `Fail5` and `WorkerResets` the sections after it.

**V07Central and the flow modules.** `c.pc` is where the coroutine of the one Central
process waits, named after what it waits for; `inbox` is its `asyncio.Queue`. A write
is the Peripheral's handler of `V07Session` with the Central's own frame as its
argument, so a refused write is what that handler refuses. A test mode (`c.neg`)
branches where the code does. `c.root` is the secret of the START the process sent, and
`c.tx`, `c.rx` the counters of its two channels. Each flow ends in `cleanup`, with a
verdict; the finally block, the disconnection and the exit status follow.

**V1Central.** The same shape for profile v1.0. A process inspects the Windows bond,
may unpair, probes the closed gate, pairs through `V1Pairing`, and runs the exchange
of its checkpoint on the link it took. `Same` is `require_same_link` and
`require_live`; `c.hs` is `CentralHandshake.state`. The gate of `V1Security` is two
actions here: it opens with a successful pairing or with the first protected access
of a bond both sides hold, and may be lost. Either side may lose its bond alone
(`--v1-unpair-first`, BUTTON 3), which leaves the other stale.

**V1Pairing.** `cer` is the `_Ceremony` object, each of its methods one action because
it holds the object's lock; `os` is the native operation. `stop` and the return or the
time limit of PairAsync are one step of the event loop. Where `handler` or `_decide`
catches an exception (a PIN that is not six digits; accept, get_deferral, complete or
the confirm callback failing) the action has a parameter `raises`; the operator's
`answer` is `none` when confirm failed or was cancelled. `late` records an accept after
the operation was over; the checks of `active` and the cancellation in `stop` exclude it.

**Disturbances.** A lost link, a Peripheral that is not found or not found again, a
failed write or computation, an exception of the ceremony, an answer past its limit, a notification that could not be queued or that nobody asked for, a lost
security level, an operator or Windows answering other than the run calls for: each
raises `faults`, bounded by `MaxFaults`. A process is undisturbed (`c.base = faults`)
if it connected to a Peripheral at rest and none happened since.

### Abstractions

* Cryptography is symbolic: a key is the tuple its KDF reads and a MAC verifies
  exactly under the key it was made with. Each full handshake yields a new root,
  since the Central encapsulates anew every time (`resumption.py`, line 163).
* Time is kept as the differences the code computes (age, remaining delay), which
  makes the state finite. k_uptime_get is monotonic within a boot.
* A connection is named by its generation. The build allows one connection
  (Zephyr's default for `CONFIG_BT_MAX_CONN`, which no configuration here changes);
  the refusal of a second is a no-op.
* Malformed frames are refused inputs. Formatting, logging and layout are left out.
* SMP, the host's bond storage, the OS pairing dialog and the link are external,
  and modelled as any outcome the code can be handed.

## 3. Runs

| Run | Question | States | Result |
|---|---|---|---|
| `resume_v11` | v1.1 against any peer: `ResumedOnBondedLink`, `RevokedGone`, `ExpiryArmed`, `NextNonceUnused`, `KeysNeverRederived`, `TypeOK` | 437,301 | hold |
| `resume_limits` | one ticket to its use limit and a full replay cache: `UsesBounded`, `KeyInv`, refinement of the policy | 18,504 | hold |
| `resume_v08` | the v0.8 build over several full handshakes: `PendingHasTicket`, `TicketExpires`, `PendingResolves` | 27,201 | hold |
| `resume_system` | three runs and two faults: `SystemInv`, `BothSecureAgree`, `CleanRunSucceeds`, `RunEnds` | 645,394 | hold |
| `v1_security` | every interleaving of callbacks, scans and timeouts: `SecurityInv`, `AcceptedWasShown`, `FailedSticks` | 4,788,160 | hold |
| `v1_security_live` | `PendingEnds` | 902,884 | holds |
| `v1_handshake` | handlers, worker, timeout: `HandshakeInv`, `DrainWipesNothing`, `NextPongFresh`, `HandshakeSettles`, `SlotGivenBack` | 335,918 | hold |
| `v1_central` | two processes of profile v1.0, any checkpoint or negative test: `V1CentralInv`, `V1UndisturbedPasses`, `PassIsEarned`, `CeremonyClean`, `ProcessEnds` | 795,521 | hold |
| `v07_session` | any mix of commands over two connections: `SessionInv`, `TransferOwned`, `SentOnce`, `ConfirmedFirst`, `PhaseEnds` | 373,874 | hold |
| `v07_central` | two processes of Phases 2 to 7, any flow and test mode: `CentralInv`, `UndisturbedRunPasses`, `ZeroIsEarned`, `OwnAnswers`, `RunEnds` | 282,578 | hold |
| `v07_phases` | `DocumentedPhases`, the state machine the v0.7 milestone documents | | violated |
| `v07_race` | `TrafficFollowsFinished`, the traffic the v0.7 milestone promises after FINISHED | | violated |

`TypeOK` is the type invariant of `ResumePeripheral`. In the other modules the
invariant named `...Inv` is the conjunction of the types with the module's relations
between pieces of state, each a definition of its own:

* `SystemInv`: the Central never counts a use the Peripheral did not (`CountNeverAhead`).
* `SecurityInv`: on a link that was paired rather than restored the gate is open only
  after the operator accepted this link's challenge (`GateVouched`), and a pending
  comparison can still be taken (`PendingTakeable`).
* `HandshakeInv`: no secrets without a handshake (`NoOrphanKeys`), keys are those of
  the link that is up (`KeysOfThisLink`), a busy handshake has a job (`BusyHasJob`).
* `SessionInv`: material belongs to the connection (`MaterialOfThisLink`), and an idle
  phase retains none (`IdleHoldsNothing`).
* `CentralInv`: the two data planes stay in step (`PlanesInStep`), and keys become
  active only for a SAS the user confirmed (`UserVouched`).
* `V1CentralInv`: two ends in APP_SECURE on one link have its keys and consistent
  counters (`EndsAgree`), and a link that began without a bond carries an exchange
  only after this ceremony's explicit acceptance (`Consented`).

**What zero means in a negative test.** `phase5_auth.py` (line 296) takes the absence
of FINISHED_P for the refusal, so a link lost at that moment passes the test as well.
`ZeroIsEarned` does not forbid it; it says what zero still means then: the Peripheral
authenticated nothing under the tampered exchange.

**A second PING too soon.** `V1UndisturbedPasses` has one exception, `c.early`:
`v1_cp4_result_ready` queues the PONG and clears `v1_cp3_delivery_active` in a later
lock section. A Central that answers at once with its second PING finds the delivery
still active (`main.c`, line 1254), and `handle_v1_cp4` fails the session. It fails
closed; the run has to be repeated. `c.early` is set only by that refusal.

**The violated run `v07_phases`.** The v0.7 milestone (`docs/research/milestones/`,
`v0.7-authenticated-hybrid-secure-channel.md`, lines 405 to 411) lists the phases in
order. In the default build `mlkem_result_ready` queues READY7_AUTH without a lock
and then sets WAIT_FINISHED_C if the connection is still the same (`main.c`, line
2394). A subscription dropped in between has set IDLE and erased the keys, and the
phase then goes from IDLE to WAIT_FINISHED_C; AUTHENTICATED after the commit and
after a data job behaves alike. `SessionInv` shows that
no key survives, so this fails closed: commands are refused for want of material and
a new START is refused until the subscription is dropped again or the link ends. The
v0.8 build delivers under `protocol_lock` and does not have this window.

**The violated run `v07_race`.** The same milestone says (lines 582 to 584) that after
SAS and FINISHED the traffic with seq=0, 1 and 2 succeeds. `mlkem_result_ready` queues
FINISHED_P, promotes the traffic keys and then sets AUTHENTICATED (`main.c`, from line
2409). A Central that has verified FINISHED_P writes its first frame at once; if it
arrives in between, the Peripheral refuses it and the Central's run fails, with
nothing lost or tampered with. The counterexample has no disturbance. In `v07_central`
the flag `c.early` marks such a run, and `UndisturbedRunPasses` holds for all others.
The v0.8 build delivers under the lock.

**Bounds.** Two peers tell the ticket's owner from a stranger. Two or three session
ids and nonces are enough to replay one and offer a new one, and to overfill a replay
cache of two. `MAX_USES = 2` makes one use count and the next exhaust the ticket.
`TTL > PENDING` lets a ticket outlive an offer and an offer be cut short by its
ticket. `MaxFull = 2` allows a ticket to be replaced. `SEQ_MAX` of 1 to 3 lets the
64-bit counters reach their last value. Three Central runs are needed for issue,
drift and recovery; two faults put one on each side. `MAX_GEN = 4` in V1Security is
two full connections and their end, so that a timeout of the first can meet the second
(`v1_security_live` has one connection); `MAX_GEN = 6` in V1Handshake is three, the old
one whose job drains, its replacement, and one more; `MAX_GEN = 3` in V07Session is
two, the second of which may stay up. Its `MaxStarts = 2` lets a second handshake
meet the remains of the first, and `LABELS = 1` gives two answered frames and one
whose label is refused; the code's limit is 9. In `v07_central` and
`v1_central` two processes let the second meet whatever the first left, one
disturbance strikes at any step of either, and `MAX_GEN` covers every link two
processes can make, reconnections included. `Rounds = 3` is the code's number for
Phases 6 and 7, two for CP4. `Peers`, `Sids`,
`Nonces` and `PNonces` are symmetric in `ResumePeripheral`, which only compares
them; the liveness runs use no symmetry.

**Deadlock** is checked except in `v1_handshake`, whose generation bound
ends a behaviour: after the last disconnection there is nothing left to do.

**Fairness.** `ResumePeripheral`: time passes and a queued expiry item runs.
`V1Security`, `V1Handshake` and `V07Session`: the work queue and the crypto worker, Zephyr
threads that nothing suspends for ever, proceed, time passes, and the host delivers
the security callback it owes and finishes the callback it is in. `ResumeSystem`: the asyncio program and the firmware
take their next step. `V07Central`
and `V1Central`: the event loop takes its next step, its time limits expire (a wait
ends when the answer is there or can no longer come), and the Peripheral's threads go
on. No operator is assumed to answer: Phases 5 to 7 wait for the SAS decision without
a limit, which `RunEnds` of `V07Central` leaves out, and the pairing has a time limit,
so `ProcessEnds` does not. Elsewhere no peer, operator or link is assumed to act: a Central
that goes silent is part of every liveness run, and time limits end what it left.

## 4. Proofs

All theorems hold for every size of every constant. The assumptions are those the
modules state and TLC evaluates: limits, bounds and counts are naturals
(`LimitAssumption` with `PENDING <= TTL`, `SecurityAssumption`, `HandshakeAssumption`,
`SessionAssumption`, `V1CentralAssumption`), the build is one of the two
(`BuildAssumption`), and 0, which stands for "none", is no peer, id or nonce
(`ZeroAssumption`). `SystemAssumption` adds what the composed v1.1 system needs: there
is a Peripheral, a run has at least one round trip and no more than the counters can
number, a run is shorter than the ticket's lifetime, every run has ids of its own, and
every run may take the full handshake twice. `CentralAssumption` does so for the default
build: a process has at least one round and no more than `LABELS + 1`, because the label
of a PING has one digit and the Peripheral refuses the next one. Its numbers of
processes and disturbances are any naturals. `V1CentralAssumption` asks that the 64-bit
counters of CP4 reach at least two, the number of its rounds.

| Module | Theorem | Statement |
|---|---|---|
| `ResumePeripheralProofs` | `TypeCorrect` | `Spec => []TypeOK`, the counters' width included |
| | `KeyInvariant` | `Spec => []KeyInv` |
| | `PendingTicketSafe` | `Spec => []PendingHasTicket` |
| | `NonceSafe` | `Spec => []NextNonceUnused` |
| | `KeyFreshness` | `Spec => KeysNeverRederived` |
| `ResumeLimitProofs` | `UsesSafe` | `Spec => []UsesBounded` |
| | `BondedLinkSafe` | `Spec => []ResumedOnBondedLink` |
| | `RevocationSafe` | `Spec => []RevokedGone` |
| | `ExpirySafe` | `Spec => []ExpiryArmed` |
| | `PolicyRefinement` | `Spec => ImplementsPolicy` |
| `ResumeSystemProofs` | `SystemInvariant` | `SysSpec => []SysInv`, the inductive invariant |
| | `ServiceEmbedded` | `SysSpec => Spec` of `ResumePeripheral` |
| | `SystemSafe` | `SysSpec => []SystemInv` |
| | `AgreementSafe` | `SysSpec => []BothSecureAgree` |
| | `CleanRunsSafe` | `SysSpec => []CleanRunSucceeds` |
| `V1SecurityProofs` | `SecuritySafe` | `Spec => []SecurityInv` |
| | `AcceptSafe` | `Spec => []AcceptedWasShown` |
| | `FailureSticks` | `Spec => FailedSticks` |
| `V1HandshakeProofs` | `HandshakeSafe` | `Spec => []HandshakeInv` |
| | `DrainSafe` | `Spec => []DrainWipesNothing` |
| | `PongSafe` | `Spec => []NextPongFresh` |
| | `FailureFinal` | `Spec => FailedIsTerminal`: FAILED until the link ends |
| `V07SessionProofs` | `SessionSafe` | `Spec => []SessionInv` |
| | `TransferSafe` | `Spec => []TransferOwned` |
| | `SentOnceSafe` | `Spec => []SentOnce` |
| | `ConfirmedSafe` | `Spec => []ConfirmedFirst` |
| `V07CentralProofs` | `TogetherSafe` | `CentralSpec => []Whole`, the inductive invariant |
| | `PeripheralEmbedded` | `CentralSpec => Spec` of `V07Session` |
| | `OwnAnswersSafe` | `CentralSpec => []OwnAnswers` |
| | `CentralSafe` | `CentralSpec => []CentralInv` |
| | `ZeroEarned` | `CentralSpec => []ZeroIsEarned` |
| `V1CentralProofs` | `PeripheralImplemented` | `V1Spec => Spec` of `V1Handshake` |
| | `PeripheralSafe` | `V1Spec => [](HandshakeInv /\ DrainWipesNothing /\ NextPongFresh)` |
| | `CeremonySafe` | `V1Spec => []CeremonyClean` |
| | `ConsentSafe`, `EndsAgreeSafe` | `V1Spec => []Consented`, `V1Spec => []EndsAgree` |
| | `CentralSafe` | `V1Spec => []V1CentralInv` |
| | `PassSafe` | `V1Spec => []PassIsEarned` |
| | `CleanInvariant` | `V1Spec => [](FlagsEarned /\ BoundaryClear /\ CleanInv)` |
| | `UndisturbedSafe` | `V1Spec => []V1UndisturbedPasses` |

**Keys and nonces of resumption.** `NextNonceUnused` is not inductive. A fresh session
starts at `tx = 0`, so one must know that its key has sealed nothing yet; that follows
only if its key is new; and the key is new only if every key ever derived from the
ticket's root still has its replay-cache entry. `KeyInv` says this in parts: an erased
ticket is zero (`TicketShape`), PENDING_P is seen only by the lock's holder
(`CommitOwned`), a pending session belongs to the valid ticket (`PendingHasTicket`),
every derived key has an issued root and, under the valid ticket, a cache entry
(`DerivedKnown`, `DerivedCached`), session keys were derived here (`SessionDerived`),
and a key sealed nothing before it was confirmed and only numbers below `tx` after
(`SealedKnown`, `PendingUnsealed`, `SealedBelow`). Each action preserves each part;
`KeyFreshness` then needs only that INIT is taken for an unseen entry.

**Limits of resumption.** `UsesBounded` is not inductive either: a commit must know
that the replay-cache entry of the pending session was not counted yet
(`PendingUncounted`). `RevokedGone` needs the next root to be newer than the last
revocation (`RevokedKnown`). The steps are classified once into six kinds
(`StepKinds`) that say what becomes of ticket and session; the invariant and the
refinement of `ResumePolicy` are both proved by kinds.

**Profile v1.1 composed.** Every step of the composed system is a step of
`ResumePeripheral` or leaves the service alone (`ServiceEmbedded`): an INIT for a root
the Peripheral never issued counts there as one for root 0, and a FINISH_C under other
keys as one under none. So the theorems about the service carry over. `RunInv` and
`AnswerInv` follow the one request or answer on its way and say that an answer fits the
step of the run that waits for it. `StepInv` keeps both ends together on a live link:
the Peripheral's session is closed, or it is in the state the Central's step asks for
and has the Central's keys; agreement in APP_SECURE is its last case. `CountInv` gives
`CountNeverAhead`: every root the Central knows was issued or belongs to no ticket any
more, and a FINISH_C that was confirmed had been counted before its ATT response left,
so the Central's use, stored later, is one the Peripheral already has. `CleanInv` proves
that an undisturbed run succeeds: as long as nothing interfered, both sides have the
bond, the link is up, nothing was refused, the bond callback can only come before the
first request of a cold run is taken, and from the confirmation on the session is
SECURE. A run falls back at most once, because a forced run sends no INIT, and the
ticket of its own full handshake is younger than the run and so not expired.

**Security gate.** The danger is a press of ACCEPT from before a challenge that is taken
for it. `PressInv` says that such a press finds the buttons unarmed, and what could arm
them sees the button held, or else the arming that follows the challenge is queued
before the next scan (`StaleUnarmed`, `ArmFirst`); a scan that sees an armed press saw
this challenge's (`ScanFresh`). `PendInv` says that a pending comparison is the one SMP
waits for and was not accepted, and that while the worker still answers for a
connection, that connection has no other comparison (`AnswerOwed`).

**v1 handshake.** A result is delivered in several lock sections, so the invariant ties
what the worker read before it unlocked to what is there now. `SlotInv`: the slot and
the worker and delivery flags follow the one job. `TransferInv`: a transfer is open only
before the link's one handshake. `JobInv`: a job of the current epoch is the one the
state waits for, and a state that waits has its job. `SecretInv`: secrets, and what a
fresh job will make of them, come from this link. `SealInv`: what was sealed for this
link lies below its counter, or at it while the PONG is on its way.

**Sessions of the default build.** The phases of v0.5/v0.6 and of v0.7 are set by
handlers and by the worker, and erased by resets that a callback may still owe. `OwnInv`:
slot, transfer and `crypto_job_conn` follow the one job. `ShapeInv`: the material of a
phase is whole or absent. `EraseInv`: a fresh job is awaited by its phase or about to be
reset, a stale one finds the phase empty, and an idle phase is empty or about to be
erased. `LinkInv`: material belongs to this link unless the reset is still owed.
`SecretInv`: the secret of a new START is younger than all others, and those of the
phases stay apart. `UseInv`: what the worker copied is what the session has, what it is
about to send is accounted for there, and an unconfirmed key sent nothing.

**Profile v1.0 composed.** Every step of the composed system is a step of `V1Handshake`
or leaves the Peripheral alone (`PlainOrSent`), so its theorems carry over. The
ceremony is proved from `V1Pairing`'s actions alone; consent is carried from `stop`,
through the reconnection, to the end of the exchange, because a ceremony that is over
hears nothing (`ConsentInv`). Agreement needs both ends at once: what lies in the queue
(a FINISHED_P or PONG comes from a handshake that ended, a PONG was sealed and is below
the counter), and where the Central is (before START the Peripheral is IDLE; a Central
that began counts no more than the other end), which is `AgreeInv`, with `PongInv` for
the results the worker holds. `PassInv` adds the gate, which is closed until the
pairing and stays so in a test that passes, and the rounds.

**An undisturbed process of profile v1.0.** `V1UndisturbedPasses` speaks of the exit, so
its inductive form, `CleanInv`, says for every place of an undisturbed process what holds
on both sides. The Peripheral goes through a few stages (`Fresh`, `Doing2`, `Doing3`,
`Await`, `DoingF`, `Rests`, `Pinged`, `Counts`), each closed under its own steps until the
answer is sent; a step that would go wrong there (a computation or a delivery that fails,
a deadline) is counted as a disturbance. The place of the process fixes the stage and
what lies in the queue, and every action leads from a place to the next (`Lands`). That
nothing of an earlier process is left when the next one begins rests on two more
invariants: each flag that keeps the Peripheral busy has its job in the slot or in the
worker (`FlagsEarned`), so a Peripheral at rest is not draining; and a process begins and
ends without a link and with an empty queue (`BoundaryClear`). The two stages after a
PONG is queued, `Rests` and `Counts`, are where the exception comes from: a PING that
meets `Counts` is denied.

**Default build composed.** The proof has two layers. `ProcessInv` speaks of the process
alone: where each flow may stand, and how far its counters are there. From it, each of
the many actions of the flows is one of a few kinds (`StepKinds`): it sends a request and
moves on, takes the head of its queue, ends, or is a step of the link or the Peripheral
that leaves the process alone. Every kind is a step of `V07Session` or a stutter, which
is `PeripheralEmbedded`. The second layer, `CoreInv`, ties the two ends and is proved by
kinds. `ProcessLink`: a link sees one START, and secrets of earlier ones are gone.
`JobInv`: a job is one the flow asks for, under the process's secret, and finds its
material. `PhaseInv`: a v0.7 job keeps its phase closed, so no second request is taken
while the worker still steps through the first. `QueueInv`: at most one answer is under
way and it is the process's own, which is `OwnAnswers`; a process that acts on its own
initiative finds an empty queue and a settled worker. `FlowInv` and `VouchInv`: the
Peripheral holds only what this flow asked for, and before the SAS is confirmed no job
and no material that would activate keys. `PlaneInv`, `FrameInv` and `AnswerInv`: the
Peripheral's counters equal one of the Central's two, and the frame or PONG under way
carries the last number the Central used; without the last two a lost or late answer
would break `PlaneInv`. `RefusedInv` and `EarnInv` carry a negative test from its tampered
frame to the exit status: the frame stays bad in slot and worker, nothing it asks for is
activated, and a verdict finds no job left that could still change what it judged.

**Model-checked only.** Liveness under fairness, which the prover does not handle:
`TicketExpires`, `PendingResolves`, `PendingEnds`, `HandshakeSettles`, `SlotGivenBack`,
`PhaseEnds`, both `RunEnds`, `ProcessEnds`. And
`UndisturbedRunPasses`, whose inductive form follows every place of an undisturbed run
of each of the six flows.

## 5. Not modelled

* Codecs, key schedules, ML-KEM and the vendored library compute on bytes and keep
  no state between calls.
* Scanning, characteristic lookup and measurement are I/O. Validation of the command
  line's arguments is a table of refusals without state; what each command does once
  it runs, and its exit status, is modelled.
* Windows itself, the Bluetooth hosts and the operators are environment. A Windows
  pairing is authenticated or refused; a pairing reported as unauthenticated, which
  `_run_v1` refuses, is not told apart from a refusal.
* The bytes of the fragments: a transfer is empty, partial or complete.
* The test modes of the resumption commands, and the v0.8 branch of
  `resumption.py`, whose control flow is that of v1.1.
* The dispatch and the serialised delivery of the v0.8 build in `main.c`.
* The historical session store and the experimental Python Peripheral are outside
  the supported profiles.

## 6. Plan

1. The v0.8 build in `V07Session`: its serialised delivery, its dispatch in
   `write_control`, and the hand-over of resumed keys to the v0.7 data plane.
2. `Fragmentation`: reassembly against a reference over bounded fragment sequences.
3. Theorem: `UndisturbedRunPasses`, over `CoreInv`.
