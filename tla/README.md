# benix-claim-agent in TLA+

A TLA+ model of `benix-claim-agent`: the daemon that lets the first user of a
BenixOS box take ownership of it over the LAN, and later lets that box join a
hub. The modules follow the code under `src/`; `PROJECT.json` says, definition
by definition, which lines each one stands for.

Contents: 1 inventory, 2 modules and how they map to the code, 3 runs, 4 bounds
and fairness, 5 proofs, 6 what the repository says and the code does not do,
7 what is left out, 8 what could come next.

## 1. Inventory

The agent is one process, started and restarted by dinit, on a multi-threaded
tokio runtime. It keeps five files in its state directory, one TPM register
behind a command-line tool, a map of pending challenges, a rate limiter and one
Mutex that serialises the commit of a claim.

| Component | State | Operations | Talks to | What is hard |
|---|---|---|---|---|
| Start (`main.rs`, `secret.rs`, `state.rs`) | secret and device keypair in memory, code on the console, `already_claimed` | load or create keypair, read marker, load or create secret, display, bind, serve, exit 1 | files, console, dinit | crash between any two steps; read and write errors; code and identity must survive restarts |
| Local claim (`local_claim.rs`) | pending challenges, `claim_commit_lock` | challenge; finish: pre-check, verify, lock, re-check, TPM, marker, delete secret, binding, invalidate, answer | files, TPM, rate limiter, Courier | stale pre-check, concurrent finishes, partial failure after an irreversible step, late and repeated messages, clock readings out of order |
| Hub join (`handlers.rs`, `pairing.rs`) | one background task per accepted join | gate, pair, 202; wait for verdict, mark, credentials, read-modify-write of the binding | hub (fabric-kit), files | takes no lock: races with a finishing claim and with other joins |
| HTTP service (`main.rs`, `error.rs`) | tokio workers, four Mutexes | route, LAN gate, handler, answer | all handlers | std Mutexes under async tasks, order of locks, what a refused request has done by then |
| State files (`state.rs`, `local_account_binding.rs`) | `claimed`, `claim-secret`, `device-key`, `local-account-binding`, `pair-credentials` | write_private_atomic, remove, read | kernel, medium | crash and power loss between system calls; shared temporary name |
| TPM (`tpm.rs`) | lockoutAuth, in the chip; a child process and its pipe | detect, discard_lockout_auth | device nodes, `tpm2_changeauth` | not repeatable; nodes that appear late; a tool that fails after the TPM acted, hangs up or outlives the agent |
| Rate limiter (`ratelimit.rs`) | a bucket per source address | allow | clock, handlers | clock read outside the Mutex; fractions; bounds |
| Claim code and screen (`secret.rs`, `render.rs`) | none | encode_display, decode, claim_uri, display | the operator, Courier | padding, separators, misread symbols, fallbacks |
| QR payload (`qr_payload.rs`) | none | parse | hub, phone | repeated, blank and unknown parameters; escaping |
| LAN gate (`net.rs`) | none | is_lan_source | every request | blocks that end inside an octet |
| Configuration, build | none | | | |

What makes each correct:

- **Local claim**: the first owner wins and is the only one ever told so; it is
  one whose user read this box's code; a client that was shown a valid box_proof made
  the one claim of that box; no claim without its TPM step resolved; a client that
  goes on trying gets the box claimed, as long as the TPM tool ends; the store of
  challenges is bounded and loses a live one only when full.
- **Start**: the code the box accepts is the one a restart would load, it is the one
  on the screen whenever the screen could be written, and it does
  not change while the box is unclaimed; the key that is served is on disk.
- **Hub join**: only a locally claimed box joins; a join never touches the
  owner of a binding; it is recorded in its order.
- **HTTP service**: requests never all wait on each other; a refusal has no effect.
- **State files**: a reader sees a whole old or a whole new value; Ok means
  that the value survives a power loss.
- **TPM**: "discarded" and "absent" are true; no part of a value is ever set; no
  process is left behind.
- **Rate limiter**: nobody exceeds the budget; nobody within it is refused.
- **Code, payload, addresses**: harmless edits mean the same, damage is refused.

The hazards, each at its line and with the properties that watch it, are in
`PROJECT.json`.

## 2. Modules

```
AgentState - Startup -+- LocalClaim -+- ClaimAgent - ClaimAgentInv -+- MCClaimAgent
                      +- HubJoin ----+      |                       +- ClaimAgentProofs
                                 Ownership -+ (refinement)
  the parts of it in detail
    PendingChallenges - PendingChallengesProofs            MCPendingChallenges
    SystemTpm - SystemTpmProofs                            MCSystemTpm
        +- TpmCall (refinement)
    StateFile - StateFileProofs                            MCStateFile
        +- AtomicFile (refinement)
  around it
    Handshake - HandshakeProofs                            MCHandshake
    Serving - ServingProofs                                MCServing
    RateLimiter - RateLimiterProofs                        MCRateLimiter
    ClaimCode, QrPayload, LanSource - Inputs - InputsProofs  MCInputs
```

**AgentState** holds what every part shares: one variable per file (`marker`,
`secretFile`, `binding`, `creds`), `lockoutAuth`, `proc`, and the outcome of a
write. `write_private_atomic` is one step with three outcomes: `ok`; `failed`
before the rename, the file unchanged; `unsynced`, Err after the rename, the
new contents in place although the caller sees an error. StateFile shows that
the system calls behave like this.

**Startup** is `main()`, one action per thing it does that another actor or a
crash can get between: read the marker, load or create the secret, display,
bind or exit. `screen` outlives the process, as a console does. A tty that cannot be
opened or written is no error to `main()`: `display_claim_code` prints to stdout, which
dinit discards (`render.rs:22-24`), and the box serves. `DisplayClaimCode` has that case
(the fault `display`): the console then shows what it showed before, nothing, or the code after
all. `displayed` notes which case it was and only properties read it.

**LocalClaim** is the two handlers of the local protocol. `pc[r]` is where
request `r` stands. The body is awaited between the unlocked check and the
verification, so they are separate actions. From taking `claim_commit_lock`
to dropping it the code is synchronous but runs beside other threads and can
be killed at any point: re-check, TPM, marker, delete, binding, invalidate are
one action each. Three details are left to modules of their own: which challenge
a full store evicts (PendingChallenges), how the TPM step comes to its outcome
(SystemTpm), and who made the proof that verifies (Handshake).

**HubJoin** is `onboard_claim` and `run_wait_for_result`, slot `j` being first
the handler and then the task it spawns. Loading the binding and writing it
back are two actions, as no lock protects them.

**ClaimAgent** composes the three, adds `Crash` (memory lost; files, TPM and
console kept) and states the properties. **Ownership** is what the local
protocol promises, a register that takes its first writer and tells nobody else.
The history variable `claimedBy`, which no guard reads, is the owner whose marker took
effect first: the marker alone cannot tell after a hub join, which erases the
owner from it. `ClaimAgent!Abstract` maps it and the 200 answers onto Ownership.

**PendingChallenges** is the store with its clock. Every caller reads
`Instant::now()` before it takes the Mutex, so each operation is two actions and
readings reach the map in any order. `insert` sweeps, evicts and adds in one step;
which of several entries that expire first goes is the HashMap's choice and open.

**SystemTpm** is `detect`, `discard_lockout_auth` and `write_hex_auth_and_wait`:
the open of `tpmrm0`, the look at the other signals, the spawn, the write of the hex
text, the drop of stdin, kill, reap and wait. A process has its pipe, its parent and
its exit status, so an orphan of a killed agent runs on. Values are sequences of
bytes and the tool reads a C string, so a zero byte matters. **TpmCall** is the
interface in four lines of state.

**StateFile** is one file at the level of system calls: inodes and directory,
each with what the kernel holds and what is on the medium; kernel writeback at
any time, failing calls, kill, power loss. `Spec` lets any number of writers at the
file at once, as the code does; in `SerialSpec` they come one after another, as all
do but joins (section 6). **AtomicFile** is what `SerialSpec` implements.

**Handshake** has several boxes and several Couriers. `net` is every message sent
so far, and a message may be handled at any later time, again, or never; which
covers loss, delay, reordering and retries. An approved hub join replaces the claimed marker
by one without an owner (`HubJoins`), so `claimed` and `owner` are two variables. HMAC and signatures are symbolic records of
what went into them: secret, label, transcript; signer and message. Users may
mistype, Couriers may ask the wrong box, boxes restart, and the device keypair is
created, written, and loaded again (`load_or_create_keypair`).

**Serving** is one life of the process as tasks on workers. A task gives its worker
up only at an `.await` (the body, the hub); one that waits for a std Mutex keeps
it. `stage` follows a request through gate, limiter, marker check, body, parsing
and its handler; `did` notes what it has done, `answer` the AppError it ends with.

**RateLimiter** is `allow()` in two steps, clock reading and update under the
Mutex. Time is in ticks, tokens in fractions of `1/Minute`, so the refill is
exact; the code's f64 rounding is not modelled. Two history variables, which no
guard reads, say what the properties are about: `granted`, the clock readings of the
allowed requests of an address, and `overtaken`, the addresses whose bucket was once
set back by a reading older than its last.

**ClaimCode**, **QrPayload** and **LanSource** are pure: Crockford encoding and
decoding bit by bit, the query grammar, the blocks of addresses. **Inputs** sends a
code, a payload or an address on its way: a person copies the code with changes
that should not matter or that damage it, a hub adds fields, somebody says a parameter
again, before the rest, after it or instead of it, or redirects the whole. `payload.said` is what was
last said of each parameter, kept by the actions and not read off the text.

Mutated forms of an action (`X_Something`, marked `Mutant:` in its comment)
stand before the action they distort. They are not part of any specification;
they are there to show that each property can fail.

## 3. Runs

| Run | Asks | Result |
|---|---|---|
| `agent_safety` | two requests, two joins, every fault: one owner, fail closed on the TPM, the code that could be shown works, hub gate, joins recorded in order, binding keeps its owner; and the agent implements `Ownership` | holds |
| `progress` | background joins end, a client that retries gets the box claimed unless setbacks go on or a TPM tool never ends, under crashes, failed writes and TPM failures; the code never changes | holds |
| `pending_challenges` | the store is bounded, loses a live challenge only when full of longer-lived ones, and gives out no expired or consumed one | holds |
| `system_tpm` | true answers, whole values, nothing left behind, every call returns; implements `TpmCall` | holds |
| `file_refinement` | the system calls implement `AtomicFile`, so readers see whole values; Ok is on the medium | holds |
| `handshake` | owners have read the code; whoever accepted a box_proof made the box's one claim, hub joins after it included; a pinned key stays | holds |
| `serving` | no stall, no effect of a refusal, every request answered | holds |
| `rate_limit` | the rate, for addresses whose readings come in order; a 429 is deserved | holds |
| `inputs` | harmless edits, damage, the last word on each parameter of a payload, the ends of the LAN blocks | holds |
| `code_stays_valid`, `owner_on_record`, `join_finds_binding` | statements of the repository's docs and comments | violated: section 6 |

Deadlock is checked in `pending_challenges`, `system_tpm`, `file_refinement` and
`rate_limit`. In the other runs the system may really stop: an agent whose box is claimed
and whose joins are over, a list of requests that are all answered, an input that
has arrived, Couriers that have no tries left.

## 4. Bounds and fairness

- `ClaimAgent`: *two requests* are enough for every race over the commit: the lock admits
  one, the other waits, verifies or issues a challenge. *Two joins* let one
  overtake another between each pair of writes; `progress` has one, as its properties
  concern single tasks. *Two challenges and `MaxPending = 1`* reach the full store with an
  insertion pending. Secrets are interchangeable (symmetry): *two* leave one for a wrong
  regeneration, *three* in `agent_safety`, where reads fail and codes rotate, keep the secret in memory, the
  one on disk and the one on the screen apart. *Two owners,
  two devices* tell a replaced one from a kept one. *Faults* is a set, so each run says
  which faults it admits: `write`, `delete`, `read`, `tpm`, `bind`, `display`, `crash`; they are
  unbounded in number. `progress` leaves `read` out, see section 6.
- `PendingChallenges`: two handlers let one reading overtake another; capacity 2 with four ids
  has an eviction with a choice and another one after it; the clock passes one whole TTL.
- `SystemTpm`: three values with a zero byte at the start, at the end and nowhere; two process
  slots, so that an orphan and a second attempt run together. When both are taken the
  agent cannot spawn; `SpawnFails` stands for that.
- `Handshake`: two boxes and two Couriers are what a mix-up needs; three challenge requests let
  one Courier retry while the other competes; one restart, of either box. There are as many
  keypairs as boxes: with `ReadsFail = FALSE` no box creates a second one.
- `Serving`: three requests of any kind on two workers, so that all workers can be taken
  with a request left over.
- `StateFile`: the state directory is on the medium from the start; two writers, one after the
  other (`SerialSpec`), so that one finds what another has left behind; four inodes are one
  more than a writer can have in use when it allocates.
- `RateLimiter`: two threads let one reading overtake another, two addresses show
  that buckets are independent, a limit of 2 has buckets that are neither full nor
  spent. `Horizon` ends the clock one tick after the three of a full refill, so a bucket
  can be emptied, refill to the brim and be capped.
- `Inputs`: secrets of all zeros, all ones and two mixed patterns, two changes in a row (one of
  each kind with each other, which is also a payload that is cut down to one parameter and
  completed again, or blanked and made good); endpoints with every reserved character; addresses on both
  sides of the end of every block.

The theorems of section 5 hold for all values of these constants.

Symmetry is used on runs with invariants and action properties only, on sets of
values that no `CHOOSE` picks from.

Fairness. `ClaimAgent!Fairness`: weak fairness of `main()`, of a background join, whose wait for the hub
ends by the timeout given to `wait_for_result`, and of a handler inside its commit, *except* where it runs
`tpm2_changeauth` (`ToolRuns`): `child.wait()` has no timeout (`tpm.rs:348`), so the code does not see to it
that this step ends, and nothing here assumes so. Taking the lock has strong
fairness: the std Mutex may let others overtake a waiter, but is free again and again, and a
waiter that is never served would need an endless supply of overtakers past the rate
limiter. Nothing obliges a client to send its body, nor the hub to acknowledge a pairing.
`RetriedFinishClaims` is what is left to say: *if* a client keeps getting verified, the box is
claimed, or setbacks never end, or from some time on a tool runs under the lock for ever. That every
verified finish is answered is no property of this code, for the same reason, and none is stated. `Serving!Fairness`: the runtime gets round to every task, and a body or
a call to the hub ends, if only with its connection; which is why `EveryRequestAnswered` is about clients
that do not stall. `SystemTpm!Fairness`: the agent runs on and the tool ends once it has read its
input; `child.wait()` has no timeout, so nothing less would do (section 6).

## 5. Proofs

Each holds for all values of the constants; what is assumed of them is the named `ASSUME` of
the module, such as that `None` is not a value and that capacities are positive.

| Module | Theorem | Property |
|---|---|---|
| `ClaimAgentProofs` | `TypeCorrect` | `TypeOK` |
| | `Invariance` | `IInv`, the inductive invariant |
| | `FirstWriterWins` | `OneOwner` |
| | `FailClosedOnTpm` | `TpmResolved` |
| | `CodeWorks` | `ShownCodeWorks`, whatever the faults, failing displays included |
| | `HubGated` | `HubNeedsLocalClaim` |
| | `HubRecordsInOrder` | `HubRecordedInOrder` |
| | `BindingOwnerKept` | `BindingKeepsOwner` |
| | `CodeIsStable` | `CodeNeverRotates`, assuming `"read" \notin Faults` |
| | `LocalClaimRefinesOwnership` | `ImplementsOwnership`, hub joins included |
| `PendingChallengesProofs` | `StoreTypes`, `MapIsBounded` | `TypeOK`, `StoreBounded` |
| | `FloodHasToFill` | `SurvivesFlood` |
| | `AcceptedIsLive` | `PeekFindsLive` |
| `SystemTpmProofs` | `HexRoundTrip` | the hex text carries every value whole |
| | `TpmTypes`, `AnswersAreTrue`, `NoValueIsCut`, `NoToolIsLeft` | `TypeOK`, `AnswersTrue`, `NeverTruncated`, `NothingLeft` |
| | `SystemTpmImplementsTpmCall` | `ImplementsTpmCall` |
| `ServingProofs` | `ServingTypes`, `NeverStalls`, `RefusalsAreFree` | `TypeOK`, `NoStall`, `RefusedWithoutEffect` |
| `HandshakeProofs` | `HandshakeTypes`, `OwnersHaveReadTheCode`, `AcceptingCourierOwns` | `TypeOK`, `OwnerReadCode`, `AcceptedOwns` |
| | `PinnedKeysStay` | `PinnedKeyStays`, assuming `ReadsFail = FALSE` |
| `RateLimiterProofs` | `LimiterTypeCorrect`, `RefusalDeserved`, `RateHolds` | `TypeOK`, `RefusedOnlyWhenSpent`, `RateBounded` |
| `StateFileProofs` | `FileTypes` | `TypeOK`, of `Spec` |
| | `OkOutlastsPower`, `StateFileImplementsAtomicFile` | `OkIsStable`, `ImplementsAtomicFile`, of `SerialSpec` |
| `InputsProofs` | `CodeInvariance` | `CodeInv`, the inductive invariant of a code on its way |
| | `HarmlessEditsAreRead`, `DamageIsRefused` | `HarmlessEdits`, `DamageRefused`, for every secret |
| | `LanGateIsExact`, `GatePassesBlocks` | `GateMatchesBlocks`, for every address |
| | `LastWordsCount` | `LastWordCounts`, for every session and endpoint and any number of rewritings |

**ClaimAgent.** None of the safety properties is inductive alone. `IInv` (in `ClaimAgentInv`) adds
what handlers in progress have established: a handler is in its critical section
exactly while it holds the lock (`LockInv`); one before the marker implies an
unclaimed box and one after it a claimed box (`ClaimedInv`); a binding is created
once, and a join's copy differs from the file in the hub only (`BindingInv`); from
the TPM step on, the custody state is settled (`TpmInv`); every owner named *or
about to be named* is the first to have claimed (`OwnerInv`: the handler that has written the
marker counts already); the secret in memory is the one on disk until the box is claimed, and
the one on the screen if this start could write it (`CodeInv`); a join that is on its way to the binding has written marker and credentials
(`HubInv`). Each is preserved with the help of the others, one lemma per part
and one step per action. `OneOwner` is then a projection: of two verified
finishes, the second re-checks under the lock and finds the marker. So is the refinement: a
step that sets `claimedBy` finds the box unclaimed, and a 200 names `claimedBy`.

**PendingChallenges.** `SurvivesFlood` counts: an eviction happens at capacity and takes an
entry that is first to expire, so the others that stay expire no earlier; the one inserted
may, because its reading may be older, which costs the one in `MaxPending - 1`. The invariant
adds that ids are fresh until inserted and that consumed ones are gone (`FreshInv`, `SpentInv`).

**SystemTpm.** The handle's process is the only one with the agent as parent (`ParentInv`); a process
that has changed the TPM, and that the call waits for, has put the call's own value there
(`KidInv`), because the text it read is the whole hex text and `HexRoundTrip` says that it means
the value, whatever bytes are in it. Orphans put whole values there too, of calls that are lost.

**Serving.** A Mutex is held by the task at its stages and no other (`HoldInv`), and only on a
worker (`OnInv`). The locks have an order (commit, then tpm or store; limiter alone), so of the
running tasks the holder of the last lock anyone waits for can go on.

**Handshake.** Following the messages: an honest Courier proves its own code or a mistyped one
(`FinishHonest`), so what a box verifies comes from a reader of its code (`VerifiedProven`). A box that has sent a
box_proof is claimed, and its marker names the receiver or, after a hub join, nobody
(`ClaimsAreOwners`). From a marker without an owner nothing follows about the past, so the invariant says
of the messages themselves that all box_proofs of a box went to one Courier (`OneClient`): the commit sends one
only from an unclaimed box, which has sent none. `TrustsProven` leads from a Courier that trusts to the message. Identity adds that keys of
boxes are distinct and that a box_proof covers the key on disk (`KeysDistinct`, `ClaimsCoverKey`).

**RateLimiter.** `RefusalDeserved` rests on `SpentInv`: a bucket is full or holds at least the
refill since its address was last allowed; a reading that goes back in time only
adds to it, which is why the theorem needs no order. `RateHolds` rests on
`BudgetInv`, which does need it and is stated for the addresses not in `overtaken`:
spent plus left is at most a full bucket plus the refill.

**StateFile.** What is renamed was synced: the temporary inode is neither the file nor the one a power
loss would bring back (`NamesInv`), whatever the directory calls the file is whole and the same on the
medium (`WholeInv`), and what a writer has done so far is still there when it goes on (`WriterInv`),
which needs that nobody else is at the file (`AloneInv`); hence these two theorems are about `SerialSpec`.
`FileTypes` is about `Spec`, with writers side by side: shapes need only that a writer in a call has a
value (`BusyInv`).

**Inputs.** `Decode(text) = secret` is not inductive: nothing follows from it about the text with one
character changed. `CodeInv` says instead what the cleaned text is: the symbols of the
secret, each in some form that means it; or one of them missing, doubled or made an alien; and each
edit keeps that. From there on the decoder is a matter of numbers. That it undoes the encoder is an
induction over the bytes in which both run side by side (`InStep`): what the encoder has written so
far, read by the decoder, gives all bytes but the last, and the two buffers together are the
bits of that one; five cases, by how many bits the encoder has left over, cover every byte. 26 symbols
end in two zeros of padding, which the decoder keeps in its buffer.
The inductions over secrets and texts are by least counterexample: a set of naturals that contains one has a
smallest (`WellFoundedInduction`). Recursive functions are over `1 .. n + 1`, one step per
index, which is how the SMT encoding of sequences takes a domain to be.

`LastWordCounts` is two inductions more. Over the endpoint: a text that does not end in the beginning of an
escape (`Whole`) is decoded the same when another follows, so decoding what
`percent_encode` wrote gives back each character in turn (`EncodedRestored`). And over the edits, with
`HubInv`: a query says of each parameter what was last said of it (`Heard`), one value if it names it and
nothing if it does not (`Tells`). The pieces of two queries joined by `&` are those of the one and, further on,
those of the other (`JoinedPieces`), so the last pair of a name is in the second if it is there at all
(`JoinedParam`, `JoinedTells`), and a field of another name changes nothing, on either side (`FieldIgnored`).
`ParseHears` turns that into what `parse` answers. What is assumed is that a session of the hub has unreserved
characters only (the hub mints a UUID and does not encode it) and that neither word of the hub is empty.
This is why codes and queries are modelled symbol by symbol: padding, look-alikes, escapes and separators
inside a value are what these four properties are about.

Only model-checked is liveness (`JoinSettles`, `RetriedFinishClaims`, `CallReturns`,
`EveryRequestAnswered`), which is out of the prover's reach.

## 6. Where the code departs from what the repository says

Each of these is a run that ends in a counterexample; `PROJECT.json` quotes the lines.

- `code_stays_valid`: the TPM change precedes the marker. A crash, or a
  marker that cannot be written, in between leaves an unclaimed box whose TPM
  refuses every later attempt, with a code on the screen that says it stays valid.
- `owner_on_record`: `mark_claimed` replaces a marker that names the owner by one
  that does not, before looking for a binding. If the best-effort write of the binding failed,
  nothing names the owner any more.
- `join_finds_binding`: the hub gate reads the marker, which the finish handler writes
  before the binding; a quick join finds none and is never recorded.

Others are excluded by a constant of a run, whose change makes TLC show them:

- any error of reading the secret file counts as a missing one and rotates the code
  (`secret.rs:77`, against `secret.rs:26-30`): `CodeNeverRotates` with `"read"` among the `Faults`;
- likewise for the device key (`state.rs:100`): the identity that Couriers pinned is replaced:
  `PinnedKeyStays` with `ReadsFail = TRUE` and three keys;
- two writers of one file share its temporary name (`state.rs:74`): one renames what the other has
  just truncated: `Readable # Partial` fails under `Spec`, without the order of `SerialSpec`. Only two approved
  joins at once are two such writers, which `README.md:812-818` names as open;
- two threads may reach a bucket in the opposite order of their clock readings (`ratelimit.rs:48`):
  the older one stored later refills time twice. `RateBounded` is about the other addresses.

More were met while modelling and have no run: a restart of a claimed box creates
and persists a new, inert secret (`main.rs:190`, although `secret.rs:23` says it is generated once
on an unclaimed box); a binding that cannot be written does not give the 500 that
`error.rs:48-50` announces (`local_claim.rs:519` only logs it); the entry of a state
directory that `create_dir_all` has just made is never synced (`state.rs:65`), so its first files may
vanish with it; `handlers.rs:6` still describes the gate as a 409 of a claimed box, where the code
answers 403 on an unclaimed one; `qr_payload.rs:50-53` says that a lone `%` is rejected, but
`query_pairs` passes it on (`Decoded`); `child.wait()` has no timeout (`tpm.rs:348`), so a hung tool
keeps the commit lock, and every later finish waits; a screen that cannot be written is only logged, and the
box serves without one (`render.rs:236-242`); and the owner whose 200 is lost retries and is answered 409, from which it cannot
tell that the box is its own.

## 7. Abstractions and what is left out

- *ClaimAgent*: a power loss is not among its faults (kill and restart is);
  StateFile covers it for one file. Two simultaneous writers of a file are taken
  as one after the other there. A `stat` error that makes `is_claimed` answer false is not
  modelled.
- Requests refused with 429, 403 for a source outside the LAN, 400, 401 or 410 change
  no state of `ClaimAgent`; all that happen after the body was awaited are one action there
  (`FinishRefused`). `Serving` has them one by one, and shows that they have no effect.
- `Serving` abstracts what the files, the store and the buckets hold to `claimed` and free choices;
  the spawned background task runs outside of any request and is `HubJoin`'s matter.
- *The console*: that a serving, unclaimed box shows its code at all is not promised by the code and no
  property says so; after a display that failed the screen may be blank or show what an earlier start wrote, which
  `CodeNeverRotates` makes the same code. What other programs write to the tty (getty) is not modelled.
- *Handshake*: Couriers are honest and secrets are not guessed; the rate limiter, the TPM and the
  files other than key and marker are the other modules' matter.
- *SystemTpm*: a TPM whose driver has registered nothing yet looks like a box without one; the agent
  cannot tell, and the model does not have it. The pipe takes the text at once, as it is shorter
  than a pipe's atomic write.
- StateFile takes the file system to keep directory operations in order
  (metadata journalling) and a write-back to be whole; `Partial` is any content
  that is not a whole one.
- *Inputs*: the url crate is modelled after the URL is split into scheme, host and query, as
  `parse` uses it; whether a text is a URL at all is the crate's. Of the characters that
  `percent_encode` escapes there are seven (`Reserved`), each with its own escape; a name of a parameter is
  one token.
- Not modelled: `config.rs` (environment variables read once, with defaults), `non_loopback_addrs` (a
  filter over what the kernel lists), the delay before the claim screen, its layout and the QR symbol
  (`qr.rs`), the real cryptography, zeroization of buffers, build and CI. The hub, fabric-kit,
  tpm2-tools, the kernel, the url crate and Courier are external and appear as far as the code
  relies on them.

## 8. What could come next

1. Power loss in the composition: the marker and the secret as two files of the same
   directory, the unlink of the secret not yet on the medium.
2. `LocalClaim`'s store as a refinement of `PendingChallenges` without its clock.
