# Hydropark: specifications, model checking and proofs

TLA+ modules for the parts of Hydropark in which the order of steps decides
whether money, ownership, devices, sessions, downloads and conversations stay
correct. TLC checks them on small instances; TLAPS proves the central results for
instances of any size. `PROJECT.json` lists, in machine-readable form, the
components, the TLC runs, the source lines behind every definition, the hazards
and the theorems.

Java files named without a directory are under
`src/backend/src/main/java/io/hydropark/`, Rust files (`*.rs`) under
`src/client/src-tauri/src/`.

## 1. Inventory

One backend image runs as three zones over one MongoDB: `api` (public edge), `worker`
(the only writer of `settled_orders` and `grants`) and `issuer` (holds the signing
keys). The zones share no memory. They interact through collections, internal HTTP
calls and scheduled jobs. The client is a Tauri (Rust) core with an Angular
interface: asynchronous commands, one inference worker thread, one driver task per
download and one task per kitchen timer, over a SQLite file, a directory of skills, a
directory of models and one JSON file for the unlock.

| Component | State | Operations | Interacts through | What is hard | What makes it correct |
|---|---|---|---|---|---|
| Settlement (`commerce/SettlementService`, `SettlementLogService`) | `orders`, `settled_orders` | settle, settle on hold, clear, refund, charge back, top-up, wallet purchase | called by the worker and by internal HTTP; calls wallet and grants in one transaction | webhooks in any order, reads a transaction does not protect | goods only against money; reversals final; a blocked row stays blocked |
| Wallet (`wallet/WalletService`) | `wallet_accounts`, `wallet_transactions` | credit, debit, claw back | inside settlement transactions | negative balances, concurrent debits | balance = ledger; debt freezes |
| Grants (`licensing/GrantService`) | `grants` | create, flip, revoke newest first | inside settlement transactions; read by the issuer | overlapping purchases, indivisible prices | an active grant stands on a paid order |
| Checkout (`commerce/OrderService`, `AntiFraudService`) | `orders` | gates, order insert, wallet branch | api zone | gates decide on data that changes before use | limits hold, wallet currencies match |
| Webhooks (`commerce/WebhookController`, `SettlementWorker`) | `webhook_events`, worker memory | receive, claim, dedupe, correlate, check, apply, retry, dead-letter | queue collection between api and worker | late, duplicate and reordered events, several workers, crashes, stale re-claims | applied exactly once; every row that parses ends |
| Device slots (`devices/*`) | `devices`, `device_slot_counters` | register, reactivate, deauthorize, reconcile | api zone, scheduled job | no transactions: claim and insert are separate calls | never more devices than slots |
| Step-up (`auth/service/StepUpService`) | `users` | assert, trust on first use | register, deauthorize | whole-document saves of the user | a proof or the first device |
| Refresh tokens (`auth/service/RefreshTokenService`) | `refresh_tokens` | login, rotate, logout, reset | api zone | races, lost answers, revocation during rotation | no forked session, logout final |
| Client session (`session.rs`, `device.rs`, `main.rs`) | rows `auth_session`, `device_identity` | register, login, device_ensure, bearer, logout | requests to the token service; the store is locked per statement | commands that overlap across an awaited request, lost answers, crash | tokens and email of one account; a kept token is accepted |
| Client downloads (`downloader.rs`) | part and final files, status, driver task | start, cancel, resume, verify, promote | IPC; HTTP with ranges | crash, cancel, retry and re-publication against files on disk | only signed bytes get the final name; one driver; it ends |
| Client skill store (`hpskill.rs`, `package_verify.rs`, `skill_manager.rs`, `unlock.rs`) | skill directories, registry in memory, `installed_skills`, `unlock.json` | install, uninstall, redeem, start-up | IPC; store rows read at start-up | three places written one after another, failures and crashes between | only allowed packages; whole after an undisturbed command; an unlock survives what comes after it |
| Client database (`store.rs`) | `user_version`, tables | migrate, keyed saves and reads | every other client component | crash between two statements of a migration | it opens, with the complete schema |
| Client licenses (`license_verify.rs`) | window of trusted keys | pin, verify | library | key rotation, kids that come again | a token under a kid still in the window is accepted, others are not |
| Client templates (`templates.rs`) | `agent_templates`, pins | save, load, updates | rows of installed skills | versions that move between save and load | loads, or names what is missing |
| Client tools (`tools.rs`, `tool_catalog.rs`) | timers, list, tasks | four timer and five list operations, calculations, conversions, dates | two doors: the model's calls and the interface's command | tasks spawned after the lock, numbers at their limits, two validators | one task per timer; exact answers; the doors agree |
| Client turn engine (`inference.rs`, `turn.rs`) | job queue, cancel registry, turn | send, cancel, load, decode, interpret, execute, emit | IPC, tools, model runtime | a model that repeats itself, cancel at any moment, failures of the engine | turns are bounded and end; no repeated call; cancel stops tools |
| Client agents (`manifest.rs`, `orchestrator.rs`, `capacity.rs`, `tool_routing.rs`, `composition.rs`) | enabled skills | validate, normalize, compose, meter, route | pure, called by commands | order of enabling, saturating sums, defaults | one agent per set of skills; reserve stays free; normal form is stable |
| Client shared state (`shared_state.rs`) | slots of the composition | build, set, append, patch, read | skills of one agent | types that compose in an order, concurrent writes | a type suits its declarers; operations of different skills commute |
| Idempotency, license issuance, accounts, migrations and continuity batches of the server | their collections | see section 5 | | | |
| Catalog, certification, packaging, registry, signing, security, observability; deep links, updater, telemetry; Angular interface; contracts, deploy, eval, portals | mostly static | reads, validation, cryptography, presentation | HTTP, IPC | little control of its own | not a model checker's question |

## 2. Modules

```
OrderLifecycle        what one order promises
      ^ implements (refinement mapping, checked and proved)
Settlement            orders, settlement log, grants, wallets, ledger, checkout requests
      ^ extends                ^ extends
ClawbackWalk          WebhookPipeline
      ^                        ^ implements Settlement!Spec (checked, proved)
MCSettlement,         MCWebhookPipeline, WebhookPipelineProofs
SettlementProofs

DeviceSlots    <- DeviceSlotsProofs
RefreshTokens  <- ClientSession  <- MCClientSession
RefreshTokens, ClientSession  <- ClientSessionProofs

ModelStore     what the inference engine may assume of the models directory
      ^ implements (checked and proved)
ModelDownload  <- MCModelDownload, ModelDownloadProofs
Subsequences (what a filter leaves of a sequence) <- ModelDownload, ToolState,
                                                       ModelOutput, License, Templates,
                                                       Composition

StoreMigrations, SkillPackage <- SkillStore }
                              License      } <- OfflineLibrary <- MCSkillStore, OfflineLibraryProofs
             SkillPackage  <- Templates    }

ToolState, ToolCatalog, ModelOutput <- ToolRuntime <- MCToolRuntime
ToolState  <- TurnEngine <- MCTurnEngine
ToolRuntime, TurnEngine <- ToolProofs

SlotTypes <- Manifest <- Composition <- SharedState <- MCSharedState, AgentProofs
```

A definition whose name begins with `Mutant` is the definition after it with a
plausible bug. No specification uses it; each shows a bug that one of the properties
detects.

### The server

**Settlement.** Each `@Transactional` method of `SettlementService` is one action:
every one of them writes the order document it is about, and the wallet document
when money moves, so that two transactions which could disturb each other conflict
and one aborts. A wallet purchase is the exception. It also *reads* the account
block and the order count, which none of its writes protects, so it is two actions:
`BeginWalletPurchase` (the snapshot) and `CommitWalletPurchase` (the commit, which
requires the wallet document it saw). The checkout gate runs outside any transaction
and is a step of its own. `AbandonRequest` is the failure of a request at any point.
An action is written as the transaction that takes effect; when its guarded update
matches nothing, the method changes nothing. What an order is for (owner, price,
skills) is written once with its id and is a constant function of the id. Grant
prices follow `createGrants` (quotient plus remainder on the first skill), since the
claw-back depends on them. `Clawbacks` states what
`revokeWalletGrantsMostRecentFirst` may revoke; **ClawbackWalk** holds the loop
itself, as a fold, to be compared with it.

**OrderLifecycle** is the abstract order: opened, maybe held, delivered at most once,
reversed for good. `Phase` and the set of active grants map Settlement onto it.

**WebhookPipeline** adds `webhook_events` and the workers. A worker takes a step per
database call (claim, dedupe, correlate and check, transaction, final mark), so
other workers, deliveries and crashes fall between any two. `ApplyRow` runs the
actions of Settlement. A worker keeps in memory what it read (`attempts` at the claim,
the decision of the checks), and the final mark updates the row by id without looking
at its status, as the code does. Signatures and provider payloads are abstracted to
what an event says (`EventType`). A forged body is dead-lettered. A garbled one, on which
the provider's parser throws something that is not a `WebhookVerificationException`,
ends the tick with the row still in processing and its attempts uncounted.

**DeviceSlots** has a step per database call of `register`, `deauthorize` and
`reconcile`. Accounts share nothing here, so one account is modelled. The user
document is there for trust on first use: `StepUp` flips it with a guarded update,
while `verifyEmail` and `resetPassword` read it, change a field and save it whole
(`ReadUser`, `SaveUser`). The reconciler always runs. `raced` and `outdated` record
whether a claim fell between its count and its write, for the properties.

**RefreshTokens** models `rotate` as a snapshot transaction (`BeginRotate` decides on
what it read, `CommitRotate` needs the claimed row unwritten since) and logout as the
non-transactional `updateMulti`, which visits rows one by one in id order while
rotations insert new rows.

### The client

**ClientSession** composes the client's commands with RefreshTokens. A command is an
asynchronous task that locks the store for one statement and never across a request:
its steps are "read", "the server serves it", "the answer arrives or does not",
"save". `CommitAndAnswer` is the server's commit together with an answer on its way;
`FailRotate` gives up on an answer that may still be produced. Rows of the store
survive `ClientCrash`, commands do not. Families of the token service stand for the
login that began them and for its account.

**ModelDownload**: one driver step per await of `run_download`: find the final file,
decide how to resume (blob by `ResumeDecision`, delta by the parts of the manifest),
send a request, check the cancel flag, take a chunk, append it, verify, rename,
publish the status. What the driver does by itself (`Local`) is kept apart from the
answers, chunks and ends of answers it waits for (`Remote`), which may never come.
Files are sequences of blocks that remember what the server sent,
so that a repeated, skipped or damaged block is visible. The body that comes for a part
of a delta is any range of blocks, since the code compares neither its length nor its
digest with the manifest; `astray` remembers the models that got another one. `Republish` changes what the
server has under the address; `Crash` ends the driver and keeps the files.
**ModelStore** is the abstract directory.

**SkillPackage** holds the gates of an install as functions of an archive: entries
and their paths, the manifest, the signature over its canonical form, ownership,
application version and device tier. **SkillStore** holds the commands: extraction
file by file, the registry entry, the row; removal in its own order; reading,
truncating and writing `unlock.json` (`fs::write` writes from the start of the file over
what another command wrote since the truncation, so that the tail of a longer record
stays); start-up from what is on disk. An install may
overlap the main thread's commands; any step may fail (`Fail`) or be the last one
before `Crash`. **StoreMigrations** runs the migrations statement by statement.
**License** (the key window and the verifier's gates) and **Templates** (pins, load,
updates) are functions; **OfflineLibrary** composes them with the store and judges
them on every bounded input.

**ToolState** is the mutex-protected state of `tools.rs`: a timer decides under the
lock whether it needs a task, and the spawn is a later step. **ToolCatalog** is the
catalogue as functions of a call at each door: the model's validator and the
interface's serde structs, with what each tool computes. **ModelOutput** cuts calls
and echoes of results out of generated text, pass by pass as the code does. A tag is two
tokens there, so that a cut can join one out of what it leaves on its two sides.
**ToolRuntime** joins them: any call at either door, beside ticking timers.

**TurnEngine**: the worker takes a job, loads the model if needed, and alternates
`Decode` (a cancel may fall before or in it), `Interpret` (prose, call, or
invalid with a repair and then a fallback) and `Execute` (duplicate latch, hop limit,
tool), then emits the transcript. What the model writes is a free choice. Commands
send, cancel and use the tools beside it. `Execute` runs the actions of ToolState.

**SlotTypes**, **Manifest**, **Composition** and **SharedState** follow a skill from
its manifest (the issues of the validator that concern structure, references and the
numbers the composition uses, and the normal form; not the formats and types of a tool's
configuration, of `updates_widget`, of `free` and of the currency), through
merging with others (order, conflicts, primary voice, merged tools, metering in
saturating u32, routing) to the store of slots with the declared types. Types nest, and
the code walks them recursively. SlotTypes says the same without recursion: a schema, and
the type it parses to, is a function from paths of field names to what stands there, so
that compatibility and widening speak of all paths at once. `Required` holds the paths on
which every field is required, which are the ones `records_compatible` descends into;
`Merging` the paths `widen_record` reaches before two types differ in their base.

## 3. Runs

| Run | Instance | Question and answer |
|---|---|---|
| SettlementWallet | 1 account, 2 top-ups, a wallet bundle and a wallet skill that overlap, a card order, 2 requests, 1 key | In every order of checkouts, purchases, settlements, holds, clears and reversals: delivery only on paid and cleared orders (`DeliveryIsSafe`), balance = ledger = order history and debt is frozen (`WalletIsSound`), the claw-back is the loop's, a skill is lost only by a reversal, and the order lifecycle is implemented. Holds. |
| WebhookSafety | 2 workers, 3 rows, 5 events on a card order and a top-up, slow workers, 1 fault | Exactly-once application: a processed row was applied, a duplicate has an original, workers only do what Settlement allows. Holds. |
| WebhookLiveness | 2 workers, 2 rows, 10 events on two accounts with one card, one of them garbled, 2 faults | Every stored delivery that the provider's parser can read ends and stays ended, beside one it cannot read. Holds when no live worker outlives the stale cutoff. |
| DeviceCap | 3 fingerprints, 2 slots, 2 requests, 3 calls, 1 saver, 1 crash, the reconciler | The cap holds until the reconciler writes a count that a claim raced (`CapHolds`), and a leaked or overwritten counter comes back (`CounterHeals`). Holds. |
| ClientSession | a device-only and an emailed account, 2 commands at a time, 3 token rows, crashes and lost answers without bound | No forked session, logout final at the server, tokens and email of one account, the kept token is accepted, key and recovery factor are never lost. Holds. |
| Downloads | 1 model, 1 signed content and 1 unsigned, 6 requests (blob with and without size, deltas of two parts cut at either place, one with a gap, content nobody signed), 2 drivers | Blocks in place wherever each part was the one described (`BlocksInPlace`), one driver, ModelStore implemented whatever was sent, a started download ends if the server does not stall for ever (`DriverFinishes`). Holds. |
| SkillStore | 1 skill, 13 packages (two good releases and one per gate), 2 overlapping tasks, 1 crash; 6 keys, every token of the listed keys, kids and algorithms, 6 versions, 2 template members | Only sound and owned packages in the store, an undisturbed command leaves it whole, an unlock survives all but a crash, an I/O error and a shorter record written over a longer one (`UnlockSurvives`), the database opens; licenses and templates judged right. Holds. |
| Tools | 1 timer of 2 seconds, 3 list ids, numbers with a largest value of 10, calls on either side of every limit, texts up to 3 tokens and some longer | One task per timer, it comes to rest, generated ids distinct, exact answers, the doors agree, shown prose is clean but for a span whose tag a cut joined (`ShownIsClean`). Holds. |
| TurnEngine | 2 messages, 3 calls, 2 hops, 1 timer, cancels at any step, load and engine failures | No repeated call, bounded turns, cancel stops tools, every message is answered. Holds. |
| Agent | 7 skills, up to 3 enabled, 3 windows, 2 operations | The order of enabling changes nothing but the routing table, operations of different skills commute but for patches of one field, the reserve stays free, slot types suit their declarers, the normal form is a fixpoint. Holds. |
| RefreshReuse | 1 family, 2 token rows, 1 rotation | "The whole family is revoked" when a used token is presented again, says the doc of `RefreshTokenService`. Violated: see section 6. |
| SecondAccount | 2 device-only accounts, 2 commands | `ensure_device_session` never mints a second account, says its comment. Violated: see section 6. |

Deadlock is checked in ClientSession, SecondAccount, Downloads and SkillStore, whose
users may always do something. The other systems may rest (no request, no row, no
message left under the bound), and their configurations say so.

**Why the bounds are enough.** An account interacts with others only through the card
fingerprint, so one account with overlapping orders is the interesting case for the
money path; two top-ups and two wallet orders give a claw-back that takes part of
what one top-up paid for, straddles a grant, and exceeds what is left. The bundle's
price (3 over two skills) does not divide. Two workers and three rows allow a
duplicate, a retry and a late mark at once; `MaxAttempts = 2` has both a retry and a
dead letter. Two slots for three fingerprints is the smallest contended cap. Two
commands of the client are the smallest overlap, and three token rows hold two logins
and a rotation, or a rotation and its retry. Content of three blocks, with
parts of one and two blocks and bodies of any length for them, has a resume at, before
and after every boundary. Two
tasks and one skill are the smallest overlap in the store; one table, one index and
one column stand for the migrations' three kinds of statement. Two hops allow a call,
a duplicate, its nudge and a second call before the limit. Three skills allow a tie in
priority, a conflict and a slot declared three times.
`MaxFaults`, `MaxCalls`, `MaxCrashes`, `MaxRows`, `MaxJobs`, `MaxOps`, `MaxEnabled`,
`MaxItemSeq`, `MaxDuration`, `MaxInserts` and `MaxMembers` are bounds of the models,
not of the code: faults are finite in the liveness runs because a system that always
crashes never finishes anything. `MaxPurchases`, `MaxAttempts`, `MaxActiveSlots`,
`MaxAccountsPerFingerprint`, `HighValue`, `MaxToolHops` (4 in the code) and
`TrustedSetSize` are settings of the code with small values; `FloatMax`, `I64Max`,
`SpanMax`, `DateMax` and `U32Max` are the ends of number types, made small. Symmetry is
used only over interchangeable ids in runs without liveness.

**Fairness.**
- `drain()` runs at a fixed delay in every worker and walks the claimable rows, so a
  row that becomes claimable again and again is claimed again and again: strong
  fairness of `ClaimRow` for each row. A worker that holds a row is a running thread:
  weak fairness of its next step; crashes are not fair. Wall-clock time passes: weak
  fairness of `Expire`. A garbled row ends the tick that claims it, for the rows behind it
  too; it is claimable once per stale window, so that strong fairness of the others asks
  for fewer garbled rows than ticks in a window (at the defaults, a tick every 2 seconds).
- The reconciler is `@Scheduled` and calls in flight are running threads; no client
  is ever required to call.
- A download driver is a spawned task: weak fairness of what it does by itself
  (`Local`). Nothing is assumed of the server: the client of the transfer has no timeout,
  and `DriverFinishes` says what holds *if* every awaited answer and chunk comes or
  fails sometime.
- The user starts the client again after a crash, and start-up runs on: weak fairness
  of the migration's next step and of `Setup`. Crashes are bounded in that run.
- The inference worker and the timer tasks are running threads: weak fairness of
  `WorkerStep`, `SpawnTask` and `Tick`.
- Nothing is assumed about deliveries, checkouts, commands or users.

## 4. Proofs

**`SettlementProofs`** (any sets of accounts, orders, skills, keys, requests; any
prices). The inductive invariant is

    IInv == TypeOK /\ GrantsBacked /\ NothingBeforeDelivery /\ RequestsFresh

`GrantsBacked` alone is not inductive. Clearing a hold or committing a wallet purchase
writes the settlement row and the grants of an order, and is right only if there were
none before: that is `NothingBeforeDelivery`. A wallet purchase also writes its order
without a guard on the status, and is right only because the order id was generated
for this request: that is `RequestsFresh`. One lemma per action shows that it
preserves the four parts. `DebtFreezes` (only a claw-back lowers a balance without
checking it, and it freezes), `BlocksStick` (`recordSettled` saves over whatever row is
there, and `NothingBeforeDelivery` says there is none) and `Refinement`
(`Spec => Lifecycle!Spec`: each transaction is one step of the abstract order; the rest
stutter) follow. They rest on `OrderAssumption` and `NoneAssumption`.

The second invariant is about the money. `WalletSound` states that every balance is
the sum of its ledger lines, that the lines say what became of the orders, and that
debt is frozen:

    WInv == IInv /\ BegunIsWallet /\ IsFiniteSet(ledger) /\ Books /\ LedgerFollowsOrders

A transaction adds one line, so the proof needs what a sum over a set does when an
element enters. A sum over a finite set is a recursion over data. The lemmas about it
are proved without induction: if one failed there would be a least cardinality at which
it fails (`WFMin` over the numbers), and the fold unfolds once there. `BegunIsWallet`
says that a wallet purchase under way is about a wallet order, so that its commit writes
the line the order calls for. `LossesAreReversals` then says that a skill is lost only
in a refund or a chargeback of some order.

The third result (`ClawbackTheorem`) is about ClawbackWalk: the loop over the sorted query revokes, in
every order the query may answer in, a set that `Clawbacks` allows, and every set it
allows is revoked in one of these orders. The invariant adds `Dated`: an active grant of
a wallet purchase has its place in `funded`. Hence an account has finitely many such
grants, each with a price and a date. The loop is a fold; `LoopRevokes` says what it
leaves revoked: the shortest beginning of its list that covers the amount, or all of it.
As for the ledger, a counterexample would have a least length, and the fold
unfolds there once. From left to right, the grants passed by are no older than those left,
and without the last one the amount was not covered, which is what `Clawbacks` asks. From
right to left, a list is put together from the newer grants, the revoked ones of the last
date, the others of that date, and the rest (`Concatenated`), and the loop stops at
that place.

**`WebhookPipelineProofs`** (any workers, rows, events and faults):
`PipelineRefinesSettlement` is `PipelineSpec => Settlement!Spec`, so everything proved of
Settlement holds behind the queue, for any interleaving of workers, any number of
deliveries of one event and any crash: `PipelineKeepsDocuments` lists it. The
invariant says that what a worker *holds* stays right while others write
(`HoldingSound`): the row exists, from the dedupe on it has its event id, and from the
checks on the order is one the webhook transactions may touch. That an order, once
written, stays written, a paid one is only reversed and a reversed one stays reversed
(`StatusMoves`, from Settlement's invariant) keeps it true. `DeliveriesSurvive` states
`NoDeliveryVanishes`: a processed row took effect or needed no transaction, and a
row is tried at most `MaxAttempts + workers - 2` times before it is dead-lettered.
The bound is not `MaxAttempts`: see section 6. It rests on `PipelineAssumption`; the
events are any that name a card order or a top-up, since a webhook carries a checkout's
reference.

**`DeviceSlotsProofs`**: `CapTheorem`, the cap holds for any number of fingerprints,
requests, slots, calls and crashes, with the reconciler running, as long as it has not
written a count that a claim raced. The invariant is `CounterCovers`: the counter is at
least the active devices *plus the claims in flight*, a claim being anything between the
increment and the insert, or between the flip and the release. A crash then only loses a
claim, which leaves the counter too high. Between the count and the write of the
reconciler, the devices and claims are at most what it counted, unless a claim raced it:
that is what `raced` must be shown to notice. The exception is needed, see section 6.

**`ModelDownloadProofs`** (any models, contents, requests and drivers). `OneDriver` is
not inductive by itself: it must say which driver, so `OnlyOne` says that either the
status is final and all rest, or it is active and exactly one does not. `SoundDriver`
carries what a driver learned along its steps: from `FindDest` on there is no final
file of its model, and before the rename the part file has been verified. It stays true
because no *other* driver runs: the two parts need each other. `StoreTheorem` then
needs only that `Promote` is the one action that touches a final file. It rests on
`RequestAssumption`; nothing is assumed about what the server sends or how much.

`BlocksTheorem` (`BlocksInPlace`: every block of a part file is where it belongs, whatever
was resumed, unless the body of a part was not the part) has an invariant of its own,
`PlaceInv`. Its heart is `Lined`: as long as no body was astray, what the
driver has still to fetch begins where the part file ends, and its ranges join up to
the end. A fetch of a part appends to the file and drops the range; a resume cuts the file at
`PartResumeBoundary` and keeps the ranges from there. That the two agree is
`CutIsABoundary`: the cut is 0 or the end of some part. The ends of the parts of a valid manifest
increase (`EndsGrow`), so keeping those beyond the cut keeps a tail of the
list. It rests on `SizeAssumption` too (contents are not empty).

**`OfflineLibraryProofs`** (any skills, packages with archives of any shape, pinned keys,
overlapping commands, failures and crashes). The first lemmas are about the gates:
`InstallError(archive, bought) = "ok"` only for an archive whose manifest is signed over its canonical
form by a pinned key, whose entries are harmless, and that suits the
host. The invariant is

    SInv == StoreTypeOK /\ HoldsOnlyAllowed /\ TasksSound /\ UnlockLasts

A file or a row is of an allowed package (`StoreTheorem`) because the command that writes
it still *knows* what it checked when it began (`Knows`), although the entitlement
cache may have changed since: hence `granted`, what the cache has ever listed. `WholeTheorem` needs how far
a command that is alone has come (`Come`: the files of its package are there but for
those of the entries still to do) and that of two commands of one skill neither is alone. A package
may carry two entries of one path; the last one written counts, which is why `Written` speaks of
paths and `todo` of entries. `UnlockTheorem` follows from `UnlockLasts`: what was written
is in the file unless a write under way has truncated it, and then what that write holds
is an unlock too. These rest on `KeysAssumption`,
`PackagesAssumption` and `EntriesAssumption`.

`LicenseTheorem` is for keys inserted in any number and order, well formed or not. Its invariant
is over the inserts (`Places`): after each of them the window holds only keys that are
*current*, the last insert of their kid and a key, the older before the newer, and what
it lacks is older than all it holds, and then it is full. So a key is in the window exactly when fewer
than `TrustedSetSize` other kids came after it: the kids that came are mapped one to one to the places
behind it. That the gates of the verifier then decide as the property says is the
smaller part. It rests on `WindowAssumption` and `LicenseAssumption`.

`TemplatesTheorem` is for any agents, installed rows and finite offers, with version numbers of any size.
`Newer` compares the parts from the left, so on versions of three parts it is a
linear order (`BelowOrders`) and a finite offer has a newest (`SomeNewest`); an update is
reported of exactly the members whose base is behind it (`UpdatesAreOfBehind`). The filters are
`Retained` of **Subsequences** here too. Nothing is assumed of the constants.

**`ToolProofs`**, the turn (any sessions, calls, jobs and hop limit; `Calls` may contain
any calls). The invariant has a part per theorem. `Budget` bounds the transcript
by the hops, the nudge and the repair used so far, for every point of the turn:
`TurnIsBoundedTheorem`. `LastCallKnown` says that the last call in the transcript is
the one in `last_executed`, and not the one about to run; only with it is
`NoRepeatedCall` inductive. `LateIsLast` says that a tool that ran after the cancel
left nothing but prose to interpret: `CancelStopsToolsTheorem`.

The same module proves what it composes, ToolState, by itself (any timers, durations
and calls). `OneTickerTheorem`: the invariant adds `SecondsHaveTask`, that a timer with seconds left
has its task, running or paused, which is why a resume need not spawn one, and
that a timer without a record has none, which is why a start may.
`GeneratedIdsTheorem`: the ids the list made are at most `item_seq` (`Numbered`). A removal keeps some
indices of the list in order, and since no prover can look into `SelectSeq`, the module
**Subsequences** defines what remains (`Retained`) through ranks: the k-th element is the one with k
kept indices up to it. `RetainedElements` (they are elements of the list, and different
ones) needs that ranks are a bijection onto `1..n`. Every step of ToolRuntime and of TurnEngine is a step of
these tools or leaves them alone (`RuntimeUsesTools`, `TurnsUseTools`; the latter needs
`LastCallKnown`: what is executed is a call), so both keep what is proved of them: `RuntimeKeepsTools`,
`TurnKeepsTools`, and with it `TurnTypeTheorem`. They rest on `DurationAssumption`,
`ListAssumption`, `RequestsAssumption` and `CallsAssumption`: durations are within the bound and lists
have one of the five operations.

The two doors (any requests, operands, dates and texts): an answer is the failure of its
door's check, what its door computed, or a text that has been through all filters
(`AnswerSound`). `DoorsTheorem` then compares the doors' checks and their tables of units.
`ExactTheorem`: nothing leads back from infinity, so an accumulator that is finite at the end has been finite and
exact after each operand (`FiniteIsExact`); a date is answered only if all four
sums fit. `CleanTheorem` is for texts of any length. All filters are a `Retained` of the text.
One
pass over the tags keeps no span and never one half of a tag (`KeptWell`): that is shown of
the pass from each place on (`PassKeeps`). Where the text has no tag in two parts, no
later cut makes one (`TagsStay`), so that neither the second pass nor the later filters
join a span; where it has one, a cut may, and the theorem excludes such texts
for the spans, and for nothing else. The rounds that cut out echoes are as many as the text has
tokens, and each takes one away at least as long as there is something to cut out, so none
is left (`EchoesGo`). That the later filters bring nothing back is `RetainedClean`: what
they take away is line ends and objects alone on a line, and then no other token becomes
alone and no name gets an object that it did not have. It is why the order of the filters
matters. It rests on `TextsAssumption`.

**`AgentProofs`** (any manifests, any number of skills, windows, values and operations). The
invariant ties the agent and the store to the skills they were made from:

    AgentInv == EnabledOK /\ hint \in SkillIds \cup {0} /\ ComposedOK /\ SlotsOK

Skills are enabled once each; the agent is what `compose_agent` makes of them in some
window; a slot has the type its declarations compose to, and every entry carries the id of
an append that its skill's count includes. The last part is what `CommuteTheorem` needs: an
append takes an id that no entry has, so a patch that was asked of an entry cannot meet
the new one. Two appends of one slot commute because each skill has its own count. Two
patches of one field do not commute, and the theorem does not say so (`Independent`).

`OrderTheorem`: the merge sorts *indices* of the enabled list, and the proof shows that
only the skills matter. The place of an index is the rank of its skill, how many
skills lead it; two skills have two ranks (ids differ) and every place is taken, so the sorted
list is a function of the set (`SortedByRank`, `MergeOrderIs`). What refuses a composition
must not depend on the order either. For the meter that is not obvious, since the sum
saturates on the way: it is shown to be the cardinality of the set of all tokens, cut off at
the bound (`CostsCount`). `ReserveTheorem` is the other half: below the bound the
saturating sum is the exact one (`CostsSaturate`), and a window below the bound blocks what
reaches it. Both are sums over a list; as elsewhere a least counterexample replaces
induction.

`SlotTypeTheorem`: compatibility is not transitive (a bare `scalar` suits all), which is
why the code compares all pairs. Widening two compatible types leaves the required paths
as they were (`WidenRequires`) and at each of them a kind that still suits every type both
suited (`WidenSuits`), so a fold over declarations that suit each other in pairs suits them
all (`ComposedSuits`). Optional fields are not compared. What the theorem says of them is that
none is lost: the composed type has what a declarer says of a path, unless an earlier
declarer `Overruled` it at an optional field on the way. For that every node
of the composed type is one a declarer said (`Sourced`), and where it is not the
declarer's own, an earlier one overruled it (`Told`, `WidenTells`). It rests on schemas
that contain the beginnings of their paths, as parsed ones do.

`CanonicalTheorem` goes through the validator rule by rule: a default that is filled in is one
the rules accept, a price that is given survives as cents, a panel's region, props and
emits are given after the first pass and so left alone by the second.

These rest on `ManifestsAssumption` (ids name skills; a manifest is one the JSON could be:
`IsManifest` says which parts it has and that a section that is absent has no fields; nothing
about it being valid), `WindowsAssumption` (a window is a number), `U32Assumption`,
`FieldsAssumption` and `EventsAssumption` (the names the code itself uses exist), and
`AbsentAssumption`: what stands for "not given" is no number, name or list, which is what
`Option` and a missing key are.

**`ClientSessionProofs`** first proves the token service by itself (any families, rotations and
rows): `OneTipTheorem`, `LogoutTheorem`. The invariant ties together what each step leaves
behind: ids are given out in order (`Packed`); the one unused row of a family is its last
(`ChainOf`); a sweep has revoked exactly the rows behind it, so the last row of a family is
live as long as any is (`SweptOf`); and therefore every rotation claims a row, so that its
child ends the chain (`RotationsClaim`). The branch of `rotate` that mints a child
without a claim is never taken. `Min` of the free ids is the least by the library's
theorem on well-founded relations.

Then the client (any accounts, commands and rows). `ClientUsesTheService`
shows that the composition implements `RefreshTokens!Spec`: the client never sends a
token that has no row, so what is proved of the service holds beside any client. The
invariant binds what a command *holds* (the session it read, or an answer on its way to
the store) to the account of its row, from the snapshot on: `CommandSound` also says
that a rotation under way for a command is of the family it holds. With it a refresh
that ends after another login or a logout saves a token and an email that still belong
together: `OneAccountTheorem`. `KeptTokenTheorem` adds `Linked` (every used row has the
successor it was claimed for), which is what the retry grace looks for.
`IdentityTheorem` needs that a recovery code on its way is of some account. All rest on
`RowsAssumption`.

TLC evaluates every named assumption in a passing run.

**Only model-checked:**

- Liveness (`RowsFinish`, `CounterHeals`, `DriverFinishes`, `StoreOpens`, `JobsEnd`,
  `RunningTimerRests`): out of the prover's reach.

Every safety invariant, every action property and every refinement that a passing run
checks is also a theorem. Liveness stays with TLC because it needs `ENABLED` and
fairness, which the prover does not treat. What a recursive function computes is proved
only where a least counterexample replaces induction.

## 5. Not modelled

Of modelled components:

- The hosted checkout call, read endpoints, `recordPendingTopup` (nothing calls it).
- Days: the daily limits are counted within the one day the model spans.
- How a step-up proof is begun, mailed and consumed: a proof is valid or missing.
- Renaming a device and `last_seen`; the lifetime and churn signals, which only flag.
- `backend_client.rs` beyond the session: commerce reads that send the bearer and
  change nothing here; the signature over a step-up challenge.
- `fetch_guard.rs` and the redirect policy are one reason why an answer fails.
- Prompt rendering, context trimming, sampling, the grammar and the llama bindings.
- Panel state, chat messages, saved agents and cached licenses in `store.rs`: keyed
  saves and reads that no other operation meets.
- Labels, layout, presets, wording of the persona block and of the disclosure.
- The formats of single manifest fields: a field is good, bad, of a wrong type or
  absent.

Components left out:

- Idempotency records and `RemoteSettlementPort`: a repeated wallet purchase is caught
  by the ledger key, which Settlement models; what the caller is *told* after a lost
  answer is not.
- License issuance and re-issuance, server migrations, continuity batches, accounts and
  OAuth: single-document updates or jobs on their own collections.
- Catalog, certification, packaging, registry, signing, security, observability:
  reads, pure functions and cryptography.
- Updater, deep links, telemetry, offline matrix, generated grammar: one check, one
  parser, an append-only log, a table.
- The Angular interface: presentation over the commands that are modelled.
- Contracts, deployment, evaluation, fulfilment, sites: schemas, scripts and pages.

## 6. Where the code and its comments differ

Two have a run whose counterexample shows them; their quotations are in
`PROJECT.json`, `findings`.

*RefreshReuse*: `RefreshTokenService.rotate` revokes the family of a used token that is
presented again (line 115) and throws (116). It is `@Transactional`, and `ApiException` is
unchecked, so the exception rolls the revocation back and the family lives on. The
doc (lines 30-31) and the test `reuseOfAnAlreadyUsedTokenRevokesTheWholeFamily`, which
runs without a transaction manager, say that it is revoked.

*SecondAccount*: `ensure_device_session` tests for a session before the
registration is awaited and saves afterwards without testing again: two overlapping
`device_ensure` commands of a fresh install register two accounts, and the second
overwrites the first and its recovery code.

The models have these further behaviours, seen while modelling, without a run of
their own. On the server:

- `SettlementLogService:37`: an order that settles after the account's chargeback gets
  a clean settlement row, from which licenses are issued; lines 18-20 say a blocked
  account gets none. `:69`: the block is a flag on existing rows, so the chargeback of a
  never-delivered order on an account without rows blocks nothing.
- `SettlementWorker:237`: an approval processed before the hold it releases matches
  nothing and is dropped, and the hold lasts for ever (`AntiFraudService:30-31`).
- `WalletService:167`: a reversal that arrives before the account has a wallet fails
  until it is dead-lettered, and the top-up is credited later.
- `SettlementService:241`: a wallet purchase that began before a chargeback commits
  after it. `:206`: a pending top-up reversed on an existing wallet is clawed back
  though it was never credited; ledger, balance and order agree with each other.
- `OrderService:194`: two first top-ups pass checkout in two currencies; the second
  can never be credited. `:115`: a wallet checkout without an Idempotency-Key is a null
  in a unique index, so only one such purchase fits (`Keys \cup {None}`).
- `SettlementWorker:218`: the fingerprint velocity is read before the transaction that
  stamps the fingerprint, so two workers exceed it. `:225`: the first success event of
  a payment decides its risk. `:276`: the fallback correlation serves reversals too.
  `:343`: final marks are by id, so a worker that outlives the stale cutoff moves a
  finished row; `RowsFinish` is checked with `SlowWorkers = FALSE` for that reason.
  For the same reason `attempts` can pass the maximum: two workers that hold one row
  each compare the count they read at their own claim. `:190`: when `markProcessed` fails
  after the transaction has committed, an attempt is counted, and a row that was applied
  can end as dead-lettered.
- `SettlementWorker:155`: only a `WebhookVerificationException` is caught, though the
  comment says "Unverifiable can never succeed -> dead-letter". A signed body on which
  `StripePaymentProvider:104` throws Gson's `JsonSyntaxException` ends the tick, and the
  row is claimed again whenever it is stale, for ever; `RowsFinish` leaves such rows out.
- `DeviceSlotReconciler:55`: the reconciler writes a count that a registration
  outdated, and one device too many is admitted (lines 18-22 say it only heals). It is
  the only way past the cap: `CapHolds`.
- `AuthService:138`: a whole-document save of the user undoes the trust-on-first-use
  flip (`StepUpService:30`), and the exemption is granted twice.
- `DeviceService:195`: two deauthorizations count two devices each and empty the trust
  root without a proof.

In the client:

- `session.rs`: a refresh that finishes after a logout resurrects the session on the
  device, and one of an old account overwrites a new login (tokens and email stay
  those of one account). An answer lost for longer than the grace strands a device-only
  account. After a logout the identity keeps the registration and recovery code of the
  previous account, and the entitlement cache is not cleared.
- `unlock.rs:188`: a purchase writes the unlock record "so this can never clobber a real
  code redemption's record", but a redemption that overlaps is overwritten. When both have
  truncated the file and the purchase writes last (`:258`), the tail of the longer record
  stays behind the shorter one: the file does not parse, and the skill is locked after the
  next start. The canonical form truncates characters to bytes (`c as u8`).
- `hpskill.rs`, `main.rs`: enable and disable do not touch the registry; the row always
  saves `enabled = false`; start-up marks rows as owned without checking again. One
  malformed entry of the key environment empties the trust set. Only the manifest is
  signed, not the other files.
- `downloader.rs`: there is no timeout on the transfer, and the cancel flag is read only
  between chunks (`:678`), so that a server that stops answering keeps the status at
  Downloading, and refuses every other start, until the client is restarted. The body of a
  part is appended whatever its length (`:642-704`), and `ModelDeltaPart.sha256` is not
  compared: a part that was published anew displaces the next, which is found when the
  whole file fails its verification. A part file of full length that fails
  verification is never removed; a complete part with unknown total asks for a range
  beyond the end for ever; a final file is trusted for any re-publication under the
  same id and version.
- `license_verify.rs`: no command calls the verifier yet. `shared_state.rs`: the
  application does not build the store yet.
- `templates.rs`: a load resolves installed rows only, so bundled skills are reported
  missing; a save keeps the enabled order and no primary hint; names with one slug
  overwrite each other; `breaking` looks at the major number though a caret of 0.x ends
  at the minor; `>=` pins load newer majors.
- `manifest.rs`: accepts schemas that `shared_state.rs` cannot parse (a bare `list`,
  `record<...>`) and rejects some that it can; a price under half a cent becomes zero,
  which the validator refuses.
- `shared_state.rs`: `widen` calls its last case "Unreachable for compatible inputs" and
  its doc says "required fields are guaranteed to agree". Optional fields are never
  compared: one that is a number to one skill and a record to another composes, the first
  declarer is followed, and what the other writes there it does not expect. Below an
  optional field both have, the composed type can require a field the first declarer
  does not know. Patches of one
  field do not commute, though the doc says append and patch do. The writer of record is
  not always the "highest-priority read_write declarer" when a primary hint leads.
- `orchestrator.rs`, `tool_routing.rs`: one skill that lists a tool twice with
  different configurations gives two calls one name; routes are keyed by the tool.
  `capacity.rs`: saturation fools the meter only for a window of the type's maximum.
- `inference.rs`: the cancel of a job still queued is forgotten; after a cancel the
  events of executed calls are not shown, and an engine error hides executed steps. The
  comment at 657-658 "guarantees no raw result JSON reaches chat regardless", but an
  echo with text after it on its line is shown, and so is a span whose tag a cut has
  joined: `strip_spans` (671-692) reads the text once, and
  `<tool_<tool_result>a</tool_result>result>{..}</tool_result>` leaves a whole span.
  `turn.rs:306` says "All set - that's
  already done" also after a tool that failed.
- `tool_catalog.rs`, `tools.rs`: serde takes an array for a struct at the interface's
  door, the model's door takes objects only.

## 7. Plan

What would extend the project next, in order of importance:

1. `LicenseIssuance`: `LocalLicenseIssuer` against grants, settlement rows and devices
   that change, and `RollingKeyReissuer` with crashes between supersede and insert;
   composed with License of the client.
2. `IdempotentRequests`: placeholder, replays, lost answers between the api and worker
   zones, composed with the wallet purchase's ledger key.
3. Migrations and continuity batches of the server: a lock that expires; unversioned
   approvals.
