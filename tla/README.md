# Verification of the covenant emulator

TLA+ models of `covd`, the daemon each member of Babylon's covenant committee
runs, TLC configurations that check them on small instances, and TLAPS proofs
of their safety properties for all instances. Paths are relative to the
repository, which is under `src/`.

## The system

| Part | Code | State | Operations |
|---|---|---|---|
| Submission loop | `covenant/covenant.go` | `ce.params`, the delegations of the round | update the parameters, query, sanitize, batch, check, sign, submit |
| Checks and data | `covenant/covenant.go`, `types/` | none | `AddCovenantSignatures` per delegation, quorum and time functions |
| Batching | `covenant/covenant.go` | loop variables | `delegationsToBatches` |
| Lifecycle | `covenant/covenant.go`, `covenant/service/server.go` | `started`, two `sync.Once`, `WaitGroup`, `quit`, ticker | `RunUntilShutdown`, `Start`, `Stop`, the loop's `select` |
| Babylon client | `clientcontroller/` | none between calls | `QueryStakingParams`, `QueryPendingDelegations`, `SubmitCovenantSigs`, conversions; for the tests, finality providers, headers, a delegation |
| Babylon chain | not in the repository | parameters, delegations, signatures, transactions on their way | governance, new delegations, execution or loss of transactions |
| Configuration | `config/` | the config file | load, validate, defaults |
| Command line | `cmd/covd/` | the home directory | `init`, `create-key`, `start` |
| Keyring | `keyring/` | the keys | create, read |
| Logging, paths, codec | `log/`, `util/`, `codec/` | none | |
| Test support | `itest/`, `testutil/`, `tools/` | the node's process, two directories | start, register, insert, wait, stop |

Every `QueryInterval` the loop of a member reads the parameters from the chain
(two queries, retried together up to five times), reads the first page of
pending delegations, removes those it has signed, cuts the rest into batches and
hands each batch to `AddCovenantSignatures`. That function checks and signs the
delegations one after the other and submits one transaction for the batch; the
first delegation that fails a check, or already has a quorum, ends the batch and
discards what was signed. Errors are logged and the loop goes on. Nothing is
stored: after a crash the chain is the only memory.

What is hard about it: governance replaces the parameters between any two calls;
the two queries may see different versions; a transaction may be executed late,
or not at all, whatever the client was told; the daemon may die between any two
calls; members count each other's signatures while they sign; the loop may pick
a tick although `quit` is closed; unsigned sums and subtractions sit next to
slice expressions and panics.

## Modules

* `Delegation`: pure functions. `Verdict` is one iteration of the loop of
  `AddCovenantSignatures`, with its checks in the order of the code: it says
  whether the delegation is signed, ends the batch (`error`, `skip`) or kills
  the process (`panic`). A Bitcoin transaction is the record of what the checks
  compare, plus `form`, how far its encoding can be processed.
  `ConvertDelegationType` is the conversion of the client, which leaves
  `StakingOutputIdx` at 0. `CheckTransactions` is external (Babylon's library),
  given by its arguments. `SpendingRules` is the promise of the repository's
  README (lines 11-23): the first two rules (`SlashingRules`) for both slashing
  transactions, and the third (`UnbondingRule`) for the output of the unbonding
  transaction, which must be locked no shorter than the minimum. The code does not
  look at that output. `RulesChecked` is what it does check: the first two rules,
  and that the unbonding time the delegation states, and the lock of the change
  outputs of both slashing transactions, exceed the minimum.
* `StoreOrder`: lists of delegations, and of finality providers, as sets ordered by
  number: their first elements (`FirstN`), and the sequence (`InOrder`).
* `Babylon`: the chain, external. `hist` holds every version of the parameters,
  so that a property can speak of the version in force at some time.
* `CovenantEmulator`: the committee. Each honest member is a process whose
  `pc` stands at the next call of the chain:

  | Action | Code |
  |---|---|
  | `Start`, `Crash` | `NewCovenantEmulator`, `Start`; the end of the process |
  | `Tick` | the ticker's case of the `select` |
  | `QueryCheckpointParams`, `QueryStakingParams` | the two queries, and the assignment to `ce.params` |
  | `QueryParamsFails` | `getParamsWithRetry`: again from the first query, or `continue` |
  | `QueryPendingDelegations`, `QueryPendingFails` | query, conversion, `removeAlreadySigned` |
  | `AddCovenantSignatures` | one batch up to the submission |
  | `SendTx`, `SubmitReturns` | `SubmitCovenantSigs` and the client's own repetition |

  Faulty members sign what they like. `since` and `until` of a transaction, and
  `round`, are history: no guard reads them.
* `Committee`: what the committee promises, without the program. An honest member
  approves a batch in one step, if all of it obeyed the rules during the round; the
  chain records approvals, each member's once and only where they are needed; an
  approval may come to nothing. `CovenantEmulator` implements it
  (`ImplementsCommittee`): a member's approvals are the batch it is submitting and
  its transactions in the mempool (`Approved`), the rounds are `round`.
* `Batches`: `delegationsToBatches` by itself, with unsigned integers of
  `UintModulus` values. It justifies the use of `FirstN` in `CovenantEmulator`.
* `CovenantServer`: goroutines that call `RunUntilShutdown`, or `Start` and then
  `Stop`, with the steps of `sync.Once`, `WaitGroup` and `quit`, and the loop
  reduced to waiting, running a round and having exited.
* `Lifecycle`: the same for its callers: a service that is new, running or has
  ended, does one round at a time, ends between rounds after it was told to, and
  lets nobody return from `Stop` before. `CovenantServer` implements it
  (`ImplementsLifecycle`), with `Phase` read off the loops.
* `Covd`: the commands. `file` is the content of `covd.conf`, one line for each
  of the nineteen options, in the order of the fields of `Config` and `BBNConfig`;
  `keys` is the keyring. `init` and `create-key` are
  one process, `cli`, that stands between its steps on the file system and may be
  killed at each of them; `start` is another, `daemon`:

  | Action | Code |
  |---|---|
  | `InitHome` | `initHome` up to the writing of the file |
  | `CreateKeyLoads`, `CreateKeyStores` | `createKey`: `LoadConfig`; the new key and the changed configuration |
  | `CreateFile`, `WriteLine`, `FileWritten` | `WriteFile` of both: truncated, filled line by line, closed |
  | `Interrupted` | an error or the end of the process |
  | `Edit` | the operator changes a line |
  | `StartLoads`, `NewRootLogger`, `NewBabylonController`, `NewCovenantEmulator`, `StartReturns` | `start` |

  External: how the ini library reads and writes (options without a line keep
  their value, other values than the choices are errors, a file is truncated
  first), that the keyring refuses a name in use, and that the client's
  configuration is refused without a positive `Timeout` (`ClientConfigValid`). Only backends that keep their
  keys in a directory (`test`, `file`) are meant. `intended`, `saved`, `edited`,
  `meant` of `cli` and `whole` of `daemon` are history.
* `TestManager`: the end-to-end test, composed with the emulator it starts
  (`CovenantServer` with the test's goroutine as its only user) and with the checks
  of `Delegation`, which decide whether a round signs the test's delegation:

  | Action | Code |
  |---|---|
  | `PrepareKey`, `NewBabylonNodeHandler`, `LaunchNode`, `WritePid`, `HandlerStartFails` | `StartManager`, steps 1 and 2, and the handler's `Start` |
  | `NewEmulator`, `StartEmulator`, `WaitForServicesStart` | step 3 and the first wait |
  | `RegisterFinalityProvider`, `QueryFinalityProviders`, `QueryProvidersFails`, `CountProviders` | `StartManagerWithFinalityProvider`; one page of the query per step |
  | `QueryBtcLightClientTip`, `InsertBtcBlockHeaders`, `CreateBTCDelegation` | `InsertBTCDelegation`; `TestDelegation` is what it builds |
  | `WaitForNPendingDels`, `WaitForNActiveDels`, `WaitTimesOut` | the waits: `require.Eventually` |
  | `CallFails` | any other `require.NoError`; `FailNow` then runs what is deferred |
  | `Stop`, `InterruptNode`, `NodeWaited`, `NodeShutDown`, `CleanupFails`, `RemoveBaseDir` | `tm.Stop` and the handler's `Stop` |
  | `EmulatorStep`, `Round` | `Start`, `Stop` and the loop of the emulator, meanwhile |

  External: the node (it ends when interrupted, and may crash), the pages of the
  chain, that it takes only a staking transaction that is deep enough, and the fee of
  the slashing transactions that the data generators build (`SlashingFee`). A call
  that fails has had no effect on the chain. `fault` is history: something outside
  the test and the emulator has gone wrong.
* `MCCovenantEmulator`, `MCBatches`, `MCCovd`, `MCTestManager`: instances for TLC.
* `CovenantEmulatorProofs`, `CommitteeProofs`, `BatchesProofs`,
  `CovenantServerProofs`, `CovdProofs`, `StoreOrderProofs`, `TestManagerInvariant`
  and `TestManagerProofs`: proofs.

Operators introduced by a comment that begins with "Mutant" are faulty variants
of the definition that follows them. No specification uses them; they show that
a property fails when the code has that fault.

## Runs

Checked and found to hold:

| Run | Instance | Shows |
|---|---|---|
| `committee` | one honest, one faulty member; five delegations: one sends its slashed funds to two addresses, one makes a check panic, one the conversion; the output of one is not as stated; parameters that move the address and the minimum; 2 versions, 1 crash | `SpendingRulesEnforced` (the rules the code checks), `QuorumEnforcesRules` (the README's rules for what becomes active, the third one if the unbonding output is as stated), `UnprocessableUnsigned`, and `Inv`, the inductive invariant, also when the process dies in the middle of a round |
| `quorum` | one honest, one faulty member; governance changes up to twice between a quorum of 1 with a longer unbonding time, which one delegation equals, and a quorum of 2 | `SkipOnlyAfterGovernance`, and that the committee implements `Committee` (`ImplementsCommittee`) |
| `live` | two delegations that no version of the parameters accepts together, batches of one, a crash, 2 attempts of a query | `RoundParamsFresh`, `VerifiedGetsSigned` |
| `active` | two honest members, quorum of two | `VerifiedGetsActive` |
| `batches` | all lengths to 15, all batch sizes to 31 | `NoPanic`, `BatchesSlice`, `Inv`, `Returns` |
| `server` | two servers, two users | `OneLoop`, `QuietAfterStop`, `NoVainWait`, `Inv`, `ShutdownReturns`, and that they implement `Lifecycle` (`ImplementsLifecycle`) |
| `covd` | two key names, a backend other than the default; edits of the key directory; one interrupted writing | `RunsWithWholeConfig`, `SavedKeyFound`, `EditsKept`, `Inv` |
| `harness` | three finality providers on pages of two; sets of parameters, one of which asks for a higher fee than the test's data has | `LoopKeepsSupport`, `LeavesNothing`, `FailsOnlyInRace`, `ProvidersListed`, `Inv`, `TestEnds` |

`FailsOnlyInRace` names the two ways in which the end-to-end test fails although
nothing is wrong. `WaitForNPendingDels` starts to poll after the delegation was
inserted, and the emulator, which runs already, may have made it active by then;
with the default interval of 15 seconds this is rare. And the fee of the test's
slashing transactions does not depend on the parameters: if these ask for more, the
emulator rightly does not sign. `LeavesNothing` excludes two
things the code does: a test that fails in its set-up leaves what it has started
(`tm.Stop` is not deferred yet, and the handler's `Start` does not stop a node whose
pid file it cannot write), and `cleanup` returns `nil` when the directory of the
node cannot be removed.

Checked and found not to hold (the code and what is said of it disagree):

| Run | Statement | What happens |
|---|---|---|
| `unbonding` | the comment of step 2 of `AddCovenantSignatures`: the unbonding time exceeds both `MinUnbondingTime` and `CheckpointFinalizationTimeout` | only the first is compared; `MinimumUnbondingTime` is called by tests alone (`itest/test_manager.go`:240, `covenant/covenant_test.go`:66) |
| `blocked` | `README.md`:66-68, signatures are sent if verification is passed | a delegation that fails a check keeps the others of its batch from being signed, before and behind it, in every round |
| `starved` | the same | a page full of delegations that wait for other members hides the delegations behind it |
| `zerobatch` | `config/config.go`:82, `Validate` lets no illegal value pass | a `SigsBatchSize` of zero passes, and `delegationsToBatches` does not return |

In `unbonding`, `blocked` and `starved` the chain itself refuses delegations that
break the rules (`ChainChecks`), so that a member meets a failing delegation
only as the code can: after the parameters changed.

Five further disagreements follow from single lines and have no run.
`AddCovenantSignatures` (`covenant/covenant.go`:186) takes the value of the unbonding
output but does not compare its script with the one built from the unbonding time
stated, while "the covenant committee enforces" that "the unbonding time must be no
shorter than the protocol's minimum stake unbonding time" (`README.md`:11-23): unless
the chain compares them, which is outside the repository, a delegation whose output
unlocks earlier becomes active, as the second one of `committee` does.
`QuorumEnforcesRules` is limited accordingly. `create-key`
stores the key in the home directory (`cmd/covd/key.go`:75) and not in
`KeyDirectory`, the "Directory where keys will be retrieved from and stored"
(`README.md`:225); `SavedKeyFound` is limited accordingly. `LoadConfig` fills an
empty `Config` (`config/config.go`:67), while its comment says "Start with a default
config with sane settings". `LogLevel` may be `trace` (`config/config.go`:38), which
`NewRootLogger` refuses. `Covd` models the last three. `ConvertDelegationType`
(`clientcontroller/babylon.go`:249) does not copy `StakingOutputIdx`, "The index of
the staking output in the staking tx" (`types/delegation.go`:29), so that a
delegation of another output than the first is refused; `Delegation` has it so.

### Bounds

* `MaxVersions`: 2 versions are enough for the parameters to change at any point
  of a round, between the two queries included; 3 for a quorum that is raised and
  lowered again.
* `MaxCrashes` 1, in `committee` and `live`: a crash at every point. `quorum` has none,
  because of its size: that a crash keeps the refinement is left to the proof.
  `RtyAttNum` 2, in `live`: both outcomes of a failed attempt. Liveness does not depend on the bound, because a crash merely
  starts the round again.
* Five delegations with a limit of two fill a page and leave some out; batch
  sizes of one and two give both one and several delegations per transaction.
* One honest member and one faulty member are the interleavings that safety
  depends on: members share nothing but the chain, and a faulty member may record
  whatever another honest member could. `active` has two honest members.
* `TwoTo64` is 2^20 in the runs: it must exceed two uint16 ranges for a
  difference of heights to wrap beyond `MaxUint16`.
* `Batches` has 5-bit unsigned integers; the proof covers every width.
  `MaxBatches`, the batches that fit in memory, is what ends the loop when the
  batch size is zero.
* Two names, and a backend other than the default, let a `create-key` meet a file
  that names another key in each respect. `MaxInterrupts` 1: a writing of the file
  cut short after any of its nineteen lines, with every command after it. The
  number of keys needs no bound: a name can be created once. The only edit is of
  the key directory, because each option an edit can touch multiplies the contents
  of the file; the proofs cover all edits and any number of interruptions.
* Three providers on pages of two make the query take two pages, with a failure
  between them. The parameters let either bound of the unbonding time be the larger
  one, ask for no confirmations or for two, and for a fee that the test's data has or
  has not. Nothing else is bounded in
  `TestManager`.

`SavedKeyFound` speaks of files whose `KeyDirectory` is the home directory. Without
this it does not hold, even if nobody changes `KeyDirectory`: after an `init` that
was cut short the line is missing, `create-key` saves it as empty, and `start`
looks for the key below the user's home directory.

### Fairness

`CovenantEmulator`: the ticker fires, a crashed daemon is restarted and a
submission returns (the client's calls have timeouts), so these are weakly fair.
A query, the reading of the key, the handing over and the execution of a
transaction may fail any number of times but not for ever; these are strongly
fair, for each delegation. Governance, new delegations, faulty members and
crashes are not fair. `CovenantServer`: goroutines that can run do; `select`
chooses at random among ready cases, so choosing `quit` is strongly fair; the
calls themselves and the signal are not fair. `Batches`: a running loop goes on.
`TestManager`: the test's goroutine runs, a wait ends after a minute at the latest, a
round returns and an interrupted node ends (weak fairness); the emulator's steps are
fair as in `CovenantServer`. `TestEnds` relies on the node's reaction to the
interrupt: `cmd.Wait` has no timeout.

## Proofs

TLAPS proves, for all values of the constants that satisfy the named assumptions:

* `CovenantEmulatorProofs`: `Invariance` (with type correctness),
  `SpendingRulesSafe`, `QuorumSafe`, `UnprocessableSafe`, `RoundParamsSafe`,
  `SkipSafe`.
* `CommitteeProofs`: `SubmittedAboveSafe`, and `Implementation`,
  `CovenantEmulator` implements `Committee`.
* `CovenantServerProofs`: `Invariance`, `OneLoopSafe`, `QuietSafe`, `NoVainWaitSafe`,
  and `Implementation`, `CovenantServer` implements `Lifecycle`.
* `BatchesProofs`: `Invariance`, `NoPanicSafe`, `BatchesSliceSafe`.
* `CovdProofs`: `Invariance`, `WholeConfigSafe`, `SavedKeySafe`, `EditsSafe`.
* `TestManagerInvariant`: `UsesEmulator`, and the steps of the test but for the query
  of the providers; `TestManagerProofs`: `Invariance`, `LoopSupportSafe`,
  `LeavesNothingSafe`, `RaceSafe`, `ProvidersListedSafe`.
* `StoreOrderProofs`: lemmas on ordered lists and their pages.

The committee. `SpendingRulesEnforced` speaks of recorded signatures only; to be
preserved it needs the same of transactions on their way and of the one being
sent (`SentChecked`), which comes from the check of the batch against
`ce.params`; that these are of the current round is `RoundParamsFresh`, which
needs the order of the two reads (`ReadInOrder`). `VerdictRules` is the fact
about the code's checks: what they sign obeys `RulesChecked` under the parameters
used. `VerdictProcessable` is its counterpart for `UnprocessableSafe`: what they sign
has all its parts and a staking time that fits a timelock. `VerdictRules` needs the unbonding time to fit 16 bits (`DataAssumption`), because the
code truncates it. `RulesHeldStable` says that governance cannot undo what was
true of an earlier version. For `QuorumSafe` the record of a delegation names no
member twice (`RecordedChecked`), so that more signatures than there are faulty
members include one of an honest member; `RulesChecked` then gives the README's
rules on slashing, and the one on unbonding as far as the unbonding output is locked
for the time stated, which the code takes for granted. `SkipSafe` adds that the signatures
seen on a delegation in hand are fewer than the quorum of the parameters in use,
unless governance has moved on; it uses that no delegation is held outside a
round (`HeldInRound`).

`SubmittedAboveSafe` is what the comparison of the unbonding time does achieve: the
invariant `SubmittedAbove` speaks of `hist` at the version in `ce.params`, which
neither governance (it only appends) nor the member (it reads parameters only between
submissions) can change under a submission.

`Implementation` goes through the actions: those that touch neither the chain nor
what a member is submitting are stutters (`StutterRefines`), `AddCovenantSignatures`
is an approval (`ApproveRefines`), whose guard is `VerdictRules` under the parameters
of the round, and a `DeliverTx` is the signature of one batch (`DeliverRefines`). The
last needs that the delegations of a transaction that succeeds are pending and not
yet signed by its sender, and that the sender's approvals only shrink while those of
the others stay (`ApprovalsSettled`).

The lifecycle. The `WaitGroup`'s counter is 1 exactly while a loop is being
spawned or runs, and a caller gets to `Stop` only after `startOnce` is done, so
that `wg.Wait` cannot return too early. For the refinement the invariant also says
that once `startOnce` is done some loop has been spawned, so that `quit` is closed
in a phase in which `Lifecycle` may close. `NoVainWaitSafe` is the part of
`ShutdownReturns` that does not depend on fairness: a `sync.Once` that is running has
a goroutine inside it, and a counter above zero that is being waited for belongs to a
loop, which has not exited and for which `quit` is closed.

Batching. After the first iteration the batch size is at most `i`, and `i` is
below the length, which is at most half of the unsigned range: the sum cannot
wrap. In the first iteration it is the batch size itself.

The commands. A writer truncates the file and writes its lines in order, so a file
that has a timeout has every option before it (`PartAgrees`). This is not lost when
`create-key` loads a file that was cut short and saves it whole, with zero values
for what was missing: the timeout is then zero as well. `Agrees` is this relation
between a configuration and the whole one it should be, and the invariant has it
for the file (`FileInv`), for what a command has loaded (`CliInv`, where `meant` is
the whole one) and for what `start` has loaded (`DaemonInv`). The client refuses a
timeout of zero, so a daemon that runs has all options up to `Timeout`. Nothing
protects the three behind it: a daemon can run without `BlockTimeout`,
`OutputFormat` and `SignModeStr`, and `RunsWithWholeConfig` does not speak of them.
The mutant of the property is a client that does not validate.
`SavedKeySafe` needs that a `create-key` that is writing has its key in the
keyring under the names it writes (`CliInv`). `EditsSafe` needs that what
`create-key` has loaded, and what it is writing, agrees with every edit that
`edited` records, but for the options it sets (`EditsInv`).

The end-to-end test. `UsesEmulator` shows that every behaviour of the test is one of
`CovenantServer` with the test as its only user, so the invariant of the lifecycle is
taken from there (`EmulatorInvariance`, by instantiating `CovenantServerProofs`)
instead of being proved again. The invariant of the test relates three things: where
the test's goroutine stands in the emulator (`CallerInv`), what is deferred
(`DeferInv`), and which of the node and the directories exist (`SupportInv`). By the
lifecycle's invariant a running loop means that its caller is between `Start` and the
return of `Stop` (`EmulatorFacts`), so nothing is removed under a running loop.
`RaceSafe` needs that the delegation the test builds passes `Verdict` under every
parameters of the chain that do not ask for a higher fee (`TestDelegationSignable`),
so that a round signs it.
`ProvidersListedSafe` needs `PageInv`: between two pages the result lists the providers
before the next key, each once. One page more keeps this (`PageAppends`) because the
elements of an ordered page are the next ones of the store (`PrefixElements`,
`PrefixCounts`); that every finite set of numbers has its ordered sequence
(`AscendingExists`) is shown by a minimal counterexample, a subset without one of
least size, since induction over an operator is not available.

Assumed: the committee and the set of delegations are finite, delegations are
numbered, an unbonding time fits a Bitcoin timelock (the chain admits no other),
the page size, the batch size and the number of attempts are positive. The proofs
of `CovenantServer` assume finite, disjoint sets of callers, those of `Batches`
that a list is no longer than the largest signed integer, those of `Covd` that the
home directory has a name and that names are values, those of
`TestManager` that providers are finitely many numbers and the page size is positive,
that the staking time fits 16 bits and the fee is a number (`TestAssumption`), and that the chain's parameters
have a quorum above zero and leave room for an unbonding time above the minimum
(`ParamsAssumption`).

Only model-checked: the liveness properties (`VerifiedGetsSigned`,
`VerifiedGetsActive`, `Returns`, `ShutdownReturns`, `TestEnds`), which depend on
fairness. Every safety property that a passing run checks is also proved.

## Not modelled

Two commands that write the file at the same time; a home directory given to the commands by different
paths (`create-key` does not expand it); passphrases, and backends that keep keys
outside a directory; the connection of the client (`Close`, and `NewClientController`
of `clientcontroller/interface.go`, have no caller); cryptography, where making a
signature succeeds or fails as a whole; logging, paths, codec; the random data
(`testutil/`, most of `InsertBTCDelegation`'s fields), the generated mocks and
`tools/`. `HasCovenantQuorumOnSlashing` counts the unbonding signatures
instead of the slashing ones; the model does too, and the chain keeps the two
lists of the same length.
