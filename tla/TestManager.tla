----------------------------- MODULE TestManager -----------------------------
(***************************************************************************)
(* The end-to-end test: the goroutine that starts a Babylon node and an        *)
(* emulator, registers finality providers, inserts one delegation, waits       *)
(* until it is pending and then active, and stops everything (itest/), with    *)
(* the client functions that only it uses (clientcontroller/babylon.go,        *)
(* lines 312-442).  The emulator is CovenantServer with this goroutine as its   *)
(* one user; a round signs the delegation as Delegation's checks say.  The      *)
(* node and its chain are external.  A failed require ends the goroutine and    *)
(* runs what is deferred: tm.Stop, once StartManagerWithFinalityProvider has    *)
(* returned.                                                                   *)
(***************************************************************************)
EXTENDS Delegation, StoreOrder, Sequences, Functions

CONSTANTS
    Test,           \* the goroutine
    Providers,      \* the keys of the finality providers, in the chain's order
    PageLimit,      \* Limit of a page of finality providers
    ParamsSet,      \* the staking parameters a node may have
    StakingTime,    \* stakingTime of the test
    SlashingFee     \* external: the fee that datagen gives the slashing transactions

ASSUME TestAssumption ==
    /\ IsFiniteSet(Providers) /\ Providers \subseteq Nat \ {0}
    /\ PageLimit \in Nat \ {0}
    /\ StakingTime \in 0..MaxUint16
    /\ SlashingFee \in Nat

\* The parameters of a chain: the quorum is not zero, and the test's delegation
\* can have a longer unbonding time than the minimum.
ASSUME ParamsAssumption ==
    \A p \in ParamsSet :
        /\ p.SlashingRate \in Nat /\ p.MinSlashingTxFeeSat \in Nat
        /\ p.MinUnbondingTime \in Nat /\ p.FinalizationTimeoutBlocks \in Nat
        /\ MinimumUnbondingTime(p) < MaxUint16
        /\ p.ComfirmationTimeBlocks \in Nat
        /\ p.CovenantQuorum \in Nat \ {0}

VARIABLES
    cpc, started, startOnce, stopOnce, wg, quit, loop, tick, shutdown,
    test,           \* where the goroutine stands
    failed,         \* has a require failed?
    deferred,       \* is tm.Stop deferred?
    fault,          \* history: a call, the node or the clock has let the test down
    dirs,           \* the directories that exist: "base" with the key, "node"
    node,           \* the node: "none", "running", "exited", "crashed" or "reaped"
    interrupted,    \* was the node told to stop?
    params,         \* its parameters
    fps,            \* the registered finality providers
    page,           \* QueryFinalityProviders: the key it is at and its result
    tip,            \* the height of the Bitcoin light client
    at,             \* the height of the block with the staking transaction
    del             \* the delegation: "none", "pending" or "active"

Emulator == INSTANCE CovenantServer WITH Servers <- {}, Users <- {Test}

emulatorVars == <<cpc, started, startOnce, stopOnce, wg, quit, loop, tick, shutdown>>

testVars == <<test, failed, deferred, fault>>

nodeVars == <<node, interrupted, params, fps, tip, del>>

vars == <<emulatorVars, testVars, dirs, nodeVars, page, at>>

NoPage == [key |-> 0, fps |-> <<>>]

Init ==
    /\ Emulator!Init
    /\ test = "base" /\ failed = FALSE /\ deferred = FALSE /\ fault = FALSE
    /\ dirs = {}
    /\ node = "none" /\ interrupted = FALSE
    /\ params \in ParamsSet
    /\ fps = {} /\ page = NoPage
    /\ tip = 0 /\ at = 0
    /\ del = "none"

NodeUp == node = "running"

Proceed(from, to) == test = from /\ test' = to /\ UNCHANGED <<failed, deferred, fault>>

\* FailNow of require: the deferred Stop runs, unless it is what fails.
FailNow ==
    /\ failed' = TRUE
    /\ test' = IF deferred /\ test \notin {"wait", "remove"} THEN "stop" ELSE "ended"
    /\ UNCHANGED deferred

\* A new directory.
baseDir(name) == dirs' = dirs \cup {name}

\* Mutant: the handler leaves its directory behind.
cleanupNothing == UNCHANGED dirs

\* The pid file and the directory of the node are removed.
cleanup == dirs' = dirs \ {"node"}

-----------------------------------------------------------------------------
\* StartManager, step 1: the base directory and the covenant key in it.
PrepareKey ==
    /\ Proceed("base", "handler")
    /\ baseDir("base")
    /\ UNCHANGED <<emulatorVars, nodeVars, page, at>>

\* Step 2.  After an error the directory is removed again.
NewBabylonNodeHandler ==
    /\ Proceed("handler", "launch")
    /\ baseDir("node")
    /\ UNCHANGED <<emulatorVars, nodeVars, page, at>>

\* start of the handler: the process, then the file with its pid.
LaunchNode ==
    /\ Proceed("launch", "pid")
    /\ node' = "running"
    /\ UNCHANGED <<emulatorVars, dirs, interrupted, params, fps, tip, del, page, at>>

WritePid ==
    /\ Proceed("pid", "emulator")
    /\ UNCHANGED <<emulatorVars, dirs, nodeVars, page, at>>

\* Start of the handler cleans up after an error of either; it does not stop a
\* process that has been started.
HandlerStartFails ==
    /\ test \in {"launch", "pid"}
    /\ fault' = TRUE
    /\ FailNow
    /\ cleanup \/ UNCHANGED dirs
    /\ UNCHANGED <<emulatorVars, nodeVars, page, at>>

\* Step 3: client and emulator are created and the emulator is started.
NewEmulator ==
    /\ Proceed("emulator", "start")
    /\ UNCHANGED <<emulatorVars, dirs, nodeVars, page, at>>

StartEmulator ==
    /\ Proceed("start", "services")
    /\ Emulator!CallStart(Test)
    /\ UNCHANGED <<dirs, nodeVars, page, at>>

WaitForServicesStart ==
    /\ Proceed("services", "register")
    /\ cpc[Test] = "active" /\ NodeUp
    /\ UNCHANGED <<emulatorVars, dirs, nodeVars, page, at>>

-----------------------------------------------------------------------------
RegisterFinalityProvider(fp) ==
    /\ NodeUp
    /\ fp \notin fps
    /\ fps' = fps \cup {fp}
    /\ Proceed("register", IF fps' = Providers THEN "query" ELSE "register")
    /\ UNCHANGED <<emulatorVars, dirs, node, interrupted, params, tip, del, page, at>>

\* External: the page of the finality providers from a key on, in order.
FinalityProviders(key) ==
    LET from == InOrder({fp \in fps : fp >= key})
        size == IF Len(from) < PageLimit THEN Len(from) ELSE PageLimit
    IN  [ fps     |-> SubSeq(from, 1, size),
          NextKey |-> IF Len(from) > size THEN from[size + 1] ELSE 0 ]

\* Mutant: a page replaces the result so far.
QueryLastPage ==
    LET res == FinalityProviders(page.key)
    IN  /\ NodeUp
        /\ Proceed("query", IF res.NextKey = 0 THEN "queried" ELSE "query")
        /\ page' = [key |-> res.NextKey, fps |-> res.fps]
        /\ UNCHANGED <<emulatorVars, dirs, nodeVars, at>>

\* One iteration of the loop of QueryFinalityProviders.
QueryFinalityProviders ==
    LET res == FinalityProviders(page.key)
    IN  /\ NodeUp
        /\ Proceed("query", IF res.NextKey = 0 THEN "queried" ELSE "query")
        /\ page' = [key |-> res.NextKey, fps |-> page.fps \o res.fps]
        /\ UNCHANGED <<emulatorVars, dirs, nodeVars, at>>

\* Mutant: what a failed query has collected stays in the result.
QueryProvidersKept ==
    /\ test = "query"
    /\ fault' = TRUE
    /\ page' = [page EXCEPT !.key = 0]
    /\ UNCHANGED <<emulatorVars, test, failed, deferred, dirs, nodeVars, at>>

\* An error, or the end of the one timeout all pages share: it is polled again.
QueryProvidersFails ==
    /\ test = "query"
    /\ fault' = TRUE
    /\ page' = NoPage
    /\ UNCHANGED <<emulatorVars, test, failed, deferred, dirs, nodeVars, at>>

\* StartManagerWithFinalityProvider returns, and the test defers tm.Stop.
CountProviders ==
    LET complete == Len(page.fps) = Cardinality(Providers)
    IN  /\ test = "queried"
        /\ test' = IF complete THEN "tip" ELSE "query"
        /\ deferred' = complete
        /\ page' = IF complete THEN page ELSE NoPage
        /\ UNCHANGED <<emulatorVars, failed, fault, dirs, nodeVars, at>>

-----------------------------------------------------------------------------
\* InsertBTCDelegation: the staking transaction goes into the block after the
\* tip, and ComfirmationTimeBlocks blocks are put on top of it.
QueryBtcLightClientTip ==
    /\ Proceed("tip", "headers")
    /\ NodeUp
    /\ at' = tip + 1
    /\ UNCHANGED <<emulatorVars, dirs, nodeVars, page>>

\* Mutant: the block with the transaction is counted as a confirmation.
InsertTooFewHeaders ==
    /\ Proceed("headers", "create")
    /\ NodeUp
    /\ tip' = at + params.ComfirmationTimeBlocks - 1
    /\ UNCHANGED <<emulatorVars, dirs, node, interrupted, params, fps, del, page, at>>

InsertBtcBlockHeaders ==
    /\ Proceed("headers", "create")
    /\ NodeUp
    /\ tip' = at + params.ComfirmationTimeBlocks
    /\ UNCHANGED <<emulatorVars, dirs, node, interrupted, params, fps, del, page, at>>

\* External: the chain takes a staking transaction that is deep enough.
Confirmed == tip - at >= params.ComfirmationTimeBlocks

CreateBTCDelegation ==
    /\ test = "create" /\ NodeUp
    /\ IF Confirmed
       THEN /\ Proceed("create", "pending")
            /\ del' = "pending"
       ELSE FailNow /\ UNCHANGED <<fault, del>>
    /\ UNCHANGED <<emulatorVars, dirs, node, interrupted, params, fps, tip, page, at>>

WaitForNPendingDels ==
    /\ Proceed("pending", "active")
    /\ NodeUp /\ del = "pending"
    /\ UNCHANGED <<emulatorVars, dirs, nodeVars, page, at>>

WaitForNActiveDels ==
    /\ Proceed("active", "stop")
    /\ NodeUp /\ del = "active"
    /\ UNCHANGED <<emulatorVars, dirs, nodeVars, page, at>>

\* The delegation that InsertBTCDelegation makes.  Its data generators are given the
\* address and the rate of the parameters, but no fee.
TestDelegation ==
    LET unbondingTime == Uint16(Uint16(MinimumUnbondingTime(params)) + 1)
        slashing == [ to |-> params.SlashingAddress, rate |-> params.SlashingRate,
                      fee |-> SlashingFee, lock |-> unbondingTime, idx |-> 0 ]
    IN  [ StartHeight         |-> at,
          EndHeight           |-> at + StakingTime,
          UnbondingTime       |-> unbondingTime,
          StakingOutputIdx    |-> 0,
          SlashingTx          |-> slashing,
          BtcUndelegation     |-> TRUE,
          UnbondingTx         |-> [lock |-> unbondingTime],
          UnbondingSlashingTx |-> slashing,
          form                |-> "ok" ]

\* What the emulator makes of it.
Signable ==
    Verdict(ConvertDelegationType(TestDelegation, 0), params, "base" \in dirs) = "sign"

\* A minute of polling is over.  What can no longer come true is not the fault
\* of a slow machine.
WaitTimesOut ==
    LET hopeless == \/ test = "pending" /\ del = "active"
                    \/ test = "active" /\ ~Signable
    IN  /\ test \in {"services", "query", "queried", "pending", "active"}
        /\ cpc[Test] = "active"
        /\ fault' = (fault \/ ~hopeless)
        /\ FailNow
        /\ UNCHANGED <<emulatorVars, dirs, nodeVars, page, at>>

\* A call returns an error: require fails.  baseDir may have made its directory.
CallFails ==
    /\ test \in {"base", "handler", "emulator", "register", "tip", "headers", "create", "remove"}
    /\ fault' = TRUE
    /\ FailNow
    /\ \/ UNCHANGED dirs
       \/ test = "base" /\ baseDir("base")
       \/ test = "handler" /\ baseDir("node")
    /\ UNCHANGED <<emulatorVars, nodeVars, page, at>>

-----------------------------------------------------------------------------
\* Mutant: Stop begins with the removal of the base directory.
StopRemovesFirst ==
    /\ Proceed("stop", "stopping")
    /\ Emulator!CallStop(Test)
    /\ dirs' = dirs \ {"base"}
    /\ UNCHANGED <<nodeVars, page, at>>

\* tm.Stop: the emulator, ...
Stop ==
    /\ Proceed("stop", "stopping")
    /\ Emulator!CallStop(Test)
    /\ UNCHANGED <<dirs, nodeVars, page, at>>

\* Mutant: the node is not told to stop.
WaitWithoutInterrupt ==
    /\ Proceed("stopping", "wait")
    /\ cpc[Test] = "stopped"
    /\ UNCHANGED <<emulatorVars, dirs, nodeVars, page, at>>

\* ... the node, which is interrupted (an error of Signal is overridden by the
\* deferred Wait) and waited for; if it ends badly its directory is kept, ...
InterruptNode ==
    /\ Proceed("stopping", "wait")
    /\ cpc[Test] = "stopped"
    /\ interrupted' = TRUE
    /\ UNCHANGED <<emulatorVars, dirs, node, params, fps, tip, del, page, at>>

NodeWaited ==
    /\ test = "wait"
    /\ node \in {"exited", "crashed"}
    /\ node' = "reaped"
    /\ IF node = "exited" THEN Proceed("wait", "cleanup") ELSE FailNow /\ UNCHANGED fault
    /\ UNCHANGED <<emulatorVars, dirs, interrupted, params, fps, tip, del, page, at>>

NodeShutDown ==
    /\ Proceed("cleanup", "remove")
    /\ cleanup
    /\ UNCHANGED <<emulatorVars, nodeVars, page, at>>

\* cleanup only logs an error of RemoveAll.
CleanupFails ==
    /\ test = "cleanup" /\ test' = "remove"
    /\ fault' = TRUE
    /\ UNCHANGED <<emulatorVars, failed, deferred, dirs, nodeVars, page, at>>

\* ... and the base directory.
RemoveBaseDir ==
    /\ Proceed("remove", "ended")
    /\ dirs' = dirs \ {"base"}
    /\ UNCHANGED <<emulatorVars, nodeVars, page, at>>

-----------------------------------------------------------------------------
\* The goroutine inside Start and Stop, and the submission loop, which ends with
\* the process of the test.
EmulatorStep ==
    /\ test # "ended"
    /\ \/ Emulator!StartFirst(Test) \/ Emulator!SpawnLoop(Test)
       \/ Emulator!StopFirst(Test) \/ Emulator!Waited(Test)
       \/ Emulator!LoopTick(Test) \/ Emulator!LoopQuit(Test)
       \/ Emulator!TickerFires
    /\ UNCHANGED <<testVars, dirs, nodeVars, page, at>>

\* A round may sign the delegation; it does not if it has queried too early.
Round ==
    /\ test # "ended"
    /\ Emulator!RoundEnds(Test)
    /\ del' \in {del, IF del = "pending" /\ NodeUp /\ Signable THEN "active" ELSE del}
    /\ UNCHANGED <<testVars, dirs, node, interrupted, params, fps, tip, page, at>>

\* External: the node ends when it is interrupted, and may crash before.
NodeExits ==
    /\ NodeUp /\ interrupted
    /\ node' = "exited"
    /\ UNCHANGED <<emulatorVars, testVars, dirs, interrupted, params, fps, tip, del, page, at>>

NodeCrashes ==
    /\ NodeUp
    /\ node' = "crashed"
    /\ fault' = TRUE
    /\ UNCHANGED <<emulatorVars, test, failed, deferred, dirs, interrupted, params, fps, tip,
                   del, page, at>>

-----------------------------------------------------------------------------
StartManager ==
    \/ PrepareKey \/ NewBabylonNodeHandler \/ LaunchNode \/ WritePid \/ HandlerStartFails
    \/ NewEmulator \/ StartEmulator \/ WaitForServicesStart

StartManagerWithFinalityProvider ==
    \/ \E fp \in Providers : RegisterFinalityProvider(fp)
    \/ QueryFinalityProviders \/ QueryProvidersFails \/ CountProviders

InsertBTCDelegation == QueryBtcLightClientTip \/ InsertBtcBlockHeaders \/ CreateBTCDelegation

TearDown == Stop \/ InterruptNode \/ NodeWaited \/ NodeShutDown \/ CleanupFails \/ RemoveBaseDir

TestStep ==
    \/ StartManager
    \/ StartManagerWithFinalityProvider
    \/ InsertBTCDelegation
    \/ WaitForNPendingDels \/ WaitForNActiveDels
    \/ CallFails
    \/ TearDown

Next == TestStep \/ WaitTimesOut \/ EmulatorStep \/ Round \/ NodeExits \/ NodeCrashes

Spec == Init /\ [][Next]_vars

(***************************************************************************)
(* Fairness.  The goroutine runs, its waits end after a minute, a round        *)
(* returns, select does not pass over quit for ever, and an interrupted node    *)
(* ends.                                                                      *)
(***************************************************************************)
Fairness ==
    /\ WF_vars(TestStep) /\ WF_vars(WaitTimesOut)
    /\ WF_vars(EmulatorStep /\ UNCHANGED <<loop, tick>>)
    /\ WF_vars(EmulatorStep /\ Emulator!SpawnLoop(Test))
    /\ SF_vars(EmulatorStep /\ Emulator!LoopQuit(Test))
    /\ WF_vars(Round)
    /\ WF_vars(NodeExits)

FairSpec == Spec /\ Fairness

-----------------------------------------------------------------------------
(* The harness never takes from the submission loop what it works with: while   *)
(* the loop runs, the directories of its key and of the node exist and the      *)
(* node has not been waited for, however the test fails (Stop of TestManager    *)
(* stops the emulator first).                                                 *)
LoopKeepsSupport ==
    loop[Test] \in {"select", "round"} => dirs = {"base", "node"} /\ node # "reaped"

(* A test that passes, or that fails after its set-up although nothing let it   *)
(* down, leaves nothing behind: no loop, no process, no base directory, and no   *)
(* directory of the node unless cleanup has swallowed the error of its removal.  *)
(* (A test that fails in StartManager leaves what it has started.)              *)
LeavesNothing ==
    test = "ended" /\ (failed => deferred /\ ~fault) =>
        /\ loop[Test] = "exited" /\ node = "reaped"
        /\ dirs \subseteq {"node"} /\ (~fault => dirs = {})

(* If no call, node or clock lets it down, the test can still fail, but only     *)
(* because the emulator was quick (WaitForNPendingDels polls for a delegation    *)
(* that a round has made active already), or because the parameters ask for more  *)
(* than the fee of the data generators.  In particular the delegation is          *)
(* confirmed deep enough and passes every other check of the emulator.            *)
FailsOnlyInRace ==
    failed /\ ~fault => del = "active" \/ SlashingFee < params.MinSlashingTxFeeSat

\* A sequence of the elements of S, each once.
Lists(s, S) == Range(s) = S /\ Len(s) = Cardinality(S)

(* QueryFinalityProviders returns every registered provider once, over all       *)
(* pages, also after a query that failed between two pages.                     *)
ProvidersListed == test = "queried" => Lists(page.fps, fps)

(* The test ends, whatever fails: Stop waits for a loop and a node that end.     *)
TestEnds == <>(test = "ended")

-----------------------------------------------------------------------------
(* The inductive invariant behind the safety properties.                    *)

BeforeStart == {"base", "handler", "launch", "pid", "emulator", "start"}

SetUp == BeforeStart \cup {"services", "register", "query", "queried"}

Working == {"tip", "headers", "create", "pending", "active"}

TearingDown == {"stop", "stopping", "wait", "cleanup", "remove"}

TypeOK ==
    /\ test \in SetUp \cup Working \cup TearingDown \cup {"ended"}
    /\ failed \in BOOLEAN /\ deferred \in BOOLEAN /\ fault \in BOOLEAN
    /\ dirs \in SUBSET {"base", "node"}
    /\ node \in {"none", "running", "exited", "crashed", "reaped"}
    /\ interrupted \in BOOLEAN
    /\ params \in ParamsSet
    /\ fps \in SUBSET Providers
    /\ page \in [key : Providers \cup {0}, fps : Seq(Providers)]
    /\ tip \in Nat /\ at \in Nat
    /\ del \in {"none", "pending", "active"}

\* Where the goroutine stands in the test decides where it stands in the emulator.
CallerInv ==
    /\ test \in BeforeStart => cpc[Test] = "idle"
    /\ test = "services" => cpc[Test] \in {"start", "adding", "active"}
    /\ test \in (SetUp \ (BeforeStart \cup {"services"})) \cup Working \cup {"stop"}
          => cpc[Test] = "active"
    /\ test = "stopping" => cpc[Test] \in {"stop", "waiting", "stopped"}
    /\ test \in {"wait", "cleanup", "remove"} => cpc[Test] = "stopped"
    /\ test = "ended" => cpc[Test] \in {"idle", "active", "stopped"}

\* tm.Stop is deferred after the set-up, and only it goes on after a failure.
DeferInv ==
    /\ test \in SetUp => ~deferred
    /\ test \in Working \cup TearingDown => deferred
    /\ failed => test \in TearingDown \cup {"ended"}

\* The directories and the node outlive every use of the emulator.
SupportInv ==
    /\ test = "base" => dirs = {}
    /\ test = "handler" => dirs = {"base"}
    /\ test \notin {"base", "handler", "remove", "ended"} => dirs = {"base", "node"}
    /\ test = "remove" /\ ~fault => dirs = {"base"}
    /\ cpc[Test] \notin {"idle", "stopped"} => dirs = {"base", "node"}
    /\ node = "reaped" => cpc[Test] = "stopped" /\ test \in {"cleanup", "remove", "ended"}
    /\ test \in {"cleanup", "remove"} => node = "reaped"
    /\ node = "crashed" => fault

\* Between two pages the result holds the providers before the next key.
PageInv ==
    /\ test \in SetUp \ {"query", "queried"} => page = NoPage
    /\ test = "query" => Lists(page.fps, {fp \in fps : fp < page.key})

(* Where the test stands, what exists and what the emulator is doing agree at    *)
(* every step, also when the test is failing (test_manager.go, e2e_test.go).    *)
Inv ==
    /\ TypeOK /\ CallerInv /\ DeferInv /\ SupportInv /\ PageInv
    /\ test = "create" => Confirmed
    /\ LeavesNothing /\ FailsOnlyInRace /\ ProvidersListed

=============================================================================
