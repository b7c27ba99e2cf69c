------------------------- MODULE TestManagerInvariant -------------------------
(* The steps of TestManager keep its inductive invariant, whatever the           *)
(* providers, pages and staking parameters are.  The steps that query the       *)
(* providers, and the theorems, are in TestManagerProofs.                       *)
EXTENDS TestManager, TLAPS

\* The backends that a leaf without one is tried with, and their time in seconds.
USE SMTT(20), ZenonT(20)

-----------------------------------------------------------------------------
(* The emulator inside the test.                                            *)

(* Every step of the test is a step of the emulator or leaves it alone.        *)
LEMMA NextRefines == [Next]_vars => [Emulator!Next]_(Emulator!vars)
<1> SUFFICES ASSUME [Next]_vars
             PROVE  Emulator!Next \/ UNCHANGED Emulator!vars
  OBVIOUS
<1> USE DEF Emulator!vars, emulatorVars
<1>1. CASE UNCHANGED emulatorVars
  BY <1>1
<1>2. Test \in Emulator!Callers
  BY DEF Emulator!Callers
<1>3. CASE StartEmulator \/ Stop
  BY <1>2, <1>3 DEF StartEmulator, Stop, Emulator!Next, Emulator!CallerStep
<1>4. CASE EmulatorStep \/ Round
  BY <1>2, <1>4
     DEF EmulatorStep, Round, Emulator!Next, Emulator!CallerStep, Emulator!LoopStep
<1>5. CASE UNCHANGED vars
  BY <1>1, <1>5 DEF vars
<1>6. CASE StartManager
  BY <1>1, <1>3, <1>6
     DEF StartManager, PrepareKey, NewBabylonNodeHandler, LaunchNode, WritePid,
         HandlerStartFails, NewEmulator, WaitForServicesStart
<1>7. CASE StartManagerWithFinalityProvider \/ InsertBTCDelegation
  BY <1>1, <1>7, Zenon
     DEF StartManagerWithFinalityProvider, RegisterFinalityProvider,
         QueryFinalityProviders, QueryProvidersFails, CountProviders,
         InsertBTCDelegation, QueryBtcLightClientTip, InsertBtcBlockHeaders,
         CreateBTCDelegation
<1>8. CASE TearDown
  BY <1>1, <1>3, <1>8
     DEF TearDown, InterruptNode, NodeWaited, NodeShutDown, CleanupFails, RemoveBaseDir
<1>9. CASE \/ WaitForNPendingDels \/ WaitForNActiveDels \/ CallFails \/ WaitTimesOut
           \/ NodeExits \/ NodeCrashes
  BY <1>1, <1>9
     DEF WaitForNPendingDels, WaitForNActiveDels, CallFails, WaitTimesOut, NodeExits,
         NodeCrashes
<1> QED
  BY <1>4, <1>5, <1>6, <1>7, <1>8, <1>9 DEF Next, TestStep

(* The test uses the emulator as one of CovenantServer's goroutines.            *)
THEOREM UsesEmulator == Spec => Emulator!Spec
<1>1. Init => Emulator!Init
  BY DEF Init
<1> QED
  BY <1>1, NextRefines, PTL DEF Spec, Emulator!Spec

(* What of it the test relies on: a running loop means that the goroutine is     *)
(* between Start and the return of Stop, which leaves a loop that has exited.    *)
LEMMA EmulatorFacts ==
    ASSUME Emulator!Inv
    PROVE  /\ cpc \in [{Test} -> Emulator!CallerPC] /\ loop \in [{Test} -> Emulator!LoopPC]
           /\ loop[Test] \in {"select", "round"} => cpc[Test] \in {"active", "stop", "waiting"}
           /\ cpc[Test] = "stopped" => loop[Test] = "exited"
<1> USE DEF Emulator!Inv, Emulator!TypeOK, Emulator!Callers
<1>1. cpc \in [{Test} -> Emulator!CallerPC] /\ loop \in [{Test} -> Emulator!LoopPC]
  OBVIOUS
<1>2. ASSUME cpc[Test] = "stopped" PROVE loop[Test] = "exited"
  BY <1>2 DEF Emulator!Busy, Emulator!LoopPC
<1>3. loop[Test] \in {"select", "round"} => cpc[Test] \in {"active", "stop", "waiting"}
  BY <1>2
<1> QED
  BY <1>1, <1>2, <1>3

-----------------------------------------------------------------------------
(* The delegation of the test.                                              *)

(* A number below the modulus is not changed by it.                            *)
LEMMA SmallModulo ==
    ASSUME NEW a \in Nat, NEW b \in Nat, a < b
    PROVE  a % b = a
OBVIOUS

(* It passes every check of AddCovenantSignatures, if the parameters do not ask   *)
(* for more than its fee and the key can be read.                              *)
LEMMA TestDelegationSignable ==
    ASSUME params \in ParamsSet, at \in Nat, "base" \in dirs,
           ~(SlashingFee < params.MinSlashingTxFeeSat)
    PROVE  Signable
<1> DEFINE m == MinimumUnbondingTime(params)
           del0 == ConvertDelegationType(TestDelegation, 0)
<1>1. /\ params.MinUnbondingTime \in Nat /\ params.FinalizationTimeoutBlocks \in Nat
      /\ params.SlashingRate \in Nat /\ params.MinSlashingTxFeeSat \in Nat
      /\ params.CovenantQuorum \in Nat \ {0} /\ m < MaxUint16
  BY ParamsAssumption
<1>2. m \in Nat /\ params.MinUnbondingTime <= m
  BY <1>1 DEF MinimumUnbondingTime
<1> HIDE DEF m
<1>3. Uint16(m) = m /\ Uint16(m + 1) = m + 1
  BY <1>1, <1>2 DEF Uint16, MaxUint16
<1>4. TestDelegation.UnbondingTime = m + 1
  BY <1>3, Zenon DEF TestDelegation, m
<1>5. /\ del0.BtcUndelegation /\ del0.UnbondingTime = m + 1 /\ del0.form = "ok"
      /\ del0.StakingOutputIdx = 0 /\ del0.CovenantSigs = 0
      /\ del0.EndHeight = at + StakingTime /\ del0.StartHeight = at
      /\ \A tx \in {del0.SlashingTx, del0.UnbondingSlashingTx} :
           tx = [ to |-> params.SlashingAddress, rate |-> params.SlashingRate,
                  fee |-> SlashingFee, lock |-> m + 1, idx |-> 0 ]
  BY <1>3, Zenon DEF TestDelegation, ConvertDelegationType, m
<1> HIDE DEF del0
<1>6. ~HasCovenantQuorum(del0, params.CovenantQuorum)
  BY <1>1, <1>5 DEF HasCovenantQuorum
<1>7. ~UnbondingTimeTooShort(del0, params)
  BY <1>1, <1>2, <1>5 DEF UnbondingTimeTooShort
<1>8. /\ CheckTransactions(del0.SlashingTx, del0.StakingOutputIdx, params, m + 1)
      /\ CheckTransactions(del0.UnbondingSlashingTx, 0, params, m + 1)
  <2>1. SlashingFee \in Nat /\ SlashingFee >= params.MinSlashingTxFeeSat
    BY <1>1, TestAssumption
  <2> QED
    BY <1>1, <1>5, <2>1 DEF CheckTransactions
<1>9. ~StakingTimePanics(del0)
  <2>1. StakingTime \in Nat /\ StakingTime <= MaxUint16 /\ StakingTime < TwoTo64
        /\ TwoTo64 \in Nat
    <3>1. MaxUint16 \in Nat /\ TwoTo64 \in Nat /\ MaxUint16 < TwoTo64
      BY TwoTo64Assumption DEF MaxUint16
    <3> QED
      BY <3>1, TestAssumption
  <2>2. del0.EndHeight - del0.StartHeight = StakingTime
    BY <1>5, <2>1
  <2>3. StakingTime % TwoTo64 = StakingTime
    BY <2>1, SmallModulo, Zenon
  <2> QED
    BY <2>1, <2>2, <2>3 DEF StakingTimePanics, MaxUint16
<1>10. Verdict(del0, params, "base" \in dirs) = "sign"
  BY <1>3, <1>5, <1>6, <1>7, <1>8, <1>9 DEF Verdict
<1> QED
  BY <1>10 DEF Signable, del0

-----------------------------------------------------------------------------
(* The inductive invariant of the test.                                     *)

(* A failing require: before the end of the set-up the test just ends, after it   *)
(* the deferred Stop follows, with everything that the emulator needs in place.   *)
LEMMA FailNowInv ==
    ASSUME Inv, FailNow, test \in SetUp \cup Working \cup {"wait", "remove"},
           cpc[Test] \in {"idle", "active", "stopped"},
           fault' \in BOOLEAN, fault => fault',
           \/ fault'
           \/ /\ test \in Working
              /\ del = "active" \/ SlashingFee < params.MinSlashingTxFeeSat,
           dirs' \in SUBSET {"base", "node"},
           dirs' = dirs \/ test \in BeforeStart,
           node' = node \/ (test = "wait" /\ node' = "reaped"),
           UNCHANGED <<cpc, loop, interrupted, params, fps, tip, del, page, at>>
    PROVE  Inv'
<1> USE DEF BeforeStart, SetUp, Working, TearingDown
<1>1. /\ failed' = TRUE /\ deferred' = deferred
      /\ test' = IF deferred /\ test \notin {"wait", "remove"} THEN "stop" ELSE "ended"
  BY DEF FailNow
<1>2. test' = "stop" => test \in Working /\ deferred
  BY <1>1 DEF Inv, DeferInv
<1>3. test' = "ended" => fault' \/ test \notin Working
  BY <1>1 DEF Inv, DeferInv, TypeOK
<1>4. TypeOK'
  BY <1>1 DEF Inv, TypeOK
<1>5. CallerInv'
  BY <1>1, <1>2 DEF Inv, CallerInv
<1>6. DeferInv' /\ PageInv' /\ ProvidersListed' /\ test' # "create"
  BY <1>1, <1>2 DEF DeferInv, PageInv, ProvidersListed
<1>7. SupportInv'
  BY <1>1, <1>2 DEF Inv, SupportInv, CallerInv
<1>8. LeavesNothing' /\ FailsOnlyInRace'
  BY <1>1, <1>3, Zenon DEF LeavesNothing, FailsOnlyInRace
<1> QED
  BY <1>4, <1>5, <1>6, <1>7, <1>8 DEF Inv

(* The set-up: what the emulator needs exists before it is started.             *)
LEMMA StartManagerInv ==
    ASSUME Inv, Emulator!Inv, StartManager
    PROVE  Inv'
<1>1. CASE HandlerStartFails
  <2>1. dirs' \in SUBSET {"base", "node"} /\ cpc[Test] = "idle" /\ test \in BeforeStart
    BY <1>1, Zenon DEF HandlerStartFails, cleanup, Inv, TypeOK, CallerInv, BeforeStart
  <2> QED
    BY <1>1, <2>1, FailNowInv DEF HandlerStartFails, emulatorVars, nodeVars, SetUp
<1>2. CASE StartEmulator
  <2>1. /\ test = "start" /\ test' = "services" /\ cpc'[Test] = "start"
        /\ UNCHANGED <<failed, deferred, fault, dirs, node, interrupted, params, fps, tip,
                       del, page, at>>
    BY <1>2, EmulatorFacts
       DEF StartEmulator, Proceed, nodeVars, Emulator!CallStart, Emulator!Goto
  <2> QED
    BY <2>1
       DEF Inv, TypeOK, CallerInv, DeferInv, SupportInv, PageInv, LeavesNothing,
           FailsOnlyInRace, ProvidersListed, BeforeStart, SetUp, Working, TearingDown
<1> USE DEF Inv, TypeOK, CallerInv, DeferInv, SupportInv, PageInv, LeavesNothing,
            FailsOnlyInRace, ProvidersListed, BeforeStart, SetUp, Working, TearingDown,
            emulatorVars, nodeVars, Proceed
<1>3. CASE PrepareKey
  BY <1>3, Zenon DEF PrepareKey, baseDir
<1>4. CASE NewBabylonNodeHandler
  BY <1>4 DEF NewBabylonNodeHandler, baseDir
<1>5. CASE LaunchNode
  BY <1>5 DEF LaunchNode
<1>6. CASE WritePid
  BY <1>6 DEF WritePid
<1>7. CASE NewEmulator
  BY <1>7 DEF NewEmulator
<1>8. CASE WaitForServicesStart
  BY <1>8 DEF WaitForServicesStart
<1> QED
  BY <1>1, <1>2, <1>3, <1>4, <1>5, <1>6, <1>7, <1>8, Zenon DEF StartManager

(* Between the registration and the count of the providers only the result of     *)
(* the query matters.                                                          *)
LEMMA QueryingInv ==
    ASSUME Inv, {test, test'} \subseteq {"register", "query", "queried"},
           fault' \in BOOLEAN, fault => fault',
           UNCHANGED <<cpc, loop, failed, deferred, dirs, node, interrupted, params, tip,
                       del, at>>,
           fps' \in SUBSET Providers,
           page' \in [key : Providers \cup {0}, fps : Seq(Providers)],
           PageInv', ProvidersListed'
    PROVE  Inv'
<1> USE DEF BeforeStart, SetUp, Working, TearingDown
<1>1. TypeOK'
  BY DEF Inv, TypeOK
<1>2. CallerInv' /\ DeferInv' /\ SupportInv'
  BY DEF Inv, CallerInv, DeferInv, SupportInv
<1>3. LeavesNothing' /\ FailsOnlyInRace' /\ test' # "create"
  BY Zenon DEF Inv, LeavesNothing, FailsOnlyInRace, DeferInv
<1> QED
  BY <1>1, <1>2, <1>3 DEF Inv

(* The delegation: it is inserted once it is confirmed, and waited for.          *)
LEMMA InsertInv ==
    ASSUME Inv, InsertBTCDelegation \/ WaitForNPendingDels \/ WaitForNActiveDels
    PROVE  Inv'
<1>a. params.ComfirmationTimeBlocks \in Nat /\ tip \in Nat /\ at \in Nat
  BY ParamsAssumption DEF Inv, TypeOK
<1>b. tip + 1 \in Nat /\ at + params.ComfirmationTimeBlocks \in Nat
  BY <1>a
<1>c. ASSUME InsertBtcBlockHeaders PROVE Confirmed'
  BY <1>a, <1>c DEF InsertBtcBlockHeaders, Confirmed
<1> USE DEF Inv, TypeOK, CallerInv, DeferInv, SupportInv, PageInv, LeavesNothing,
            FailsOnlyInRace, ProvidersListed, BeforeStart, SetUp, Working, TearingDown,
            emulatorVars, nodeVars, Proceed
<1>1. CASE QueryBtcLightClientTip
  BY <1>b, <1>1, Zenon DEF QueryBtcLightClientTip
<1>2. CASE InsertBtcBlockHeaders
  BY <1>b, <1>c, <1>2, ZenonT(30) DEF InsertBtcBlockHeaders
<1>3. CASE CreateBTCDelegation
  BY <1>3, Zenon DEF CreateBTCDelegation
<1>4. CASE WaitForNPendingDels
  BY <1>4, Zenon DEF WaitForNPendingDels
<1>5. CASE WaitForNActiveDels
  BY <1>5 DEF WaitForNActiveDels
<1> QED
  BY <1>1, <1>2, <1>3, <1>4, <1>5, Zenon DEF InsertBTCDelegation

(* An error, or the end of a minute: without a fault only the race, or the fee,    *)
(* makes a wait hopeless.                                                                   *)
LEMMA FailuresInv ==
    ASSUME Inv, CallFails \/ WaitTimesOut
    PROVE  Inv'
<1>1. CASE CallFails
  <2>1. /\ test \in {"base", "handler", "emulator", "register", "tip", "headers", "create",
                      "remove"}
        /\ FailNow /\ fault' = TRUE
        /\ UNCHANGED <<cpc, loop, node, interrupted, params, fps, tip, del, page, at>>
    BY <1>1 DEF CallFails, emulatorVars, nodeVars
  <2>2. /\ dirs' \in SUBSET {"base", "node"}
        /\ dirs' = dirs \/ test \in BeforeStart
    BY <1>1, Zenon DEF CallFails, baseDir, Inv, TypeOK, BeforeStart
  <2>3. cpc[Test] \in {"idle", "active", "stopped"}
    BY <2>1 DEF Inv, CallerInv, BeforeStart, SetUp, Working
  <2>4. test \in SetUp \cup Working \cup {"wait", "remove"}
    BY <2>1 DEF BeforeStart, SetUp, Working
  <2> QED
    BY <2>1, <2>2, <2>3, <2>4, FailNowInv
<1>2. CASE WaitTimesOut
  <2>1. /\ test \in {"services", "query", "queried", "pending", "active"}
        /\ cpc[Test] = "active" /\ FailNow
        /\ fault' = (fault \/ ~(\/ test = "pending" /\ del = "active"
                                \/ test = "active" /\ ~Signable))
        /\ UNCHANGED <<cpc, loop, dirs, node, interrupted, params, fps, tip, del, page, at>>
    BY <1>2 DEF WaitTimesOut, emulatorVars, nodeVars
  <2>2. test = "active" => Signable \/ SlashingFee < params.MinSlashingTxFeeSat
    BY TestDelegationSignable DEF Inv, TypeOK, SupportInv
  <2>3. /\ fault' \in BOOLEAN /\ (fault => fault')
        /\ \/ fault'
           \/ /\ test \in Working
              /\ del = "active" \/ SlashingFee < params.MinSlashingTxFeeSat
    BY <2>1, <2>2, Zenon DEF Working
  <2>4. /\ test \in SetUp \cup Working \cup {"wait", "remove"}
        /\ dirs \in SUBSET {"base", "node"}
    BY <2>1, Zenon DEF SetUp, Working, Inv, TypeOK
  <2> QED
    BY <2>1, <2>3, <2>4, FailNowInv
<1> QED
  BY <1>1, <1>2

(* Stop takes down the emulator, then the node, then the directories.           *)
LEMMA TearDownInv ==
    ASSUME Inv, Emulator!Inv, TearDown
    PROVE  Inv'
<1>1. CASE Stop
  <2>1. /\ test = "stop" /\ test' = "stopping" /\ cpc[Test] = "active" /\ cpc'[Test] = "stop"
        /\ UNCHANGED <<failed, deferred, fault, dirs, node, interrupted, params, fps, tip,
                       del, page, at>>
    BY <1>1, EmulatorFacts
       DEF Stop, Proceed, nodeVars, Emulator!CallStop, Emulator!Goto
  <2> QED
    BY <2>1
       DEF Inv, TypeOK, CallerInv, DeferInv, SupportInv, PageInv, LeavesNothing,
           FailsOnlyInRace, ProvidersListed, BeforeStart, SetUp, Working, TearingDown
<1>2. CASE NodeWaited
  <2>1. /\ test = "wait" /\ node' = "reaped" /\ fault' = fault
        /\ UNCHANGED <<cpc, loop, dirs, interrupted, params, fps, tip, del, page, at>>
    BY <1>2 DEF NodeWaited, Proceed, emulatorVars
  <2>2. /\ fault \in BOOLEAN /\ dirs \in SUBSET {"base", "node"} /\ cpc[Test] = "stopped"
        /\ node = "crashed" => fault
    BY <2>1 DEF Inv, TypeOK, CallerInv, SupportInv
  <2>3. CASE FailNow /\ node = "crashed"
    BY <2>1, <2>2, <2>3, FailNowInv
  <2>4. CASE test' = "cleanup" /\ UNCHANGED <<failed, deferred>>
    BY <2>1, <2>2, <2>4, Zenon
       DEF Inv, TypeOK, CallerInv, DeferInv, SupportInv, PageInv, LeavesNothing,
           FailsOnlyInRace, ProvidersListed, BeforeStart, SetUp, Working, TearingDown
  <2> QED
    BY <1>2, <2>3, <2>4 DEF NodeWaited, Proceed
<1>3. CASE RemoveBaseDir
  <2>1. loop[Test] = "exited"
    BY <1>3, EmulatorFacts, Zenon DEF RemoveBaseDir, Proceed, Inv, CallerInv
  <2> QED
    BY <1>3, <2>1
       DEF RemoveBaseDir, Proceed, emulatorVars, nodeVars, Inv, TypeOK, CallerInv, DeferInv,
           SupportInv, PageInv, LeavesNothing, FailsOnlyInRace, ProvidersListed,
           BeforeStart, SetUp, Working, TearingDown
<1> USE DEF Inv, TypeOK, CallerInv, DeferInv, SupportInv, PageInv, LeavesNothing,
            FailsOnlyInRace, ProvidersListed, BeforeStart, SetUp, Working, TearingDown,
            emulatorVars, nodeVars, Proceed
<1>4. CASE InterruptNode
  BY <1>4, Zenon DEF InterruptNode
<1>5. CASE NodeShutDown
  BY <1>5 DEF NodeShutDown, cleanup
<1>6. CASE CleanupFails
  BY <1>6 DEF CleanupFails
<1> QED
  BY <1>1, <1>2, <1>3, <1>4, <1>5, <1>6, Zenon DEF TearDown

(* The emulator and the node move on without the goroutine: a Stop returns when    *)
(* it is called, and a crash of the node is a fault.                            *)
LEMMA OthersInv ==
    ASSUME Inv, Emulator!Inv, EmulatorStep \/ Round \/ NodeExits \/ NodeCrashes
    PROVE  Inv'
<1>1. CASE EmulatorStep \/ Round
  <2>1. /\ test # "ended" /\ del' \in {del, "active"}
        /\ UNCHANGED <<test, failed, deferred, fault, dirs, node, interrupted, params, fps,
                       tip, page, at>>
    BY <1>1 DEF EmulatorStep, Round, testVars, nodeVars
  <2>2. \/ cpc' = cpc
        \/ cpc[Test] \in {"start", "adding"} /\ cpc'[Test] \in {"adding", "active"}
        \/ cpc[Test] \in {"stop", "waiting"} /\ cpc'[Test] \in {"waiting", "stopped"}
    BY <1>1, EmulatorFacts
       DEF EmulatorStep, Round, Emulator!StartFirst, Emulator!SpawnLoop,
           Emulator!StopFirst, Emulator!Waited, Emulator!LoopTick, Emulator!LoopQuit,
           Emulator!TickerFires, Emulator!RoundEnds, Emulator!Goto
  <2>3. CallerInv' /\ SupportInv'
    BY <2>1, <2>2, Zenon
       DEF Inv, TypeOK, CallerInv, SupportInv, BeforeStart, SetUp, Working, TearingDown
  <2>4. TypeOK'
    BY <2>1 DEF Inv, TypeOK
  <2>5. DeferInv' /\ PageInv' /\ ProvidersListed'
    BY <2>1 DEF Inv, DeferInv, PageInv, ProvidersListed
  <2>6. LeavesNothing' /\ FailsOnlyInRace' /\ (test = "create" => Confirmed)'
    BY <2>1 DEF Inv, LeavesNothing, FailsOnlyInRace, Confirmed
  <2> QED
    BY <2>3, <2>4, <2>5, <2>6 DEF Inv
<1>2. CASE NodeExits \/ NodeCrashes
  <2>1. /\ node = "running" /\ node' \in {"exited", "crashed"}
        /\ fault \in BOOLEAN /\ fault' \in BOOLEAN
        /\ (fault => fault') /\ (node' = "crashed" => fault')
        /\ UNCHANGED <<cpc, loop, test, failed, deferred, dirs, interrupted, params, fps,
                       tip, del, page, at>>
    BY <1>2, Zenon
       DEF NodeExits, NodeCrashes, NodeUp, emulatorVars, testVars, Inv, TypeOK
  <2>2. TypeOK'
    BY <2>1 DEF Inv, TypeOK
  <2>3. CallerInv' /\ DeferInv' /\ PageInv' /\ ProvidersListed'
    BY <2>1 DEF Inv, CallerInv, DeferInv, PageInv, ProvidersListed
  <2>4. SupportInv' /\ (test = "create" => Confirmed)'
    BY <2>1 DEF Inv, SupportInv, Confirmed
  <2>5. LeavesNothing' /\ FailsOnlyInRace'
    BY <2>1 DEF Inv, LeavesNothing, FailsOnlyInRace
  <2> QED
    BY <2>2, <2>3, <2>4, <2>5 DEF Inv
<1> QED
  BY <1>1, <1>2

=============================================================================
