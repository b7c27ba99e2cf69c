-------------------------- MODULE TestManagerProofs --------------------------
(* Proofs of the safety properties of TestManager, for every set of finality    *)
(* providers, size of a page and set of staking parameters.                   *)
EXTENDS TestManagerInvariant, StoreOrderProofs

\* The backends that a leaf without one is tried with, and their time in seconds.
USE SMTT(20), ZenonT(20)

-----------------------------------------------------------------------------
(* The pages of QueryFinalityProviders.                                     *)

(* Before the first page the result is an empty list, and so is what it has to    *)
(* hold.                                                                       *)
LEMMA NoPageLists ==
    ASSUME NEW S \in SUBSET Nat
    PROVE  Lists(NoPage.fps, {fp \in S : fp < NoPage.key})
<1>1. {fp \in S : fp < 0} = {}
  <2>1. \A fp \in S : ~(fp < 0)
    OBVIOUS
  <2> QED
    BY <2>1, Zenon
<1>2. Range(<<>>) = {} /\ Len(<<>>) = 0
  BY DEF Range
<1> QED
  BY <1>1, <1>2, FS_EmptySet DEF NoPage, Lists

(* The page before the first one has the type of a page.                      *)
LEMMA NoPageType == NoPage \in [key : Providers \cup {0}, fps : Seq(Providers)]
<1>1. <<>> \in Seq(Providers) /\ 0 \in Providers \cup {0}
  OBVIOUS
<1> QED
  BY <1>1 DEF NoPage

(* Lists of disjoint sets make a list of their union.                          *)
LEMMA ListsConcat ==
    ASSUME NEW P, NEW s \in Seq(P), NEW t \in Seq(P), NEW A, NEW B,
           IsFiniteSet(A), IsFiniteSet(B), A \cap B = {}, Lists(s, A), Lists(t, B)
    PROVE  s \o t \in Seq(P) /\ Lists(s \o t, A \cup B)
<1>1. /\ s \o t \in Seq(P) /\ Len(s \o t) = Len(s) + Len(t)
      /\ \A i \in 1..(Len(s) + Len(t)) :
           (s \o t)[i] = IF i <= Len(s) THEN s[i] ELSE t[i - Len(s)]
  BY ConcatProperties
<1>2. Cardinality(A \cup B) = Len(s) + Len(t)
  <2>1. Cardinality(A \cap B) = 0
    BY FS_EmptySet, Zenon
  <2>2. Cardinality(A) \in Nat /\ Cardinality(B) \in Nat
    BY FS_CardinalityType
  <2>3. Cardinality(A \cup B) = Cardinality(A) + Cardinality(B) - Cardinality(A \cap B)
    BY FS_Union
  <2> QED
    BY <2>1, <2>2, <2>3 DEF Lists
<1>3. Range(s \o t) = Range(s) \cup Range(t)
  <2>1. /\ Range(s) = {s[i] : i \in 1..Len(s)} /\ Range(t) = {t[i] : i \in 1..Len(t)}
        /\ Range(s \o t) = {(s \o t)[i] : i \in 1..(Len(s) + Len(t))}
    BY <1>1 DEF Range
  <2>2. ASSUME NEW i \in 1..Len(s)
        PROVE  i \in 1..(Len(s) + Len(t)) /\ (s \o t)[i] = s[i]
    BY <1>1
  <2>3. ASSUME NEW i \in 1..Len(t)
        PROVE  i + Len(s) \in 1..(Len(s) + Len(t)) /\ (s \o t)[i + Len(s)] = t[i]
    BY <1>1
  <2>4. ASSUME NEW i \in 1..(Len(s) + Len(t))
        PROVE  \/ i \in 1..Len(s) /\ (s \o t)[i] = s[i]
               \/ i - Len(s) \in 1..Len(t) /\ (s \o t)[i] = t[i - Len(s)]
    BY <1>1
  <2>5. Range(s) \cup Range(t) \subseteq Range(s \o t)
    BY <2>1, <2>2, <2>3, Zenon
  <2>6. Range(s \o t) \subseteq Range(s) \cup Range(t)
    BY <2>1, <2>4
  <2> QED
    BY <2>5, <2>6
<1> QED
  BY <1>1, <1>2, <1>3 DEF Lists

(* A page goes on where the result ends: if the result lists the providers       *)
(* before the key, it then lists those before the next key, or all of them.      *)
LEMMA PageAppends ==
    ASSUME TypeOK, Lists(page.fps, {fp \in fps : fp < page.key})
    PROVE  LET res == FinalityProviders(page.key)
               all == page.fps \o res.fps
           IN  /\ res.NextKey \in Providers \cup {0} /\ all \in Seq(Providers)
               /\ res.NextKey = 0 => Lists(all, fps)
               /\ res.NextKey # 0 => Lists(all, {fp \in fps : fp < res.NextKey})
<1> DEFINE key == page.key
           old == {fp \in fps : fp < key}
           S == {fp \in fps : fp >= key}
           s == InOrder(S)
           n == IF Len(s) < PageLimit THEN Len(s) ELSE PageLimit
           chunk == SubSeq(s, 1, n)
           next == IF Len(s) > n THEN s[n + 1] ELSE 0
           T == {s[i] : i \in 1..n}
<1>1. /\ fps \subseteq Providers /\ Providers \subseteq Nat \ {0} /\ PageLimit \in Nat
      /\ IsFiniteSet(Providers) /\ key \in Nat /\ page.fps \in Seq(Providers)
  <2>1. fps \subseteq Providers /\ page \in [key : Providers \cup {0}, fps : Seq(Providers)]
    BY DEF TypeOK
  <2>2. Providers \subseteq Nat \ {0} /\ PageLimit \in Nat /\ IsFiniteSet(Providers)
    BY TestAssumption
  <2>3. key \in Providers \cup {0} /\ page.fps \in Seq(Providers)
    BY <2>1
  <2> HIDE DEF key
  <2>4. key \in Nat
    BY <2>2, <2>3
  <2> QED
    BY <2>1, <2>2, <2>3, <2>4
<1>2. S \in SUBSET Nat /\ IsFiniteSet(S) /\ IsFiniteSet(old)
  BY <1>1, FS_Subset, Zenon
<1>3. Ascends(s, S)
  BY <1>2, InOrderAscends
<1>4. Cardinality(S) \in Nat /\ Len(s) = Cardinality(S)
  BY <1>2, <1>3, FS_CardinalityType DEF Ascends
<1>5. n \in 0..Cardinality(S)
  BY <1>1, <1>4
<1>6. FinalityProviders(page.key).fps = chunk /\ FinalityProviders(page.key).NextKey = next
  BY Zenon DEF FinalityProviders
<1> HIDE DEF n, s
<1>7. /\ chunk \in Seq(S) /\ Len(chunk) = n /\ Range(chunk) = T
      /\ IsFiniteSet(T) /\ Cardinality(T) = n
  BY <1>2, <1>3, <1>5, PrefixCounts
<1>8. T = IF n < Cardinality(S) THEN {x \in S : x < s[n + 1]} ELSE S
  BY <1>2, <1>3, <1>5, PrefixElements
<1>9. Lists(chunk, T)
  BY <1>7 DEF Lists
<1>10. chunk \in Seq(Providers)
  <2>1. n \in Int /\ \A i \in 1..n : i \in 1..Cardinality(S)
    <3> HIDE DEF S
    <3> QED
      BY <1>4, <1>5
  <2>2. \A i \in 1..Cardinality(S) : s[i] \in S
    BY <1>3 DEF Ascends
  <2>3. \A i \in 1..n : s[i] \in Providers
    BY <1>1, <2>1, <2>2, Zenon
  <2> QED
    BY <2>1, <2>3, SubSeqProperties
<1> HIDE DEF T, chunk
<1>11. old \cap T = {}
  <2>1. T \subseteq S
    BY <1>8
  <2>2. \A fp \in fps : ~(fp < key /\ fp >= key)
    BY <1>1
  <2> QED
    BY <2>1, <2>2
<1>12. page.fps \o chunk \in Seq(Providers) /\ Lists(page.fps \o chunk, old \cup T)
  BY <1>1, <1>2, <1>7, <1>9, <1>10, <1>11, ListsConcat
<1> DEFINE Goal ==
             /\ next \in Providers \cup {0}
             /\ next = 0 => Lists(page.fps \o chunk, fps)
             /\ next # 0 => Lists(page.fps \o chunk, {fp \in fps : fp < next})
<1>13. ASSUME Len(s) > n PROVE Goal
  <2>1. n + 1 \in 1..Cardinality(S)
    BY <1>4, <1>5, <1>13
  <2>2. next = s[n + 1] /\ next \in S
    BY <1>3, <1>13, <2>1 DEF Ascends
  <2>3. next \in Providers /\ next # 0 /\ next \in Nat /\ key <= next
    BY <1>1, <2>2, Zenon
  <2>4. T = {x \in S : x < next}
    BY <1>4, <1>5, <1>8, <1>13, <2>2
  <2> HIDE DEF next
  <2>5. \A fp \in fps : fp < next <=> fp < key \/ (fp >= key /\ fp < next)
    BY <1>1, <2>3
  <2>6. old \cup T = {fp \in fps : fp < next}
    BY <2>4, <2>5
  <2> QED
    BY <1>12, <2>3, <2>6, Zenon
<1>14. ASSUME ~(Len(s) > n) PROVE Goal
  <2>1. next = 0 /\ T = S
    BY <1>4, <1>5, <1>8, <1>14
  <2>2. \A fp \in fps : fp < key \/ fp >= key
    BY <1>1
  <2>3. old \cup T = fps
    BY <2>1, <2>2
  <2> QED
    BY <1>12, <2>1, <2>3, Zenon
<1>15. Goal
  BY <1>13, <1>14
<1> HIDE DEF next
<1> QED
  BY <1>6, <1>12, <1>15

-----------------------------------------------------------------------------
(* The rest of the inductive invariant.                                     *)

(* Nothing exists before the test begins.                                      *)
LEMMA InitInv == Init => Inv
<1> SUFFICES ASSUME Init PROVE Inv
  OBVIOUS
<1>1. TypeOK
  BY NoPageType, Zenon DEF Init, TypeOK, SetUp, BeforeStart
<1>2. cpc[Test] = "idle"
  BY DEF Init, Emulator!Init, Emulator!Callers
<1> QED
  BY <1>1, <1>2
     DEF Init, Inv, CallerInv, DeferInv, SupportInv, PageInv, LeavesNothing,
         FailsOnlyInRace, ProvidersListed, BeforeStart, SetUp, Working, TearingDown

(* The finality providers: the result grows page by page and is complete when    *)
(* the last page has come.                                                     *)
LEMMA ProvidersInv ==
    ASSUME Inv, StartManagerWithFinalityProvider
    PROVE  Inv'
<1>a. Providers \subseteq Nat /\ fps \in SUBSET Providers /\ fps \in SUBSET Nat
  BY TestAssumption DEF Inv, TypeOK
<1>b. page \in [key : Providers \cup {0}, fps : Seq(Providers)] /\ fault \in BOOLEAN
  BY DEF Inv, TypeOK
<1>c. page' = NoPage /\ fps' \in SUBSET Nat =>
        Lists(page'.fps, {fp \in fps' : fp < page'.key})
  BY NoPageLists
<1>1. ASSUME NEW fp \in Providers, RegisterFinalityProvider(fp) PROVE Inv'
  <2>1. /\ test = "register" /\ test' \in {"register", "query"} /\ fps' = fps \cup {fp}
        /\ UNCHANGED <<cpc, loop, failed, deferred, fault, dirs, node, interrupted, params,
                       tip, del, page, at>>
    BY <1>1 DEF RegisterFinalityProvider, Proceed, emulatorVars
  <2>2. page' = NoPage /\ fps' \in SUBSET Providers /\ fps' \in SUBSET Nat
    BY <1>a, <2>1 DEF Inv, PageInv, SetUp
  <2>3. PageInv' /\ ProvidersListed'
    BY <1>c, <2>1, <2>2 DEF PageInv, ProvidersListed
  <2> QED
    BY <1>b, <2>1, <2>2, <2>3, QueryingInv
<1>2. CASE QueryFinalityProviders
  <2>1. PICK res : res = FinalityProviders(page.key)
    OBVIOUS
  <2>2. /\ test = "query" /\ test' = IF res.NextKey = 0 THEN "queried" ELSE "query"
        /\ page' = [key |-> res.NextKey, fps |-> page.fps \o res.fps]
        /\ UNCHANGED <<cpc, loop, failed, deferred, fault, dirs, node, interrupted, params,
                       fps, tip, del, at>>
    BY <1>2, <2>1 DEF QueryFinalityProviders, Proceed, emulatorVars, nodeVars
  <2>3. /\ res.NextKey \in Providers \cup {0} /\ page.fps \o res.fps \in Seq(Providers)
        /\ res.NextKey = 0 => Lists(page.fps \o res.fps, fps)
        /\ res.NextKey # 0 => Lists(page.fps \o res.fps, {fp \in fps : fp < res.NextKey})
    <3>1. TypeOK /\ Lists(page.fps, {fp \in fps : fp < page.key})
      BY <2>2 DEF Inv, PageInv
    <3> QED
      BY <2>1, <3>1, PageAppends
  <2>4. /\ page' \in [key : Providers \cup {0}, fps : Seq(Providers)]
        /\ page'.key = res.NextKey /\ page'.fps = page.fps \o res.fps
    BY <2>2, <2>3, Zenon
  <2>5. PageInv' /\ ProvidersListed'
    BY <2>2, <2>3, <2>4 DEF PageInv, ProvidersListed
  <2> QED
    BY <1>a, <1>b, <2>2, <2>4, <2>5, QueryingInv
<1>3. CASE QueryProvidersFails
  <2>1. /\ test = "query" /\ test' = test /\ fault' = TRUE /\ page' = NoPage
        /\ UNCHANGED <<cpc, loop, failed, deferred, dirs, node, interrupted, params, fps,
                       tip, del, at>>
    BY <1>3 DEF QueryProvidersFails, emulatorVars, nodeVars
  <2>2. PageInv' /\ ProvidersListed'
    BY <1>a, <1>c, <2>1 DEF PageInv, ProvidersListed
  <2> QED
    BY <1>a, <2>1, <2>2, NoPageType, QueryingInv
<1>4. CASE CountProviders
  <2>1. /\ test = "queried" /\ deferred' \in BOOLEAN
        /\ UNCHANGED <<cpc, loop, failed, fault, dirs, node, interrupted, params, fps, tip,
                       del, at>>
        /\ \/ test' = "tip" /\ deferred' = TRUE /\ page' = page
           \/ test' = "query" /\ deferred' = FALSE /\ page' = NoPage
    BY <1>4, Zenon DEF CountProviders, emulatorVars, nodeVars
  <2>2. deferred = FALSE
    BY <2>1 DEF Inv, TypeOK, DeferInv, SetUp
  <2>3. CASE test' = "query"
    <3>1. PageInv' /\ ProvidersListed'
      BY <1>a, <1>c, <2>1, <2>3, ZenonT(30) DEF PageInv, ProvidersListed
    <3> QED
      BY <1>a, <1>b, <2>1, <2>2, <2>3, <3>1, NoPageType, QueryingInv, ZenonT(30)
  <2>4. CASE test' = "tip"
    BY <2>1, <2>4
       DEF Inv, TypeOK, CallerInv, DeferInv, SupportInv, PageInv, LeavesNothing,
           FailsOnlyInRace, ProvidersListed, BeforeStart, SetUp, Working, TearingDown
  <2> QED
    BY <2>1, <2>3, <2>4
<1> QED
  BY <1>1, <1>2, <1>3, <1>4 DEF StartManagerWithFinalityProvider

-----------------------------------------------------------------------------
(* The theorems.                                                            *)

\* The proofs about the emulator, for the one goroutine of the test.
Server == INSTANCE CovenantServerProofs WITH Servers <- {}, Users <- {Test}

(* So what is proved of any number of goroutines holds of this one.             *)
LEMMA EmulatorInvariance == Spec => []Emulator!Inv
<1>1. \A S : Server!IsFiniteSet(S) <=> IsFiniteSet(S)
  BY DEF Server!IsFiniteSet, IsFiniteSet
<1>2. Server!IsFiniteSet({}) /\ Server!IsFiniteSet({Test}) /\ {} \cap {Test} = {}
  BY <1>1, FS_EmptySet, FS_Singleton, Zenon
<1>3. Server!Spec => []Server!Inv
  BY <1>2, Server!Invariance
<1>4. Emulator!Init => Server!Init
  BY DEF Emulator!Init, Server!Init, Emulator!Callers, Server!Callers
<1>5. [Emulator!Next]_(Emulator!vars) => [Server!Next]_(Server!vars)
  BY DEF Emulator!Next, Server!Next, Emulator!vars, Server!vars,
         Emulator!Callers, Server!Callers, Emulator!Goto, Server!Goto,
         Emulator!CallerStep, Server!CallerStep, Emulator!LoopStep, Server!LoopStep,
         Emulator!RunUntilShutdown, Server!RunUntilShutdown,
         Emulator!CallStart, Server!CallStart, Emulator!StartFirst, Server!StartFirst,
         Emulator!SpawnLoop, Server!SpawnLoop, Emulator!StartAgain, Server!StartAgain,
         Emulator!CallStop, Server!CallStop, Emulator!StopFirst, Server!StopFirst,
         Emulator!Waited, Server!Waited, Emulator!StopAgain, Server!StopAgain,
         Emulator!LoopTick, Server!LoopTick, Emulator!RoundEnds, Server!RoundEnds,
         Emulator!LoopQuit, Server!LoopQuit, Emulator!TickerFires, Server!TickerFires,
         Emulator!Shutdown, Server!Shutdown
<1>6. Server!Inv => Emulator!Inv
  BY DEF Server!Inv, Emulator!Inv, Server!TypeOK, Emulator!TypeOK,
         Emulator!Callers, Server!Callers, Server!OneLoop, Emulator!OneLoop,
         Server!Busy, Emulator!Busy, Server!CallerPC, Emulator!CallerPC,
         Server!LoopPC, Emulator!LoopPC, Server!Once, Emulator!Once
<1> QED
  BY <1>3, <1>4, <1>5, <1>6, UsesEmulator, PTL DEF Emulator!Spec, Server!Spec

(* Every state the test reaches satisfies the inductive invariant.              *)
THEOREM Invariance == Spec => []Inv
<1>1. Inv /\ Emulator!Inv /\ [Next]_vars => Inv'
  <2> SUFFICES ASSUME Inv, Emulator!Inv, [Next]_vars PROVE Inv'
    OBVIOUS
  <2>1. CASE UNCHANGED vars
    <3>1. UNCHANGED <<cpc, loop, test, failed, deferred, fault, dirs, node, interrupted,
                      params, fps, tip, del, page, at>>
      BY <2>1 DEF vars, emulatorVars, testVars, nodeVars
    <3>2. TypeOK' /\ CallerInv' /\ DeferInv'
      BY <3>1 DEF Inv, TypeOK, CallerInv, DeferInv
    <3>3. SupportInv' /\ PageInv' /\ (test = "create" => Confirmed)'
      BY <3>1 DEF Inv, SupportInv, PageInv, Confirmed
    <3>4. LeavesNothing' /\ FailsOnlyInRace' /\ ProvidersListed'
      BY <3>1 DEF Inv, LeavesNothing, FailsOnlyInRace, ProvidersListed
    <3> QED
      BY <3>2, <3>3, <3>4 DEF Inv
  <2> QED
    BY <2>1, StartManagerInv, ProvidersInv, InsertInv, FailuresInv, TearDownInv, OthersInv
       DEF Next, TestStep
<1> QED
  BY <1>1, InitInv, EmulatorInvariance, PTL DEF Spec

(* While the submission loop runs, its key, the directory of the node and the     *)
(* node's process are there (Stop of TestManager).                             *)
THEOREM LoopSupportSafe == Spec => []LoopKeepsSupport
<1>1. Inv /\ Emulator!Inv => LoopKeepsSupport
  BY EmulatorFacts DEF Inv, SupportInv, LoopKeepsSupport
<1> QED
  BY <1>1, Invariance, EmulatorInvariance, PTL

(* A test that passes, or fails after its set-up for no outside reason, leaves     *)
(* no loop, process or directory behind.                                       *)
THEOREM LeavesNothingSafe == Spec => []LeavesNothing
<1>1. Inv => LeavesNothing
  BY DEF Inv
<1> QED
  BY <1>1, Invariance, PTL

(* Without a fault of a call, the node or the clock the test fails only if the    *)
(* delegation was active before it was seen pending, for all parameters.        *)
THEOREM RaceSafe == Spec => []FailsOnlyInRace
<1>1. Inv => FailsOnlyInRace
  BY DEF Inv
<1> QED
  BY <1>1, Invariance, PTL

(* The pages of QueryFinalityProviders make up the registered providers, each     *)
(* once, for every number of them and every limit of a page.                    *)
THEOREM ProvidersListedSafe == Spec => []ProvidersListed
<1>1. Inv => ProvidersListed
  BY DEF Inv
<1> QED
  BY <1>1, Invariance, PTL

=============================================================================
