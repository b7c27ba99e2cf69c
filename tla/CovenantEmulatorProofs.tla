------------------------ MODULE CovenantEmulatorProofs ------------------------
(* Proofs of the safety properties of CovenantEmulator, for every committee,  *)
(* set of delegations, sequence of parameters and configuration.              *)
EXTENDS CovenantEmulator, FiniteSetTheorems, TLAPS

\* The backends that a leaf without one is tried with, and their time in seconds.
USE SMTT(20), ZenonT(20)

(* What AddCovenantSignatures signs obeys the rules it checks under the        *)
(* parameters it checks against: the two calls of CheckTransactions fix rate,  *)
(* address and timelock, and the comparison with MinUnbondingTime bounds the    *)
(* timelock because the conversion to uint16 loses nothing.                   *)
LEMMA VerdictRules ==
    ASSUME NEW del, NEW n, NEW p, NEW k \in BOOLEAN,
           del.UnbondingTime \in Nat, del.UnbondingTime <= MaxUint16, p.MinUnbondingTime \in Nat,
           Verdict(ConvertDelegationType(del, n), p, k) = "sign"
    PROVE  RulesChecked(del, p)
<1> DEFINE view == ConvertDelegationType(del, n)
<1>1. /\ view.UnbondingTime = del.UnbondingTime
      /\ view.SlashingTx = del.SlashingTx
      /\ view.UnbondingSlashingTx = del.UnbondingSlashingTx
  BY DEF ConvertDelegationType
<1>2. /\ ~(view.UnbondingTime <= p.MinUnbondingTime)
      /\ CheckTransactions(view.SlashingTx, view.StakingOutputIdx, p, Uint16(view.UnbondingTime))
      /\ CheckTransactions(view.UnbondingSlashingTx, 0, p, Uint16(view.UnbondingTime))
  BY Zenon DEF Verdict, UnbondingTimeTooShort
<1> HIDE DEF view
<1>3. del.UnbondingTime \in Nat /\ del.UnbondingTime <= 65535
  BY DEF MaxUint16
<1>4. Uint16(del.UnbondingTime) = del.UnbondingTime
  BY <1>3 DEF Uint16
<1>5. del.UnbondingTime > p.MinUnbondingTime
  BY <1>1, <1>2, <1>3
<1> QED
  BY <1>1, <1>2, <1>4, <1>5 DEF RulesChecked, SlashingRules, CheckTransactions

(* What it signs can be processed, if it could be converted.                   *)
LEMMA VerdictProcessable ==
    ASSUME NEW del, NEW n, NEW p, NEW k \in BOOLEAN,
           Verdict(ConvertDelegationType(del, n), p, k) = "sign", ~ConversionPanics(del)
    PROVE  Processable(del)
<1> DEFINE view == ConvertDelegationType(del, n)
<1>1. /\ view.BtcUndelegation = del.BtcUndelegation /\ view.form = del.form
      /\ view.EndHeight = del.EndHeight /\ view.StartHeight = del.StartHeight
  BY DEF ConvertDelegationType
<1>2. /\ view.BtcUndelegation /\ ~StakingTimePanics(view)
      /\ view.form \notin {"undecodable", "no_outputs", "unsignable"}
  BY Zenon DEF Verdict
<1> HIDE DEF view
<1>3. del.form \notin {"missing", "undecodable", "no_outputs", "unsignable"}
  BY <1>1, <1>2, Zenon DEF ConversionPanics
<1>4. ~((del.EndHeight - del.StartHeight) % TwoTo64 > MaxUint16)
  BY <1>1, <1>2, Zenon DEF StakingTimePanics
<1> QED
  BY <1>1, <1>2, <1>3, <1>4, Zenon DEF Processable

(* The rules read nothing of the checkpoint parameters, so it does not matter  *)
(* which version those were read from.                                        *)
LEMMA TornParamsRules ==
    ASSUME NEW m \in Members, NEW del,
           RulesChecked(del, StakingParams(m))
    PROVE  RulesChecked(del, hist[params[m].staking])
BY DEF RulesChecked, SlashingRules, StakingParams

(* What was checked stays checked: versions of the parameters are only added.  *)
LEMMA RulesHeldStable ==
    ASSUME hist \in Seq(ParamsSet),
           hist' = hist \/ \E p \in ParamsSet : hist' = Append(hist, p),
           NEW d, NEW lo \in Versions, NEW hi \in Versions, RulesHeld(d, lo, hi)
    PROVE  RulesHeld(d, lo, hi)'
<1>1. PICK v \in lo..hi : v > 0 /\ RulesChecked(BtcDel[d], hist[v])
  BY DEF RulesHeld
<1>2. lo \in Nat /\ hi \in Nat /\ v \in Nat /\ hi <= Len(hist)
  BY ChainAssumption DEF Versions, RulesHeld, Version
<1>3. v \in 1..Len(hist)
  BY <1>1, <1>2
<1>4. Len(hist') \in Nat /\ Len(hist) <= Len(hist') /\ hist'[v] = hist[v]
  BY <1>3
<1> QED
  BY <1>1, <1>2, <1>4 DEF RulesHeld, Version

-----------------------------------------------------------------------------
(* A version of the parameters that is in force is a positive number.          *)
LEMMA VersionType ==
    ASSUME ChainTypeOK
    PROVE  Version \in Nat /\ Version > 0 /\ Version \in Versions
BY ChainAssumption DEF ChainTypeOK, Version, Versions

(* Versions are numbers.                                                       *)
LEMMA VersionsNat ==
    Versions \subseteq Nat
BY ChainAssumption DEF Versions

(* What comes back of a list is on it.                                         *)
LEMMA PageListed ==
    ASSUME NEW S, NEW k, NEW m
    PROVE  removeAlreadySigned(m, FirstN(S, k)) \subseteq S
BY Zenon DEF removeAlreadySigned, FirstN

(* Types of what the members have in memory.                                   *)
LEMMA MemberTypes ==
    ASSUME Inv
    PROVE  /\ ChainTypeOK /\ outgoing \in [Members -> Tx]
           /\ todo \in [Members -> SUBSET Dels] /\ seen \in [Members -> [Dels -> Nat]]
           /\ params \in [Members -> [ckpt : Versions, staking : Versions]]
BY DEF Inv, TypeOK

(* A member changes nothing on the chain, but may hand over a transaction.         *)
LEMMA ChainKept ==
    ASSUME NEW m, MemberStep(m)
    PROVE  /\ UNCHANGED <<hist, created, sigs>>
           /\ UNCHANGED mempool \/ SendTx(m)
<1> USE DEF chainVars
<1>1. CASE Start(m) \/ Tick(m) \/ QueryCheckpointParams(m) \/ QueryStakingParams(m)
  BY <1>1 DEF Start, Tick, QueryCheckpointParams, QueryStakingParams
<1>2. CASE QueryParamsFails(m) \/ QueryPendingDelegations(m) \/ QueryPendingFails(m)
  BY <1>2 DEF QueryParamsFails, QueryPendingDelegations, QueryPendingFails
<1>3. ASSUME NEW k, AddCovenantSignatures(m, k) PROVE UNCHANGED chainVars
  BY <1>3 DEF AddCovenantSignatures
<1>4. CASE SendTx(m) \/ SubmitReturns(m) \/ Crash(m)
  BY <1>4 DEF SendTx, SubmitReturns, Crash
<1> QED
  BY <1>1, <1>2, <1>3, <1>4 DEF MemberStep

(* Initially nothing has been read, sent or recorded.                          *)
LEMMA InitInv == Init => Inv
<1> SUFFICES ASSUME Init PROVE Inv
  OBVIOUS
<1> USE DEF Init, ChainInit
<1>1. ChainTypeOK
  <2>1. PICK p \in ParamsSet : hist = <<p>>
    OBVIOUS
  <2> QED
    BY <2>1, ChainAssumption DEF ChainTypeOK, Version
<1>2. TypeOK
  BY <1>1, ChainAssumption, EmulatorAssumption
     DEF TypeOK, PC, NilParams, NoTx, Unseen, Versions, Tx
<1>3. RoundParamsFresh /\ ReadInOrder /\ HeldInRound
  BY DEF RoundParamsFresh, ReadInOrder, HeldInRound, Honest, NoTx
<1>4. SentChecked /\ RecordedChecked
  BY FS_EmptySet DEF SentChecked, RecordedChecked, Honest, NoTx
<1> QED
  BY <1>2, <1>3, <1>4 DEF Inv

(* A step that changes neither the history nor what is recorded or in flight   *)
(* keeps what is recorded checked.                                            *)
LEMMA RecordedKept ==
    ASSUME RecordedChecked, UNCHANGED <<hist, sigs>>
    PROVE  RecordedChecked'
BY DEF RecordedChecked, RulesHeld, Version

(* A process that dies forgets everything: no member invariant is at stake.    *)
LEMMA DieInv ==
    ASSUME Inv, NEW m \in Honest, Die(m), UNCHANGED chainVars, crashes' \in 0..MaxCrashes
    PROVE  Inv'
<1> USE DEF Inv, Die, chainVars, Honest
<1>1. TypeOK'
  BY ChainAssumption, EmulatorAssumption
     DEF TypeOK, ChainTypeOK, Version, PC, NilParams, NoTx, Unseen, Versions, Tx
<1>2. RoundParamsFresh' /\ ReadInOrder'
  BY DEF RoundParamsFresh, ReadInOrder, TypeOK, Version
<1>3. HeldInRound'
  BY DEF HeldInRound, TypeOK, NoTx
<1>4. SentChecked'
  BY DEF SentChecked, TypeOK, NoTx, RulesHeld, Version
<1> QED
  BY <1>1, <1>2, <1>3, <1>4, RecordedKept

(* Going on to the next batch, or to the next round, keeps the invariant.      *)
LEMMA ContinueInv ==
    ASSUME Inv, NEW m \in Honest, NEW left \in SUBSET Dels, NEW view \in [Dels -> Nat],
           pc[m] \in {"query", "batches", "submit"},
           \A d \in left : ~ConversionPanics(BtcDel[d]),
           Continue(m, left, view),
           UNCHANGED <<chainVars, att, ckpt, params, round, crashes>>
    PROVE  Inv'
<1> USE DEF Inv, Continue, chainVars, Honest
<1>1. TypeOK'
  <2>1. ChainTypeOK' /\ seen' \in [Members -> [Dels -> Nat]]
    BY DEF TypeOK, ChainTypeOK, Version
  <2>2. pc' \in [Members -> PC] /\ todo' \in [Members -> SUBSET Dels]
    BY DEF TypeOK, PC
  <2>3. outgoing' \in [Members -> Tx]
    <3>1. m \in Members /\ outgoing \in [Members -> Tx] /\ NoTx(m) \in Tx
      BY ChainAssumption DEF TypeOK, NoTx, Versions, Tx
    <3>2. outgoing' = [outgoing EXCEPT ![m] = NoTx(m)]
      BY Zenon
    <3> HIDE DEF Inv, Continue, chainVars, Honest
    <3> QED
      BY <3>1, <3>2, Zenon
  <2> QED
    BY <2>1, <2>2, <2>3 DEF TypeOK
<1>2. RoundParamsFresh' /\ ReadInOrder'
  BY DEF RoundParamsFresh, ReadInOrder, TypeOK, Version
<1>3. HeldInRound'
  BY DEF HeldInRound, TypeOK, NoTx
<1>4. SentChecked'
  BY DEF SentChecked, TypeOK, NoTx, RulesHeld, Version
<1> QED
  BY <1>1, <1>2, <1>3, <1>4, RecordedKept

-----------------------------------------------------------------------------
(* A step of an honest member keeps the invariant.                             *)
LEMMA MemberInv ==
    ASSUME Inv, NEW m \in Honest, MemberStep(m)
    PROVE  Inv'
<1> USE DEF Honest
<1>a. /\ TypeOK /\ ChainTypeOK /\ RoundParamsFresh /\ ReadInOrder /\ HeldInRound
      /\ SentChecked /\ RecordedChecked
  BY DEF Inv, TypeOK
<1>b. Version \in Nat /\ Version > 0 /\ Version \in Versions
  BY <1>a, VersionType, Zenon
<1>c. ASSUME UNCHANGED <<chainVars, todo, seen, outgoing>>,
             TypeOK', RoundParamsFresh', ReadInOrder',
             (pc[m] \in {"batches", "submit"}) = (pc'[m] \in {"batches", "submit"}),
             (pc[m] = "submit") = (pc'[m] = "submit"),
             \A o \in Honest : o # m => pc'[o] = pc[o]
      PROVE  Inv'
  <2>1. HeldInRound'
    BY <1>a, <1>c DEF HeldInRound
  <2>2. SentChecked'
    BY <1>a, <1>c DEF SentChecked, RulesHeld, Version, chainVars
  <2> QED
    BY <1>a, <1>c, <2>1, <2>2, RecordedKept DEF Inv, chainVars
<1>1. CASE Start(m)
  <2>1. TypeOK'
    BY <1>1, <1>a DEF Start, TypeOK, ChainTypeOK, PC, chainVars, Version
  <2>2. RoundParamsFresh' /\ ReadInOrder'
    BY <1>1, <1>a DEF Start, RoundParamsFresh, ReadInOrder, TypeOK, chainVars, Version
  <2> QED
    BY <1>1, <1>a, <1>c, <2>1, <2>2 DEF Start, TypeOK
<1>2. CASE Tick(m)
  <2>1. TypeOK'
    BY <1>2, <1>a, <1>b, EmulatorAssumption
       DEF Tick, TypeOK, ChainTypeOK, PC, chainVars, Version
  <2>2. RoundParamsFresh' /\ ReadInOrder'
    BY <1>2, <1>a, <1>b DEF Tick, RoundParamsFresh, ReadInOrder, TypeOK, chainVars, Version
  <2> QED
    BY <1>2, <1>a, <1>c, <2>1, <2>2 DEF Tick, TypeOK
<1>3. CASE QueryCheckpointParams(m)
  <2>1. TypeOK'
    BY <1>3, <1>a, <1>b DEF QueryCheckpointParams, TypeOK, ChainTypeOK, PC, chainVars, Version
  <2>2. RoundParamsFresh' /\ ReadInOrder'
    BY <1>3, <1>a, <1>b
       DEF QueryCheckpointParams, RoundParamsFresh, ReadInOrder, TypeOK, chainVars, Version
  <2> QED
    BY <1>3, <1>a, <1>c, <2>1, <2>2 DEF QueryCheckpointParams, TypeOK
<1>4. CASE QueryStakingParams(m)
  <2>1. TypeOK'
    <3>1. ckpt[m] \in Versions /\ 0 \in Versions /\ 0 \in 0..(RtyAttNum - 1)
      BY <1>a, ChainAssumption, EmulatorAssumption DEF TypeOK, Versions
    <3>2. params' \in [Members -> [ckpt : Versions, staking : Versions]]
      BY <1>4, <1>a, <1>b, <3>1 DEF QueryStakingParams, TypeOK
    <3> QED
      BY <1>4, <1>a, <3>1, <3>2
         DEF QueryStakingParams, TypeOK, ChainTypeOK, PC, chainVars, Version
  <2>2. RoundParamsFresh' /\ ReadInOrder'
    BY <1>4, <1>a, <1>b
       DEF QueryStakingParams, RoundParamsFresh, ReadInOrder, TypeOK, chainVars, Version
  <2> QED
    BY <1>4, <1>a, <1>c, <2>1, <2>2 DEF QueryStakingParams, TypeOK
<1>5. CASE QueryParamsFails(m)
  <2>1. TypeOK'
    <3>1. 0 \in Versions /\ 0 \in 0..(RtyAttNum - 1)
      BY ChainAssumption, EmulatorAssumption DEF Versions
    <3>2. att[m] + 1 < RtyAttNum => att[m] + 1 \in 0..(RtyAttNum - 1)
      BY <1>a, EmulatorAssumption DEF TypeOK
    <3>3. att' \in [Members -> 0..(RtyAttNum - 1)]
      <4> DEFINE Attempts == 0..(RtyAttNum - 1)
      <4>1. att \in [Members -> Attempts] /\ 0 \in Attempts
        BY <1>a, <3>1 DEF TypeOK
      <4>2. att[m] + 1 < RtyAttNum => att[m] + 1 \in Attempts
        BY <3>2
      <4> HIDE DEF Attempts
      <4>3. att' \in [Members -> Attempts]
        BY <1>5, <4>1, <4>2 DEF QueryParamsFails
      <4> QED
        BY <4>3 DEF Attempts
    <3>4. pc' \in [Members -> PC]
      BY <1>5, <1>a, Zenon DEF QueryParamsFails, TypeOK, PC
    <3> QED
      BY <1>5, <1>a, <3>1, <3>3, <3>4
         DEF QueryParamsFails, TypeOK, ChainTypeOK, chainVars, Version
  <2>2. RoundParamsFresh' /\ ReadInOrder'
    BY <1>5, <1>a, <1>b
       DEF QueryParamsFails, RoundParamsFresh, ReadInOrder, TypeOK, chainVars, Version
  <2> QED
    BY <1>5, <1>a, <1>c, <2>1, <2>2 DEF QueryParamsFails, TypeOK
<1>6. CASE QueryPendingDelegations(m)
  <2> DEFINE page == FirstN({d \in Dels : Pending(d)}, DelegationLimit)
  <2> DEFINE left == removeAlreadySigned(m, page)
  <2> DEFINE view == [d \in Dels |-> Cardinality(sigs[d])]
  <2>1. CASE Die(m)
    BY <1>6, <1>a, <2>1, DieInv DEF QueryPendingDelegations, TypeOK
  <2>2. CASE /\ \A d \in page : ~ConversionPanics(BtcDel[d])
             /\ Continue(m, left, view) /\ UNCHANGED <<att, ckpt, params, round>>
    <3>1. left \in SUBSET Dels /\ \A d \in left : ~ConversionPanics(BtcDel[d])
      BY <2>2 DEF removeAlreadySigned, FirstN
    <3>2. view \in [Dels -> Nat]
      BY <1>a, FS_CardinalityType DEF RecordedChecked
    <3> HIDE DEF left, view
    <3> QED
      BY <1>6, <2>2, <3>1, <3>2, ContinueInv DEF QueryPendingDelegations
  <2> QED
    BY <1>6, <2>1, <2>2 DEF QueryPendingDelegations
<1>7. CASE QueryPendingFails(m)
  <2>1. TypeOK'
    BY <1>7, <1>a DEF QueryPendingFails, TypeOK, ChainTypeOK, PC, chainVars, Version
  <2>2. RoundParamsFresh' /\ ReadInOrder'
    BY <1>7, <1>a DEF QueryPendingFails, RoundParamsFresh, ReadInOrder, TypeOK, chainVars, Version
  <2> QED
    BY <1>7, <1>a, <1>c, <2>1, <2>2 DEF QueryPendingFails, TypeOK
<1>8. ASSUME NEW k \in BOOLEAN, AddCovenantSignatures(m, k) PROVE Inv'
  <2> DEFINE batch == delegationsToBatches(todo[m])
             tx == [from |-> m, dels |-> batch, since |-> round[m], until |-> Version]
  <2>1. pc[m] = "batches" /\ UNCHANGED <<chainVars, crashes>>
    BY <1>8 DEF AddCovenantSignatures
  <2>2. /\ batch \in SUBSET Dels /\ batch \subseteq todo[m]
        /\ \A d \in todo[m] : ~ConversionPanics(BtcDel[d])
    BY <1>a DEF TypeOK, delegationsToBatches, FirstN, HeldInRound
  <2>3. CASE Die(m)
    BY <1>a, <2>1, <2>3, DieInv DEF TypeOK
  <2>4. CASE Continue(m, todo[m] \ batch, seen[m]) /\ UNCHANGED <<att, ckpt, params, round>>
    <3>1. /\ todo[m] \ batch \in SUBSET Dels /\ seen[m] \in [Dels -> Nat]
          /\ \A d \in todo[m] \ batch : ~ConversionPanics(BtcDel[d])
      BY <1>a, <2>2 DEF TypeOK
    <3> QED
      BY <2>1, <2>4, <3>1, ContinueInv
  <2>5. CASE /\ \A d \in batch : Verdict(View(m, d), StakingParams(m), k) = "sign"
             /\ outgoing' = [outgoing EXCEPT ![m] = tx]
             /\ pc' = [pc EXCEPT ![m] = "submit"]
             /\ UNCHANGED <<att, ckpt, params, todo, seen, round>>
    <3>1. /\ 0 < params[m].staking /\ params[m].staking \in Nat /\ round[m] \in Nat
          /\ params[m].staking \in round[m]..Version /\ params[m].staking \in 1..Len(hist)
      BY <1>a, <1>b, <2>1, ChainAssumption DEF RoundParamsFresh, TypeOK, Versions, Version
    <3>2. ASSUME NEW d \in batch PROVE RulesHeld(d, round[m], Version)
      <4>1. d \in Dels /\ hist[params[m].staking] \in ParamsSet
        BY <1>a, <2>2, <3>1 DEF ChainTypeOK
      <4>2. /\ BtcDel[d].UnbondingTime \in Nat /\ BtcDel[d].UnbondingTime <= MaxUint16
            /\ StakingParams(m).MinUnbondingTime \in Nat
        BY <4>1, DataAssumption DEF StakingParams
      <4>3. Verdict(ConvertDelegationType(BtcDel[d], seen[m][d]), StakingParams(m), k) = "sign"
        BY <2>5, <3>2 DEF View
      <4>4. RulesChecked(BtcDel[d], hist[params[m].staking])
        BY <4>2, <4>3, VerdictRules, TornParamsRules
      <4>5. Processable(BtcDel[d])
        BY <2>2, <4>3, VerdictProcessable
      <4> QED
        BY <1>b, <3>1, <4>4, <4>5 DEF RulesHeld
    <3> HIDE DEF batch
    <3>3. tx \in Tx
      BY <1>a, <1>b, <2>2, ZenonT(30) DEF Tx, TypeOK
    <3>4. TypeOK'
      BY <1>a, <2>1, <2>5, <3>3 DEF TypeOK, ChainTypeOK, PC, chainVars, Version
    <3>5. RoundParamsFresh' /\ ReadInOrder'
      BY <1>a, <2>1, <2>5 DEF RoundParamsFresh, ReadInOrder, TypeOK, chainVars, Version
    <3>6. HeldInRound'
      BY <1>a, <2>5 DEF HeldInRound, TypeOK
    <3>7. SentChecked'
      <4>1. ASSUME NEW d, NEW lo, NEW hi, RulesHeld(d, lo, hi) PROVE RulesHeld(d, lo, hi)'
        BY <2>1, <4>1 DEF RulesHeld, Version, chainVars
      <4>2. outgoing'[m] = tx /\ \A o \in Honest : o # m => outgoing'[o] = outgoing[o]
        BY <1>a, <2>5 DEF TypeOK
      <4>3. \A d \in outgoing'[m].dels : RulesHeld(d, outgoing[m].since, outgoing[m].until)'
        BY <3>2, <4>1, <4>2
      <4>4. \A o \in Honest : /\ outgoing'[o].from = o
                              /\ \A d \in outgoing'[o].dels :
                                    RulesHeld(d, outgoing[o].since, outgoing[o].until)'
        BY <1>a, <4>1, <4>2, <4>3 DEF SentChecked
      <4>5. \A t \in mempool' : \A d \in t.dels : RulesHeld(d, t.since, t.until)'
        BY <1>a, <2>1, <4>1 DEF SentChecked, chainVars
      <4> QED
        BY <4>4, <4>5 DEF SentChecked
    <3> QED
      BY <1>a, <2>1, <3>4, <3>5, <3>6, <3>7, RecordedKept DEF Inv, chainVars
  <2> QED
    BY <1>8, <2>3, <2>4, <2>5 DEF AddCovenantSignatures
<1>9. CASE SendTx(m)
  <2>1. TypeOK'
    BY <1>9, <1>a DEF SendTx, TypeOK, ChainTypeOK, memberVars, Version
  <2>2. RoundParamsFresh' /\ ReadInOrder' /\ HeldInRound'
    BY <1>9, <1>a DEF SendTx, RoundParamsFresh, ReadInOrder, HeldInRound, memberVars, Version
  <2>3. SentChecked'
    <3>1. ASSUME NEW d, NEW lo, NEW hi, RulesHeld(d, lo, hi) PROVE RulesHeld(d, lo, hi)'
      BY <1>9, <3>1 DEF SendTx, RulesHeld, Version
    <3>2. outgoing' = outgoing /\ mempool' = mempool \cup {outgoing[m]}
      BY <1>9, Zenon DEF SendTx, memberVars
    <3> QED
      BY <1>a, <3>1, <3>2, Zenon DEF SentChecked
  <2> QED
    BY <1>9, <1>a, <2>1, <2>2, <2>3, RecordedKept DEF Inv, SendTx
<1>10. CASE SubmitReturns(m)
  <2>1. /\ todo[m] \ outgoing[m].dels \in SUBSET Dels /\ seen[m] \in [Dels -> Nat]
        /\ \A d \in todo[m] \ outgoing[m].dels : ~ConversionPanics(BtcDel[d])
    BY <1>a DEF TypeOK, HeldInRound
  <2> QED
    BY <1>10, <2>1, ContinueInv DEF SubmitReturns
<1>11. CASE Crash(m)
  BY <1>11, <1>a, DieInv, EmulatorAssumption DEF Crash, TypeOK
<1> QED
  BY <1>1, <1>2, <1>3, <1>4, <1>5, <1>6, <1>7, <1>8, <1>9, <1>10, <1>11 DEF MemberStep

-----------------------------------------------------------------------------
(* A delegation's record stays finite when a signature is added.               *)
LEMMA AddSignature ==
    ASSUME NEW S, NEW x, IsFiniteSet(S)
    PROVE  IsFiniteSet(S \cup {x})
BY FS_AddElement, Zenon

(* A step of the chain keeps the invariant: what was checked stays checked     *)
(* when versions are added, and a signature is recorded for a member that has  *)
(* none on the delegation.                                                    *)
LEMMA ChainInv ==
    ASSUME Inv, ChainStep
    PROVE  Inv'
<1> USE DEF memberVars, Honest
<1>a. /\ TypeOK /\ ChainTypeOK /\ RoundParamsFresh /\ ReadInOrder /\ HeldInRound
      /\ SentChecked /\ RecordedChecked /\ UNCHANGED <<memberVars, crashes>>
  BY DEF Inv, TypeOK, ChainStep
<1>b. hist \in Seq(ParamsSet) /\ Version \in Nat /\ Version > 0 /\ Version \in Versions
  BY <1>a, VersionType DEF ChainTypeOK
<1>c. hist' = hist \/ \E p \in ParamsSet : hist' = Append(hist, p)
  BY DEF ChainStep, CreateDelegation, Govern, DeliverTx, DropTx, FaultySign
<1>d. ASSUME NEW d, NEW lo \in Versions, NEW hi \in Versions, RulesHeld(d, lo, hi)
      PROVE  RulesHeld(d, lo, hi)'
  BY <1>b, <1>c, <1>d, RulesHeldStable
<1>e. Version' \in Nat /\ Version <= Version'
  BY <1>b, <1>c DEF Version
<1>f. \A d \in Dels : \A s \in sigs[d] : s.since \in Versions /\ s.until \in Versions
  BY <1>a DEF ChainTypeOK, SigRecord
<1>g. \A tx \in mempool : tx.since \in Versions /\ tx.until \in Versions
                          /\ tx.from \in Members /\ tx.dels \in SUBSET Dels
  BY <1>a DEF ChainTypeOK, Tx
<1>h. ASSUME NEW d, NEW x, IsFiniteSet(sigs[d]), sigs'[d] = sigs[d] \cup {x}
      PROVE  IsFiniteSet(sigs'[d])
  BY <1>h, AddSignature, Zenon
<1>1. RoundParamsFresh' /\ ReadInOrder' /\ HeldInRound'
  <2>1. HeldInRound'
    BY <1>a, Zenon DEF HeldInRound
  <2>2. ASSUME NEW v \in Versions, v <= Version PROVE v <= Version'
    BY <1>b, <1>e, <2>2, ChainAssumption DEF Versions
  <2>3. \A m \in Honest : /\ params[m].staking \in Versions /\ round[m] \in Versions
                         /\ ckpt[m] \in Versions
    BY <1>a DEF TypeOK
  <2>4. RoundParamsFresh'
    BY <1>a, <2>2, <2>3, Zenon DEF RoundParamsFresh
  <2>5. ReadInOrder'
    BY <1>a, <2>2, <2>3, Zenon DEF ReadInOrder
  <2> QED
    BY <2>1, <2>4, <2>5
<1>2. ASSUME mempool' \subseteq mempool PROVE SentChecked'
  <2>1. \A m \in Honest : outgoing[m].since \in Versions /\ outgoing[m].until \in Versions
    BY <1>a DEF TypeOK, Tx
  <2> QED
    BY <1>a, <1>d, <1>g, <1>2, <2>1 DEF SentChecked
<1>3. ASSUME UNCHANGED sigs PROVE RecordedChecked'
  BY <1>a, <1>d, <1>f, <1>3 DEF RecordedChecked
<1>4. ASSUME NEW d \in Dels PROVE CreateDelegation(d) => Inv'
  <2> SUFFICES ASSUME CreateDelegation(d) PROVE Inv'
    OBVIOUS
  <2>1. TypeOK'
    BY <1>a DEF CreateDelegation, TypeOK, ChainTypeOK, Version
  <2> QED
    BY <1>1, <1>2, <1>3, <2>1 DEF CreateDelegation, Inv
<1>5. ASSUME NEW p \in ParamsSet PROVE Govern(p) => Inv'
  <2> SUFFICES ASSUME Govern(p) PROVE Inv'
    OBVIOUS
  <2>1. hist' \in Seq(ParamsSet) /\ Version' \in 1..MaxVersions
    BY <1>b, ChainAssumption DEF Govern, Version
  <2>2. TypeOK'
    BY <1>a, <2>1 DEF Govern, TypeOK, ChainTypeOK
  <2> QED
    BY <1>1, <1>2, <1>3, <2>2 DEF Govern, Inv
<1>6. ASSUME NEW tx \in mempool PROVE DeliverTx(tx) => Inv'
  <2> SUFFICES ASSUME DeliverTx(tx) PROVE Inv'
    OBVIOUS
  <2> DEFINE sig == [by |-> tx.from, since |-> tx.since, until |-> tx.until]
  <2>1. sig \in SigRecord
    BY <1>g DEF SigRecord
  <2>2. ASSUME NEW d \in Dels
        PROVE  \/ sigs'[d] = sigs[d]
               \/ d \in tx.dels /\ tx.from \notin Signers(d) /\ sigs'[d] = sigs[d] \cup {sig}
    BY DEF DeliverTx
  <2>3. \A d \in tx.dels : RulesHeld(d, tx.since, tx.until)
    BY <1>a DEF SentChecked
  <2>4. \A d \in Dels : d \in tx.dels => RulesHeld(d, tx.since, tx.until)'
    BY <1>d, <1>g, <2>3, Zenon
  <2>5. TypeOK'
    <3>1. \A d \in Dels : sigs'[d] \in SUBSET SigRecord
      BY <1>a, <2>1, <2>2 DEF ChainTypeOK
    <3>2. sigs' \in [Dels -> SUBSET SigRecord]
      BY <3>1 DEF DeliverTx
    <3> QED
      BY <1>a, <3>2, Zenon DEF DeliverTx, TypeOK, ChainTypeOK, Version
  <2>6. ASSUME NEW d \in Dels
        PROVE  /\ IsFiniteSet(sigs'[d])
               /\ \A s, t \in sigs'[d] : s.by = t.by => s = t
               /\ \A s \in sigs'[d] : s.by \in Honest => RulesHeld(d, s.since, s.until)'
    <3>1. /\ IsFiniteSet(sigs[d])
          /\ \A s, t \in sigs[d] : s.by = t.by => s = t
          /\ \A s \in sigs[d] : s.by \in Honest => RulesHeld(d, s.since, s.until)'
      BY <1>a, <1>d, <1>f, Zenon DEF RecordedChecked
    <3>2. CASE sigs'[d] = sigs[d]
      BY <3>1, <3>2
    <3>3. CASE d \in tx.dels /\ tx.from \notin Signers(d) /\ sigs'[d] = sigs[d] \cup {sig}
      <4>1. IsFiniteSet(sigs'[d])
        BY <1>h, <3>1, <3>3, Zenon
      <4>2. \A s \in sigs[d] : s.by # tx.from
        BY <3>3 DEF Signers
      <4> QED
        BY <2>4, <3>1, <3>3, <4>1, <4>2
    <3> QED
      BY <2>2, <3>2, <3>3, Zenon
  <2>7. RecordedChecked'
    BY <2>6 DEF RecordedChecked
  <2> QED
    BY <1>1, <1>2, <2>5, <2>7 DEF DeliverTx, Inv
<1>7. ASSUME NEW tx \in mempool PROVE DropTx(tx) => Inv'
  <2> SUFFICES ASSUME DropTx(tx) PROVE Inv'
    OBVIOUS
  <2>1. TypeOK'
    BY <1>a DEF DropTx, TypeOK, ChainTypeOK, Version
  <2> QED
    BY <1>1, <1>2, <1>3, <2>1 DEF DropTx, Inv
<1>8. ASSUME NEW m \in Faulty, NEW d \in Dels PROVE FaultySign(m, d) => Inv'
  <2> SUFFICES ASSUME FaultySign(m, d) PROVE Inv'
    OBVIOUS
  <2> DEFINE sig == [by |-> m, since |-> 0, until |-> 0]
  <2>1. sig \in SigRecord
    BY ChainAssumption DEF SigRecord, Versions
  <2>2. /\ sigs'[d] = sigs[d] \cup {sig} /\ \A s \in sigs[d] : s.by # m
        /\ \A e \in Dels : e # d => sigs'[e] = sigs[e]
    BY <1>a, Zenon DEF FaultySign, ChainTypeOK, Signers
  <2>3. TypeOK'
    BY <1>a, <2>1, ZenonT(30) DEF FaultySign, TypeOK, ChainTypeOK, Version
  <2>4. ASSUME NEW e \in Dels
        PROVE  /\ IsFiniteSet(sigs[e])
               /\ \A s, t \in sigs[e] : s.by = t.by => s = t
               /\ \A s \in sigs[e] : s.by \in Honest => RulesHeld(e, s.since, s.until)'
    BY <1>a, <1>d, <1>f, Zenon DEF RecordedChecked
  <2>5. IsFiniteSet(sigs'[d])
    BY <1>h, <2>2, <2>4, Zenon
  <2>6. ASSUME NEW e \in Dels
        PROVE  /\ IsFiniteSet(sigs'[e])
               /\ \A s, t \in sigs'[e] : s.by = t.by => s = t
               /\ \A s \in sigs'[e] : s.by \in Honest => RulesHeld(e, s.since, s.until)'
    <3>1. CASE e # d
      BY <2>2, <2>4, <3>1, ZenonT(30)
    <3>2. CASE e = d
      <4>1. \A s \in sigs'[d] : s \in sigs[d] \/ s = sig
        BY <2>2
      <4>2. sig.by = m /\ m \notin Honest
        OBVIOUS
      <4> HIDE DEF sig
      <4> QED
        BY <2>2, <2>4, <2>5, <3>2, <4>1, <4>2
    <3> QED
      BY <3>1, <3>2, Zenon
  <2>7. RecordedChecked'
    BY <2>6 DEF RecordedChecked
  <2> QED
    BY <1>1, <1>2, <2>3, <2>7 DEF FaultySign, Inv
<1> QED
  BY <1>4, <1>5, <1>6, <1>7, <1>8 DEF ChainStep

-----------------------------------------------------------------------------
(* Every state the committee reaches satisfies the inductive invariant.        *)
THEOREM Invariance == Spec => []Inv
<1>1. Inv /\ [Next]_vars => Inv'
  <2> SUFFICES ASSUME Inv, [Next]_vars PROVE Inv'
    OBVIOUS
  <2>1. CASE Next
    BY <2>1, MemberInv, ChainInv DEF Next
  <2>2. CASE UNCHANGED vars
    <3>1. UNCHANGED <<chainVars, memberVars, crashes>>
      BY <2>2 DEF vars
    <3>2. TypeOK'
      BY <3>1 DEF chainVars, memberVars, Inv, TypeOK, ChainTypeOK, Version
    <3>3. RoundParamsFresh' /\ ReadInOrder' /\ HeldInRound'
      BY <3>1, Zenon
         DEF chainVars, memberVars, Inv, Version, RoundParamsFresh, ReadInOrder, HeldInRound
    <3>4. SentChecked'
      BY <3>1 DEF chainVars, memberVars, Inv, Version, SentChecked, RulesHeld
    <3>5. RecordedChecked'
      BY <3>1, RecordedKept DEF chainVars, Inv
    <3> QED
      BY <3>2, <3>3, <3>4, <3>5 DEF Inv
  <2> QED
    BY <2>1, <2>2
<1> QED
  BY <1>1, InitInv, PTL DEF Spec

(* Every signature of an honest member that the chain records is on a          *)
(* delegation that obeyed the rules the code checks, under parameters in force  *)
(* during the round that produced it, for every committee, set of delegations,  *)
(* history of parameters and configuration.                                   *)
THEOREM SpendingRulesSafe == Spec => []SpendingRulesEnforced
<1>1. Inv => SpendingRulesEnforced
  BY DEF Inv, RecordedChecked, RulesHeld, SpendingRulesEnforced
<1> QED
  BY <1>1, Invariance, PTL

(* No honest member's signature is recorded on a delegation that the daemon     *)
(* cannot process, whatever the chain returns to it and however often it dies    *)
(* of it and is restarted.                                                    *)
THEOREM UnprocessableSafe == Spec => []UnprocessableUnsigned
<1>1. Inv => UnprocessableUnsigned
  BY DEF Inv, RecordedChecked, RulesHeld, UnprocessableUnsigned
<1> QED
  BY <1>1, Invariance, PTL

(* While a member handles delegations its parameters were read in that round.  *)
THEOREM RoundParamsSafe == Spec => []RoundParamsFresh
<1>1. Inv => RoundParamsFresh
  BY DEF Inv
<1> QED
  BY <1>1, Invariance, PTL

(* More signatures than there are faulty members include one of an honest      *)
(* member: the record holds no member twice.                                   *)
LEMMA HonestAmongQuorum ==
    ASSUME Inv, NEW d \in Dels, Cardinality(sigs[d]) > Cardinality(Faulty)
    PROVE  \E s \in sigs[d] : s.by \in Honest
<1>1. /\ IsFiniteSet(sigs[d])
      /\ \A s, t \in sigs[d] : s.by = t.by => s = t
      /\ \A s \in sigs[d] : s.by \in Members
  BY DEF Inv, RecordedChecked, TypeOK, ChainTypeOK, SigRecord
<1>2. IsFiniteSet(Faulty)
  BY ChainAssumption, FS_Subset
<1>3. Cardinality(sigs[d]) \in Nat /\ Cardinality(Faulty) \in Nat
  BY <1>1, <1>2, FS_CardinalityType
<1>4. SUFFICES ASSUME \A s \in sigs[d] : s.by \in Faulty PROVE FALSE
  BY <1>1 DEF Honest
<1> DEFINE by == [s \in sigs[d] |-> s.by]
<1>5. by \in Injection(sigs[d], Faulty)
  BY <1>1, <1>4 DEF Injection, IsInjective
<1>6. Cardinality(sigs[d]) <= Cardinality(Faulty)
  BY <1>2, <1>5, FS_Injection
<1> QED
  BY <1>3, <1>6

(* As long as faulty members alone make no quorum, what becomes active obeyed   *)
(* rules 1 and 2, and rule 3 if its unbonding output is the one the code takes  *)
(* for granted, whatever the faulty members sign.                             *)
THEOREM QuorumSafe == Spec => []QuorumEnforcesRules
<1>1. Inv => QuorumEnforcesRules
  <2> DEFINE Obeyed(d, p) ==
                /\ SlashingRules(BtcDel[d], p)
                /\ UnbondingOutputStated(BtcDel[d]) => UnbondingRule(BtcDel[d], p)
  <2> SUFFICES ASSUME Inv, QuorumNeedsHonest, NEW d \in Dels, Active(d)
               PROVE  \E v \in 1..Version : Obeyed(d, hist[v])
    BY DEF QuorumEnforcesRules
  <2>1. /\ ChainTypeOK /\ Version \in Nat /\ hist[Version] \in ParamsSet
        /\ IsFiniteSet(sigs[d])
    <3>1. ChainTypeOK /\ IsFiniteSet(sigs[d])
      BY DEF Inv, TypeOK, RecordedChecked
    <3> QED
      BY <3>1 DEF ChainTypeOK, Version
  <2>2. Cardinality(sigs[d]) > Cardinality(Faulty)
    <3>1. Cardinality(sigs[d]) \in Nat /\ Cardinality(Faulty) \in Nat
      BY <2>1, ChainAssumption, FS_Subset, FS_CardinalityType
    <3>2. /\ ~(Cardinality(sigs[d]) < hist[Version].CovenantQuorum)
          /\ hist[Version].CovenantQuorum > Cardinality(Faulty)
          /\ hist[Version].CovenantQuorum \in Nat
      BY <2>1, DataAssumption DEF Active, Pending, QuorumNeedsHonest
    <3> QED
      BY <3>1, <3>2
  <2>3. PICK s \in sigs[d] : s.by \in Honest
    BY <2>2, HonestAmongQuorum
  <2>4. s.since \in Nat /\ s.until \in Nat /\ RulesHeld(d, s.since, s.until)
    <3>1. s \in SigRecord /\ RulesHeld(d, s.since, s.until)
      BY <2>1, <2>3, Zenon DEF Inv, RecordedChecked, ChainTypeOK
    <3>2. s.since \in Versions /\ s.until \in Versions
      BY <3>1 DEF SigRecord
    <3> QED
      BY <3>1, <3>2, VersionsNat, Zenon
  <2>5. PICK v \in 1..Version : RulesChecked(BtcDel[d], hist[v])
    BY <2>1, <2>4 DEF RulesHeld
  <2>6. hist[v] \in ParamsSet
    BY <2>1, <2>5 DEF ChainTypeOK, Version
  <2>7. BtcDel[d].UnbondingTime \in Nat /\ hist[v].MinUnbondingTime \in Nat
    BY <2>6, DataAssumption
  <2>8. Obeyed(d, hist[v])
    BY <2>5, <2>7 DEF RulesChecked, UnbondingOutputStated, UnbondingRule
  <2> QED
    BY <2>5, <2>8
<1> QED
  BY <1>1, Invariance, PTL

-----------------------------------------------------------------------------
(* A delegation in the hands of a member has a quorum in its eyes exactly when  *)
(* the signatures seen reach the quorum of the parameters in use: the three     *)
(* counters the code compares are equal.                                      *)
LEMMA QuorumInView ==
    ASSUME NEW m, NEW d, NEW q
    PROVE  HasCovenantQuorum(View(m, d), q) <=> seen[m][d] >= q
BY DEF HasCovenantQuorum, HasAllSignatures, HasCovenantQuorumOnSlashing,
       HasCovenantQuorumOnUnbonding, View, ConvertDelegationType

\* SkipOnlyAfterGovernance, by the versions it is about.
SeenBelowQuorum ==
    \A m \in Honest : \A d \in todo[m] :
        seen[m][d] >= hist[params[m].staking].CovenantQuorum => params[m].staking < Version

(* The two formulations agree.                                                *)
LEMMA SkipBySeen == SkipOnlyAfterGovernance <=> SeenBelowQuorum
<1>1. \A m : StakingParams(m).CovenantQuorum = hist[params[m].staking].CovenantQuorum
  BY DEF StakingParams
<1> QED
  BY <1>1, QuorumInView DEF SkipOnlyAfterGovernance, SeenBelowQuorum

(* A step of a member keeps it: a page holds pending delegations only.         *)
LEMMA MemberSeen ==
    ASSUME Inv, SeenBelowQuorum, NEW m \in Honest, MemberStep(m)
    PROVE  SeenBelowQuorum'
<1> USE DEF Honest
<1>a. /\ todo \in [Members -> SUBSET Dels] /\ seen \in [Members -> [Dels -> Nat]]
      /\ params \in [Members -> [ckpt : Versions, staking : Versions]]
      /\ ChainTypeOK /\ Version \in Nat /\ hist[Version] \in ParamsSet
  BY MemberTypes, VersionType DEF ChainTypeOK, Version
<1>b. hist' = hist /\ sigs' = sigs
  BY ChainKept
<1>c. ASSUME todo'[m] = {}, \A o \in Honest : o # m => todo'[o] = todo[o] /\ seen'[o] = seen[o]
                                                    /\ params'[o] = params[o]
      PROVE  SeenBelowQuorum'
  BY <1>b, <1>c DEF SeenBelowQuorum, Version
<1>d. ASSUME UNCHANGED <<todo, seen, params>> PROVE SeenBelowQuorum'
  BY <1>b, <1>d DEF SeenBelowQuorum, Version
<1>e. ASSUME Die(m) PROVE SeenBelowQuorum'
  BY <1>a, <1>c, <1>e, Zenon DEF Die
<1>f. ASSUME NEW left \in SUBSET todo[m], Continue(m, left, seen[m]), params' = params
      PROVE  SeenBelowQuorum'
  <2>1. /\ todo'[m] = left /\ \A d \in left : seen'[m][d] = seen[m][d]
        /\ \A o \in Honest : o # m => todo'[o] = todo[o] /\ seen'[o] = seen[o]
    BY <1>a, <1>f DEF Continue
  <2> QED
    BY <1>b, <1>f, <2>1 DEF SeenBelowQuorum, Version
<1>1. CASE QueryStakingParams(m)
  <2>1. todo[m] = {}
    BY <1>1 DEF Inv, HeldInRound, QueryStakingParams
  <2> QED
    BY <1>1, <1>a, <1>c, <2>1, Zenon DEF QueryStakingParams
<1>2. CASE QueryPendingDelegations(m)
  <2> DEFINE page == FirstN({d \in Dels : Pending(d)}, DelegationLimit)
             left == removeAlreadySigned(m, page)
             view == [d \in Dels |-> Cardinality(sigs[d])]
  <2>1. CASE Continue(m, left, view) /\ params' = params
    <3>1. left \in SUBSET Dels /\ \A d \in left : Pending(d)
      <4>1. left \subseteq {d \in Dels : Pending(d)}
        BY PageListed, ZenonT(30)
      <4> QED
        BY <4>1, Zenon
    <3>2. \A d \in left : view[d] \in Nat /\ view[d] < hist[Version].CovenantQuorum
      <4>1. \A d \in Dels : Cardinality(sigs[d]) \in Nat
        BY FS_CardinalityType DEF Inv, RecordedChecked
      <4> QED
        BY <3>1, <4>1 DEF Pending
    <3>3. hist[Version].CovenantQuorum \in Nat
      BY <1>a, DataAssumption
    <3> HIDE DEF left, view
    <3>4. /\ todo'[m] = left /\ \A d \in left : seen'[m][d] = view[d]
          /\ \A o \in Honest : o # m => todo'[o] = todo[o] /\ seen'[o] = seen[o]
      BY <1>a, <2>1, <3>1 DEF Continue
    <3>5. params[m].staking = Version \/ params[m].staking < Version
      <4>1. params[m].staking \in Nat
        BY <1>a, VersionsNat, ZenonT(30)
      <4>2. params[m].staking <= Version
        BY <1>2, Zenon DEF QueryPendingDelegations, Inv, RoundParamsFresh
      <4>3. \A a, b \in Nat : a <= b => a = b \/ a < b
        OBVIOUS
      <4> QED
        BY <1>a, <4>1, <4>2, <4>3, Zenon
    <3>6. \A d \in left : view[d] >= hist[params[m].staking].CovenantQuorum
                            => params[m].staking < Version
      <4>1. CASE params[m].staking = Version
        BY <3>2, <3>3, <4>1
      <4> QED
        BY <3>5, <4>1, Zenon
    <3> QED
      BY <1>b, <2>1, <3>4, <3>6 DEF SeenBelowQuorum, Version
  <2> QED
    BY <1>2, <1>e, <2>1, ZenonT(30) DEF QueryPendingDelegations
<1>3. ASSUME NEW k \in BOOLEAN, AddCovenantSignatures(m, k) PROVE SeenBelowQuorum'
  BY <1>3, <1>d, <1>e, <1>f, ZenonT(30) DEF AddCovenantSignatures
<1>4. CASE SubmitReturns(m)
  BY <1>4, <1>f DEF SubmitReturns
<1>5. CASE Crash(m)
  BY <1>5, <1>e DEF Crash
<1> QED
  BY <1>1, <1>2, <1>3, <1>4, <1>5, <1>d
     DEF MemberStep, Start, Tick, QueryCheckpointParams, QueryParamsFails, QueryPendingFails,
         SendTx, memberVars

(* A batch is dropped for a quorum only when governance intervened between     *)
(* UpdateParams and AddCovenantSignatures.                                    *)
THEOREM SkipSafe == Spec => []SkipOnlyAfterGovernance
<1>1. Init => SeenBelowQuorum
  BY DEF Init, SeenBelowQuorum, Honest
<1>2. Inv /\ SeenBelowQuorum /\ [Next]_vars => SeenBelowQuorum'
  <2> SUFFICES ASSUME Inv, SeenBelowQuorum, [Next]_vars PROVE SeenBelowQuorum'
    OBVIOUS
  <2>1. CASE \E m \in Honest : MemberStep(m)
    BY <2>1, MemberSeen, ZenonT(30)
  <2>2. CASE ChainStep
    <3>1. UNCHANGED <<todo, seen, params>>
      BY <2>2 DEF ChainStep, memberVars
    <3>2. CASE hist' = hist
      BY <3>1, <3>2 DEF SeenBelowQuorum, Version
    <3>3. ASSUME NEW p \in ParamsSet, Govern(p) PROVE SeenBelowQuorum'
      <4>1. hist \in Seq(ParamsSet) /\ Version \in Nat /\ Version' = Version + 1
        BY <3>3 DEF Inv, TypeOK, ChainTypeOK, Govern, Version
      <4>2. \A m \in Honest : \A d \in todo[m] :
                params[m].staking \in Nat /\ params[m].staking <= Version
        BY ChainAssumption DEF Inv, TypeOK, HeldInRound, RoundParamsFresh, Honest, Versions
      <4> QED
        BY <3>1, <4>1, <4>2 DEF SeenBelowQuorum
    <3> QED
      BY <2>2, <3>2, <3>3 DEF ChainStep, CreateDelegation, DeliverTx, DropTx, FaultySign
  <2>3. CASE UNCHANGED vars
    BY <2>3, Zenon DEF vars, chainVars, memberVars, SeenBelowQuorum, Version
  <2> QED
    BY <2>1, <2>2, <2>3 DEF Next
<1> QED
  BY <1>1, <1>2, Invariance, SkipBySeen, PTL DEF Spec

=============================================================================
