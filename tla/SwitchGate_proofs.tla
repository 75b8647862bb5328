------------------------- MODULE SwitchGate_proofs -------------------------
(* Theorems about Cluster, and about the gate that SwitchGate puts on it,   *)
(* checked by TLAPS.                                                        *)
EXTENDS SwitchGate, TLAPS

-----------------------------------------------------------------------------
(* The cluster by itself.                                                   *)


(***************************************************************************)
(* The inductive invariant.  LeaseIsExclusive needs to know that the time  *)
(* an instance carries into its UPDATE is never ahead of the database's    *)
(* clock: a stale time only makes it less likely to win.                   *)
(***************************************************************************)
ClockNotAhead == \A i \in Instance : dbnow[i] <= now

LeaseInv == ClusterTypeOK /\ ClockNotAhead /\ LeaseIsExclusive

\* A claim that an instance may overwrite is its own or has expired by now, so
\* no other instance's lease is still running.
LEMMA ClaimableIsStale ==
    ASSUME LeaseInv, NEW i \in Instance, NEW j \in Instance, j # i,
           Claimable(i)
    PROVE  lease[j] <= now
<1>1. now \in Nat /\ dbnow[i] \in Nat /\ lease[j] \in Nat
    BY MaxTimeAssumption DEF LeaseInv, ClusterTypeOK
<1>2. SUFFICES ASSUME lease[j] > now  PROVE FALSE
    BY <1>1
<1>3. claim = [holder |-> j, expires |-> lease[j]]
    BY <1>2 DEF LeaseInv, LeaseIsExclusive
<1>4. claim.holder # i /\ claim.expires = lease[j]
    BY <1>3
<1>5. lease[j] <= dbnow[i]
    BY <1>4 DEF Claimable
<1>6. dbnow[i] <= now
    BY DEF LeaseInv, ClockNotAhead
<1>. QED  BY <1>1, <1>2, <1>5, <1>6

LEMMA ClusterInitInv == ClusterInit => LeaseInv
<1>. SUFFICES ASSUME ClusterInit PROVE LeaseInv
    OBVIOUS
<1>1. ClusterTypeOK
    BY MaxTimeAssumption DEF ClusterInit, ClusterTypeOK, Claim, Unheld, Unclaimed, Step
<1>2. ClockNotAhead /\ LeaseIsExclusive
    BY DEF ClusterInit, ClockNotAhead, LeaseIsExclusive
<1>. QED  BY <1>1, <1>2 DEF LeaseInv

LEMMA ClusterStepInv == LeaseInv /\ [ClusterNext]_clusterVars => LeaseInv'
<1>. SUFFICES ASSUME LeaseInv, [ClusterNext]_clusterVars PROVE LeaseInv'
    OBVIOUS
<1>. USE MaxTimeAssumption, TimeoutAssumption
<1>1. CASE UNCHANGED clusterVars
    BY <1>1 DEF clusterVars, LeaseInv, ClusterTypeOK, ClockNotAhead, LeaseIsExclusive
<1>2. CASE Tick
    <2>1. ClusterTypeOK'
        BY <1>2 DEF Tick, LeaseInv, ClusterTypeOK
    <2>2. ClockNotAhead' /\ LeaseIsExclusive'
        BY <1>2 DEF Tick, LeaseInv, ClusterTypeOK, ClockNotAhead, LeaseIsExclusive
    <2>. QED  BY <2>1, <2>2 DEF LeaseInv
<1>3. ASSUME NEW i \in Instance, ReadClock(i)  PROVE LeaseInv'
    <2>1. ClusterTypeOK'
        BY <1>3 DEF ReadClock, LeaseInv, ClusterTypeOK, Step
    <2>2. ClockNotAhead' /\ LeaseIsExclusive'
        BY <1>3 DEF ReadClock, LeaseInv, ClusterTypeOK, ClockNotAhead, LeaseIsExclusive
    <2>. QED  BY <2>1, <2>2 DEF LeaseInv
<1>4. ASSUME NEW i \in Instance, ClaimWon(i)  PROVE LeaseInv'
    <2>1. dbnow[i] + Timeout \in Nat
        BY DEF LeaseInv, ClusterTypeOK
    <2>2. ClusterTypeOK'
        BY <1>4, <2>1 DEF ClaimWon, AfterClaim, LeaseInv, ClusterTypeOK, Claim, Step
    <2>3. ClockNotAhead'
        BY <1>4 DEF ClaimWon, LeaseInv, ClockNotAhead
    <2>4. ASSUME NEW j \in Instance, lease'[j] > now'
          PROVE  claim' = [holder |-> j, expires |-> lease'[j]]
        <3>1. CASE j = i
            BY <1>4, <3>1 DEF ClaimWon, LeaseInv, ClusterTypeOK
        <3>2. CASE j # i
            <4>1. lease[j] <= now
                BY <1>4, <3>2, ClaimableIsStale DEF ClaimWon
            <4>2. lease'[j] = lease[j] /\ now' = now
                BY <1>4, <3>2 DEF ClaimWon, LeaseInv, ClusterTypeOK
            <4>3. lease[j] \in Nat /\ now \in Nat
                BY DEF LeaseInv, ClusterTypeOK
            <4>. QED  BY <2>4, <4>1, <4>2, <4>3
        <3>. QED  BY <3>1, <3>2
    <2>. QED  BY <2>2, <2>3, <2>4 DEF LeaseInv, LeaseIsExclusive
<1>5. ASSUME NEW i \in Instance, Release(i)  PROVE LeaseInv'
    <2>1. ClusterTypeOK'
        BY <1>5 DEF Release, LeaseInv, ClusterTypeOK, Claim, Unheld, Unclaimed, Step
    <2>2. ClockNotAhead'
        BY <1>5 DEF Release, LeaseInv, ClockNotAhead
    <2>3. ASSUME NEW j \in Instance, lease'[j] > now'
          PROVE  claim' = [holder |-> j, expires |-> lease'[j]]
        <3>1. CASE HeldBy(i)
            <4>1. lease' = [lease EXCEPT ![i] = 0] /\ now' = now
                BY <1>5, <3>1 DEF Release
            <4>2. now \in Nat
                BY DEF LeaseInv, ClusterTypeOK
            <4>3. j # i
                BY <2>3, <4>1, <4>2 DEF LeaseInv, ClusterTypeOK
            <4>4. lease[j] > now
                BY <2>3, <4>1, <4>3 DEF LeaseInv, ClusterTypeOK
            <4>5. claim.holder = j
                BY <4>4 DEF LeaseInv, LeaseIsExclusive
            <4>. QED  BY <3>1, <4>3, <4>5 DEF HeldBy
        <3>2. CASE ~HeldBy(i)
            BY <1>5, <2>3, <3>2 DEF Release, LeaseInv, LeaseIsExclusive
        <3>. QED  BY <3>1, <3>2
    <2>. QED  BY <2>1, <2>2, <2>3 DEF LeaseInv, LeaseIsExclusive
<1>6. ASSUME NEW i \in Instance,
             Start(i) \/ ClaimLost(i) \/ ClaimFails(i) \/ EndPass(i)
                \/ BeginShutdown(i) \/ Crash(i)
      PROVE  LeaseInv'
    <2>1. ClusterTypeOK'
        BY <1>6 DEF Start, ClaimLost, ClaimFails, EndPass, BeginShutdown, Crash,
                    AfterClaim, LeaseInv, ClusterTypeOK, Step
    <2>2. UNCHANGED <<now, claim, dbnow, lease>>
        BY <1>6 DEF Start, ClaimLost, ClaimFails, EndPass, BeginShutdown, Crash
    <2>. QED  BY <2>1, <2>2 DEF LeaseInv, ClockNotAhead, LeaseIsExclusive
<1>. QED
    BY <1>1, <1>2, <1>3, <1>4, <1>5, <1>6 DEF ClusterNext, ClusterStep

\* Type correctness of the claim protocol.
THEOREM ClusterTypeCorrect == ClusterSpec => []ClusterTypeOK
<1>1. LeaseInv => ClusterTypeOK
    BY DEF LeaseInv
<1>. QED  BY <1>1, ClusterInitInv, ClusterStepInv, PTL DEF ClusterSpec

\* For any number of instances, any timeout and any clock: an instance's lease
\* stays its own until the database's clock reaches its end.
THEOREM LeaseExclusive == ClusterSpec => []LeaseIsExclusive
<1>1. LeaseInv => LeaseIsExclusive
    BY DEF LeaseInv
<1>. QED  BY <1>1, ClusterInitInv, ClusterStepInv, PTL DEF ClusterSpec

\* Hence never two control passes under running leases.
THEOREM OnePass == ClusterSpec => []OnePassUnderLease
<1>1. LeaseInv => OnePassUnderLease
    <2>. SUFFICES ASSUME LeaseInv, NEW i \in Instance, NEW j \in Instance,
                         lease[i] > now, lease[j] > now
                  PROVE  i = j
        BY DEF OnePassUnderLease
    <2>1. claim.holder = i /\ claim.holder = j
        BY DEF LeaseInv, LeaseIsExclusive
    <2>. QED  BY <2>1
<1>. QED  BY <1>1, ClusterInitInv, ClusterStepInv, PTL DEF ClusterSpec

\* The claim changes hands only when stale, or by its holder's own release.
THEOREM TakeoverStale == ClusterSpec => TakeoverOnlyWhenStale
<1>1. LeaseInv /\ [ClusterNext]_clusterVars
        => [ \A i \in Instance :
                HeldBy(i) /\ ~HeldBy(i)'
                => \/ claim.expires <= now
                   \/ pc[i] = "stopping" /\ claim' = Unheld ]_clusterVars
    <2>. SUFFICES ASSUME LeaseInv, ClusterNext, NEW i \in Instance,
                         HeldBy(i), ~HeldBy(i)'
                  PROVE  \/ claim.expires <= now
                         \/ pc[i] = "stopping" /\ claim' = Unheld
        OBVIOUS
    <2>1. PICK j \in Instance : ClaimWon(j) \/ Release(j)
        BY DEF ClusterNext, ClusterStep, Tick, Start, ReadClock, ClaimLost, ClaimFails,
               EndPass, BeginShutdown, Crash, HeldBy
    <2>2. CASE ClaimWon(j)
        <3>1. j # i
            BY <2>2, NoRowAssumption, TimeoutAssumption
            DEF ClaimWon, HeldBy, LeaseInv, ClusterTypeOK
        <3>2. claim.expires <= dbnow[j]
            BY <2>2, <3>1 DEF ClaimWon, Claimable, HeldBy
        <3>3. claim.expires \in Nat /\ dbnow[j] \in Nat /\ now \in Nat
            BY MaxTimeAssumption DEF HeldBy, LeaseInv, ClusterTypeOK, Claim
        <3>. QED  BY <3>2, <3>3 DEF LeaseInv, ClockNotAhead
    <2>3. CASE Release(j)
        BY <2>3 DEF Release, HeldBy
    <2>. QED  BY <2>1, <2>2, <2>3
<1>. QED
    BY <1>1, ClusterInitInv, ClusterStepInv, PTL DEF ClusterSpec, TakeoverOnlyWhenStale

-----------------------------------------------------------------------------
(* The gate.                                                                *)


(***************************************************************************)
(* The gate adds to the cluster and never changes it, so what is proved of *)
(* Cluster holds of it.  Two facts tie the bolts to the cluster: the row   *)
(* an instance holds is the lease it wrote last, and the frozen bolt is    *)
(* what control_armed was when the process started.                        *)
(***************************************************************************)
RowIsTheLease == \A i \in Instance : HeldBy(i) => lease[i] = claim.expires

BoltIsFrozen == \A i \in Instance : bolt[i] => armedAtStart[i]

GateInv == LeaseInv /\ TypeOK /\ RowIsTheLease /\ BoltIsFrozen

\* Every step of the gate is a step of the cluster, or leaves it alone.
LEMMA GateStepIsClusterStep == [Next]_vars => [ClusterNext]_clusterVars
<1>. SUFFICES ASSUME [Next]_vars  PROVE [ClusterNext]_clusterVars
    OBVIOUS
<1>1. CASE TickOrRelease
    BY <1>1 DEF TickOrRelease, ClusterNext, ClusterStep
<1>2. CASE Arm \/ Disarm \/ UNCHANGED vars
    BY <1>2 DEF Arm, Disarm, vars, clusterVars
<1>3. ASSUME NEW i \in Instance,
             \/ StartProcess(i) \/ ClaimTurn(i) \/ FinishPass(i) \/ PassFails(i)
             \/ StopOrCrash(i)
      PROVE  ClusterStep(i)
    BY <1>3 DEF StartProcess, ClaimTurn, FinishPass, PassFails, StopOrCrash, ClusterStep
<1>4. ASSUME NEW i \in Instance,
             \/ LoadSetting(i) \/ CommandOver(i)
             \/ \E a \in Actuator : SendCommand(i, a) \/ SuppressCommand(i, a)
      PROVE  UNCHANGED clusterVars
    BY <1>4 DEF LoadSetting, CommandOver, SendCommand, SuppressCommand
<1>. QED  BY <1>1, <1>2, <1>3, <1>4 DEF Next, ClusterNext

LEMMA GateInitInv == Init => GateInv
<1>. SUFFICES ASSUME Init  PROVE GateInv
    OBVIOUS
<1>1. LeaseInv
    BY ClusterInitInv DEF Init
<1>2. TypeOK
    BY <1>1, NoCommandAssumption DEF Init, TypeOK, LeaseInv
<1>3. RowIsTheLease
    BY NoHolderAssumption DEF Init, ClusterInit, RowIsTheLease, HeldBy, Unheld
<1>4. BoltIsFrozen
    BY DEF Init, BoltIsFrozen
<1>. QED  BY <1>1, <1>2, <1>3, <1>4 DEF GateInv

LEMMA GateStepType == GateInv /\ LeaseInv' /\ [Next]_vars => TypeOK'
<1>. SUFFICES ASSUME GateInv, LeaseInv', [Next]_vars  PROVE TypeOK'
    OBVIOUS
<1>. USE DEF GateInv, LeaseInv, TypeOK
<1>1. CASE TickOrRelease \/ UNCHANGED vars
    BY <1>1 DEF TickOrRelease, gateVars, vars
<1>2. CASE Arm \/ Disarm
    BY <1>2 DEF Arm, Disarm
<1>3. ASSUME NEW i \in Instance, StartProcess(i)  PROVE TypeOK'
    BY <1>3 DEF StartProcess, ControlArmedAtStartup
<1>4. ASSUME NEW i \in Instance, ClaimTurn(i)  PROVE TypeOK'
    BY <1>4 DEF ClaimTurn, gateVars
<1>5. ASSUME NEW i \in Instance, LoadSetting(i)  PROVE TypeOK'
    BY <1>5 DEF LoadSetting, SettingOfPass
<1>6. ASSUME NEW i \in Instance, NEW a \in Actuator,
             SendCommand(i, a) \/ SuppressCommand(i, a)
      PROVE  TypeOK'
    BY <1>6 DEF SendCommand, SuppressCommand
<1>7. ASSUME NEW i \in Instance, CommandOver(i)  PROVE TypeOK'
    BY <1>7 DEF CommandOver
<1>8. ASSUME NEW i \in Instance, FinishPass(i) \/ PassFails(i) \/ StopOrCrash(i)
      PROVE  TypeOK'
    BY <1>8 DEF FinishPass, PassFails, StopOrCrash, PassOver
<1>. QED
    BY <1>1, <1>2, <1>3, <1>4, <1>5, <1>6, <1>7, <1>8 DEF Next

\* Only the two statements that write the row change who holds it, and each
\* writes row and lease together.
LEMMA GateStepRow == GateInv /\ [ClusterNext]_clusterVars => RowIsTheLease'
<1>. SUFFICES ASSUME GateInv, [ClusterNext]_clusterVars  PROVE RowIsTheLease'
    OBVIOUS
<1>. USE DEF GateInv, LeaseInv, ClusterTypeOK, RowIsTheLease, HeldBy
<1>1. ASSUME NEW i \in Instance, ClaimWon(i)  PROVE RowIsTheLease'
    BY <1>1 DEF ClaimWon
<1>2. ASSUME NEW i \in Instance, Release(i)  PROVE RowIsTheLease'
    BY <1>2, NoHolderAssumption DEF Release, Unheld
<1>3. CASE UNCHANGED <<claim, lease>>
    BY <1>3
<1>. QED
    BY <1>1, <1>2, <1>3
    DEF ClusterNext, ClusterStep, clusterVars, Tick, Start, ReadClock, ClaimLost, ClaimFails,
        EndPass, BeginShutdown, Crash

LEMMA GateStepBolt == GateInv /\ [Next]_vars => BoltIsFrozen'
<1>. SUFFICES ASSUME GateInv, [Next]_vars  PROVE BoltIsFrozen'
    OBVIOUS
<1>1. ASSUME NEW i \in Instance, StartProcess(i)  PROVE BoltIsFrozen'
    BY <1>1 DEF StartProcess, ControlArmedAtStartup, GateInv, TypeOK, BoltIsFrozen
<1>2. CASE UNCHANGED <<bolt, armedAtStart>>
    BY <1>2 DEF GateInv, BoltIsFrozen
<1>. QED
    BY <1>1, <1>2
    DEF Next, vars, gateVars, TickOrRelease, Arm, Disarm, ClaimTurn, LoadSetting, SendCommand,
        SuppressCommand, CommandOver, FinishPass, PassFails, StopOrCrash

LEMMA GateStepInv == GateInv /\ [Next]_vars => GateInv'
<1>. SUFFICES ASSUME GateInv, [Next]_vars  PROVE GateInv'
    OBVIOUS
<1>1. [ClusterNext]_clusterVars
    BY GateStepIsClusterStep
<1>2. LeaseInv'
    BY <1>1, ClusterStepInv DEF GateInv
<1>. QED
    BY <1>1, <1>2, GateStepType, GateStepRow, GateStepBolt DEF GateInv

\* A command that starts is SendCommand of the instance it belongs to.
LEMMA SendsIsSendCommand ==
    ASSUME GateInv, Next, NEW i \in Instance, Sends(i)
    PROVE  BoltsOpen(i) /\ UNCHANGED clusterVars
<1>. USE DEF Sends
<1>1. ASSUME NEW j \in Instance, NEW a \in Actuator, SendCommand(j, a)
      PROVE  BoltsOpen(i) /\ UNCHANGED clusterVars
    <2>1. j = i
        BY <1>1 DEF SendCommand, GateInv, TypeOK
    <2>. QED  BY <1>1, <2>1 DEF SendCommand
<1>2. ASSUME NEW j \in Instance,
             CommandOver(j) \/ FinishPass(j) \/ PassFails(j) \/ StopOrCrash(j)
      PROVE  FALSE
    BY <1>2 DEF CommandOver, FinishPass, PassFails, StopOrCrash, PassOver, GateInv, TypeOK
<1>3. ~UNCHANGED sending
    OBVIOUS
<1>. QED
    BY <1>1, <1>2, <1>3
    DEF Next, TickOrRelease, gateVars, Arm, Disarm, StartProcess, ClaimTurn, LoadSetting,
        SuppressCommand

LEMMA GateInvariant == Spec => []GateInv
BY GateInitInv, GateStepInv, PTL DEF Spec

-----------------------------------------------------------------------------

\* Type correctness of the bolts, for every set of instances and actuators.
THEOREM GateTypeCorrect == Spec => []TypeOK
<1>1. GateInv => TypeOK
    BY DEF GateInv
<1>. QED  BY <1>1, GateInvariant, PTL

\* The gate implements the cluster: operators, processes and commands do
\* nothing to the claim that Cluster does not allow.
THEOREM GateImplementsCluster == Spec => ClusterSpec
<1>1. Init => ClusterInit
    BY DEF Init
<1>. QED  BY <1>1, GateStepIsClusterStep, PTL DEF Spec, ClusterSpec

\* Passes, commands and operators included, a lease is nobody else's before it
\* runs out.
THEOREM GateLeaseExclusive == Spec => []LeaseIsExclusive
BY GateImplementsCluster, LeaseExclusive, PTL

\* A command only starts under the instance's own running lease.
THEOREM StartsUnderOwnLease == Spec => CommandStartsUnderOwnLease
<1>1. GateInv /\ [Next]_vars
        => [\A i \in Instance : Sends(i) => claim = NoRow \/ lease[i] > now]_vars
    <2>. SUFFICES ASSUME GateInv, Next, NEW i \in Instance, Sends(i)
                  PROVE  claim = NoRow \/ lease[i] > now
        OBVIOUS
    <2>1. claim = NoRow \/ (HeldBy(i) /\ claim.expires > now)
        BY SendsIsSendCommand DEF BoltsOpen, SwitchingAllowed, IsLeader
    <2>. QED  BY <2>1 DEF GateInv, RowIsTheLease
<1>. QED  BY <1>1, GateInvariant, PTL DEF Spec, CommandStartsUnderOwnLease

\* Two commands under way at once: one of their leases has run out.
THEOREM OverlapAfterExpiry == Spec => []CommandsOverlapOnlyAfterExpiry
<1>1. GateInv => CommandsOverlapOnlyAfterExpiry
    <2>. SUFFICES ASSUME GateInv, NEW i \in Instance, NEW j \in Instance, i # j,
                         lease[i] > now, lease[j] > now
                  PROVE  FALSE
        BY MaxTimeAssumption
        DEF CommandsOverlapOnlyAfterExpiry, GateInv, LeaseInv, ClusterTypeOK
    <2>1. claim.holder = i /\ claim.holder = j
        BY DEF GateInv, LeaseInv, LeaseIsExclusive
    <2>. QED  BY <2>1
<1>. QED  BY <1>1, GateInvariant, PTL

\* Arming a running process moves nothing: what sends was started armed.
THEOREM ArmingMovesNothing == Spec => ArmingAloneMovesNothing
<1>1. GateInv /\ [Next]_vars
        => [\A i \in Instance : Sends(i) => armedAtStart[i]]_vars
    <2>. SUFFICES ASSUME GateInv, Next, NEW i \in Instance, Sends(i)
                  PROVE  armedAtStart[i]
        OBVIOUS
    <2>1. bolt[i]
        BY SendsIsSendCommand DEF BoltsOpen
    <2>. QED  BY <2>1 DEF GateInv, BoltIsFrozen
<1>. QED  BY <1>1, GateInvariant, PTL DEF Spec, ArmingAloneMovesNothing
=============================================================================
