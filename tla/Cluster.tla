------------------------------ MODULE Cluster ------------------------------
(***************************************************************************)
(* The active/standby cluster (services/cluster.py): several processes     *)
(* share one database row, the claim, and whoever holds it unexpired leads *)
(* and runs the control pass.  Only the database's clock is ever read.     *)
(*                                                                         *)
(* Each instance follows app.py::_shadow_loop: claim once at start, then   *)
(* forever sleep, claim, and - as leader - run one pass.  A claim takes    *)
(* two statements: SELECT now(), then the UPDATE, and anything may happen  *)
(* between the two.                                                        *)
(***************************************************************************)
EXTENDS Naturals

CONSTANTS
    Instance,    \* the holder identities (cluster.instance_id)
    NoHolder,    \* the empty holder_id of an unclaimed row
    NoRow,       \* the claim of a database whose table has no row
    Timeout,     \* takeover_timeout_seconds: interval * cycles
    MaxTime      \* the bound of the model on the database's clock

ASSUME NoHolderAssumption == NoHolder \notin Instance
ASSUME TimeoutAssumption == Timeout \in Nat \ {0}
ASSUME MaxTimeAssumption == MaxTime \in Nat
ASSUME NoRowAssumption ==
    NoRow \notin [holder : Instance \union {NoHolder}, expires : Nat]

VARIABLES
    now,      \* the database's clock
    claim,    \* the row cluster_claim, or NoRow
    pc,       \* where each instance is in its shadow loop
    dbnow,    \* the database_now an instance fetched for its UPDATE
    lease     \* history: the expires_at an instance last wrote, 0 if released

clusterVars == <<now, claim, pc, dbnow, lease>>

Unclaimed == 0    \* _UNCLAIMED, expired under every clock

Claim == [holder : Instance \union {NoHolder}, expires : Nat]

Unheld == [holder |-> NoHolder, expires |-> Unclaimed]

\* "claimBoot" and "claimPass" are between the SELECT and the UPDATE.
Step == {"down", "boot", "claimBoot", "sleep", "claimPass", "pass", "stopping"}

Running(i) == pc[i] # "down"

ClusterTypeOK ==
    /\ now \in 0..MaxTime
    /\ claim \in Claim \union {NoRow}
    /\ pc \in [Instance -> Step]
    /\ dbnow \in [Instance -> 0..MaxTime]
    /\ lease \in [Instance -> Nat]

----------------------------------------------------------------------------

HeldBy(i) == claim # NoRow /\ claim.holder = i

\* is_leader: a query of its own, every time somebody wants to switch.
IsLeader(i) ==
    \/ claim = NoRow
    \/ HeldBy(i) /\ claim.expires > now

\* Mutant: the expiry is not asked for, whoever comes along takes the row.
ClaimableByAnyone(i) == claim # NoRow

\* Mutant: only a released row can be taken over, an expired one never.
ClaimableOnlyByHolder(i) == HeldBy(i) \/ (claim # NoRow /\ claim.holder = NoHolder)

\* The WHERE of the UPDATE in try_become_leader, against the fetched clock.
Claimable(i) ==
    /\ claim # NoRow
    /\ claim.holder = i \/ claim.expires <= dbnow[i]

\* A database carries the migration's unclaimed row, or none at all.
ClusterInit ==
    /\ now = 0
    /\ claim \in {Unheld, NoRow}
    /\ pc = [i \in Instance |-> "down"]
    /\ dbnow = [i \in Instance |-> 0]
    /\ lease = [i \in Instance |-> 0]

Tick ==
    /\ now < MaxTime
    /\ now' = now + 1
    /\ UNCHANGED <<claim, pc, dbnow, lease>>

Start(i) ==
    /\ pc[i] = "down"
    /\ pc' = [pc EXCEPT ![i] = "boot"]
    /\ UNCHANGED <<now, claim, dbnow, lease>>

\* SELECT now(): the first statement of try_become_leader.
ReadClock(i) ==
    /\ \/ pc[i] = "boot" /\ pc' = [pc EXCEPT ![i] = "claimBoot"]
       \/ pc[i] = "sleep" /\ pc' = [pc EXCEPT ![i] = "claimPass"]
    /\ dbnow' = [dbnow EXCEPT ![i] = now]
    /\ UNCHANGED <<now, claim, lease>>

AfterClaim(i, leads) ==
    IF pc[i] = "claimPass" /\ leads THEN "pass" ELSE "sleep"

\* The UPDATE matched the row: i renews its claim or takes an expired one over.
ClaimWon(i) ==
    /\ pc[i] \in {"claimBoot", "claimPass"}
    /\ Claimable(i)
    /\ claim' = [holder |-> i, expires |-> dbnow[i] + Timeout]
    /\ lease' = [lease EXCEPT ![i] = dbnow[i] + Timeout]
    /\ pc' = [pc EXCEPT ![i] = AfterClaim(i, TRUE)]
    /\ UNCHANGED <<now, dbnow>>

\* It matched no row: i is in standby, unless the table has no row to match.
ClaimLost(i) ==
    /\ pc[i] \in {"claimBoot", "claimPass"}
    /\ ~Claimable(i)
    /\ pc' = [pc EXCEPT ![i] = AfterClaim(i, claim = NoRow)]
    /\ UNCHANGED <<now, claim, dbnow, lease>>

\* A database error on the way: logged, the loop goes on with its next pass.
ClaimFails(i) ==
    /\ pc[i] \in {"claimBoot", "claimPass"}
    /\ pc' = [pc EXCEPT ![i] = "sleep"]
    /\ UNCHANGED <<now, claim, dbnow, lease>>

\* The pass is over, or an exception ended it: back to the interval.
EndPass(i) ==
    /\ pc[i] = "pass"
    /\ pc' = [pc EXCEPT ![i] = "sleep"]
    /\ UNCHANGED <<now, claim, dbnow, lease>>

\* The lifespan ends: the loop is cancelled and awaited before the release.
BeginShutdown(i) ==
    /\ Running(i) /\ pc[i] # "stopping"
    /\ pc' = [pc EXCEPT ![i] = "stopping"]
    /\ UNCHANGED <<now, claim, dbnow, lease>>

\* release: a no-op unless i holds the row.
Release(i) ==
    /\ pc[i] = "stopping"
    /\ pc' = [pc EXCEPT ![i] = "down"]
    /\ \/ /\ HeldBy(i)
          /\ claim' = Unheld
          /\ lease' = [lease EXCEPT ![i] = 0]
       \/ /\ ~HeldBy(i)
          /\ UNCHANGED <<claim, lease>>
    /\ UNCHANGED <<now, dbnow>>

\* A process dies without releasing anything.
Crash(i) ==
    /\ Running(i)
    /\ pc' = [pc EXCEPT ![i] = "down"]
    /\ UNCHANGED <<now, claim, dbnow, lease>>

ClusterStep(i) ==
    \/ Start(i)
    \/ ReadClock(i)
    \/ ClaimWon(i)
    \/ ClaimLost(i)
    \/ ClaimFails(i)
    \/ EndPass(i)
    \/ BeginShutdown(i)
    \/ Release(i)
    \/ Crash(i)

ClusterNext == Tick \/ \E i \in Instance : ClusterStep(i)

ClusterSpec == ClusterInit /\ [][ClusterNext]_clusterVars

(***************************************************************************)
(* What the code's scheduling justifies: the database's clock advances, a  *)
(* running instance keeps going through its loop (its sleep and its pass   *)
(* end), and the database answers a claim again and again, so an UPDATE    *)
(* attempted over and over is eventually not the one that fails.           *)
(***************************************************************************)
ClusterFairness ==
    /\ WF_clusterVars(Tick)
    /\ \A i \in Instance :
        /\ WF_clusterVars(ReadClock(i))
        /\ SF_clusterVars(ClaimWon(i))
        /\ WF_clusterVars(ClaimLost(i))
        /\ WF_clusterVars(EndPass(i))

FairClusterSpec == ClusterSpec /\ ClusterFairness

----------------------------------------------------------------------------

\* A lease an instance wrote and has not released stays its own until it runs
\* out on the database's clock: however old the time an instance brings to
\* its UPDATE (services/cluster.py:151-164), no competitor takes the row away
\* earlier.  Without a row there is nothing to claim.
LeaseIsExclusive ==
    \A i \in Instance :
        lease[i] > now => claim = [holder |-> i, expires |-> lease[i]]

\* Of two instances in a pass at most one still has an unexpired lease of its
\* own: two passes overlap only when one outran its own timeout - or when the
\* row was never there (fail open, services/cluster.py:32-40).
OnePassUnderLease ==
    \A i, j \in Instance :
        /\ pc[i] = "pass" /\ lease[i] > now
        /\ pc[j] = "pass" /\ lease[j] > now
        => i = j

\* The claim changes hands only when it is free or stale by the database's
\* clock, or when its holder gives it up itself (services/cluster.py:154-164,
\* 200-216).
TakeoverOnlyWhenStale ==
    [][ \A i \in Instance :
            HeldBy(i) /\ ~HeldBy(i)'
            => \/ claim.expires <= now
               \/ pc[i] = "stopping" /\ claim' = Unheld ]_clusterVars

\* A crashed leader does not keep the plant: whoever keeps running ends up
\* with the claim once it has run out (docs/self-hosting.md:363-366), as long
\* as the bounded clock reaches that moment.
Abandoned(i) ==
    /\ pc[i] = "down"
    /\ HeldBy(i) /\ claim.expires <= MaxTime

StandbyTakesOver ==
    \A i, j \in Instance :
        i # j => (Abandoned(i) /\ Running(j)
                  ~> \/ pc[i] # "down"
                     \/ pc[j] \in {"down", "stopping"}
                     \/ ~HeldBy(i))

=============================================================================
