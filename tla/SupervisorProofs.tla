-------------------------- MODULE SupervisorProofs --------------------------
(***************************************************************************)
(* Proofs about Supervisor, for every number of admitted restarts, every   *)
(* window and every set of addresses: children are drained in order, their *)
(* addresses agree, and the restart budget bounds the spawns of a role.    *)
(***************************************************************************)
EXTENDS Supervisor, FiniteSetTheorems, SequenceTheorems, TLAPS

States == {"none", "spawned", "live", "stopping", "exited"}

\* What the supervisor's variables range over, apart from the budgets.
LoopType ==
  /\ loop \in {"start", "monitor", "restart", "drain", "done"}
  /\ at \in 0..2
  /\ after \in {"exit", "retry", "regroup"}
  /\ child \in [Roles -> States]
  /\ listening \in [Roles -> Addresses \cup {Null}]
  /\ original \in [Roles -> Addresses \cup {AnyPort}]
  /\ active \in [Roles -> Addresses \cup {AnyPort}]
  /\ store_address \in Addresses \cup {Null}
  /\ published \in Addresses \cup {Null}

\* Where the loop is bounds what its children can be doing.
LoopInv ==
  /\ at = 0 => loop \in {"drain", "done"}
  /\ child["stored"] = "spawned" => loop \in {"start", "restart"} /\ at = 1
  /\ child["gatewayd"] = "spawned" => loop \in {"start", "restart"} /\ at = 2
  /\ child["stored"] = "stopping" => loop = "drain" /\ at = 1
  /\ child["gatewayd"] = "stopping" => loop = "drain" /\ at = 2
  /\ loop = "drain" /\ at < 2 => child["gatewayd"] = "none"
  /\ loop = "drain" /\ at < 1 => child["stored"] = "none"
  /\ loop = "start" /\ at = 1 => child["gatewayd"] = "none"
  /\ loop = "done" => \A r \in Roles : child[r] = "none"
  /\ \A r \in Roles : child[r] # "none" => listening[r] \in Addresses

\* The address of stored is fixed within a group, the gateway's for good.
AddressInv ==
  /\ original["stored"] = AnyPort
  /\ store_address # Null =>
       active["stored"] = store_address /\ listening["stored"] = store_address
  /\ child["gatewayd"] # "none" => store_address # Null
  /\ loop = "start" /\ at = 2 => store_address # Null
  /\ loop \in {"monitor", "restart"} => store_address # Null
  /\ published # Null =>
       /\ original["gatewayd"] = published
       /\ active["gatewayd"] = published
       /\ listening["gatewayd"] = published

GroupInv == LoopType /\ LoopInv /\ AddressInv

USE DEF Roles

\* The role that the loop is at.
LEMMA RoleOfIndex ==
  /\ at = 1 => role = "stored"
  /\ at = 2 => role = "gatewayd"
  /\ Len(child_specs) = 2
BY DEF role, child_specs

\* The invariant of the group holds at first, and every step keeps it.
LEMMA GroupInit == Init => GroupInv
BY SupervisorConstants DEF Init, GroupInv, LoopType, LoopInv, AddressInv, States

LEMMA GroupSpawn == ASSUME GroupInv, Spawn PROVE GroupInv'
<1> USE DEF GroupInv
<1>1. at \in {1, 2}
  BY DEF Spawn, LoopType, LoopInv
<1>2. PICK address \in Addresses :
        /\ active[role] \in {AnyPort, address}
        /\ listening' = [listening EXCEPT ![role] = address]
  BY DEF Spawn
<1>3. /\ child[role] = "none" /\ child' = [child EXCEPT ![role] = "spawned"]
      /\ loop \in {"start", "restart"}
      /\ UNCHANGED <<loop, at, after, specs, published>>
  BY DEF Spawn
<1>4. LoopType'
  BY <1>1, <1>2, <1>3, RoleOfIndex DEF LoopType, States, specs
<1>5. LoopInv'
  BY <1>1, <1>2, <1>3, RoleOfIndex DEF LoopType, LoopInv, States, specs
<1>6. AddressInv'
  BY <1>1, <1>2, <1>3, RoleOfIndex, SupervisorConstants
     DEF LoopType, LoopInv, AddressInv, States, specs
<1>7. QED
  BY <1>4, <1>5, <1>6

LEMMA GroupStarted == ASSUME GroupInv, Started PROVE GroupInv'
<1> USE DEF GroupInv
<1>1. at \in {1, 2}
  BY DEF Started, LoopType, LoopInv
<1>2. listening[role] \in Addresses
  BY <1>1, RoleOfIndex DEF Started, LoopInv
<1>3. CASE at = 1
  <2>1. role = "stored" /\ at' = 2 /\ loop' = "start" /\ published' = published
    BY <1>3, RoleOfIndex DEF Started
  <2>2. QED
    BY <1>2, <1>3, <2>1, SupervisorConstants
       DEF Started, stabilize_ready_child, LoopType, LoopInv, AddressInv, States
<1>4. CASE at = 2
  <2>1. /\ role = "gatewayd" /\ at' = 1 /\ loop' = "monitor"
        /\ published' = IF published = Null THEN listening[role] ELSE published
    BY <1>4, RoleOfIndex DEF Started
  <2>2. QED
    BY <1>2, <1>4, <2>1 DEF Started, stabilize_ready_child, LoopType, LoopInv, AddressInv, States
<1>5. QED
  BY <1>1, <1>3, <1>4

LEMMA GroupRestarted == ASSUME GroupInv, Restarted PROVE GroupInv'
<1>1. at \in {1, 2} /\ at' \in {1, 2}
  BY RoleOfIndex DEF Restarted, GroupInv, LoopType, LoopInv
<1>2. QED
  BY <1>1, RoleOfIndex DEF Restarted, GroupInv, LoopType, LoopInv, AddressInv, States, specs

\* A drain that begins leaves everything to the steps that follow.
LEMMA GroupDrain ==
  ASSUME GroupInv, NEW next \in {"exit", "retry", "regroup"}, Drain(next),
         child' \in [Roles -> States],
         \A r \in Roles : child'[r] \in {child[r], "none"} /\ child'[r] \notin {"spawned", "stopping"},
         UNCHANGED <<listening, specs, published>>
  PROVE  GroupInv'
BY RoleOfIndex DEF Drain, GroupInv, LoopType, LoopInv, AddressInv, specs, child_specs

LEMMA GroupNotReady == ASSUME GroupInv, NotReady PROVE GroupInv'
<1>1. at \in {1, 2}
  BY DEF NotReady, GroupInv, LoopType, LoopInv
<1>2. /\ child' = [child EXCEPT ![role] = "none"]
      /\ loop \in {"start", "restart"}
      /\ UNCHANGED <<listening, specs, published>>
  BY DEF NotReady
<1>3. child' \in [Roles -> States]
  BY <1>2 DEF GroupInv, LoopType, States
<1>4. \A r \in Roles : child'[r] \in {child[r], "none"} /\ child'[r] \notin {"spawned", "stopping"}
  BY <1>1, <1>2, RoleOfIndex DEF GroupInv, LoopType, LoopInv
<1>5. CASE UNCHANGED <<loop, at, after>>
  BY <1>1, <1>2, <1>3, <1>4, <1>5, RoleOfIndex
     DEF GroupInv, LoopType, LoopInv, AddressInv, specs
<1>6. CASE Drain(IF loop = "start" THEN "retry" ELSE "regroup")
  BY <1>2, <1>3, <1>4, <1>6, GroupDrain
<1>7. QED
  BY <1>5, <1>6 DEF NotReady

LEMMA GroupPoll == ASSUME GroupInv, Poll PROVE GroupInv'
<1>1. at \in {1, 2} /\ (at % Len(child_specs)) + 1 \in {1, 2}
  BY RoleOfIndex DEF Poll, GroupInv, LoopType, LoopInv
<1>2. UNCHANGED <<listening, specs, published>> /\ loop = "monitor"
  BY DEF Poll
<1>3. ASSUME at' = (at % Len(child_specs)) + 1, UNCHANGED <<loop, after, child>>
      PROVE  GroupInv'
  BY <1>1, <1>2, <1>3 DEF GroupInv, LoopType, LoopInv, AddressInv, specs
<1>4. ASSUME child' = [child EXCEPT ![role] = "none"], loop' = "restart",
             UNCHANGED <<at, after>>
      PROVE  GroupInv'
  BY <1>1, <1>2, <1>4, RoleOfIndex DEF GroupInv, LoopType, LoopInv, AddressInv, specs, States
<1>5. ASSUME child' = [child EXCEPT ![role] = "none"], Drain("regroup")
      PROVE  GroupInv'
  <2>1. child' \in [Roles -> States]
    BY <1>5 DEF GroupInv, LoopType, States
  <2>2. \A r \in Roles : child'[r] \in {child[r], "none"} /\ child'[r] \notin {"spawned", "stopping"}
    BY <1>1, <1>2, <1>5, RoleOfIndex DEF GroupInv, LoopType, LoopInv
  <2>3. QED
    BY <1>2, <1>5, <2>1, <2>2, GroupDrain
<1>6. QED
  BY <1>3, <1>4, <1>5 DEF Poll

LEMMA GroupObservationFailed == ASSUME GroupInv, ObservationFailed PROVE GroupInv'
<1>1. Drain("regroup") /\ UNCHANGED <<child, listening, specs, published>> /\ loop = "monitor"
  BY DEF ObservationFailed
<1>2. \A r \in Roles : child'[r] \in {child[r], "none"} /\ child'[r] \notin {"spawned", "stopping"}
  BY <1>1 DEF GroupInv, LoopType, LoopInv
<1>3. QED
  BY <1>1, <1>2, GroupDrain DEF GroupInv, LoopType

LEMMA GroupStop ==
  ASSUME GroupInv, CloseInput \/ Stopped
  PROVE  GroupInv'
<1>1. at \in {1, 2}
  BY DEF CloseInput, Stopped, GroupInv, LoopType
<1>2. QED
  BY <1>1, RoleOfIndex
     DEF CloseInput, Stopped, GroupInv, LoopType, LoopInv, AddressInv, specs, States

LEMMA GroupDrained == ASSUME GroupInv, Drained PROVE GroupInv'
BY SupervisorConstants
   DEF Drained, Generation, GroupInv, LoopType, LoopInv, AddressInv, specs, States

LEMMA GroupTakeShutdown == ASSUME GroupInv, TakeShutdown PROVE GroupInv'
<1>1. UNCHANGED <<listening, specs, published>>
  BY DEF TakeShutdown
<1>2. ASSUME loop' = "done", child' = [r \in Roles |-> "none"], UNCHANGED <<at, after>>
      PROVE  GroupInv'
  BY <1>1, <1>2 DEF GroupInv, LoopType, LoopInv, AddressInv, specs, States
<1>3. ASSUME loop \in {"monitor", "restart"}, Drain("exit"),
             child' = [r \in Roles |-> IF child[r] = "spawned" THEN "none" ELSE child[r]]
      PROVE  GroupInv'
  <2>1. child' \in [Roles -> States]
    BY <1>3 DEF GroupInv, LoopType, States
  <2>2. \A r \in Roles : child'[r] \in {child[r], "none"} /\ child'[r] \notin {"spawned", "stopping"}
    BY <1>3 DEF GroupInv, LoopType, LoopInv
  <2>3. QED
    BY <1>1, <1>3, <2>1, <2>2, GroupDrain
<1>4. QED
  BY <1>2, <1>3 DEF TakeShutdown

LEMMA GroupEnvironment ==
  ASSUME GroupInv,
         wait_for_shutdown \/ Tick \/ (\E r \in Roles : Exit(r)) \/ UNCHANGED vars
  PROVE  GroupInv'
<1>1. ASSUME NEW r \in Roles, Exit(r) PROVE GroupInv'
  BY <1>1 DEF Exit, GroupInv, LoopType, LoopInv, AddressInv, specs, States
<1>2. ASSUME UNCHANGED <<loop, at, after, child, listening, specs, published>>
      PROVE  GroupInv'
  BY <1>2 DEF GroupInv, LoopType, LoopInv, AddressInv, specs
<1>3. QED
  BY <1>1, <1>2 DEF wait_for_shutdown, Tick, vars

\* The inductive invariant of the loop and of the addresses.
LEMMA GroupInvariant == Spec => []GroupInv
<1>1. GroupInv /\ [Next]_vars => GroupInv'
  BY GroupSpawn, GroupStarted, GroupRestarted, GroupNotReady, GroupPoll,
     GroupObservationFailed, GroupStop, GroupDrained, GroupTakeShutdown,
     GroupEnvironment DEF Next
<1>2. QED
  BY GroupInit, <1>1, PTL DEF Spec

\* ---------------------------------------------------------------------------
\* The restart budget.

\* Counted from the latest, a failure is no older than the spawn before the
\* spawn of the same rank: every spawn but the first of the window follows a
\* failure that is still in the budget.
Matched(F, S) ==
  /\ Len(S) <= Len(F) + 1
  /\ \A i \in 1..Len(F), j \in 1..Len(S) :
       Len(F) - i + 1 = Len(S) - j => F[i] <= S[j]

\* The failure that the next spawn follows is in the budget already.
Covered(F, S) ==
  /\ Len(S) <= Len(F)
  /\ \A i \in 1..Len(F), j \in 1..Len(S) : Len(F) - i = Len(S) - j => F[i] <= S[j]

\* A role's failures and spawns, by age, the latest last.
Ages(F, S) ==
  /\ F \in Seq(Nat) /\ Len(F) <= MAX_RESTARTS
  /\ S \in Seq(Nat)
  /\ \A i \in 1..Len(S) : S[i] < MAX_RESTART_TIME
  /\ \A i, j \in 1..Len(S) : i <= j => S[j] <= S[i]
  /\ Matched(F, S)

BudgetInv ==
  /\ failures \in [Roles -> Seq(Nat)]
  /\ spawned \in [Roles -> Seq(Nat)]
  /\ \A r \in Roles : Ages(failures[r], spawned[r])
  /\ (loop \in {"start", "restart"} /\ child[role] = "none") =>
       Covered(failures[role], spawned[role])
  /\ (loop = "start" /\ at = 1) => spawned["gatewayd"] = <<>>

\* A set of positions that holds all smaller ones is an interval.
LEMMA PrefixByCardinality ==
  ASSUME NEW L \in Nat, NEW D \in SUBSET (1..L), \A i \in D : 1..i \subseteq D
  PROVE  Cardinality(D) \in 0..L /\ D = 1..Cardinality(D)
<1>1. IsFiniteSet(1..L) /\ Cardinality(1..L) = L
  BY FS_Interval
<1>2. IsFiniteSet(D) /\ Cardinality(D) <= L
  BY <1>1, FS_Subset
<1>3. Cardinality(D) \in Nat
  BY <1>2, FS_CardinalityType
<1>4. ASSUME NEW i \in D PROVE i \in 1..Cardinality(D)
  <2>1. i \in Nat \ {0}
    OBVIOUS
  <2>2. Cardinality(1..i) = i
    BY <2>1, FS_Interval
  <2>3. Cardinality(1..i) <= Cardinality(D)
    BY <1>2, FS_Subset
  <2>4. QED
    BY <1>3, <2>1, <2>2, <2>3
<1>5. IsFiniteSet(1..Cardinality(D)) /\ Cardinality(1..Cardinality(D)) = Cardinality(D)
  BY <1>3, FS_Interval
<1>6. D \in SUBSET (1..Cardinality(D))
  BY <1>4
<1>7. D = 1..Cardinality(D)
  BY <1>5, <1>6, FS_Subset
<1>8. QED
  BY <1>2, <1>3, <1>7

\* Eviction drops a prefix whose entries are all outside the window.
LEMMA RecentIsSuffix ==
  ASSUME NEW ages \in Seq(Nat)
  PROVE  /\ Recent(ages) \in Seq(Nat)
         /\ \E n \in 0..Len(ages) :
              /\ Len(Recent(ages)) = Len(ages) - n
              /\ \A i \in 1..(Len(ages) - n) : Recent(ages)[i] = ages[n + i]
              /\ \A i \in 1..n : ages[i] >= MAX_RESTART_TIME
              /\ n < Len(ages) => ages[n + 1] < MAX_RESTART_TIME
<1> DEFINE L == Len(ages)
           n == Cardinality(Stale(ages))
<1>1. L \in Nat /\ DOMAIN ages = 1..L /\ \A i \in 1..L : ages[i] \in Nat
  BY LenProperties
<1>2. Stale(ages) \in SUBSET (1..L) /\ \A i \in Stale(ages) : 1..i \subseteq Stale(ages)
  BY <1>1 DEF Stale
<1>3. n \in 0..L /\ Stale(ages) = 1..n
  BY <1>1, <1>2, PrefixByCardinality
<1>4. \A i \in 1..n : ages[i] >= MAX_RESTART_TIME
  BY <1>3 DEF Stale
<1>5. n < L => ages[n + 1] < MAX_RESTART_TIME
  <2> SUFFICES ASSUME n < L, ages[n + 1] >= MAX_RESTART_TIME PROVE FALSE
    BY <1>1, <1>3, SupervisorConstants
  <2>1. \A j \in 1..(n + 1) : ages[j] >= MAX_RESTART_TIME
    BY <1>1, <1>3, <1>4
  <2>2. n + 1 \in Stale(ages)
    <3>1. n + 1 \in DOMAIN ages
      BY <1>1, <1>3
    <3>2. QED
      BY <2>1, <3>1 DEF Stale
  <2>3. QED
    BY <1>3, <2>2
<1> HIDE DEF n, L
<1>6. n + 1 \in Int /\ L \in Int /\ \A i \in (n + 1)..L : ages[i] \in Nat
  BY <1>1, <1>3
<1>7. /\ Recent(ages) \in Seq(Nat)
      /\ Len(Recent(ages)) = IF n + 1 <= L THEN L - (n + 1) + 1 ELSE 0
      /\ \A i \in 1..(L - (n + 1) + 1) : Recent(ages)[i] = ages[(n + 1) + i - 1]
  <2>1. Recent(ages) = SubSeq(ages, n + 1, L)
    BY DEF Recent, n, L
  <2>2. QED
    BY <1>6, <2>1, SubSeqProperties
<1>8. Len(Recent(ages)) = L - n /\ \A i \in 1..(L - n) : Recent(ages)[i] = ages[n + i]
  BY <1>1, <1>3, <1>7
<1>9. QED
  BY <1>3, <1>4, <1>5, <1>7, <1>8 DEF L

\* What the budget knows after a failure: the match survives the eviction, and
\* a failure that is admitted covers the next spawn.
LEMMA RecordFailure ==
  ASSUME NEW F, NEW S, Ages(F, S)
  PROVE  /\ Ages(record_failure(F).failures, S)
         /\ record_failure(F).admitted => Covered(record_failure(F).failures, S)
<1> DEFINE K == Recent(F)
<1>1. /\ F \in Seq(Nat) /\ Len(F) \in Nat /\ Len(F) <= MAX_RESTARTS
      /\ S \in Seq(Nat) /\ Len(S) \in Nat
      /\ \A i \in 1..Len(F) : F[i] \in Nat
      /\ \A i \in 1..Len(S) : S[i] \in Nat
  BY LenProperties DEF Ages
<1>2. PICK n \in 0..Len(F) :
        /\ Len(K) = Len(F) - n
        /\ \A i \in 1..(Len(F) - n) : K[i] = F[n + i]
        /\ \A i \in 1..n : F[i] >= MAX_RESTART_TIME
  BY <1>1, RecentIsSuffix
<1>3. K \in Seq(Nat) /\ Len(K) \in Nat /\ Len(K) <= MAX_RESTARTS
  BY <1>1, <1>2, RecentIsSuffix, SupervisorConstants
<1> HIDE DEF K
<1>4. n + Len(S) <= Len(F) + 1
  <2> SUFFICES ASSUME n + Len(S) > Len(F) + 1 PROVE FALSE
    BY <1>1
  <2> DEFINE j == Len(S) - (Len(F) - n + 1)
  <2>1. n \in 1..Len(F) /\ j \in 1..Len(S) /\ Len(F) - n + 1 = Len(S) - j
    BY <1>1 DEF Ages, Matched
  <2> HIDE DEF j
  <2>2. F[n] <= S[j] /\ S[j] < MAX_RESTART_TIME
    BY <2>1 DEF Ages, Matched
  <2>3. F[n] >= MAX_RESTART_TIME
    BY <1>2, <2>1
  <2>4. F[n] \in Nat /\ S[j] \in Nat
    BY <1>1, <2>1
  <2>5. QED
    BY <2>2, <2>3, <2>4, SupervisorConstants
<1>5. Len(S) <= Len(K) + 1
  BY <1>1, <1>2, <1>4
<1>6. ASSUME NEW i \in 1..Len(K), NEW j \in 1..Len(S), Len(K) - i + 1 = Len(S) - j
      PROVE  K[i] <= S[j]
  <2>1. n + i \in 1..Len(F) /\ Len(F) - (n + i) + 1 = Len(S) - j
    BY <1>1, <1>2, <1>6
  <2>2. F[n + i] <= S[j]
    BY <2>1 DEF Ages, Matched
  <2>3. QED
    BY <1>1, <1>2, <2>2
<1>7. Ages(K, S)
  <2>1. Matched(K, S)
    BY <1>5, <1>6 DEF Matched
  <2>2. QED
    BY <1>3, <2>1 DEF Ages
<1>8. ASSUME Len(K) < MAX_RESTARTS
      PROVE  Ages(Append(K, 0), S) /\ Covered(Append(K, 0), S)
  <2> DEFINE A == Append(K, 0)
  <2>1. /\ A \in Seq(Nat) /\ Len(A) = Len(K) + 1
        /\ \A i \in 1..Len(K) : A[i] = K[i]
        /\ A[Len(K) + 1] = 0
    BY <1>3, AppendProperties
  <2> HIDE DEF A
  <2>2. \A i \in 1..Len(A) : A[i] \in Nat
    BY <2>1, LenProperties
  <2>3. ASSUME NEW i \in 1..Len(A), NEW j \in 1..Len(S), Len(A) - i = Len(S) - j
        PROVE  A[i] <= S[j]
    <3>1. CASE i = Len(A)
      BY <1>1, <1>3, <2>1, <3>1
    <3>2. CASE i # Len(A)
      <4>1. i \in 1..Len(K) /\ Len(K) - i + 1 = Len(S) - j
        BY <1>3, <2>1, <2>3, <3>2
      <4>2. QED
        BY <1>6, <2>1, <4>1
    <3>3. QED
      BY <3>1, <3>2
  <2>4. Covered(A, S)
    BY <1>5, <2>1, <2>3 DEF Covered
  <2>5. ASSUME NEW i \in 1..Len(A), NEW j \in 1..Len(S), Len(A) - i + 1 = Len(S) - j
        PROVE  A[i] <= S[j]
    <3>1. j + 1 \in 1..Len(S) /\ Len(A) - i = Len(S) - (j + 1)
      BY <1>1, <1>3, <2>1, <2>5
    <3>2. A[i] <= S[j + 1]
      BY <2>3, <3>1
    <3>3. S[j + 1] <= S[j]
      BY <3>1 DEF Ages
    <3>4. A[i] \in Nat /\ S[j] \in Nat /\ S[j + 1] \in Nat
      BY <1>1, <2>2, <3>1
    <3>5. QED
      BY <3>2, <3>3, <3>4
  <2>6. Matched(A, S)
    BY <1>1, <1>3, <1>5, <2>1, <2>5 DEF Matched
  <2>7. Len(A) <= MAX_RESTARTS
    BY <1>3, <1>8, <2>1, SupervisorConstants
  <2>8. QED
    BY <1>7, <2>1, <2>4, <2>6, <2>7 DEF Ages, A
<1>9. QED
  BY <1>3, <1>7, <1>8 DEF record_failure, K

\* A spawn that its failure covers.
LEMMA SpawnAges ==
  ASSUME NEW F, NEW S, Ages(F, S), Covered(F, S)
  PROVE  Ages(F, Append(S, 0))
<1> DEFINE A == Append(S, 0)
<1>1. /\ F \in Seq(Nat) /\ Len(F) \in Nat
      /\ S \in Seq(Nat) /\ Len(S) \in Nat
      /\ \A i \in 1..Len(F) : F[i] \in Nat
      /\ \A i \in 1..Len(S) : S[i] \in Nat
  BY LenProperties DEF Ages
<1>2. /\ A \in Seq(Nat) /\ Len(A) = Len(S) + 1
      /\ \A i \in 1..Len(S) : A[i] = S[i]
      /\ A[Len(S) + 1] = 0
  BY <1>1, AppendProperties
<1> HIDE DEF A
<1>3. ASSUME NEW i \in 1..Len(A) PROVE A[i] < MAX_RESTART_TIME
  <2>1. CASE i = Len(S) + 1
    BY <1>2, <2>1, SupervisorConstants
  <2>2. CASE i # Len(S) + 1
    <3>1. i \in 1..Len(S)
      BY <1>1, <1>2, <2>2
    <3>2. QED
      BY <1>2, <3>1 DEF Ages
  <2>3. QED
    BY <2>1, <2>2
<1>4. ASSUME NEW i \in 1..Len(A), NEW j \in 1..Len(A), i <= j PROVE A[j] <= A[i]
  <2>1. CASE j = Len(S) + 1
    <3>1. A[j] = 0 /\ A[i] \in Nat
      BY <1>2, <2>1, LenProperties
    <3>2. QED
      BY <3>1
  <2>2. CASE j # Len(S) + 1
    <3>1. i \in 1..Len(S) /\ j \in 1..Len(S)
      BY <1>1, <1>2, <1>4, <2>2
    <3>2. QED
      BY <1>2, <1>4, <3>1 DEF Ages
  <2>3. QED
    BY <2>1, <2>2
<1>5. ASSUME NEW i \in 1..Len(F), NEW j \in 1..Len(A), Len(F) - i + 1 = Len(A) - j
      PROVE  F[i] <= A[j]
  <2> DEFINE f == Len(F)
             s == Len(S)
  <2>1. f \in Nat /\ s \in Nat /\ i \in 1..f /\ j \in 1..(s + 1) /\ f - i + 1 = (s + 1) - j
    BY <1>1, <1>2, <1>5
  <2> HIDE DEF f, s
  <2>2. j \in 1..s /\ f - i = s - j
    BY <2>1
  <2>3. QED
    BY <1>2, <2>2 DEF Covered, f, s
<1>6. Matched(F, A)
  BY <1>1, <1>2, <1>5 DEF Covered, Matched
<1>7. QED
  BY <1>2, <1>3, <1>4, <1>6 DEF Ages, A

\* Time makes every age older,
LEMMA OlderAges ==
  ASSUME NEW ages \in Seq(Nat)
  PROVE  /\ Older(ages, MAX_RESTART_TIME) \in Seq(Nat)
         /\ Len(Older(ages, MAX_RESTART_TIME)) = Len(ages)
         /\ \A i \in 1..Len(ages) :
              Older(ages, MAX_RESTART_TIME)[i] =
                IF ages[i] < MAX_RESTART_TIME THEN ages[i] + 1 ELSE MAX_RESTART_TIME
<1>1. Len(ages) \in Nat /\ DOMAIN ages = 1..Len(ages) /\ \A i \in 1..Len(ages) : ages[i] \in Nat
  BY LenProperties
<1>2. Older(ages, MAX_RESTART_TIME) \in [1..Len(ages) -> Nat]
  BY <1>1, SupervisorConstants DEF Older
<1>3. Older(ages, MAX_RESTART_TIME) \in Seq(Nat)
  BY <1>1, <1>2
<1>4. QED
  BY <1>1, <1>2, <1>3, LenProperties DEF Older

\* and drops the spawns that left the window.
LEMMA TickAges ==
  ASSUME NEW F, NEW S, Ages(F, S)
  PROVE  LET G == Older(F, MAX_RESTART_TIME)
             T == Recent(Older(S, MAX_RESTART_TIME))
         IN  /\ Ages(G, T)
             /\ Covered(F, S) => Covered(G, T)
             /\ S = <<>> => T = <<>>
<1> DEFINE M == MAX_RESTART_TIME
           G == Older(F, M)
           O == Older(S, M)
           T == Recent(O)
<1>1. /\ F \in Seq(Nat) /\ Len(F) \in Nat /\ Len(F) <= MAX_RESTARTS
      /\ S \in Seq(Nat) /\ Len(S) \in Nat
      /\ \A i \in 1..Len(F) : F[i] \in Nat
      /\ \A i \in 1..Len(S) : S[i] \in Nat /\ S[i] < M
      /\ \A i, j \in 1..Len(S) : i <= j => S[j] <= S[i]
      /\ M \in Nat
  BY LenProperties, SupervisorConstants DEF Ages
<1>2. /\ G \in Seq(Nat) /\ Len(G) = Len(F)
      /\ \A i \in 1..Len(F) : G[i] = IF F[i] < M THEN F[i] + 1 ELSE M
  BY <1>1, OlderAges
<1>3. /\ O \in Seq(Nat) /\ Len(O) = Len(S)
      /\ \A i \in 1..Len(S) : O[i] = S[i] + 1
  BY <1>1, OlderAges
<1>4. PICK n \in 0..Len(O) :
        /\ Len(T) = Len(O) - n
        /\ \A i \in 1..(Len(O) - n) : T[i] = O[n + i]
        /\ n < Len(O) => O[n + 1] < M
  BY <1>3, RecentIsSuffix
<1>5. T \in Seq(Nat) /\ Len(T) \in Nat
  BY <1>3, RecentIsSuffix, LenProperties
<1> HIDE DEF G, O, T, M
<1>6. \A i \in 1..Len(T) : n + i \in 1..Len(S) /\ T[i] = S[n + i] + 1
  BY <1>1, <1>3, <1>4
<1>7. ASSUME NEW i \in 1..Len(T), NEW j \in 1..Len(T), i <= j PROVE T[j] <= T[i]
  <2>1. n + i <= n + j
    BY <1>7, <1>5
  <2>2. S[n + j] <= S[n + i]
    BY <1>1, <1>6, <2>1
  <2>3. T[i] = S[n + i] + 1 /\ T[j] = S[n + j] + 1
    BY <1>6
  <2>4. S[n + i] \in Nat /\ S[n + j] \in Nat
    BY <1>1, <1>6
  <2>5. QED
    BY <2>2, <2>3, <2>4
<1>8. ASSUME NEW i \in 1..Len(T) PROVE T[i] < M
  <2>1. 1 \in 1..Len(T) /\ T[i] <= T[1]
    BY <1>5, <1>7
  <2> DEFINE l == Len(O)
  <2>2. l \in Nat /\ Len(T) = l - n
    BY <1>1, <1>3, <1>4
  <2>3. n < l /\ 1 \in 1..(l - n)
    BY <1>5, <2>1, <2>2
  <2>4. T[1] < M
    BY <1>4, <2>3
  <2>5. T[1] \in Nat /\ T[i] \in Nat
    BY <1>5, <2>1, LenProperties
  <2>6. QED
    BY <1>1, <2>1, <2>4, <2>5
\* Ageing keeps the order between a failure and a spawn.
<1>9. ASSUME NEW i \in 1..Len(G), NEW j \in 1..Len(T), F[i] <= S[n + j] PROVE G[i] <= T[j]
  <2>1. /\ i \in 1..Len(F) /\ n + j \in 1..Len(S)
        /\ T[j] = S[n + j] + 1
        /\ G[i] = IF F[i] < M THEN F[i] + 1 ELSE M
    BY <1>2, <1>6
  <2>2. F[i] \in Nat /\ S[n + j] \in Nat /\ S[n + j] < M
    BY <1>1, <2>1
  <2>3. M \in Nat
    BY <1>1
  <2>4. F[i] < M
    BY <1>9, <2>2, <2>3
  <2>5. G[i] = F[i] + 1
    BY <2>1, <2>4
  <2>6. QED
    BY <1>9, <2>1, <2>2, <2>5
<1>10. ASSUME NEW i \in 1..Len(G), NEW j \in 1..Len(T), Len(G) - i + 1 = Len(T) - j
       PROVE  G[i] <= T[j]
  <2>1. i \in 1..Len(F) /\ n + j \in 1..Len(S) /\ Len(F) - i + 1 = Len(S) - (n + j)
    BY <1>1, <1>2, <1>3, <1>4, <1>6, <1>10
  <2>2. F[i] <= S[n + j]
    BY <2>1 DEF Ages, Matched
  <2>3. QED
    BY <1>9, <2>2
<1>11. Matched(G, T)
  <2>1. Len(S) <= Len(F) + 1
    BY DEF Ages, Matched
  <2>2. Len(T) <= Len(G) + 1
    BY <1>1, <1>2, <1>3, <1>4, <2>1
  <2>3. QED
    BY <1>10, <2>2 DEF Matched
<1>12. Ages(G, T)
  BY <1>1, <1>2, <1>5, <1>7, <1>8, <1>11 DEF Ages, M
<1>13. ASSUME Covered(F, S) PROVE Covered(G, T)
  <2>1. Len(T) <= Len(G)
    BY <1>1, <1>2, <1>3, <1>4, <1>13 DEF Covered
  <2>2. ASSUME NEW i \in 1..Len(G), NEW j \in 1..Len(T), Len(G) - i = Len(T) - j
        PROVE  G[i] <= T[j]
    <3>1. i \in 1..Len(F) /\ n + j \in 1..Len(S) /\ Len(F) - i = Len(S) - (n + j)
      BY <1>1, <1>2, <1>3, <1>4, <1>6, <2>2
    <3>2. QED
      BY <1>9, <1>13, <3>1 DEF Covered
  <2>3. QED
    BY <2>1, <2>2 DEF Covered
<1>14. ASSUME S = <<>> PROVE T = <<>>
  BY <1>3, <1>4, <1>5, <1>14, EmptySeq
<1>15. QED
  BY <1>12, <1>13, <1>14 DEF G, O, T, M

\* At first there is neither.
LEMMA EmptyAges == Ages(<<>>, <<>>) /\ Covered(<<>>, <<>>)
BY SupervisorConstants DEF Ages, Matched, Covered

\* The invariant of the budgets holds at first, and every step keeps it.
LEMMA BudgetInit == Init => BudgetInv
<1> SUFFICES ASSUME Init PROVE BudgetInv
  OBVIOUS
<1>1. <<>> \in Seq(Nat)
  OBVIOUS
<1>2. failures \in [Roles -> Seq(Nat)] /\ spawned \in [Roles -> Seq(Nat)]
  BY <1>1 DEF Init
<1>3. \A r \in Roles : failures[r] = <<>> /\ spawned[r] = <<>>
  BY DEF Init
<1>4. role \in Roles
  BY RoleOfIndex DEF Init
<1>5. QED
  BY <1>2, <1>3, <1>4, EmptyAges DEF BudgetInv

\* The two facts about one role are all that a step has to keep: the loop's
\* next role is covered, and a group that starts has spawned no gateway.
LEMMA BudgetUnchanged ==
  ASSUME BudgetInv, UNCHANGED <<failures, spawned>>,
         (loop' \in {"start", "restart"} /\ child'[role'] = "none") =>
            Covered(failures[role'], spawned[role']),
         (loop' = "start" /\ at' = 1) => spawned["gatewayd"] = <<>>
  PROVE  BudgetInv'
BY DEF BudgetInv

LEMMA BudgetSpawn == ASSUME GroupInv, BudgetInv, Spawn PROVE BudgetInv'
<1>1. at \in {1, 2} /\ role \in Roles
  BY RoleOfIndex DEF Spawn, GroupInv, LoopType, LoopInv
<1>2. /\ loop \in {"start", "restart"} /\ child[role] = "none"
      /\ child' = [child EXCEPT ![role] = "spawned"]
      /\ spawned' = [spawned EXCEPT ![role] = Append(spawned[role], 0)]
      /\ UNCHANGED <<loop, at, failures>>
  BY DEF Spawn
<1>3. role' = role
  BY <1>2 DEF role
<1>4. Ages(failures[role], Append(spawned[role], 0))
  BY <1>1, <1>2, SpawnAges DEF BudgetInv
<1>5. Append(spawned[role], 0) \in Seq(Nat)
  BY <1>4 DEF Ages
<1>6. spawned' \in [Roles -> Seq(Nat)]
  BY <1>2, <1>5 DEF BudgetInv
<1>7. \A r \in Roles : Ages(failures'[r], spawned'[r])
  <2> SUFFICES ASSUME NEW r \in Roles PROVE Ages(failures'[r], spawned'[r])
    OBVIOUS
  <2>1. CASE r = role
    <3>1. spawned'[r] = Append(spawned[role], 0) /\ failures'[r] = failures[role]
      BY <1>1, <1>2, <2>1 DEF BudgetInv
    <3>2. QED
      BY <1>4, <3>1
  <2>2. CASE r # role
    <3>1. spawned'[r] = spawned[r] /\ failures'[r] = failures[r]
      BY <1>1, <1>2, <2>2 DEF BudgetInv
    <3>2. QED
      BY <3>1 DEF BudgetInv
  <2>3. QED
    BY <2>1, <2>2
<1>8. child'[role'] # "none"
  BY <1>1, <1>2, <1>3 DEF GroupInv, LoopType
<1>9. (loop' = "start" /\ at' = 1) => spawned'["gatewayd"] = <<>>
  BY <1>1, <1>2, RoleOfIndex DEF BudgetInv
<1>10. QED
  BY <1>2, <1>6, <1>7, <1>8, <1>9 DEF BudgetInv

LEMMA BudgetStarted == ASSUME GroupInv, BudgetInv, Started PROVE BudgetInv'
<1>1. UNCHANGED <<failures, spawned>>
  BY DEF Started
<1>2. CASE at = 1
  <2>1. at' = 2 /\ loop' = "start" /\ role' = "gatewayd"
    BY <1>2, RoleOfIndex DEF Started, role, child_specs
  <2>2. spawned["gatewayd"] = <<>> /\ loop = "start"
    BY <1>2 DEF Started, BudgetInv
  <2>3. Covered(failures["gatewayd"], <<>>)
    BY LenProperties DEF BudgetInv, Covered
  <2>4. QED
    BY <1>1, <2>1, <2>2, <2>3, BudgetUnchanged
<1>3. CASE at # 1
  <2>1. at = 2
    BY <1>3 DEF Started, GroupInv, LoopType, LoopInv
  <2>2. loop' = "monitor"
    BY <2>1, RoleOfIndex DEF Started
  <2>3. QED
    BY <1>1, <2>2, BudgetUnchanged
<1>4. QED
  BY <1>2, <1>3

\* A failure of the child that the loop works on, and what the loop does next.
LEMMA BudgetFailure ==
  ASSUME GroupInv, BudgetInv, at \in {1, 2},
         failures' = [failures EXCEPT ![role] = record_failure(failures[role]).failures],
         spawned' = spawned,
         \/ /\ record_failure(failures[role]).admitted
            /\ loop' \in {loop, "restart"}
            /\ at' = at
         \/ loop' = "drain"
  PROVE  BudgetInv'
<1>1. role \in Roles
  BY RoleOfIndex
<1> DEFINE F == record_failure(failures[role]).failures
<1>2. /\ Ages(F, spawned[role])
      /\ record_failure(failures[role]).admitted => Covered(F, spawned[role])
  BY <1>1, RecordFailure DEF BudgetInv
<1>3. F \in Seq(Nat)
  BY <1>2 DEF Ages
<1> HIDE DEF F
<1>4. failures' \in [Roles -> Seq(Nat)] /\ failures'[role] = F
  BY <1>1, <1>3 DEF BudgetInv, F
<1>5. \A r \in Roles : r # role => failures'[r] = failures[r]
  BY DEF BudgetInv
<1>6. \A r \in Roles : Ages(failures'[r], spawned'[r])
  BY <1>2, <1>4, <1>5 DEF BudgetInv
<1>7. CASE loop' = "drain"
  BY <1>4, <1>6, <1>7 DEF BudgetInv
<1>8. CASE /\ record_failure(failures[role]).admitted
           /\ loop' \in {loop, "restart"}
           /\ at' = at
  <2>1. role' = role
    BY <1>8 DEF role
  <2>2. Covered(failures'[role'], spawned'[role'])
    BY <1>2, <1>4, <1>8, <2>1
  <2>3. (loop' = "start" /\ at' = 1) => spawned'["gatewayd"] = <<>>
    BY <1>8 DEF BudgetInv
  <2>4. QED
    BY <1>4, <1>6, <2>2, <2>3 DEF BudgetInv
<1>9. QED
  BY <1>7, <1>8

LEMMA BudgetNotReady == ASSUME GroupInv, BudgetInv, NotReady PROVE BudgetInv'
<1>1. at \in {1, 2}
  BY DEF NotReady, GroupInv, LoopType, LoopInv
<1>2. QED
  BY <1>1, BudgetFailure DEF NotReady, Drain

LEMMA BudgetPoll == ASSUME GroupInv, BudgetInv, Poll PROVE BudgetInv'
<1>1. at \in {1, 2}
  BY DEF Poll, GroupInv, LoopType, LoopInv
<1>2. CASE UNCHANGED <<loop, failures>>
  BY <1>2, BudgetUnchanged DEF Poll
<1>3. CASE child[role] = "exited"
  BY <1>1, <1>3, BudgetFailure DEF Poll, Drain
<1>4. QED
  BY <1>2, <1>3 DEF Poll

LEMMA BudgetDrained == ASSUME GroupInv, BudgetInv, Drained PROVE BudgetInv'
<1>1. CASE loop' = "done" /\ UNCHANGED <<failures, spawned>>
  BY <1>1, BudgetUnchanged
<1>2. CASE Generation
  <2>1. <<>> \in Seq(Nat)
    OBVIOUS
  <2>2. failures' \in [Roles -> Seq(Nat)] /\ spawned' \in [Roles -> Seq(Nat)]
    BY <1>2, <2>1 DEF Generation
  <2>3. \A r \in Roles : failures'[r] = <<>> /\ spawned'[r] = <<>>
    BY <1>2 DEF Generation
  <2>4. role' = "stored"
    BY <1>2 DEF Generation, role, child_specs
  <2>5. QED
    BY <2>2, <2>3, <2>4, EmptyAges DEF BudgetInv
<1>3. QED
  BY <1>1, <1>2 DEF Drained

LEMMA BudgetTick == ASSUME GroupInv, BudgetInv, Tick PROVE BudgetInv'
<1>1. /\ failures' = [r \in Roles |-> Older(failures[r], MAX_RESTART_TIME)]
      /\ spawned' = [r \in Roles |-> Recent(Older(spawned[r], MAX_RESTART_TIME))]
      /\ UNCHANGED <<loop, at, child>>
  BY DEF Tick
<1>2. role' = role
  BY <1>1 DEF role
<1>3. ASSUME NEW r \in Roles
      PROVE  /\ Ages(failures'[r], spawned'[r])
             /\ Covered(failures[r], spawned[r]) => Covered(failures'[r], spawned'[r])
             /\ spawned[r] = <<>> => spawned'[r] = <<>>
  <2>1. Ages(failures[r], spawned[r])
    BY DEF BudgetInv
  <2>2. QED
    BY <1>1, <2>1, TickAges
<1>4. failures' \in [Roles -> Seq(Nat)] /\ spawned' \in [Roles -> Seq(Nat)]
  <2>1. \A r \in Roles : failures'[r] \in Seq(Nat) /\ spawned'[r] \in Seq(Nat)
    BY <1>3 DEF Ages
  <2>2. QED
    BY <1>1, <2>1
<1>5. (loop' \in {"start", "restart"} /\ child'[role'] = "none") =>
        Covered(failures'[role'], spawned'[role'])
  <2>1. loop \in {"start", "restart"} => role \in Roles
    BY RoleOfIndex DEF GroupInv, LoopType, LoopInv
  <2>2. QED
    BY <1>1, <1>2, <1>3, <2>1 DEF BudgetInv
<1>6. QED
  BY <1>1, <1>3, <1>4, <1>5 DEF BudgetInv

\* The steps that leave the budgets alone and start nothing.
LEMMA BudgetOther ==
  ASSUME GroupInv, BudgetInv,
         \/ Restarted \/ ObservationFailed \/ CloseInput \/ Stopped \/ TakeShutdown
         \/ wait_for_shutdown \/ (\E r \in Roles : Exit(r)) \/ UNCHANGED vars
  PROVE  BudgetInv'
<1>1. UNCHANGED <<failures, spawned>>
  BY DEF Restarted, ObservationFailed, CloseInput, Stopped, TakeShutdown,
         wait_for_shutdown, Exit, vars
<1>2. CASE loop' \in {"monitor", "drain", "done"}
  BY <1>1, <1>2, BudgetUnchanged
<1>3. CASE wait_for_shutdown \/ UNCHANGED vars
  <2>1. UNCHANGED <<loop, at, child>>
    BY <1>3 DEF wait_for_shutdown, vars
  <2>2. role' = role
    BY <2>1 DEF role
  <2>3. QED
    BY <1>1, <2>1, <2>2, BudgetUnchanged DEF BudgetInv
<1>4. ASSUME NEW r \in Roles, Exit(r) PROVE BudgetInv'
  <2>1. UNCHANGED <<loop, at>> /\ child' = [child EXCEPT ![r] = "exited"]
    BY <1>4 DEF Exit
  <2>2. role' = role
    BY <2>1 DEF role
  <2>3. loop \in {"start", "restart"} => role \in Roles
    BY RoleOfIndex DEF GroupInv, LoopType, LoopInv
  <2>4. (loop' \in {"start", "restart"} /\ child'[role'] = "none") => child[role] = "none"
    BY <2>1, <2>2, <2>3 DEF GroupInv, LoopType
  <2>5. QED
    BY <1>1, <2>1, <2>2, <2>4, BudgetUnchanged DEF BudgetInv
<1>5. QED
  <2>1. Restarted \/ ObservationFailed \/ CloseInput \/ Stopped \/ TakeShutdown =>
          loop' \in {"monitor", "drain", "done"}
    BY DEF Restarted, ObservationFailed, CloseInput, Stopped, TakeShutdown, Drain
  <2>2. QED
    BY <1>2, <1>3, <1>4, <2>1

\* The inductive invariant of the budgets.
LEMMA BudgetInvariant == Spec => []BudgetInv
<1>1. GroupInv /\ BudgetInv /\ [Next]_vars => BudgetInv'
  BY BudgetSpawn, BudgetStarted, BudgetNotReady, BudgetPoll, BudgetDrained,
     BudgetTick, BudgetOther DEF Next
<1>2. QED
  BY BudgetInit, GroupInvariant, <1>1, PTL DEF Spec

\* Within a group a role is spawned at most MAX_RESTARTS + 1 times in less than
\* MAX_RESTART_TIME (record_failure, restart), for every limit and every window:
\* each spawn but the first has a failure of its own in the budget.
THEOREM RestartIntensityCorrect == Spec => []RestartIntensity
<1>1. BudgetInv => RestartIntensity
  <2> SUFFICES ASSUME BudgetInv, NEW r \in Roles PROVE Len(spawned[r]) <= MAX_RESTARTS + 1
    BY DEF RestartIntensity
  <2>1. /\ failures[r] \in Seq(Nat) /\ spawned[r] \in Seq(Nat)
        /\ Len(failures[r]) <= MAX_RESTARTS
        /\ Len(spawned[r]) <= Len(failures[r]) + 1
    BY DEF BudgetInv, Ages, Matched
  <2>2. Len(failures[r]) \in Nat /\ Len(spawned[r]) \in Nat
    BY <2>1, LenProperties
  <2>3. QED
    BY <2>1, <2>2, SupervisorConstants
<1>2. QED
  BY BudgetInvariant, <1>1, PTL

\* No gateway runs while stored is asked to stop, in whatever state of the loop
\* the drain began (shutdown_children).
THEOREM DrainOrderCorrect == Spec => []DrainOrder
<1>1. GroupInv => DrainOrder
  BY DEF GroupInv, LoopInv, DrainOrder, Running
<1>2. QED
  BY GroupInvariant, <1>1, PTL

\* A gateway and a stored that run together agree on the address of stored, and
\* a gateway listens where the first READY record said (stabilize_ready_child),
\* for every set of ports that the system may assign.
THEOREM AddressesAgreeCorrect == Spec => []AddressesAgree
<1>1. GroupInv => AddressesAgree
  BY DEF GroupInv, AddressInv, AddressesAgree
<1>2. QED
  BY GroupInvariant, <1>1, PTL
============================================================================
