--------------------------- MODULE TunerPoolProofs ---------------------------
(***************************************************************************)
(* Proofs about TunerPool: who holds a claim, and why no more processes    *)
(* than tuners means that open_device() never reports all tuners busy.     *)
(***************************************************************************)
EXTENDS TunerPool, FiniteSetTheorems, TLAPS

\* Every variable keeps its type: the walk of open_device() stays inside
\* the list of tuners or stops just after it.
THEOREM PoolTyped == Spec => []TypeOK
<1> USE PoolAssumption DEF Tuners, Beyond, Phases, Holding, Outcomes
<1>1. Init => TypeOK
  BY DEF Init, TypeOK
<1>2. TypeOK /\ [Next]_vars => TypeOK'
  <2> SUFFICES ASSUME TypeOK, [Next]_vars PROVE TypeOK'
    OBVIOUS
  <2> USE DEF TypeOK
  <2>1. ASSUME NEW p \in Procs, Start(p) PROVE TypeOK'
    BY <2>1 DEF Start
  <2>2. ASSUME NEW p \in Procs, Claim(p) PROVE TypeOK'
    BY <2>2 DEF Claim
  <2>3. ASSUME NEW p \in Procs, SkipBusy(p) PROVE TypeOK'
    BY <2>3 DEF SkipBusy
  <2>4. ASSUME NEW p \in Procs,
               \/ ClaimFails(p) \/ AllBusy(p) \/ Initialized(p)
               \/ InitFails(p) \/ Finish(p)
        PROVE  TypeOK'
    BY <2>4 DEF ClaimFails, AllBusy, Initialized, InitFails, Finish
  <2>5. ASSUME NEW p \in Procs, Release(p) PROVE TypeOK'
    BY <2>5 DEF Release
  <2>6. ASSUME NEW p \in Procs, Kill(p) PROVE TypeOK'
    BY <2>6 DEF Kill
  <2>7. ASSUME NEW d \in Probers, ListStart(d) PROVE TypeOK'
    BY <2>7 DEF ListStart
  <2>8. ASSUME NEW d \in Probers, ListClaim(d) PROVE TypeOK'
    BY <2>8 DEF ListClaim
  <2>9. ASSUME NEW d \in Probers, ListRelease(d) PROVE TypeOK'
    BY <2>9 DEF ListRelease
  <2>10. CASE UNCHANGED vars
    BY <2>10 DEF vars
  <2>11. QED
    BY <2>1, <2>2, <2>3, <2>4, <2>5, <2>6, <2>7, <2>8, <2>9, <2>10
    DEF Next, Open, List
<1>3. QED
  BY <1>1, <1>2, PTL DEF Spec

-----------------------------------------------------------------------------

LEMMA ClaimsMatchStep == TypeOK /\ ClaimsMatch /\ [Next]_vars => ClaimsMatch'
<1> SUFFICES ASSUME TypeOK, ClaimsMatch, [Next]_vars PROVE ClaimsMatch'
  OBVIOUS
<1> USE PoolAssumption DEF Tuners, Beyond, Phases, Holding, TypeOK, ClaimsMatch
<1>1. ASSUME NEW p \in Procs, Start(p) PROVE ClaimsMatch'
  BY <1>1 DEF Start
<1>2. ASSUME NEW p \in Procs, Claim(p) PROVE ClaimsMatch'
  BY <1>2 DEF Claim
<1>3. ASSUME NEW p \in Procs, SkipBusy(p) PROVE ClaimsMatch'
  BY <1>3 DEF SkipBusy
<1>4. ASSUME NEW p \in Procs,
             \/ ClaimFails(p) \/ AllBusy(p) \/ Initialized(p)
             \/ InitFails(p) \/ Finish(p)
      PROVE  ClaimsMatch'
  BY <1>4 DEF ClaimFails, AllBusy, Initialized, InitFails, Finish
<1>5. ASSUME NEW p \in Procs, Release(p) PROVE ClaimsMatch'
  BY <1>5 DEF Release
<1>6. ASSUME NEW p \in Procs, Kill(p) PROVE ClaimsMatch'
  BY <1>6 DEF Kill
<1>7. ASSUME NEW d \in Probers, ListStart(d) PROVE ClaimsMatch'
  BY <1>7 DEF ListStart
<1>8. ASSUME NEW d \in Probers, ListClaim(d) PROVE ClaimsMatch'
  BY <1>8 DEF ListClaim
<1>9. ASSUME NEW d \in Probers, ListRelease(d) PROVE ClaimsMatch'
  BY <1>9 DEF ListRelease
<1>10. CASE UNCHANGED vars
  BY <1>10 DEF vars
<1>11. QED
  BY <1>1, <1>2, <1>3, <1>4, <1>5, <1>6, <1>7, <1>8, <1>9, <1>10
  DEF Next, Open, List

\* A tuner is claimed exactly by the process between its _claim() and its
\* release() of that tuner, however processes are killed in between.
THEOREM PoolClaimsMatch == Spec => []ClaimsMatch
<1>1. Init => ClaimsMatch
  BY PoolAssumption DEF Init, ClaimsMatch, Tuners, Beyond, Holding
<1>2. QED
  BY <1>1, ClaimsMatchStep, PoolTyped, PTL DEF Spec

-----------------------------------------------------------------------------
(* A process moves from tuner k to k + 1 only while another process sits at *)
(* k, so fewer and fewer processes can be at later positions.               *)

\* The processes that look at, or hold, tuner k or a later one.
Reached(k) == {p \in Procs : pc[p] # "off" /\ pos[p] >= k}

\* At most N - k + 1 processes are at tuner k or beyond: none is past tuner N.
Room == \A k \in 1..Beyond : Cardinality(Reached(k)) <= Beyond - k

AllSelectAll == \A p \in Procs : Selection[p] = Tuners

LEMMA ReachedFinite ==
  \A k : IsFiniteSet(Reached(k)) /\ IsFiniteSet(Reached(k)')
                                 /\ Cardinality(Reached(k)) \in Nat
                                 /\ Cardinality(Reached(k)') \in Nat
<1>1. \A k : IsFiniteSet(Reached(k)) /\ IsFiniteSet(Reached(k)')
  BY PoolAssumption, FS_Subset DEF Reached
<1>2. QED
  BY <1>1, FS_CardinalityType

\* A step that brings no process to position k or beyond keeps the room there.
LEMMA RoomKept ==
  ASSUME NEW k \in 1..Beyond, Room, Reached(k)' \subseteq Reached(k)
  PROVE  Cardinality(Reached(k)') <= Beyond - k
<1>1. Cardinality(Reached(k)') <= Cardinality(Reached(k))
  BY ReachedFinite, FS_Subset
<1>2. QED
  BY <1>1, ReachedFinite, PoolAssumption DEF Room, Beyond

\* With --device auto, open_device() leaves no tuner out.
LEMMA NextMatchIsNext ==
  ASSUME AllSelectAll, NEW p \in Procs, NEW k \in 1..Beyond,
         NEW j \in k..Beyond, NextMatch(p, k, j)
  PROVE  j = k
<1> USE PoolAssumption DEF Tuners, Beyond
<1>1. SUFFICES ASSUME j # k PROVE FALSE
  OBVIOUS
<1>2. k \in 1..N /\ k \in k..(j - 1)
  BY <1>1
<1>3. Selection[p] = 1..N /\ k \notin Selection[p]
  BY <1>2 DEF AllSelectAll, NextMatch
<1>4. QED
  BY <1>2, <1>3

LEMMA RoomSkip ==
  ASSUME TypeOK, ClaimsMatch, Room, Probers = {}, AllSelectAll,
         NEW p \in Procs, SkipBusy(p)
  PROVE  Room'
<1> USE PoolAssumption DEF Tuners, Beyond, TypeOK
<1> DEFINE here == pos[p]
<1>1. /\ here \in Tuners /\ pc[p] = "scan"
      /\ pc' = pc /\ pos' = [pos EXCEPT ![p] = here + 1]
  <2>1. pc[p] = "scan" /\ here \in Tuners /\ pc' = pc
    BY DEF SkipBusy
  <2>2. PICK j \in (here + 1)..(N + 1) :
          NextMatch(p, here + 1, j) /\ pos' = [pos EXCEPT ![p] = j]
    BY DEF SkipBusy
  <2>3. j = here + 1
    BY <2>1, <2>2, NextMatchIsNext
  <2>4. QED
    BY <2>1, <2>2, <2>3
<1>2. PICK q \in Procs : q # p /\ pc[q] # "off" /\ pos[q] = here
  <2>1. owner[here] \in Procs
    BY DEF SkipBusy
  <2>2. QED
    BY <1>1, <2>1 DEF ClaimsMatch, Holding
<1>3. SUFFICES ASSUME NEW k \in 1..(N + 1)
               PROVE  Cardinality(Reached(k)') <= N + 1 - k
  BY DEF Room
<1>4. CASE k # here + 1
  <2>1. Reached(k)' \subseteq Reached(k)
    BY <1>1, <1>4 DEF Reached
  <2>2. QED
    BY <2>1, RoomKept
<1>5. CASE k = here + 1
  <2> DEFINE Before == Reached(here)
  <2>1. Reached(k)' \subseteq Before \ {q}
    BY <1>1, <1>2, <1>5 DEF Reached
  <2>2. q \in Before
    BY <1>1, <1>2 DEF Reached
  <2>3. /\ IsFiniteSet(Before \ {q})
        /\ Cardinality(Before \ {q}) = Cardinality(Before) - 1
    BY <2>2, ReachedFinite, FS_RemoveElement
  <2>4. Cardinality(Reached(k)') <= Cardinality(Before \ {q})
    BY <2>1, <2>3, FS_Subset
  <2>5. Cardinality(Before) <= N + 1 - here
    BY <1>1 DEF Room
  <2>6. QED
    BY <1>1, <1>5, <2>3, <2>4, <2>5, ReachedFinite
<1>6. QED
  BY <1>4, <1>5

LEMMA RoomStep ==
  ASSUME TypeOK, ClaimsMatch, Room, [Next]_vars,
         Probers = {}, AllSelectAll, Cardinality(Procs) <= N
  PROVE  Room'
<1> USE PoolAssumption DEF Tuners, Beyond
<1>1. ASSUME NEW p \in Procs, Start(p) PROVE Room'
  <2>1. pos' = [pos EXCEPT ![p] = 1] /\ pc' = [pc EXCEPT ![p] = "scan"]
    <3>1. PICK j \in 1..N :
            NextMatch(p, 1, j) /\ pos' = [pos EXCEPT ![p] = j]
      BY <1>1 DEF Start
    <3>2. j = 1
      BY <3>1, NextMatchIsNext
    <3>3. QED
      BY <1>1, <3>1, <3>2 DEF Start
  <2>2. SUFFICES ASSUME NEW k \in 1..(N + 1)
                 PROVE  Cardinality(Reached(k)') <= N + 1 - k
    BY DEF Room
  <2>3. CASE k = 1
    <3>1. Reached(k)' \subseteq Procs
      BY DEF Reached
    <3>2. Cardinality(Reached(k)') <= Cardinality(Procs)
      BY <3>1, FS_Subset
    <3>3. QED
      BY <2>3, <3>2, FS_CardinalityType, ReachedFinite
  <2>4. CASE k # 1
    <3>1. Reached(k)' \subseteq Reached(k)
      BY <2>1, <2>4 DEF Reached, TypeOK
    <3>2. QED
      BY <3>1, RoomKept
  <2>5. QED
    BY <2>3, <2>4
<1>2. ASSUME NEW p \in Procs, SkipBusy(p) PROVE Room'
  BY <1>2, RoomSkip
<1>3. ASSUME \A k \in 1..(N + 1) : Reached(k)' \subseteq Reached(k)
      PROVE  Room'
  BY <1>3, RoomKept DEF Room
<1>4. ASSUME NEW p \in Procs,
             \/ Claim(p) \/ ClaimFails(p) \/ AllBusy(p) \/ Initialized(p)
             \/ InitFails(p) \/ Finish(p) \/ Release(p) \/ Kill(p)
      PROVE  Room'
  <2>1. \A k \in 1..(N + 1) : Reached(k)' \subseteq Reached(k)
    BY <1>4 DEF Reached, TypeOK, Claim, ClaimFails, AllBusy, Initialized,
                InitFails, Finish, Release, Kill
  <2>2. QED
    BY <1>3, <2>1
<1>5. CASE UNCHANGED vars
  <2>1. \A k \in 1..(N + 1) : Reached(k)' \subseteq Reached(k)
    BY <1>5 DEF Reached, vars
  <2>2. QED
    BY <1>3, <2>1
<1>6. QED
  BY <1>1, <1>2, <1>4, <1>5 DEF Next, Open

LEMMA NotBusyStep ==
  ASSUME Room, [Next]_vars, Probers = {}, TypeOK,
         \A p \in Procs : outcome[p] # "busy"
  PROVE  \A p \in Procs : outcome'[p] # "busy"
<1> USE PoolAssumption DEF TypeOK
<1>1. ASSUME NEW p \in Procs, AllBusy(p) PROVE FALSE
  <2>1. p \in Reached(Beyond)
    BY <1>1 DEF AllBusy, Reached, Beyond
  <2>2. Cardinality(Reached(Beyond)) <= 0
    BY DEF Room, Beyond
  <2>3. Reached(Beyond) = {}
    BY <2>2, ReachedFinite, FS_EmptySet
  <2>4. QED
    BY <2>1, <2>3
<1>2. ASSUME NEW p \in Procs,
             \/ Start(p) \/ Claim(p) \/ SkipBusy(p) \/ ClaimFails(p)
             \/ Initialized(p) \/ InitFails(p) \/ Finish(p) \/ Release(p)
             \/ Kill(p)
      PROVE  \A q \in Procs : outcome'[q] # "busy"
  BY <1>2 DEF Start, Claim, SkipBusy, ClaimFails, Initialized, InitFails,
              Finish, Release, Kill
<1>3. CASE UNCHANGED vars
  BY <1>3 DEF vars
<1>4. QED
  BY <1>1, <1>2, <1>3 DEF Next, Open

\* docker/config.yml, "each process picks a free tuner": with --device auto
\* everywhere, nobody running `recdyud-diag list' and no more processes than
\* tuners, open_device() never reports that all tuners are in use, however
\* the walks, the releases, the kills and the restarts interleave.
THEOREM PoolPicksFreeTuner ==
  ASSUME Probers = {}, AllSelectAll
  PROVE  Spec => []PicksFreeTuner
<1>1. CASE Cardinality(Procs) <= N
  <2> DEFINE NotBusy == \A p \in Procs : outcome[p] # "busy"
  <2>1. Init => Room /\ NotBusy
    <3> SUFFICES ASSUME Init PROVE Room /\ NotBusy
      OBVIOUS
    <3>1. \A k : Reached(k) = {}
      BY DEF Init, Reached
    <3>2. Cardinality({}) = 0
      BY FS_EmptySet
    <3>3. Room
      BY <3>1, <3>2, PoolAssumption DEF Room, Beyond
    <3>4. QED
      BY <3>3 DEF Init
  <2>2. TypeOK /\ ClaimsMatch /\ Room /\ NotBusy /\ [Next]_vars
          => (Room /\ NotBusy)'
    BY <1>1, RoomStep, NotBusyStep
  <2>3. NotBusy => PicksFreeTuner
    BY DEF PicksFreeTuner
  <2> HIDE DEF NotBusy
  <2>4. QED
    BY <2>1, <2>2, <2>3, PoolTyped, PoolClaimsMatch, PTL DEF Spec
<1>2. CASE ~(Cardinality(Procs) <= N)
  <2>1. PicksFreeTuner
    BY <1>2 DEF PicksFreeTuner
  <2>2. QED
    BY <2>1, PTL
<1>3. QED
  BY <1>1, <1>2
=============================================================================
