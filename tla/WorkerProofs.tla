---------------------------- MODULE WorkerProofs ----------------------------
(***************************************************************************)
(* Machine-checked proofs about the parts of a worker: the closed-model    *)
(* executor and its rendezvous (Executor), the open-model executor         *)
(* (Arrival), the script driver in the closed model (Script) and the       *)
(* reports to the coordinator (Reporter), for any number of virtual users, *)
(* goroutines and runs, any ramp, pool, scenario and buffer.               *)
(***************************************************************************)
EXTENDS MCWorker, SumProofs, SequenceTheorems

-----------------------------------------------------------------------------
(* The closed-model executor                                               *)

\* VUs are numbered in the order in which they start, and the pool has each of them
\* once.
Numbered ==
    /\ \A v \in VU : v > nextID => vu[v] = "none"
    /\ \A v \in cancelled : v <= nextID
    /\ \A i \in 1..Len(pool) : pool[i] <= nextID
    /\ \A i, j \in 1..Len(pool) : pool[i] = pool[j] => i = j

\* Nobody waits for a generation that is still to come.
NoFutureWait == \A v \in VU : vu[v] = "wait" => myGen[v] <= gen

PoolInv == Numbered /\ PoolIsLive
BarrierInv == NoFutureWait /\ BarrierIsExact
ExecutorInv == TypeOK /\ PoolInv /\ BarrierInv

-----------------------------------------------------------------------------
(* The pool                                                                *)

\* The sequence of the VUs that scaleTo spawns.
LEMMA SpawnedSeq ==
    ASSUME NEW k \in Nat, NEW m \in Nat, m + k <= MaxSpawn
    PROVE  LET s == [i \in 1..k |-> m + i]
           IN  s \in Seq(VU) /\ Len(s) = k /\ \A i \in 1..k : s[i] = m + i
<1> DEFINE s == [i \in 1..k |-> m + i]
<1>1. \A i \in 1..k : m + i \in VU
  BY MaxSpawnAssumption DEF VU
<1>2. s \in [1..k -> VU]
  BY <1>1
<1>3. s \in Seq(VU) /\ Len(s) = k
  BY <1>2, SeqDef
<1> QED
  BY <1>3

\* The VUs of the pool have numbers that were given out.
LEMMA PoolNumbers ==
    ASSUME TypeOK, PoolInv
    PROVE  \A i \in 1..Len(pool) : pool[i] \in VU /\ pool[i] \in Nat /\ pool[i] <= nextID
<1>1. ASSUME NEW i \in 1..Len(pool) PROVE pool[i] \in VU
  BY ElementOfSeq DEF TypeOK
<1>2. \A v \in VU : v \in Nat
  BY DEF VU
<1> QED
  BY <1>1, <1>2 DEF PoolInv, Numbered

\* scaleTo upwards.
LEMMA GrowKept ==
    ASSUME TypeOK, PoolInv, NEW n \in Nat, n >= Len(pool), nextID + n <= Len(pool) + MaxSpawn,
           scaleTo(n), ctxDone' = ctxDone
    PROVE  /\ pool' \in Seq(VU) /\ nextID' \in 0..MaxSpawn /\ cancelled' \subseteq VU
           /\ vu' \in [VU -> VUStep]
           /\ PoolInv'
           /\ \A v \in VU : vu'[v] = vu[v] \/ (vu[v] = "none" /\ vu'[v] = "top")
<1> DEFINE k == n - Len(pool)
           s == [i \in 1..k |-> nextID + i]
<1>0. /\ pool \in Seq(VU) /\ nextID \in 0..MaxSpawn /\ cancelled \subseteq VU
      /\ vu \in [VU -> VUStep] /\ Len(pool) \in Nat
  BY DEF TypeOK
<1>1. k \in Nat /\ nextID \in Nat /\ nextID + k <= MaxSpawn
  BY <1>0, MaxSpawnAssumption
<1>2. s \in Seq(VU) /\ Len(s) = k /\ \A i \in 1..k : s[i] = nextID + i
  BY <1>1, SpawnedSeq
<1>3. /\ pool' = pool \o s /\ cancelled' = cancelled
      /\ nextID' = nextID + n - Len(pool)
      /\ vu' = [v \in VU |-> IF v \in nextID + 1 .. nextID + n - Len(pool)
                             THEN "top" ELSE vu[v]]
  BY DEF scaleTo
<1>4. nextID' = nextID + k /\ nextID' \in 0..MaxSpawn
  BY <1>0, <1>1, <1>3
<1>5. /\ vu' \in [VU -> VUStep]
      /\ \A v \in VU : vu'[v] = IF v > nextID /\ v <= nextID + k THEN "top" ELSE vu[v]
  BY <1>0, <1>1, <1>3, MaxSpawnAssumption DEF VU, VUStep
<1> HIDE DEF s, k
<1>6. /\ pool' \in Seq(VU) /\ Len(pool') = Len(pool) + k
      /\ \A i \in 1 .. Len(pool) + k :
            pool'[i] = IF i <= Len(pool) THEN pool[i] ELSE s[i - Len(pool)]
  BY <1>0, <1>2, <1>3, ConcatProperties
<1>7. \A i \in 1 .. Len(pool') : \/ i <= Len(pool) /\ pool'[i] = pool[i] /\ i \in 1..Len(pool)
                                 \/ i > Len(pool) /\ pool'[i] = nextID + (i - Len(pool))
  <2> SUFFICES ASSUME NEW i \in 1..Len(pool')
               PROVE  \/ i <= Len(pool) /\ pool'[i] = pool[i] /\ i \in 1..Len(pool)
                      \/ i > Len(pool) /\ pool'[i] = nextID + (i - Len(pool))
    OBVIOUS
  <2>1. i \in 1..Len(pool) + k /\ i \in Nat
    BY <1>6
  <2>2. CASE i <= Len(pool)
    BY <1>0, <1>6, <2>1, <2>2
  <2>3. CASE i > Len(pool)
    <3>1. i - Len(pool) \in 1..k
      BY <1>0, <1>1, <2>1, <2>3
    <3>2. pool'[i] = s[i - Len(pool)]
      BY <1>0, <1>6, <2>1, <2>3
    <3> QED
      BY <1>2, <2>3, <3>1, <3>2
  <2> QED
    BY <1>0, <2>1, <2>2, <2>3
<1>8. Numbered'
  <2>1. ASSUME NEW v \in VU, v > nextID' PROVE vu'[v] = "none"
    <3>1. v > nextID /\ ~(v <= nextID + k)
      BY <1>1, <1>4, <2>1 DEF VU
    <3> QED
      BY <1>5, <3>1 DEF PoolInv, Numbered
  <2>2. ASSUME NEW v \in cancelled' PROVE v <= nextID'
    <3>1. v <= nextID /\ v \in Nat
      BY <1>0, <1>3 DEF PoolInv, Numbered, VU
    <3> QED
      BY <1>1, <1>4, <3>1
  <2>3. ASSUME NEW i \in 1..Len(pool') PROVE pool'[i] <= nextID'
    <3>1. CASE i <= Len(pool) /\ pool'[i] = pool[i] /\ i \in 1..Len(pool)
      BY <1>1, <1>4, <3>1, PoolNumbers
    <3>2. CASE i > Len(pool) /\ pool'[i] = nextID + (i - Len(pool))
      BY <1>0, <1>1, <1>4, <1>6, <3>2
    <3> QED
      BY <1>7, <3>1, <3>2
  <2>4. ASSUME NEW i \in 1..Len(pool'), NEW j \in 1..Len(pool'), pool'[i] = pool'[j]
        PROVE  i = j
    <3>1. i \in Nat /\ j \in Nat
      BY <1>0, <1>1, <1>6
    <3>2. CASE i <= Len(pool) /\ j <= Len(pool)
      BY <1>7, <2>4, <3>2 DEF PoolInv, Numbered
    <3>3. CASE i > Len(pool) /\ j > Len(pool)
      <4>1. pool'[i] = nextID + (i - Len(pool)) /\ pool'[j] = nextID + (j - Len(pool))
        BY <1>0, <1>7, <3>3
      <4> QED
        <5>1. \A a, b, c, d \in Nat : a + (b - d) = a + (c - d) => b = c
          OBVIOUS
        <5>2. nextID + (i - Len(pool)) = nextID + (j - Len(pool))
          BY <2>4, <4>1, Zenon
        <5> QED
          BY <1>0, <1>1, <3>1, <5>1, <5>2
    <3>4. \A h \in 1..Len(pool') :
            /\ h <= Len(pool) => pool'[h] <= nextID /\ pool'[h] \in Nat
            /\ h > Len(pool) => pool'[h] > nextID /\ pool'[h] \in Nat
      <4> SUFFICES ASSUME NEW h \in 1..Len(pool')
                   PROVE  /\ h <= Len(pool) => pool'[h] <= nextID /\ pool'[h] \in Nat
                          /\ h > Len(pool) => pool'[h] > nextID /\ pool'[h] \in Nat
        OBVIOUS
      <4>1. h \in Nat
        BY <1>0, <1>1, <1>6
      <4>2. h <= Len(pool) => pool'[h] <= nextID /\ pool'[h] \in Nat
        BY <1>0, <1>7, <4>1, PoolNumbers
      <4>3. h > Len(pool) => pool'[h] > nextID /\ pool'[h] \in Nat
        BY <1>0, <1>1, <1>7, <4>1
      <4> QED
        BY <4>2, <4>3
    <3>5. ~(i <= Len(pool) /\ j > Len(pool)) /\ ~(j <= Len(pool) /\ i > Len(pool))
      BY <1>1, <2>4, <3>4
    <3> QED
      BY <1>0, <3>1, <3>2, <3>3, <3>5
  <2> QED
    BY <2>1, <2>2, <2>3, <2>4 DEF Numbered
<1>9. PoolIsLive'
  <2> SUFFICES ASSUME ~ctxDone', NEW i \in 1..Len(pool')
               PROVE  pool'[i] \notin cancelled' /\ vu'[pool'[i]] # "gone"
    BY DEF PoolIsLive
  <2>1. CASE i <= Len(pool) /\ pool'[i] = pool[i] /\ i \in 1..Len(pool)
    <3>1. pool[i] \notin cancelled /\ vu[pool[i]] # "gone" /\ pool[i] \in VU
      BY <1>0, <2>1, ElementOfSeq DEF PoolInv, PoolIsLive
    <3> QED
      BY <1>3, <1>5, <2>1, <3>1
  <2>2. CASE i > Len(pool) /\ pool'[i] = nextID + (i - Len(pool))
    <3>1. pool'[i] > nextID /\ pool'[i] <= nextID + k /\ pool'[i] \in VU
      BY <1>0, <1>1, <1>6, <2>2, MaxSpawnAssumption DEF VU
    <3>2. pool'[i] \notin cancelled
      BY <1>0, <1>1, <3>1 DEF PoolInv, Numbered, VU
    <3> QED
      BY <1>3, <1>5, <3>1, <3>2
  <2> QED
    BY <1>7, <2>1, <2>2
<1>10. \A v \in VU : vu'[v] = vu[v] \/ (vu[v] = "none" /\ vu'[v] = "top")
  BY <1>5 DEF PoolInv, Numbered
<1> QED
  BY <1>0, <1>3, <1>4, <1>5, <1>6, <1>8, <1>9, <1>10 DEF PoolInv

\* scaleTo downwards: the newest VUs are told to return and leave the pool.
LEMMA ShrinkKept ==
    ASSUME TypeOK, PoolInv, NEW n \in Nat, n < Len(pool), scaleTo(n), ctxDone' = ctxDone
    PROVE  /\ pool' \in Seq(VU) /\ nextID' \in 0..MaxSpawn /\ cancelled' \subseteq VU
           /\ vu' = vu
           /\ PoolInv'
<1>0. /\ pool \in Seq(VU) /\ nextID \in 0..MaxSpawn /\ cancelled \subseteq VU
      /\ vu \in [VU -> VUStep] /\ Len(pool) \in Nat
      /\ \A i \in 1..Len(pool) : pool[i] \in VU
  BY ElementOfSeq DEF TypeOK
<1>1. /\ pool' = SubSeq(pool, 1, n)
      /\ cancelled' = cancelled \cup {pool[i] : i \in n + 1..Len(pool)}
      /\ UNCHANGED <<nextID, vu>>
  BY <1>0 DEF scaleTo
<1>2. /\ pool' \in Seq(VU) /\ Len(pool') = n
      /\ \A i \in 1..n : pool'[i] = pool[i] /\ i \in 1..Len(pool)
  <2>1. \A i \in 1..n : pool[i] \in VU
    BY <1>0
  <2>2. /\ SubSeq(pool, 1, n) \in Seq(VU)
        /\ Len(SubSeq(pool, 1, n)) = IF 1 <= n THEN n - 1 + 1 ELSE 0
        /\ \A i \in 1 .. n - 1 + 1 : SubSeq(pool, 1, n)[i] = pool[1 + i - 1]
    BY <2>1, SubSeqProperties
  <2> QED
    BY <1>0, <1>1, <2>2
<1>3. cancelled' \subseteq VU /\ \A v \in cancelled' : v <= nextID
  BY <1>0, <1>1 DEF PoolInv, Numbered
<1>4. Numbered'
  BY <1>0, <1>1, <1>2, <1>3 DEF PoolInv, Numbered
<1>5. PoolIsLive'
  <2> SUFFICES ASSUME ~ctxDone', NEW i \in 1..Len(pool')
               PROVE  pool'[i] \notin cancelled' /\ vu'[pool'[i]] # "gone"
    BY DEF PoolIsLive
  <2>1. i \in 1..n /\ i \in 1..Len(pool) /\ pool'[i] = pool[i]
    BY <1>2
  <2>2. pool[i] \notin cancelled /\ vu[pool[i]] # "gone"
    BY <2>1 DEF PoolInv, PoolIsLive
  <2>3. \A j \in n + 1..Len(pool) : pool[j] # pool[i]
    BY <1>0, <2>1 DEF PoolInv, Numbered
  <2> QED
    BY <1>1, <2>1, <2>2, <2>3
<1> QED
  BY <1>0, <1>1, <1>2, <1>3, <1>4, <1>5 DEF PoolInv

-----------------------------------------------------------------------------
(* The barrier                                                             *)

\* Only finitely many VUs gather.
LEMMA GatheredFinite == IsFiniteSet(gathered)
<1>1. IsFiniteSet(VU)
  BY MaxSpawnAssumption, FS_Interval DEF VU
<1> QED
  BY <1>1, FS_Subset DEF gathered

\* After a release nobody gathers.
LEMMA ReleaseKept ==
    ASSUME TypeOK, NoFutureWait, release, myGen' = myGen,
           \A v \in VU : vu'[v] = "wait" => vu[v] = "wait"
    PROVE  BarrierInv'
<1>1. gen \in Nat /\ gen' = gen + 1 /\ waiting' = 0 /\ myGen \in [VU -> Nat]
  BY DEF TypeOK, release
<1>2. ASSUME NEW v \in VU, vu'[v] = "wait" PROVE myGen'[v] <= gen' /\ myGen'[v] # gen'
  <2>1. myGen[v] <= gen /\ myGen[v] \in Nat
    BY <1>1, <1>2 DEF NoFutureWait
  <2> QED
    BY <1>1, <2>1
<1>3. gathered' = {}
  BY <1>2 DEF gathered
<1>4. Cardinality({}) = 0
  BY FS_EmptySet
<1> QED
  BY <1>1, <1>2, <1>3, <1>4
     DEF BarrierInv, NoFutureWait, BarrierIsExact, WaitingIsExact, WaitersHaveATimer

\* A step that neither gathers nor releases.
LEMMA SameGatherKept ==
    ASSUME TypeOK, BarrierInv, UNCHANGED <<waiting, gen, myGen>>,
           \A v \in VU : vu'[v] = "wait" => vu[v] = "wait",
           \A v \in gathered : vu'[v] = "wait" /\ (v \in timers' \/ gen \in expired')
    PROVE  BarrierInv'
<1>1. gathered' = gathered
  BY DEF gathered
<1> QED
  BY <1>1 DEF BarrierInv, NoFutureWait, BarrierIsExact, WaitingIsExact, WaitersHaveATimer

\* A VU comes to the barrier and waits.
LEMMA GatherKept ==
    ASSUME TypeOK, BarrierInv, NEW v \in VU, vu[v] = "gather",
           waiting' = waiting + 1, gen' = gen, expired' = expired,
           myGen' = [myGen EXCEPT ![v] = gen],
           timers' = timers \cup {v}, vu' = [vu EXCEPT ![v] = "wait"]
    PROVE  BarrierInv'
<1>1. gen \in Nat /\ myGen \in [VU -> Nat] /\ vu \in [VU -> VUStep] /\ waiting \in Nat
  BY DEF TypeOK
<1>2. /\ \A w \in VU : myGen'[w] = IF w = v THEN gen ELSE myGen[w]
      /\ \A w \in VU : vu'[w] = IF w = v THEN "wait" ELSE vu[w]
  BY <1>1
<1>3. gathered' = gathered \cup {v} /\ v \notin gathered
  BY <1>2 DEF gathered
<1>4. Cardinality(gathered') = Cardinality(gathered) + 1
  BY <1>3, GatheredFinite, FS_AddElement
<1>5. WaitingIsExact'
  BY <1>4 DEF BarrierInv, BarrierIsExact, WaitingIsExact
<1>6. WaitersHaveATimer'
  BY <1>3 DEF BarrierInv, BarrierIsExact, WaitersHaveATimer
<1>7. NoFutureWait'
  BY <1>1, <1>2 DEF BarrierInv, NoFutureWait
<1> QED
  BY <1>5, <1>6, <1>7 DEF BarrierInv, BarrierIsExact

-----------------------------------------------------------------------------
(* The steps                                                               *)

\* A step of a VU or a timer: the pool stays, and only a VU that was told to returns.
LEMMA PoolKept ==
    ASSUME TypeOK, PoolInv, poolUnchanged, vu' \in [VU -> VUStep],
           \A v \in VU : /\ vu[v] = "none" => vu'[v] = "none"
                         /\ vu'[v] = "gone" => vu[v] = "gone" \/ stopped(v)
    PROVE  PoolInv'
<1>1. UNCHANGED <<ctxDone, pool, nextID, cancelled>>
  BY DEF poolUnchanged
<1>2. Numbered'
  BY <1>1 DEF PoolInv, Numbered
<1>3. PoolIsLive'
  <2> SUFFICES ASSUME ~ctxDone, NEW i \in 1..Len(pool)
               PROVE  pool[i] \notin cancelled /\ vu'[pool[i]] # "gone"
    BY <1>1 DEF PoolIsLive
  <2>1. pool[i] \in VU /\ pool[i] \notin cancelled /\ vu[pool[i]] # "gone"
    BY PoolNumbers DEF PoolInv, PoolIsLive
  <2> QED
    BY <2>1 DEF stopped
<1> QED
  BY <1>2, <1>3 DEF PoolInv

\* A VU goes from one step to another.
LEMMA StepsTyped ==
    ASSUME TypeOK, NEW v \in VU, NEW s \in VUStep, steps(v, s)
    PROVE  vu' \in [VU -> VUStep] /\ \A w \in VU : vu'[w] = IF w = v THEN s ELSE vu[w]
BY DEF TypeOK, steps

\* scaleTo, at a control tick or at the end of Run.
LEMMA ScaleKept ==
    ASSUME ExecutorInv, NEW n \in Nat, nextID + n <= Len(pool) + MaxSpawn, scaleTo(n),
           UNCHANGED <<ctxDone, barrierVars>>, pc' \in {"run", "done"}
    PROVE  ExecutorInv'
<1> USE DEF ExecutorInv
<1>1. UNCHANGED <<waiting, gen, myGen, timers, expired>>
  BY DEF barrierVars
<1>2. n \in Nat /\ Len(pool) \in Nat
  BY DEF TypeOK
<1>3. /\ pool' \in Seq(VU) /\ nextID' \in 0..MaxSpawn /\ cancelled' \subseteq VU
      /\ vu' \in [VU -> VUStep]
      /\ PoolInv'
      /\ \A v \in VU : vu'[v] = vu[v] \/ (vu[v] = "none" /\ vu'[v] = "top")
  <2>1. CASE n >= Len(pool)
    BY <2>1, GrowKept
  <2>2. CASE n < Len(pool)
    <3>1. vu \in [VU -> VUStep]
      BY DEF TypeOK
    <3> QED
      BY <2>2, <3>1, ShrinkKept
  <2> QED
    BY <1>2, <2>1, <2>2
<1>4. TypeOK'
  BY <1>1, <1>3 DEF TypeOK
<1>5. BarrierInv'
  <2>1. \A v \in VU : vu'[v] = "wait" => vu[v] = "wait"
    BY <1>3
  <2>2. \A v \in gathered : vu'[v] = "wait" /\ (v \in timers' \/ gen \in expired')
    BY <1>1, <1>3 DEF BarrierInv, BarrierIsExact, WaitersHaveATimer, gathered
  <2> QED
    BY <1>1, <2>1, <2>2, SameGatherKept
<1> QED
  BY <1>3, <1>4, <1>5

\* The steps of a VU.
LEMMA VUKept ==
    ASSUME ExecutorInv, NEW v \in VU, VUNext(v)
    PROVE  ExecutorInv'
<1> USE DEF ExecutorInv
<1>0. poolUnchanged
  BY DEF VUNext, VUIterate, BarrierWait, BarrierLeave, VURequest, VUReturn
<1>1. CASE BarrierWait(v)
  <2>1. CASE (waiting + 1 >= Target \/ stopped(v)) /\ release /\ steps(v, "exec")
             /\ UNCHANGED <<myGen, timers, expired>>
    <3>1. "exec" \in VUStep
      BY DEF VUStep
    <3>2. vu' \in [VU -> VUStep] /\ \A w \in VU : vu'[w] = IF w = v THEN "exec" ELSE vu[w]
      BY <2>1, <3>1, StepsTyped
    <3>3. TypeOK'
      BY <1>0, <2>1, <3>2 DEF TypeOK, release, poolUnchanged
    <3>4. PoolInv'
      BY <1>0, <1>1, <3>2, PoolKept DEF BarrierWait
    <3>5. BarrierInv'
      BY <2>1, <3>2, ReleaseKept DEF BarrierInv
    <3> QED
      BY <3>3, <3>4, <3>5
  <2>2. CASE /\ waiting' = waiting + 1 /\ myGen' = [myGen EXCEPT ![v] = gen]
             /\ timers' = timers \cup {v} /\ steps(v, "wait") /\ UNCHANGED <<gen, expired>>
    <3>1. "wait" \in VUStep
      BY DEF VUStep
    <3>2. vu' \in [VU -> VUStep] /\ \A w \in VU : vu'[w] = IF w = v THEN "wait" ELSE vu[w]
      BY <2>2, <3>1, StepsTyped
    <3>3. TypeOK'
      <4>1. myGen' \in [VU -> Nat] /\ timers' \subseteq VU /\ waiting' \in Nat /\ gen' \in Nat
        BY <2>2 DEF TypeOK
      <4> QED
        BY <1>0, <2>2, <3>2, <4>1 DEF TypeOK, poolUnchanged
    <3>4. PoolInv'
      BY <1>0, <1>1, <3>2, PoolKept DEF BarrierWait
    <3>5. BarrierInv'
      BY <1>1, <2>2, GatherKept DEF BarrierWait, steps
    <3> QED
      BY <3>3, <3>4, <3>5
  <2> QED
    BY <1>1, <2>1, <2>2 DEF BarrierWait
<1>2. CASE BarrierLeave(v)
  <2>1. /\ vu[v] = "wait" /\ gen # myGen[v] /\ timers' = timers \ {v} /\ steps(v, "exec")
        /\ UNCHANGED <<waiting, gen, myGen, expired>> /\ "exec" \in VUStep
    BY <1>2 DEF BarrierLeave, VUStep
  <2>2. vu' \in [VU -> VUStep] /\ \A w \in VU : vu'[w] = IF w = v THEN "exec" ELSE vu[w]
    BY <2>1, StepsTyped
  <2>3. TypeOK'
    BY <1>0, <2>1, <2>2 DEF TypeOK, poolUnchanged
  <2>4. PoolInv'
    BY <1>0, <2>1, <2>2, PoolKept
  <2>5. \A w \in gathered : vu'[w] = "wait" /\ (w \in timers' \/ gen \in expired')
    BY <2>1, <2>2 DEF gathered, BarrierInv, BarrierIsExact, WaitersHaveATimer
  <2>6. BarrierInv'
    BY <2>1, <2>2, <2>5, SameGatherKept
  <2> QED
    BY <2>3, <2>4, <2>6
<1>3. CASE VUIterate(v) \/ VURequest(v) \/ VUReturn(v)
  <2>1. PICK s \in {"gather", "top", "gone"} :
          /\ steps(v, s) /\ vu[v] \in {"top", "exec"}
          /\ s = "gone" => stopped(v)
    BY <1>3 DEF VUIterate, VURequest, VUReturn
  <2>2. s \in VUStep /\ s # "wait" /\ vu[v] # "wait" /\ vu[v] # "none"
    BY <2>1 DEF VUStep
  <2>3. UNCHANGED <<waiting, gen, myGen, timers, expired>>
    BY <1>3 DEF VUIterate, VURequest, VUReturn, barrierVars
  <2>4. vu' \in [VU -> VUStep] /\ \A w \in VU : vu'[w] = IF w = v THEN s ELSE vu[w]
    BY <2>1, <2>2, StepsTyped
  <2>5. TypeOK'
    BY <1>0, <2>3, <2>4 DEF TypeOK, poolUnchanged
  <2>6. PoolInv'
    BY <1>0, <2>1, <2>2, <2>4, PoolKept
  <2>7. \A w \in gathered : vu'[w] = "wait" /\ (w \in timers' \/ gen \in expired')
    BY <2>2, <2>3, <2>4 DEF gathered, BarrierInv, BarrierIsExact, WaitersHaveATimer
  <2>8. BarrierInv'
    BY <2>2, <2>3, <2>4, <2>7, SameGatherKept
  <2> QED
    BY <2>5, <2>6, <2>8
<1> QED
  BY <1>1, <1>2, <1>3 DEF VUNext

\* The timers.
LEMMA TimerKept ==
    ASSUME ExecutorInv, TimerStep
    PROVE  ExecutorInv'
<1> USE DEF ExecutorInv
<1>0. poolUnchanged /\ vu' = vu /\ vu \in [VU -> VUStep]
  BY DEF TimerStep, TimerFire, TimerCallback, TypeOK
<1>1. PoolInv'
  BY <1>0, PoolKept
<1>2. ASSUME NEW v \in timers, TimerFire(v) PROVE TypeOK' /\ BarrierInv'
  <2>1. /\ timers' = timers \ {v} /\ expired' = expired \cup {myGen[v]} /\ v \in VU
        /\ UNCHANGED <<waiting, gen, myGen>>
    BY <1>2 DEF TimerFire, TypeOK
  <2>2. TypeOK'
    BY <1>0, <2>1 DEF TypeOK, poolUnchanged
  <2>3. \A w \in gathered : vu'[w] = "wait" /\ (w \in timers' \/ gen \in expired')
    BY <1>0, <2>1 DEF gathered, BarrierInv, BarrierIsExact, WaitersHaveATimer
  <2> QED
    BY <1>0, <2>1, <2>2, <2>3, SameGatherKept
<1>3. ASSUME NEW g \in expired, TimerCallback(g) PROVE TypeOK' /\ BarrierInv'
  <2>1. expired' = expired \ {g} /\ UNCHANGED <<myGen, timers>>
    BY <1>3 DEF TimerCallback
  <2>2. CASE gen = g
    <3>1. release
      BY <1>3, <2>2 DEF TimerCallback
    <3>2. TypeOK'
      BY <1>0, <2>1, <3>1 DEF TypeOK, poolUnchanged, release
    <3> QED
      BY <1>0, <2>1, <3>1, <3>2, ReleaseKept DEF BarrierInv
  <2>3. CASE gen # g
    <3>1. UNCHANGED <<waiting, gen>>
      BY <1>3, <2>3 DEF TimerCallback
    <3>2. TypeOK'
      BY <1>0, <2>1, <3>1 DEF TypeOK, poolUnchanged
    <3>3. \A w \in gathered : vu'[w] = "wait" /\ (w \in timers' \/ gen \in expired')
      BY <1>0, <2>1, <2>3 DEF gathered, BarrierInv, BarrierIsExact, WaitersHaveATimer
    <3> QED
      BY <1>0, <2>1, <3>1, <3>2, <3>3, SameGatherKept
  <2> QED
    BY <2>2, <2>3
<1> QED
  BY <1>1, <1>2, <1>3 DEF TimerStep

\* Every step keeps the invariant.
LEMMA ExecutorStep ==
    ASSUME ExecutorInv, [Next]_vars
    PROVE  ExecutorInv'
<1>1. ASSUME NEW n \in Targets, ControlTick(n) PROVE ExecutorInv'
  <2>1. clampVUs(n) \in Nat
    BY TargetsAssumption, MaxVUsAssumption DEF clampVUs
  <2>2. pc' \in {"run", "done"}
    BY <1>1 DEF ControlTick
  <2> QED
    BY <1>1, <2>1, <2>2, ScaleKept DEF ControlTick
<1>2. CASE RunEnd
  <2>1. nextID + 0 <= Len(pool) + MaxSpawn
    <3>1. nextID \in 0..MaxSpawn /\ Len(pool) \in Nat
      BY DEF ExecutorInv, TypeOK
    <3> QED
      BY <3>1, MaxSpawnAssumption
  <2> QED
    BY <1>2, <2>1, ScaleKept DEF RunEnd
<1>3. CASE Cancel \/ UNCHANGED vars
  <2>1. ctxDone' \in BOOLEAN /\ (ctxDone => ctxDone')
    BY <1>3 DEF Cancel, vars, ExecutorInv, TypeOK
  <2>2. UNCHANGED <<pc, pool, nextID, cancelled, vu, waiting, gen, myGen, timers, expired>>
    BY <1>3 DEF Cancel, vars, barrierVars
  <2>3. TypeOK'
    BY <2>1, <2>2 DEF ExecutorInv, TypeOK
  <2>4. PoolInv'
    BY <2>1, <2>2 DEF ExecutorInv, PoolInv, Numbered, PoolIsLive
  <2>5. BarrierInv'
    BY <2>2 DEF ExecutorInv, BarrierInv, NoFutureWait, BarrierIsExact, WaitingIsExact,
       WaitersHaveATimer, gathered
  <2> QED
    BY <2>3, <2>4, <2>5 DEF ExecutorInv
<1> QED
  BY <1>1, <1>2, <1>3, VUKept, TimerKept DEF Next

-----------------------------------------------------------------------------
(* The theorems                                                            *)

LEMMA ExecutorStarts == Init => ExecutorInv
<1> SUFFICES ASSUME Init PROVE ExecutorInv
  OBVIOUS
<1> USE DEF Init
<1>1. TypeOK
  <2>1. vu \in [VU -> VUStep] /\ myGen \in [VU -> Nat]
    BY DEF VUStep
  <2>2. pool \in Seq(VU) /\ nextID \in 0..MaxSpawn
    BY MaxSpawnAssumption
  <2>3. /\ ctxDone \in BOOLEAN /\ pc \in {"run", "done"} /\ cancelled \subseteq VU
        /\ waiting \in Nat /\ gen \in Nat /\ timers \subseteq VU /\ expired \subseteq Nat
    OBVIOUS
  <2> QED
    BY <2>1, <2>2, <2>3, Zenon DEF TypeOK
<1>2. PoolInv
  BY DEF PoolInv, Numbered, PoolIsLive
<1>3. gathered = {}
  BY DEF gathered
<1>4. BarrierInv
  BY <1>3, FS_EmptySet DEF BarrierInv, NoFutureWait, BarrierIsExact, WaitingIsExact,
     WaitersHaveATimer
<1> QED
  BY <1>1, <1>2, <1>4 DEF ExecutorInv

\* The invariant that the others rest on holds in every reachable state.
THEOREM ExecutorInvariant == Spec => []ExecutorInv
<1>1. Init => ExecutorInv
  BY ExecutorStarts
<1>2. ExecutorInv /\ [Next]_vars => ExecutorInv'
  BY ExecutorStep
<1> QED
  BY <1>1, <1>2, PTL DEF Spec

\* Every variable of the pool and the barrier stays in its type: no VU is numbered
\* twice, and the pool holds VUs only.
THEOREM ExecutorTypeCorrect == Spec => []TypeOK
<1>1. ExecutorInv => TypeOK
  BY DEF ExecutorInv
<1> QED
  BY <1>1, ExecutorInvariant, PTL

\* The barrier's counter is the number of VUs that wait for the current generation,
\* and each of them has a timer, or a callback of its generation on the way: whatever
\* releases, timers and woken VUs overlap, nobody is left asleep or counted twice.
THEOREM BarrierCounts == Spec => []BarrierIsExact
<1>1. ExecutorInv => BarrierIsExact
  BY DEF ExecutorInv, BarrierInv
<1> QED
  BY <1>1, ExecutorInvariant, PTL

\* The pool that scaleTo counts has working VUs only: none that returned, and none
\* that was told to.
THEOREM PoolWorks == Spec => []PoolIsLive
<1>1. ExecutorInv => PoolIsLive
  BY DEF ExecutorInv, PoolInv
<1> QED
  BY <1>1, ExecutorInvariant, PTL

\* A gather is released when it is complete, by a timeout of its own, or by a VU that
\* has to return; never by the late timer of an earlier gather.
THEOREM ReleasedWithCause == Spec => NoEarlyRelease
<1> DEFINE Cause == gen' # gen =>
                      \/ waiting + 1 >= Target
                      \/ gen \in expired
                      \/ \E v \in VU : vu[v] = "gather" /\ vu'[v] = "exec" /\ stopped(v)
<1>1. ExecutorInv /\ [Next]_vars => [Cause]_vars
  <2> SUFFICES ASSUME ExecutorInv, Next, gen' # gen PROVE Cause
    OBVIOUS
  <2>1. CASE \E n \in Targets : ControlTick(n)
    BY <2>1 DEF ControlTick, barrierVars
  <2>2. CASE RunEnd \/ Cancel
    BY <2>2 DEF RunEnd, Cancel, barrierVars
  <2>3. ASSUME NEW v \in VU, VUNext(v) PROVE Cause
    <3>1. BarrierWait(v)
      BY <2>3 DEF VUNext, VUIterate, BarrierLeave, VURequest, VUReturn, barrierVars
    <3>2. CASE waiting + 1 >= Target
      BY <3>2
    <3>3. CASE stopped(v) /\ steps(v, "exec")
      <4>1. vu'[v] = "exec" /\ vu[v] = "gather"
        BY <3>1, <3>3 DEF ExecutorInv, TypeOK, steps, BarrierWait
      <4> QED
        BY <3>3, <4>1
    <3> QED
      BY <3>1, <3>2, <3>3 DEF BarrierWait
  <2>4. CASE TimerStep
    BY <2>4 DEF TimerStep, TimerFire, TimerCallback
  <2> QED
    BY <2>1, <2>2, <2>3, <2>4 DEF Next
<1> QED
  BY <1>1, ExecutorInvariant, PTL DEF Spec, NoEarlyRelease

-----------------------------------------------------------------------------
(* The open-model pool                                                     *)

\* The inductive invariant: types, exact counters, no goroutine before Run starts
\* the pool, and every iteration of a tick queued or dropped before the next tick.
ArrivalInv ==
    /\ ArrivalTypeOK
    /\ PoolAccounting
    /\ pacer = "start" => live = 0
    /\ pacer # "push" => toPush = 0

\* The number of goroutines in each place, one by one.
LEMMA PlaceCounts ==
    ASSUME ArrivalInv
    PROVE  /\ at["ready"] \in Nat /\ at["taken"] \in Nat /\ at["exec"] \in Nat
           /\ at["leaving"] \in Nat /\ MaxPool \in Nat
           /\ at["ready"] + at["taken"] + at["exec"] + at["leaving"] = live
           /\ live <= MaxPool
BY MaxPoolAssumption DEF ArrivalInv, ArrivalTypeOK, PoolAccounting, PoolIsExact, goroutines, Place

\* A goroutine that goes from one place to another leaves the others where they are.
LEMMA MovesCounts ==
    ASSUME ArrivalInv, NEW from \in Place, NEW to \in Place, from # to, moves(from, to)
    PROVE  /\ at' \in [Place -> 0..MaxPool]
           /\ at[from] > 0
           /\ at'[from] = at[from] - 1
           /\ at'[to] = at[to] + 1
           /\ \A p \in Place \ {from, to} : at'[p] = at[p]
<1>1. at \in [Place -> 0..MaxPool]
  BY DEF ArrivalInv, ArrivalTypeOK
<1>2. at[from] > 0 /\ at' = [[at EXCEPT ![from] = at[from] - 1] EXCEPT ![to] = at[to] + 1]
  BY <1>1 DEF moves
<1>3. at[from] + at[to] <= MaxPool
  BY PlaceCounts DEF Place
<1> QED
  BY <1>1, <1>2, <1>3, MaxPoolAssumption

\* Every step of the pool keeps the invariant.
LEMMA ArrivalStep ==
    ASSUME ArrivalInv, [ArrivalNext]_arrivalVars
    PROVE  ArrivalInv'
<1> USE MaxPoolAssumption
<1>0. /\ ArrivalTypeOK /\ IterationsConserved /\ PoolIsExact
      /\ at \in [Place -> 0..MaxPool] /\ (pacer = "start" => live = 0)
      /\ (pacer # "push" => toPush = 0)
  BY DEF ArrivalInv, ArrivalTypeOK, PoolAccounting
<1>a. /\ "ready" \in Place /\ "taken" \in Place /\ "exec" \in Place /\ "leaving" \in Place
  BY DEF Place
<1> DEFINE Goal == ArrivalTypeOK' /\ IterationsConserved' /\ PoolIsExact'
                   /\ (pacer' = "start" => live' = 0)
                   /\ (pacer' # "push" => toPush' = 0)
<1>1. SUFFICES Goal
  BY DEF ArrivalInv, PoolAccounting
<1>2. ASSUME spawn, live < MaxPool, pacer \in {"start", "grow"}, pacer' \in {"wait", "grow"},
             UNCHANGED <<toPush, need, jobs, busy, runDone, scheduled, dropped, executed>>
      PROVE  Goal
  <2>1. at["ready"] + 1 \in 0..MaxPool
    BY <1>2, PlaceCounts
  <2>2. at' \in [Place -> 0..MaxPool] /\ at'["ready"] = at["ready"] + 1
        /\ at'["taken"] = at["taken"] /\ at'["exec"] = at["exec"] /\ at'["leaving"] = at["leaving"]
    BY <1>0, <1>2, <1>a, <2>1 DEF spawn
  <2>3. ArrivalTypeOK'
    BY <1>0, <1>2, <2>2 DEF spawn, ArrivalTypeOK
  <2>4. IterationsConserved'
    BY <1>0, <1>2, <2>2 DEF IterationsConserved
  <2>5. PoolIsExact'
    BY <1>0, <1>2, <2>2, PlaceCounts DEF spawn, PoolIsExact, goroutines
  <2>6. (pacer' = "start" => live' = 0) /\ (pacer' # "push" => toPush' = 0)
    BY <1>0, <1>2
  <2> QED
    BY <2>3, <2>4, <2>5, <2>6
<1>3. CASE StartPool
  BY <1>0, <1>2, <1>3 DEF StartPool, ArrivalTypeOK, IterationsConserved, PoolIsExact, goroutines
<1>4. CASE Grow
  BY <1>0, <1>2, <1>4 DEF Grow, ArrivalTypeOK, IterationsConserved, PoolIsExact, goroutines
<1>5. ASSUME NEW n \in Due, PacerTick(n) PROVE Goal
  <2>1. /\ n \in Nat /\ pacer = "wait" /\ pacer' = "push" /\ toPush' = n
        /\ scheduled' = scheduled + n
        /\ UNCHANGED <<need, jobs, live, busy, at, runDone, dropped, executed>>
    BY <1>5, DueAssumption DEF PacerTick
  <2> QED
    BY <1>0, <2>1, PlaceCounts
       DEF ArrivalTypeOK, IterationsConserved, PoolIsExact, goroutines
<1>6. CASE PushJob
  <2>1. /\ pacer = "push" /\ toPush > 0 /\ toPush' = toPush - 1
        /\ UNCHANGED <<pacer, need, live, busy, at, runDone, scheduled, executed>>
        /\ \/ jobs < MaxPool /\ jobs' = jobs + 1 /\ dropped' = dropped
           \/ dropped' = dropped + 1 /\ jobs' = jobs
    BY <1>6 DEF PushJob
  <2>2. ArrivalTypeOK'
    BY <1>0, <2>1 DEF ArrivalTypeOK
  <2>3. IterationsConserved'
    <3>1. /\ toPush \in Nat /\ jobs \in Nat /\ executed \in Nat /\ dropped \in Nat
          /\ at["taken"] \in Nat /\ at["exec"] \in Nat
      BY <1>0, PlaceCounts DEF ArrivalTypeOK
    <3>2. at' = at /\ executed' = executed /\ scheduled' = scheduled
      BY <2>1
    <3> QED
      BY <1>0, <2>1, <3>1, <3>2 DEF IterationsConserved
  <2>4. PoolIsExact' /\ (pacer' = "start" => live' = 0) /\ (pacer' # "push" => toPush' = 0)
    BY <1>0, <2>1 DEF PoolIsExact, goroutines
  <2> QED
    BY <2>2, <2>3, <2>4
<1>7. CASE Measure
  BY <1>0, <1>7 DEF Measure, demand, ArrivalTypeOK, IterationsConserved, PoolIsExact, goroutines
<1>8. CASE RunReturn \/ CloseJobs \/ CancelRun
  BY <1>0, <1>8 DEF RunReturn, CloseJobs, CancelRun, ArrivalTypeOK, IterationsConserved,
     PoolIsExact, goroutines
<1>9. CASE TakeJob
  <2>1. /\ at' \in [Place -> 0..MaxPool] /\ at["ready"] > 0
        /\ at'["ready"] = at["ready"] - 1 /\ at'["taken"] = at["taken"] + 1
        /\ at'["exec"] = at["exec"] /\ at'["leaving"] = at["leaving"]
    BY <1>9, <1>a, MovesCounts DEF TakeJob
  <2> QED
    BY <1>0, <1>9, <2>1, PlaceCounts
       DEF TakeJob, pacerUnchanged, ArrivalTypeOK, IterationsConserved, PoolIsExact, goroutines
<1>10. CASE StartJob
  <2>1. /\ at' \in [Place -> 0..MaxPool] /\ at["taken"] > 0
        /\ at'["taken"] = at["taken"] - 1 /\ at'["exec"] = at["exec"] + 1
        /\ at'["ready"] = at["ready"] /\ at'["leaving"] = at["leaving"]
    BY <1>10, <1>a, MovesCounts DEF StartJob
  <2> QED
    BY <1>0, <1>10, <2>1, PlaceCounts
       DEF StartJob, pacerUnchanged, ArrivalTypeOK, IterationsConserved, PoolIsExact, goroutines
<1>11. CASE EndJob
  <2>1. /\ at' \in [Place -> 0..MaxPool] /\ at["exec"] > 0
        /\ at'["exec"] = at["exec"] - 1 /\ at'["ready"] = at["ready"] + 1
        /\ at'["taken"] = at["taken"] /\ at'["leaving"] = at["leaving"]
    BY <1>11, <1>a, MovesCounts DEF EndJob
  <2> QED
    BY <1>0, <1>11, <2>1, PlaceCounts
       DEF EndJob, pacerUnchanged, ArrivalTypeOK, IterationsConserved, PoolIsExact, goroutines
<1>12. CASE Retire \/ ReturnFromSelect
  <2>1. /\ at' \in [Place -> 0..MaxPool] /\ at["ready"] > 0
        /\ at'["ready"] = at["ready"] - 1 /\ at'["leaving"] = at["leaving"] + 1
        /\ at'["exec"] = at["exec"] /\ at'["taken"] = at["taken"]
    BY <1>12, <1>a, MovesCounts DEF Retire, ReturnFromSelect
  <2> QED
    BY <1>0, <1>12, <2>1, PlaceCounts
       DEF Retire, ReturnFromSelect, pacerUnchanged, ArrivalTypeOK, IterationsConserved,
           PoolIsExact, goroutines
<1>13. CASE Leave
  <2>1. /\ at' \in [Place -> 0..MaxPool] /\ at'["leaving"] = at["leaving"] - 1
        /\ at'["ready"] = at["ready"] /\ at'["exec"] = at["exec"] /\ at'["taken"] = at["taken"]
    BY <1>0, <1>a, <1>13 DEF Leave
  <2> QED
    BY <1>0, <1>13, <2>1, PlaceCounts
       DEF Leave, pacerUnchanged, ArrivalTypeOK, IterationsConserved, PoolIsExact, goroutines
<1>14. CASE UNCHANGED arrivalVars
  BY <1>0, <1>14 DEF arrivalVars, ArrivalTypeOK, IterationsConserved, PoolIsExact, goroutines
<1> QED
  BY <1>3, <1>4, <1>5, <1>6, <1>7, <1>8, <1>9, <1>10, <1>11, <1>12, <1>13, <1>14
     DEF ArrivalNext, PacerStep, PoolStep

LEMMA ArrivalStarts == ArrivalInit => ArrivalInv
<1> SUFFICES ASSUME ArrivalInit PROVE ArrivalInv
  OBVIOUS
<1> USE MaxPoolAssumption DEF ArrivalInit
<1>1. /\ at \in [Place -> 0..MaxPool]
      /\ at["ready"] = 0 /\ at["taken"] = 0 /\ at["exec"] = 0 /\ at["leaving"] = 0
  BY DEF Place
<1>2. /\ pacer = "start" /\ need = 0 /\ toPush = 0 /\ jobs = 0 /\ live = 0 /\ busy = 0
      /\ scheduled = 0 /\ dropped = 0 /\ executed = 0 /\ runDone = FALSE
  OBVIOUS
<1> HIDE DEF ArrivalInit
<1>3. ArrivalTypeOK
  <2>1. 0 \in Nat /\ 0 \in 0..MaxPool
    OBVIOUS
  <2> QED
    BY <1>1, <1>2, <2>1, Zenon DEF ArrivalTypeOK
<1>4. PoolAccounting
  BY <1>1, <1>2 DEF PoolAccounting, IterationsConserved, PoolIsExact, goroutines
<1> QED
  BY <1>2, <1>3, <1>4 DEF ArrivalInv

\* The invariant holds in every state: one step per step of the pacer, of the
\* monitor and of a pool goroutine.
THEOREM ArrivalInvariant == ArrivalSpec => []ArrivalInv
<1>1. ArrivalInit => ArrivalInv
  BY ArrivalStarts
<1>2. ArrivalInv /\ [ArrivalNext]_arrivalVars => ArrivalInv'
  BY ArrivalStep
<1> QED
  BY <1>1, <1>2, PTL DEF ArrivalSpec

\* Arrival-rate runs lose no iteration: for every MaxPool and every rate, each one the
\* pacer scheduled is pending, queued, executing, done or counted as dropped, and the
\* live and busy counters the pacer reads are the goroutines there are.
THEOREM PoolIsAccounted == ArrivalSpec => []PoolAccounting
<1>1. ArrivalInv => PoolAccounting
  BY DEF ArrivalInv
<1> QED
  BY <1>1, ArrivalInvariant, PTL

\* The queue and the counters of the pool stay in their bounds.
THEOREM PoolIsBounded == ArrivalSpec => []ArrivalTypeOK
<1>1. ArrivalInv => ArrivalTypeOK
  BY DEF ArrivalInv
<1> QED
  BY <1>1, ArrivalInvariant, PTL

-----------------------------------------------------------------------------
(* The script driver in the closed model                                   *)

Pc == {"idle", "build", "begin", "call", "steps", "clear", "stop"}
Result == [of : Gor \X Nat, ok : BOOLEAN]
Goroutine == [pc : Pc, rt : Nat, todo : Seq(Nat), ran : Nat, ok : BOOLEAN,
              timeout : BOOLEAN, n : Nat]
Runtime == [id : Gor, interrupt : BOOLEAN, setups : 0..1, results : Seq(Result)]

\* Every variable in its type.
Typed ==
    /\ gor \in [Gor -> Goroutine]
    /\ rtOf \in [{0} \cup Gor -> Nat]
    /\ rts \in Seq(Runtime)
    /\ budget \in [Gor -> Nat]
    /\ fires \in Nat /\ hits \in Nat
    /\ report \in [Gor -> Seq(Result)]

\* A runtime belongs to the goroutine whose VU id it was built for, which has no
\* other.
Belongs ==
    /\ \A i \in 1..Len(rts) : rtOf[rts[i].id] = i
    /\ \A g \in Gor : rtOf[g] # 0 => rtOf[g] \in 1..Len(rts) /\ rts[rtOf[g]].id = g

\* Results of an iteration.
Own(g, n, res) == \A i \in 1..Len(res) : res[i].of = <<g, n>>

\* A transaction, the last result, has failed if one of its steps has.
Honest(c, res) ==
    ~c.timeout /\ c.ran > 1 /\ Mode = "sequence" /\ Len(res) > Work
        => (res[Len(res)].ok => \A i \in Len(res) - Work..Len(res) : res[i].ok)

\* In the midst of a sequence: the steps that are left are the last ones, and those
\* of the workload that were run gave the last results.
Midway(c, res) ==
    LET left == Len(c.todo)
    IN  /\ left <= Setup + Work
        /\ \A j \in 1..left : c.todo[j] = ((Setup + Work) - left) + j
        /\ c.ran = IF left < Work THEN Work - left ELSE 0
        /\ c.ran <= Len(res)
        /\ c.ok => \A i \in (Len(res) - c.ran) + 1..Len(res) : res[i].ok

\* A goroutine c with its runtime k, the results in it, its timer b and what it
\* returned last.
Sound(g, c, k, res, b, rep) ==
    /\ c.pc = "build" => k = 0
    /\ c.pc \notin {"idle", "build"} => k # 0 /\ c.rt = k
    /\ b # 0 => b = k
    /\ k = 0 => c.ran = 0
    /\ c.pc = "call" => res = <<>> /\ c.ran = 0
    /\ c.pc \in {"call", "steps", "clear", "stop"} => Own(g, c.n, res)
    /\ c.pc = "steps" /\ Mode = "sequence" => Midway(c, res)
    /\ c.pc \in {"clear", "stop"} => Honest(c, res)
    /\ c.pc = "idle" => Honest(c, rep)
    /\ c.pc = "idle" /\ c.n > 0 => rep # <<>> /\ Own(g, c.n, rep)

resultsOf(g) == IF rtOf[g] = 0 THEN <<>> ELSE rts[rtOf[g]].results
Iteration(g) == Sound(g, gor[g], rtOf[g], resultsOf(g), budget[g], report[g])

\* Runtimes whose interrupt is up and has not yet ended a call.
raised(c, x) == x.interrupt /\ ~(c.pc = "clear" /\ c.timeout)
Pending == {i \in 1..Len(rts) : raised(gor[rts[i].id], rts[i])}

\* Each of them, and each interruption so far, has a timer of its own that fired.
TimersCounted == hits + Cardinality(Pending) <= fires

ScriptInv ==
    /\ Typed
    /\ Belongs
    /\ \A g \in Gor : Iteration(g)
    /\ TimersCounted

-----------------------------------------------------------------------------
(* Goroutines and runtimes                                                 *)

\* In the closed model every goroutine has a VU id of its own.
LEMMA OwnId ==
    ASSUME ~OpenModel, NEW g \in Gor
    PROVE  vuID(g) = g /\ g # 0 /\ g \in Nat
BY ScriptAssumption DEF vuID

\* What goes makes of a goroutine.
Name == {"pc", "rt", "todo", "ran", "ok", "timeout", "n"}
With(c, fields) == [f \in DOMAIN c |-> IF f \in DOMAIN fields THEN fields[f] ELSE c[f]]

\* The fields that are given are replaced.
LEMMA WithIs ==
    ASSUME NEW c \in Goroutine, NEW fields, DOMAIN fields \subseteq Name
    PROVE  \A f \in Name : With(c, fields)[f] = IF f \in DOMAIN fields THEN fields[f] ELSE c[f]
<1>1. DOMAIN c = Name
  BY DEF Goroutine, Name
<1> QED
  BY <1>1 DEF With

\* It is a goroutine if the new fields are in their types.
LEMMA WithIn ==
    ASSUME NEW c \in Goroutine, NEW fields, DOMAIN fields \subseteq Name,
       LET d == With(c, fields)
       IN  /\ d.pc \in Pc /\ d.rt \in Nat /\ d.todo \in Seq(Nat) /\ d.ran \in Nat
           /\ d.ok \in BOOLEAN /\ d.timeout \in BOOLEAN /\ d.n \in Nat
    PROVE  With(c, fields) \in Goroutine
<1>1. DOMAIN c = Name
  BY DEF Goroutine, Name
<1> DEFINE d == With(c, fields)
<1>2. d = [pc |-> d.pc, rt |-> d.rt, todo |-> d.todo, ran |-> d.ran, ok |-> d.ok,
           timeout |-> d.timeout, n |-> d.n]
  BY <1>1 DEF With, Name
<1> HIDE DEF d
<1> QED
  BY <1>2 DEF Goroutine, d

\* Facts that every step starts from.
LEMMA Facts ==
    ASSUME ScriptInv, NEW g \in Gor
    PROVE  /\ gor[g] \in Goroutine /\ rtOf[g] \in Nat /\ budget[g] \in Nat
           /\ report[g] \in Seq(Result)
           /\ gor = [gor EXCEPT ![g] = gor[g]]
           /\ budget = [budget EXCEPT ![g] = budget[g]]
           /\ report = [report EXCEPT ![g] = report[g]]
           /\ rtOf[g] # 0 => /\ rtOf[g] \in 1..Len(rts)
                             /\ rts[rtOf[g]] \in Runtime
                             /\ rts[rtOf[g]].id = g
                             /\ rts = [rts EXCEPT ![rtOf[g]] = rts[rtOf[g]]]
           /\ Sound(g, gor[g], rtOf[g], resultsOf(g), budget[g], report[g])
<1>1. Typed /\ Belongs /\ Iteration(g)
  BY DEF ScriptInv
<1>2. /\ gor[g] \in Goroutine /\ rtOf[g] \in Nat /\ budget[g] \in Nat
      /\ report[g] \in Seq(Result)
  BY <1>1 DEF Typed
<1>3. /\ gor = [gor EXCEPT ![g] = gor[g]]
      /\ budget = [budget EXCEPT ![g] = budget[g]]
      /\ report = [report EXCEPT ![g] = report[g]]
  BY <1>1 DEF Typed
<1>4. ASSUME rtOf[g] # 0
      PROVE  /\ rtOf[g] \in 1..Len(rts) /\ rts[rtOf[g]] \in Runtime /\ rts[rtOf[g]].id = g
             /\ rts = [rts EXCEPT ![rtOf[g]] = rts[rtOf[g]]]
  <2>1. rtOf[g] \in 1..Len(rts) /\ rts[rtOf[g]].id = g
    BY <1>1, <1>4 DEF Belongs
  <2>2. rts \in Seq(Runtime)
    BY <1>1 DEF Typed
  <2> QED
    BY <2>1, <2>2
<1> QED
  BY <1>1, <1>2, <1>3, <1>4 DEF Iteration

\* Runtimes are built for goroutines.
LEMMA Runtimes ==
    ASSUME ScriptInv
    PROVE  \A i \in 1..Len(rts) : rts[i] \in Runtime /\ rts[i].id \in Gor
<1>1. rts \in Seq(Runtime)
  BY DEF ScriptInv, Typed
<1>2. \A i \in 1..Len(rts) : rts[i] \in Runtime
  BY <1>1
<1>3. \A x \in Runtime : x.id \in Gor
  BY DEF Runtime
<1> QED
  BY <1>2, <1>3

\* The pending interrupts are finitely many.
LEMMA PendingFinite ==
    ASSUME ScriptInv
    PROVE  IsFiniteSet(Pending) /\ Cardinality(Pending) \in Nat
<1>1. Len(rts) \in Nat
  BY DEF ScriptInv, Typed
<1>2. IsFiniteSet(1..Len(rts))
  BY <1>1, FS_Interval
<1>3. Pending \subseteq 1..Len(rts)
  BY DEF Pending
<1>4. IsFiniteSet(Pending)
  BY <1>2, <1>3, FS_Subset
<1> QED
  BY <1>4, FS_CardinalityType

\* A step raises at most one interrupt, with a timer, and ends a call only with one.
LEMMA CountKept ==
    ASSUME ScriptInv, NEW k,
           \/ hits' = hits /\ fires' = fires /\ Pending' \subseteq Pending
           \/ hits' = hits /\ fires' = fires + 1 /\ Pending' \subseteq Pending \cup {k}
           \/ hits' = hits + 1 /\ fires' = fires /\ k \in Pending /\ Pending' \subseteq Pending \ {k}
    PROVE  TimersCounted' /\ hits' \in Nat /\ fires' \in Nat
<1>0. hits \in Nat /\ fires \in Nat /\ hits + Cardinality(Pending) <= fires
  BY DEF ScriptInv, Typed, TimersCounted
<1>1. IsFiniteSet(Pending) /\ Cardinality(Pending) \in Nat
  BY PendingFinite
<1>2. ASSUME NEW S, IsFiniteSet(S), NEW T, T \subseteq S
      PROVE  Cardinality(T) \in Nat /\ Cardinality(T) <= Cardinality(S) /\ Cardinality(S) \in Nat
    BY <1>2, FS_Subset, FS_CardinalityType
<1>3. CASE hits' = hits /\ fires' = fires /\ Pending' \subseteq Pending
  <2>1. Cardinality(Pending') \in Nat /\ Cardinality(Pending') <= Cardinality(Pending)
    BY <1>1, <1>2, <1>3
  <2> QED
    BY <1>0, <1>1, <1>3, <2>1 DEF TimersCounted
<1>4. CASE hits' = hits /\ fires' = fires + 1 /\ Pending' \subseteq Pending \cup {k}
  <2>1. /\ IsFiniteSet(Pending \cup {k})
        /\ Cardinality(Pending \cup {k}) <= Cardinality(Pending) + 1
    <3>1. /\ IsFiniteSet(Pending \cup {k})
          /\ Cardinality(Pending \cup {k}) =
               IF k \in Pending THEN Cardinality(Pending) ELSE Cardinality(Pending) + 1
      BY <1>1, FS_AddElement
    <3> QED
      BY <1>1, <3>1
  <2>2. /\ Cardinality(Pending') \in Nat /\ Cardinality(Pending \cup {k}) \in Nat
        /\ Cardinality(Pending') <= Cardinality(Pending \cup {k})
    BY <1>2, <1>4, <2>1
  <2> QED
    BY <1>0, <1>1, <1>4, <2>1, <2>2 DEF TimersCounted
<1>5. CASE hits' = hits + 1 /\ fires' = fires /\ k \in Pending /\ Pending' \subseteq Pending \ {k}
  <2>1. /\ IsFiniteSet(Pending \ {k})
        /\ Cardinality(Pending \ {k}) = Cardinality(Pending) - 1
    BY <1>1, <1>5, FS_RemoveElement
  <2>2. Cardinality(Pending') \in Nat /\ Cardinality(Pending') <= Cardinality(Pending \ {k})
    BY <1>2, <1>5, <2>1
  <2> QED
    BY <1>0, <1>1, <1>5, <2>1, <2>2 DEF TimersCounted
<1> QED
  BY <1>3, <1>4, <1>5

\* Goroutines do not see what the others do.
LEMMA OthersKept ==
    ASSUME ScriptInv, NEW g \in Gor,
           \A h \in Gor \ {g} : /\ gor'[h] = gor[h] /\ rtOf'[h] = rtOf[h]
                                /\ budget'[h] = budget[h] /\ report'[h] = report[h]
                                /\ rtOf[h] # 0 => rts'[rtOf[h]] = rts[rtOf[h]]
    PROVE  \A h \in Gor \ {g} : Iteration(h)'
BY DEF ScriptInv, Iteration, resultsOf

-----------------------------------------------------------------------------
(* Two kinds of steps: of a goroutine in its runtime, and without one      *)

\* In the runtime x of the goroutine.
LEMMA Inside ==
    ASSUME ScriptInv, NEW g \in Gor, rtOf[g] # 0,
           NEW c \in Goroutine, NEW x \in Runtime, x.id = g, NEW b \in Nat,
           NEW rep \in Seq(Result),
           gor' = [gor EXCEPT ![g] = c], rtOf' = rtOf,
           rts' = [rts EXCEPT ![rtOf[g]] = x],
           budget' = [budget EXCEPT ![g] = b], report' = [report EXCEPT ![g] = rep],
           Sound(g, c, rtOf[g], x.results, b, rep),
           \/ /\ hits' = hits /\ fires' = fires
              /\ raised(c, x) => raised(gor[g], rts[rtOf[g]])
           \/ hits' = hits /\ fires' = fires + 1
           \/ /\ hits' = hits + 1 /\ fires' = fires
              /\ raised(gor[g], rts[rtOf[g]]) /\ ~raised(c, x)
    PROVE  ScriptInv'
<1>0. Typed /\ Belongs
  BY DEF ScriptInv
<1>1. PICK k \in 1..Len(rts) : k = rtOf[g]
  BY Facts
<1>2. /\ rts' \in Seq(Runtime) /\ Len(rts') = Len(rts)
      /\ \A i \in 1..Len(rts) : rts'[i] = IF i = k THEN x ELSE rts[i]
  <2>1. rts \in Seq(Runtime)
    BY <1>0 DEF Typed
  <2> QED
    BY <1>1, <2>1
<1>3. \A h \in Gor : /\ gor'[h] = IF h = g THEN c ELSE gor[h]
                     /\ budget'[h] = IF h = g THEN b ELSE budget[h]
                     /\ report'[h] = IF h = g THEN rep ELSE report[h]
  BY <1>0 DEF Typed
<1>4. \A i \in 1..Len(rts) : rts[i].id \in Gor /\ rts'[i].id = rts[i].id
  <2>1. rts[k].id = g
    BY <1>1, Facts
  <2>2. \A i \in 1..Len(rts) : rts[i].id \in Gor
    BY Runtimes
  <2> QED
    BY <1>2, <2>1, <2>2
<1>5. \A i \in 1..Len(rts) : i # k => rts[i].id # g
  BY <1>0, <1>1 DEF Belongs
<1>6. Belongs'
  BY <1>0, <1>2, <1>4 DEF Belongs
<1>7. Iteration(g)'
  <2>1. rtOf'[g] = k /\ rts'[k] = x /\ k # 0
    BY <1>1, <1>2
  <2> QED
    BY <1>1, <1>3, <2>1 DEF Iteration, resultsOf
<1>8. \A h \in Gor \ {g} : Iteration(h)'
  <2>1. \A h \in Gor \ {g} : rtOf[h] # 0 => rtOf[h] \in 1..Len(rts) /\ rtOf[h] # k
    BY <1>0, <1>1, Facts DEF Belongs
  <2>2. \A h \in Gor \ {g} : rtOf[h] # 0 => rts'[rtOf[h]] = rts[rtOf[h]]
    BY <1>2, <2>1
  <2> QED
    BY <1>3, <2>2, OthersKept
<1>9. \A i \in 1..Len(rts) : i # k => (i \in Pending' <=> i \in Pending)
  BY <1>2, <1>3, <1>4, <1>5 DEF Pending
<1>10. /\ k \in Pending <=> raised(gor[g], rts[k])
       /\ k \in Pending' <=> raised(c, x)
       /\ Pending' \subseteq 1..Len(rts)
  <2>1. rts[k].id = g /\ rts'[k] = x /\ gor'[g] = c
    BY <1>1, <1>2, <1>3, Facts
  <2> QED
    BY <1>2, <2>1 DEF Pending
<1>11. \/ hits' = hits /\ fires' = fires /\ Pending' \subseteq Pending
       \/ hits' = hits /\ fires' = fires + 1 /\ Pending' \subseteq Pending \cup {k}
       \/ hits' = hits + 1 /\ fires' = fires /\ k \in Pending /\ Pending' \subseteq Pending \ {k}
  BY <1>1, <1>9, <1>10
<1>12. TimersCounted' /\ hits' \in Nat /\ fires' \in Nat
  BY <1>11, CountKept
<1>13. Typed'
  <2>1. gor' \in [Gor -> Goroutine] /\ budget' \in [Gor -> Nat] /\ report' \in [Gor -> Seq(Result)]
    BY <1>0 DEF Typed
  <2> QED
    BY <1>0, <1>2, <1>12, <2>1 DEF Typed
<1> QED
  BY <1>6, <1>7, <1>8, <1>12, <1>13 DEF ScriptInv

\* Of a goroutine that has no runtime yet.
LEMMA Outside ==
    ASSUME ScriptInv, NEW g \in Gor, rtOf[g] = 0, NEW c \in Goroutine, NEW rep \in Seq(Result),
           gor' = [gor EXCEPT ![g] = c], report' = [report EXCEPT ![g] = rep],
           UNCHANGED <<rtOf, rts, budget, fires, hits>>,
           Sound(g, c, 0, <<>>, budget[g], rep)
    PROVE  ScriptInv'
<1>0. Typed /\ Belongs
  BY DEF ScriptInv
<1>1. \A h \in Gor : /\ gor'[h] = IF h = g THEN c ELSE gor[h]
                     /\ report'[h] = IF h = g THEN rep ELSE report[h]
  BY <1>0 DEF Typed
<1>2. Belongs'
  BY <1>0 DEF Belongs
<1>3. Iteration(g)'
  BY <1>1 DEF Iteration, resultsOf
<1>4. \A h \in Gor \ {g} : Iteration(h)'
  BY <1>1, OthersKept
<1>5. Pending' \subseteq Pending
  <2>1. \A i \in 1..Len(rts) : rts[i].id \in Gor /\ rts[i].id # g
    <3>1. \A i \in 1..Len(rts) : rts[i].id \in Gor
      BY Runtimes
    <3>2. \A i \in 1..Len(rts) : rtOf[rts[i].id] = i
      BY <1>0 DEF Belongs
    <3> QED
      BY <3>1, <3>2
  <2> QED
    BY <1>1, <2>1 DEF Pending
<1>6. TimersCounted' /\ hits' \in Nat /\ fires' \in Nat
  BY <1>5, CountKept
<1>7. Typed'
  <2>1. gor' \in [Gor -> Goroutine] /\ report' \in [Gor -> Seq(Result)]
    BY <1>0 DEF Typed
  <2> QED
    BY <1>0, <1>6, <2>1 DEF Typed
<1> QED
  BY <1>2, <1>3, <1>4, <1>6, <1>7 DEF ScriptInv

-----------------------------------------------------------------------------
(* Each action keeps the invariant                                         *)

\* vuFor: the runtime of the VU id, if there is one.
LEMMA LookupKeeps ==
    ASSUME ScriptInv, ~OpenModel, NEW g \in Gor, Lookup(g)
    PROVE  ScriptInv'
<1> DEFINE c == gor[g]
<1> DEFINE fs == [pc |-> IF rtOf[g] = 0 THEN "build" ELSE "begin", rt |-> rtOf[g], n |-> gor[g].n + 1]
<1> DEFINE d == With(c, fs)
<1>0. /\ c \in Goroutine /\ rtOf[g] \in Nat /\ c.n \in Nat /\ c.pc = "idle"
      /\ Sound(g, c, rtOf[g], resultsOf(g), budget[g], report[g])
  BY Facts DEF Lookup, Goroutine
<1>1. /\ gor' = [gor EXCEPT ![g] = d]
      /\ UNCHANGED <<rtOf, rts, budget, fires, hits, report>>
  BY OwnId DEF Lookup, goes, With
<1>2. DOMAIN fs = {"pc", "rt", "n"}
  OBVIOUS
<1>3. /\ d.pc = (IF rtOf[g] = 0 THEN "build" ELSE "begin") /\ d.rt = rtOf[g] /\ d.n = c.n + 1
      /\ d.todo = c.todo /\ d.ran = c.ran /\ d.ok = c.ok /\ d.timeout = c.timeout
  BY <1>0, <1>2, WithIs DEF Name
<1>4. d \in Goroutine
  <2>1. d.pc \in Pc /\ d.n \in Nat /\ d.rt \in Nat
    BY <1>0, <1>3 DEF Pc
  <2>2. d.todo \in Seq(Nat) /\ d.ran \in Nat /\ d.ok \in BOOLEAN /\ d.timeout \in BOOLEAN
    BY <1>0, <1>3 DEF Goroutine
  <2>3. DOMAIN fs \subseteq Name
    BY <1>2 DEF Name
  <2> HIDE DEF fs
  <2> QED
    BY <1>0, <2>1, <2>2, <2>3, WithIn
<1> HIDE DEF c, d, fs
<1>5. CASE rtOf[g] = 0
  <2>1. Sound(g, d, 0, <<>>, budget[g], report[g])
    BY <1>0, <1>3, <1>5 DEF Sound, Own
  <2> QED
    BY <1>1, <1>4, <1>5, <2>1, Facts, Outside
<1>6. CASE rtOf[g] # 0
  <2>1. Sound(g, d, rtOf[g], rts[rtOf[g]].results, budget[g], report[g])
    BY <1>0, <1>3, <1>6 DEF Sound
  <2>2. raised(d, rts[rtOf[g]]) => raised(gor[g], rts[rtOf[g]])
    BY <1>0 DEF raised, c
  <2>3. /\ budget[g] \in Nat /\ report[g] \in Seq(Result) /\ rts[rtOf[g]] \in Runtime
        /\ rts[rtOf[g]].id = g
        /\ rts' = [rts EXCEPT ![rtOf[g]] = rts[rtOf[g]]]
        /\ budget' = [budget EXCEPT ![g] = budget[g]]
        /\ report' = [report EXCEPT ![g] = report[g]]
    BY <1>1, <1>6, Facts
  <2>4. hits' = hits /\ fires' = fires /\ rtOf' = rtOf
    BY <1>1
  <2> QED
    BY <1>1, <1>4, <1>6, <2>1, <2>2, <2>3, <2>4, Inside
<1> QED
  BY <1>5, <1>6

\* buildVU: a runtime for the VU id, or a failed iteration.
LEMMA BuildKeeps ==
    ASSUME ScriptInv, ~OpenModel, NEW g \in Gor, Build(g)
    PROVE  ScriptInv'
<1> DEFINE c == gor[g]
<1>0. /\ c \in Goroutine /\ c.n \in Nat /\ c.pc = "build" /\ rtOf[g] = 0 /\ c.ran = 0
      /\ Sound(g, c, rtOf[g], resultsOf(g), budget[g], report[g])
      /\ budget[g] = 0
  <2>1. c \in Goroutine /\ Sound(g, c, rtOf[g], resultsOf(g), budget[g], report[g]) /\ c.pc = "build"
    BY Facts DEF Build
  <2> QED
    BY <2>1, Facts DEF Goroutine, Sound
<1>1. Typed /\ Belongs /\ rts \in Seq(Runtime) /\ Len(rts) \in Nat
  BY DEF ScriptInv, Typed
<1>2. CASE /\ rts' = Append(rts, Fresh(vuID(g)))
           /\ rtOf' = [rtOf EXCEPT ![vuID(g)] = Len(rts) + 1]
           /\ goes(g, [pc |-> "begin", rt |-> Len(rts) + 1])
           /\ UNCHANGED <<report, budget, fires, hits>>
  <2> DEFINE k == Len(rts) + 1
  <2> DEFINE x == Fresh(g)
  <2> DEFINE fs == [pc |-> "begin", rt |-> k]
  <2> DEFINE d == With(c, fs)
  <2>0. k \in Nat /\ k # 0
    BY <1>1
  <2>1. /\ gor' = [gor EXCEPT ![g] = d] /\ rts' = Append(rts, x)
        /\ rtOf' = [rtOf EXCEPT ![g] = k]
    BY <1>2, OwnId DEF goes, With
  <2>2. DOMAIN fs = {"pc", "rt"}
    OBVIOUS
  <2> HIDE DEF k
  <2>3. /\ d.pc = "begin" /\ d.rt = k /\ d.n = c.n
        /\ d.todo = c.todo /\ d.ran = c.ran /\ d.ok = c.ok /\ d.timeout = c.timeout
    BY <1>0, <2>2, WithIs DEF Name
  <2>4. d \in Goroutine
    BY <1>0, <2>0, <2>2, <2>3, WithIn DEF Goroutine, Name, Pc
  <2>5. x \in Runtime /\ x.id = g /\ x.interrupt = FALSE /\ x.results = <<>>
    BY DEF Fresh, Runtime
  <2> HIDE DEF c, d, fs, x
  <2>6. /\ rts' \in Seq(Runtime) /\ Len(rts') = k
        /\ \A i \in 1..Len(rts) : rts'[i] = rts[i]
        /\ rts'[k] = x
    BY <1>1, <2>1, <2>5 DEF k
  <2>7. \A h \in Gor : /\ gor'[h] = IF h = g THEN d ELSE gor[h]
                       /\ rtOf'[h] = IF h = g THEN k ELSE rtOf[h]
    BY <1>1, <2>1 DEF Typed
  <2>8. \A i \in 1..k : i = k \/ i \in 1..Len(rts)
    BY <1>1 DEF k
  <2>9. \A i \in 1..Len(rts) : rts[i].id # g /\ rts[i].id \in Gor
    BY <1>0, <1>1, Runtimes DEF Belongs
  <2>10. Belongs'
    <3>1. \A i \in 1..Len(rts') : rtOf'[rts'[i].id] = i
      BY <1>1, <2>5, <2>6, <2>7, <2>8, <2>9 DEF Belongs
    <3>2. ASSUME NEW h \in Gor, rtOf'[h] # 0
          PROVE  rtOf'[h] \in 1..Len(rts') /\ rts'[rtOf'[h]].id = h
      <4>1. CASE h = g
        BY <2>0, <2>5, <2>6, <2>7, <4>1
      <4>2. CASE h # g
        <5>1. rtOf'[h] = rtOf[h] /\ rtOf[h] \in 1..Len(rts) /\ rts[rtOf[h]].id = h
          BY <1>1, <2>7, <3>2, <4>2 DEF Belongs
        <5>2. \A i \in 1..Len(rts) : i \in 1..k
          BY <1>1 DEF k
        <5> QED
          BY <2>6, <5>1, <5>2
      <4> QED
        BY <4>1, <4>2
    <3> QED
      BY <3>1, <3>2 DEF Belongs
  <2>11. Iteration(g)'
    <3>1. Sound(g, d, k, <<>>, 0, report[g])
      BY <1>0, <2>0, <2>3 DEF Sound
    <3>2. rtOf'[g] = k /\ gor'[g] = d /\ budget'[g] = 0 /\ report'[g] = report[g]
          /\ resultsOf(g)' = <<>>
      BY <1>0, <1>2, <2>0, <2>5, <2>6, <2>7 DEF resultsOf
    <3> QED
      BY <3>1, <3>2 DEF Iteration
  <2>12. \A h \in Gor \ {g} : Iteration(h)'
    <3>1. \A h \in Gor : rtOf[h] # 0 => rtOf[h] \in 1..Len(rts)
      BY <1>1 DEF Belongs
    <3> QED
      BY <1>2, <2>6, <2>7, <3>1, OthersKept
  <2>13. Pending' \subseteq Pending
    <3>1. ~raised(gor'[g], x)
      BY <2>5 DEF raised
    <3> QED
      BY <2>5, <2>6, <2>7, <2>8, <2>9, <3>1 DEF Pending
  <2>14. TimersCounted' /\ hits' \in Nat /\ fires' \in Nat
    BY <1>2, <2>13, CountKept
  <2>15. Typed'
    <3>1. gor' \in [Gor -> Goroutine] /\ rtOf' \in [{0} \cup Gor -> Nat]
      BY <1>1, <2>0, <2>1, <2>4 DEF Typed
    <3> QED
      BY <1>1, <1>2, <2>6, <2>14, <3>1 DEF Typed
  <2> QED
    BY <2>10, <2>11, <2>12, <2>14, <2>15 DEF ScriptInv
<1>3. CASE /\ report' = [report EXCEPT ![g] = <<result(g, FALSE)>>]
           /\ goes(g, [pc |-> "idle"])
           /\ UNCHANGED <<rtOf, rts, budget, fires, hits>>
  <2> DEFINE fs == [pc |-> "idle"]
  <2> DEFINE d == With(c, fs)
  <2>1. gor' = [gor EXCEPT ![g] = d]
    BY <1>3 DEF goes, With
  <2>2. DOMAIN fs = {"pc"}
    OBVIOUS
  <2>3. /\ d.pc = "idle" /\ d.rt = c.rt /\ d.n = c.n
        /\ d.todo = c.todo /\ d.ran = c.ran /\ d.ok = c.ok /\ d.timeout = c.timeout
    BY <1>0, <2>2, WithIs DEF Name
  <2>4. d \in Goroutine
    BY <1>0, <2>2, <2>3, WithIn DEF Goroutine, Name, Pc
  <2> DEFINE y == result(g, FALSE)
  <2>5. y \in Result /\ y.of = <<g, c.n>>
    BY <1>0 DEF result, Result
  <2> HIDE DEF c, d, fs, y
  <2>6. /\ <<y>> \in Seq(Result) /\ <<y>> # <<>> /\ Len(<<y>>) = 1 /\ Own(g, d.n, <<y>>)
    BY <2>3, <2>5 DEF Own
  <2>7. Sound(g, d, 0, <<>>, budget[g], <<y>>)
    <3>1. Honest(d, <<y>>)
      BY <1>0, <2>3 DEF Honest
    <3> QED
      BY <1>0, <2>3, <2>6, <3>1 DEF Sound
  <2> QED
    BY <1>0, <1>3, <2>1, <2>4, <2>6, <2>7, Outside DEF y
<1> QED
  BY <1>2, <1>3 DEF Build

\* Steps within a runtime, of a goroutine that leaves the timer and what was returned
\* alone.
LEMMA Within ==
    ASSUME ScriptInv, NEW g \in Gor, rtOf[g] # 0, NEW fs, DOMAIN fs \subseteq Name, goes(g, fs),
           NEW x \in Runtime, x.id = g, rts' = [rts EXCEPT ![rtOf[g]] = x],
           With(gor[g], fs) \in Goroutine,
           Sound(g, With(gor[g], fs), rtOf[g], x.results, budget[g], report[g]),
           \/ /\ hits' = hits
              /\ raised(With(gor[g], fs), x) => raised(gor[g], rts[rtOf[g]])
           \/ /\ hits' = hits + 1
              /\ raised(gor[g], rts[rtOf[g]]) /\ ~raised(With(gor[g], fs), x),
           UNCHANGED <<rtOf, budget, fires, report>>
    PROVE  ScriptInv'
<1>1. gor' = [gor EXCEPT ![g] = With(gor[g], fs)]
  BY DEF goes, With
<1>2. /\ budget[g] \in Nat /\ report[g] \in Seq(Result)
      /\ budget' = [budget EXCEPT ![g] = budget[g]]
      /\ report' = [report EXCEPT ![g] = report[g]]
  BY Facts
<1>3. rtOf' = rtOf /\ fires' = fires
  OBVIOUS
<1> QED
  BY <1>1, <1>2, <1>3, Inside

\* A goroutine in a call, and its runtime.
LEMMA InCall ==
    ASSUME ScriptInv, NEW g \in Gor, gor[g].pc \in {"begin", "call", "steps", "clear", "stop"}
    PROVE  /\ rtOf[g] # 0 /\ gor[g].rt = rtOf[g] /\ rt(g) = rts[rtOf[g]]
           /\ rts[rtOf[g]] \in Runtime /\ rts[rtOf[g]].id = g
           /\ resultsOf(g) = rts[rtOf[g]].results
           /\ rts[rtOf[g]].results \in Seq(Result)
           /\ rts = [rts EXCEPT ![rtOf[g]] = rts[rtOf[g]]]
           /\ gor[g] \in Goroutine
           /\ Sound(g, gor[g], rtOf[g], rts[rtOf[g]].results, budget[g], report[g])
<1>1. /\ Sound(g, gor[g], rtOf[g], resultsOf(g), budget[g], report[g])
      /\ gor[g] \in Goroutine
  BY Facts
<1>2. rtOf[g] # 0 /\ gor[g].rt = rtOf[g]
  BY <1>1 DEF Sound
<1>3. resultsOf(g) = rts[rtOf[g]].results
  BY <1>2 DEF resultsOf
<1>4. /\ rts[rtOf[g]] \in Runtime /\ rts[rtOf[g]].id = g
      /\ rts = [rts EXCEPT ![rtOf[g]] = rts[rtOf[g]]]
  BY <1>2, Facts
<1>5. rts[rtOf[g]].results \in Seq(Result)
  BY <1>4 DEF Runtime
<1> QED
  BY <1>1, <1>2, <1>3, <1>4, <1>5 DEF rt

\* An iteration begins: the results are reset and the timer is started.
LEMMA BeginKeeps ==
    ASSUME ScriptInv, NEW g \in Gor, Begin(g)
    PROVE  ScriptInv'
<1> DEFINE c == gor[g]
<1> DEFINE k == rtOf[g]
<1> DEFINE fs == [pc |-> "call", ran |-> 0, ok |-> TRUE, timeout |-> FALSE]
<1> DEFINE d == With(c, fs)
<1> DEFINE x == [rts[k] EXCEPT !.results = <<>>]
<1>0. /\ k # 0 /\ c.rt = k /\ rts[k] \in Runtime /\ rts[k].id = g /\ c \in Goroutine
      /\ c.pc = "begin" /\ k \in Nat
      /\ Sound(g, c, k, rts[k].results, budget[g], report[g])
      /\ report[g] \in Seq(Result) /\ report = [report EXCEPT ![g] = report[g]]
  BY InCall, Facts DEF Begin
<1>1. /\ gor' = [gor EXCEPT ![g] = d] /\ rts' = [rts EXCEPT ![k] = x]
      /\ budget' = [budget EXCEPT ![g] = k] /\ UNCHANGED <<rtOf, fires, hits, report>>
  BY <1>0 DEF Begin, goes, With
<1>2. DOMAIN fs = {"pc", "ran", "ok", "timeout"}
  OBVIOUS
<1>3. /\ d.pc = "call" /\ d.ran = 0 /\ d.ok = TRUE /\ d.timeout = FALSE
      /\ d.rt = c.rt /\ d.n = c.n /\ d.todo = c.todo
  BY <1>0, <1>2, WithIs DEF Name
<1>4. d \in Goroutine
  <2>1. DOMAIN fs \subseteq Name
    BY <1>2 DEF Name
  <2> HIDE DEF fs
  <2> HIDE DEF d
  <2>2. d.pc \in Pc /\ d.ran \in Nat /\ d.ok \in BOOLEAN /\ d.timeout \in BOOLEAN
    <3>1. d.pc \in Pc
      BY <1>3 DEF Pc
    <3>2. d.ran \in Nat
      BY <1>3
    <3>3. d.ok \in BOOLEAN /\ d.timeout \in BOOLEAN
      BY <1>3, Zenon
    <3> QED
      BY <3>1, <3>2, <3>3
  <2>3. d.rt \in Nat /\ d.todo \in Seq(Nat) /\ d.n \in Nat
    BY <1>0, <1>3 DEF Goroutine
  <2> QED
    BY <1>0, <2>1, <2>2, <2>3, WithIn DEF d
<1>5. x \in Runtime /\ x.id = g /\ x.results = <<>> /\ x.interrupt = rts[k].interrupt
  <2>1. <<>> \in Seq(Result)
    OBVIOUS
  <2>2. PICK e \in Seq(Result) : e = <<>>
    BY <2>1
  <2>3. LET v == [rts[k] EXCEPT !.results = e]
        IN  v \in Runtime /\ v.id = rts[k].id /\ v.results = e /\ v.interrupt = rts[k].interrupt
    BY <1>0 DEF Runtime
  <2> QED
    BY <1>0, <2>2, <2>3
<1> HIDE DEF d, x, fs
<1>6. Sound(g, d, k, x.results, k, report[g])
  BY <1>0, <1>3, <1>5 DEF Sound, Own
<1>7. raised(d, x) => raised(c, rts[k])
  BY <1>0, <1>5 DEF raised
<1>8. hits' = hits /\ fires' = fires /\ rtOf' = rtOf /\ report' = [report EXCEPT ![g] = report[g]]
  BY <1>0, <1>1
<1> QED
  BY <1>0, <1>1, <1>4, <1>5, <1>6, <1>7, <1>8, Inside

\* The timer fires.
LEMMA TimerFiresKeeps ==
    ASSUME ScriptInv, NEW g \in Gor, TimerFires(g)
    PROVE  ScriptInv'
<1> DEFINE c == gor[g]
<1> DEFINE k == rtOf[g]
<1> DEFINE x == [rts[k] EXCEPT !.interrupt = TRUE]
<1>0. /\ c \in Goroutine /\ Sound(g, c, k, resultsOf(g), budget[g], report[g])
      /\ report[g] \in Seq(Result) /\ report = [report EXCEPT ![g] = report[g]]
      /\ gor = [gor EXCEPT ![g] = c]
      /\ budget[g] # 0
  BY Facts DEF TimerFires
<1>1. k # 0 /\ budget[g] = k
  BY <1>0 DEF Sound
<1>2. rts[k] \in Runtime /\ rts[k].id = g /\ resultsOf(g) = rts[k].results
  BY <1>1, Facts DEF resultsOf
<1>3. /\ rts' = [rts EXCEPT ![k] = x] /\ budget' = [budget EXCEPT ![g] = 0]
      /\ fires' = fires + 1 /\ UNCHANGED <<gor, rtOf, hits, report>>
  BY <1>1 DEF TimerFires
<1>4. x \in Runtime /\ x.id = g /\ x.results = rts[k].results
  BY <1>2 DEF Runtime
<1> HIDE DEF x
<1>5. Sound(g, c, k, x.results, 0, report[g])
  BY <1>0, <1>2, <1>4 DEF Sound
<1>6. /\ hits' = hits /\ rtOf' = rtOf /\ report' = [report EXCEPT ![g] = report[g]]
      /\ gor' = [gor EXCEPT ![g] = c]
  BY <1>0, <1>3
<1> QED
  BY <1>0, <1>1, <1>3, <1>4, <1>5, <1>6, Inside

\* A call is ended by an interrupt.
LEMMA InterruptedKeeps ==
    ASSUME ScriptInv, NEW g \in Gor, Interrupted(g)
    PROVE  ScriptInv'
<1> DEFINE c == gor[g]
<1> DEFINE k == rtOf[g]
<1> DEFINE fs == [pc |-> "clear", timeout |-> TRUE]
<1> DEFINE d == With(c, fs)
<1>0. /\ k # 0 /\ c.rt = k /\ rts[k] \in Runtime /\ rts[k].id = g /\ c \in Goroutine
      /\ c.pc \in {"call", "steps"} /\ rts[k].interrupt
      /\ Sound(g, c, k, rts[k].results, budget[g], report[g])
      /\ rts = [rts EXCEPT ![k] = rts[k]]
  BY InCall DEF Interrupted
<1>1. goes(g, fs) /\ hits' = hits + 1 /\ UNCHANGED <<rtOf, budget, fires, report>>
      /\ rts' = [rts EXCEPT ![k] = rts[k]]
  BY <1>0 DEF Interrupted
<1>2. DOMAIN fs = {"pc", "timeout"}
  OBVIOUS
<1>3. /\ d.pc = "clear" /\ d.timeout = TRUE /\ d.ran = c.ran /\ d.ok = c.ok
      /\ d.rt = c.rt /\ d.n = c.n /\ d.todo = c.todo
  BY <1>0, <1>2, WithIs DEF Name
<1>4. d \in Goroutine
  BY <1>0, <1>2, <1>3, WithIn DEF Goroutine, Name, Pc
<1>5. DOMAIN fs \subseteq Name
  BY <1>2 DEF Name
<1>6. Sound(g, d, k, rts[k].results, budget[g], report[g])
  <2> HIDE DEF d, fs
  <2>1. Honest(d, rts[k].results)
    BY <1>3 DEF Honest
  <2> QED
    BY <1>0, <1>3, <2>1 DEF Sound
<1>7. raised(c, rts[k]) /\ ~raised(d, rts[k])
  BY <1>0, <1>3 DEF raised
<1> HIDE DEF fs
<1> QED
  BY <1>0, <1>1, <1>4, <1>5, <1>6, <1>7, Within

\* The interrupt is cleared.
LEMMA ClearKeeps ==
    ASSUME ScriptInv, NEW g \in Gor, ClearInterrupt(g)
    PROVE  ScriptInv'
<1> DEFINE c == gor[g]
<1> DEFINE k == rtOf[g]
<1> DEFINE fs == [pc |-> "stop"]
<1> DEFINE d == With(c, fs)
<1> DEFINE x == [rts[k] EXCEPT !.interrupt = FALSE]
<1>0. /\ k # 0 /\ c.rt = k /\ rts[k] \in Runtime /\ rts[k].id = g /\ c \in Goroutine
      /\ c.pc = "clear"
      /\ Sound(g, c, k, rts[k].results, budget[g], report[g])
  BY InCall DEF ClearInterrupt
<1>1. /\ goes(g, fs) /\ UNCHANGED <<rtOf, budget, fires, hits, report>>
      /\ rts' = [rts EXCEPT ![k] = x]
  BY <1>0 DEF ClearInterrupt
<1>2. DOMAIN fs = {"pc"}
  OBVIOUS
<1>3. /\ d.pc = "stop" /\ d.timeout = c.timeout /\ d.ran = c.ran /\ d.ok = c.ok
      /\ d.rt = c.rt /\ d.n = c.n /\ d.todo = c.todo
  BY <1>0, <1>2, WithIs DEF Name
<1>4. d \in Goroutine
  BY <1>0, <1>2, <1>3, WithIn DEF Goroutine, Name, Pc
<1>5. DOMAIN fs \subseteq Name
  BY <1>2 DEF Name
<1>6. x \in Runtime /\ x.id = g /\ x.results = rts[k].results /\ x.interrupt = FALSE
  BY <1>0 DEF Runtime
<1> HIDE DEF x
<1>7. Sound(g, d, k, x.results, budget[g], report[g])
  <2> HIDE DEF d, fs
  <2>1. Honest(d, x.results)
    BY <1>0, <1>3, <1>6 DEF Sound, Honest
  <2> QED
    BY <1>0, <1>3, <1>6, <2>1 DEF Sound
<1>8. ~raised(d, x)
  BY <1>6 DEF raised
<1> HIDE DEF fs
<1>9. hits' = hits
  BY <1>1
<1> QED
  BY <1>0, <1>1, <1>4, <1>5, <1>6, <1>7, <1>8, <1>9, Within

\* The timer is stopped and the results are returned.
LEMMA ReturnKeeps ==
    ASSUME ScriptInv, NEW g \in Gor, Return(g)
    PROVE  ScriptInv'
<1> DEFINE c == gor[g]
<1> DEFINE k == rtOf[g]
<1> DEFINE fs == [pc |-> "idle"]
<1> DEFINE d == With(c, fs)
<1> DEFINE res == rts[k].results
<1> DEFINE y == result(g, FALSE)
<1> DEFINE rep == IF res # <<>> THEN res ELSE <<y>>
<1>0. /\ k # 0 /\ c.rt = k /\ rts[k] \in Runtime /\ rts[k].id = g /\ c \in Goroutine
      /\ c.pc = "stop" /\ rt(g) = rts[k] /\ res \in Seq(Result) /\ c.n \in Nat
      /\ Sound(g, c, k, res, budget[g], report[g])
      /\ rts = [rts EXCEPT ![k] = rts[k]]
  BY InCall DEF Return, Goroutine
<1>1. /\ gor' = [gor EXCEPT ![g] = d] /\ budget' = [budget EXCEPT ![g] = 0]
      /\ report' = [report EXCEPT ![g] = rep] /\ rts' = [rts EXCEPT ![k] = rts[k]]
      /\ rtOf' = rtOf /\ hits' = hits /\ fires' = fires
  BY <1>0 DEF Return, goes, With
<1>2. DOMAIN fs = {"pc"}
  OBVIOUS
<1>3. /\ d.pc = "idle" /\ d.timeout = c.timeout /\ d.ran = c.ran /\ d.ok = c.ok
      /\ d.rt = c.rt /\ d.n = c.n /\ d.todo = c.todo
  BY <1>0, <1>2, WithIs DEF Name
<1>4. d \in Goroutine
  BY <1>0, <1>2, <1>3, WithIn DEF Goroutine, Name, Pc
<1>5. y \in Result /\ y.of = <<g, c.n>> /\ y.ok = FALSE
  BY <1>0 DEF result, Result
<1> HIDE DEF d, fs, y, res
<1>6. /\ <<y>> \in Seq(Result) /\ <<y>> # <<>> /\ Len(<<y>>) = 1 /\ Own(g, c.n, <<y>>)
  BY <1>5 DEF Own
<1>7. rep \in Seq(Result) /\ rep # <<>> /\ Own(g, d.n, rep)
  BY <1>0, <1>3, <1>6 DEF Sound
<1>8. Honest(d, rep)
  <2>1. CASE res # <<>>
    BY <1>0, <1>3, <2>1 DEF Sound, Honest
  <2>2. CASE res = <<>>
    <3>1. Len(<<y>>) = 1 /\ <<y>>[1] = y
      OBVIOUS
    <3>2. rep[Len(rep)].ok = FALSE
      BY <1>5, <2>2, <3>1
    <3> QED
      BY <3>2 DEF Honest
  <2> QED
    BY <2>1, <2>2
<1> HIDE DEF rep
<1>9. Sound(g, d, k, res, 0, rep)
  BY <1>0, <1>3, <1>7, <1>8 DEF Sound
<1>10. raised(d, rts[k]) => raised(c, rts[k])
  BY <1>0 DEF raised
<1> QED
  BY <1>0, <1>1, <1>4, <1>7, <1>9, <1>10, Inside DEF res

\* The workload of an iteration; in a sequence it is all of the steps, in order.
LEMMA Workloads ==
    ASSUME NEW w \in workloads
    PROVE  /\ w \in Seq(Nat)
           /\ Mode = "sequence" => Len(w) = Work /\ \A j \in 1..Work : w[j] = Setup + j
<1>0. Setup \in Nat /\ Work \in Nat
  BY ScriptAssumption
<1>1. CASE w = [i \in 1..Work |-> Setup + i]
  <2>1. \A i \in 1..Work : Setup + i \in Nat
    BY <1>0
  <2>2. w \in [1..Work -> Nat]
    BY <1>1, <2>1
  <2>3. w \in Seq(Nat) /\ Len(w) = Work
    BY <1>0, <2>2
  <2> QED
    BY <1>1, <2>3
<1>2. CASE Mode = "weighted" /\ \E i \in 1..Work : w = <<Setup + i>>
  <2>1. PICK i \in 1..Work : w = <<Setup + i>>
    BY <1>2
  <2>2. PICK m \in Nat : m = Setup + i
    BY <1>0
  <2> QED
    BY <1>2, <2>1, <2>2
<1> QED
  BY <1>1, <1>2 DEF workloads

\* An iteration enters the scenario: the setup is marked, its steps come first.
LEMMA EnterKeeps ==
    ASSUME ScriptInv, NEW g \in Gor, Enter(g)
    PROVE  ScriptInv'
<1> DEFINE c == gor[g]
<1> DEFINE k == rtOf[g]
<1> DEFINE done == rts[k].setups > 0
<1> DEFINE x == [rts[k] EXCEPT !.setups = IF done THEN @ ELSE @ + 1]
<1> DEFINE first == IF done THEN <<>> ELSE [i \in 1..Setup |-> i]
<1>0. /\ k # 0 /\ c.rt = k /\ rts[k] \in Runtime /\ rts[k].id = g /\ c \in Goroutine
      /\ c.pc = "call" /\ rt(g) = rts[k]
      /\ Sound(g, c, k, rts[k].results, budget[g], report[g])
  BY InCall DEF Enter
<1>1. PICK w \in workloads :
        /\ goes(g, [pc |-> "steps", todo |-> first \o w])
        /\ UNCHANGED <<rtOf, budget, fires, hits, report>>
        /\ rts' = [rts EXCEPT ![k] = x]
  BY <1>0 DEF Enter
<1>2. x \in Runtime /\ x.id = g /\ x.results = rts[k].results /\ x.interrupt = rts[k].interrupt
  <2>1. rts[k].setups \in 0..1
    BY <1>0 DEF Runtime
  <2>2. PICK m \in 0..1 : m = IF done THEN rts[k].setups ELSE rts[k].setups + 1
    BY <2>1
  <2>3. LET v == [rts[k] EXCEPT !.setups = m]
        IN  /\ v \in Runtime /\ v.id = rts[k].id /\ v.results = rts[k].results
            /\ v.interrupt = rts[k].interrupt
    BY <1>0 DEF Runtime
  <2> QED
    BY <1>0, <2>2, <2>3
<1> HIDE DEF x
<1>3. Setup \in Nat /\ Work \in Nat
  BY ScriptAssumption
<1>4. /\ first \in Seq(Nat)
      /\ \/ Len(first) = 0
         \/ Len(first) = Setup /\ \A j \in 1..Setup : first[j] = j
  <2>1. CASE done
    BY <2>1
  <2>2. CASE ~done
    <3>1. [i \in 1..Setup |-> i] \in [1..Setup -> Nat]
      BY <1>3
    <3>2. first = [i \in 1..Setup |-> i]
      BY <2>2
    <3> HIDE DEF first
    <3>3. first \in Seq(Nat) /\ Len(first) = Setup
      BY <1>3, <3>1, <3>2
    <3> QED
      BY <3>2, <3>3
  <2> QED
    BY <2>1, <2>2
<1> HIDE DEF first
<1> DEFINE todo == first \o w
<1>5. /\ w \in Seq(Nat)
      /\ Mode = "sequence" => Len(w) = Work /\ \A j \in 1..Work : w[j] = Setup + j
  BY Workloads
<1>6. /\ todo \in Seq(Nat) /\ Len(todo) = Len(first) + Len(w)
      /\ \A i \in 1..Len(first) + Len(w) :
            todo[i] = IF i <= Len(first) THEN first[i] ELSE w[i - Len(first)]
  BY <1>4, <1>5, ConcatProperties
<1> DEFINE fs == [pc |-> "steps", todo |-> todo]
<1> DEFINE d == With(c, fs)
<1> HIDE DEF todo
<1>7. DOMAIN fs = {"pc", "todo"}
  OBVIOUS
<1>8. /\ d.pc = "steps" /\ d.timeout = c.timeout /\ d.ran = c.ran /\ d.ok = c.ok
      /\ d.rt = c.rt /\ d.n = c.n /\ d.todo = todo
  BY <1>0, <1>7, WithIs DEF Name
<1>9. DOMAIN fs \subseteq Name
  BY <1>7 DEF Name
<1>10. d \in Goroutine
  <2> HIDE DEF fs
  <2>1. d.pc \in Pc
    BY <1>8 DEF Pc
  <2> QED
    BY <1>0, <1>6, <1>8, <1>9, <2>1, WithIn DEF Goroutine
<1>11. goes(g, fs)
  BY <1>1 DEF todo
<1> HIDE DEF fs, d
<1>12. ASSUME Mode = "sequence" PROVE Midway(d, rts[k].results)
  <2>1. c.ran = 0 /\ rts[k].results = <<>>
    BY <1>0 DEF Sound
  <2>2. Len(w) = Work /\ \A j \in 1..Work : w[j] = Setup + j
    BY <1>5, <1>12
  <2>3. CASE Len(first) = 0
    <3>1. Len(todo) = Work /\ \A j \in 1..Work : todo[j] = Setup + j
      BY <1>3, <1>6, <2>2, <2>3
    <3>2. \A j \in 1..Work : ((Setup + Work) - Work) + j = Setup + j
      BY <1>3
    <3> QED
      BY <1>3, <1>8, <2>1, <3>1, <3>2 DEF Midway
  <2>4. CASE Len(first) = Setup /\ \A j \in 1..Setup : first[j] = j
    <3>1. Len(todo) = Setup + Work
      BY <1>6, <2>2, <2>4
    <3>2. \A j \in 1..Setup + Work : todo[j] = j
      BY <1>3, <1>6, <2>2, <2>4
    <3>3. \A j \in 1..Setup + Work : ((Setup + Work) - (Setup + Work)) + j = j
      BY <1>3
    <3>4. ~(Setup + Work < Work) /\ Setup + Work <= Setup + Work
      BY <1>3
    <3> QED
      BY <1>3, <1>8, <2>1, <3>1, <3>2, <3>3, <3>4 DEF Midway
  <2> QED
    BY <1>4, <2>3, <2>4
<1>13. Sound(g, d, k, x.results, budget[g], report[g])
  BY <1>0, <1>2, <1>8, <1>12 DEF Sound
<1>14. raised(d, x) => raised(c, rts[k])
  BY <1>0, <1>2 DEF raised
<1>15. hits' = hits
  BY <1>1
<1> QED
  BY <1>0, <1>1, <1>2, <1>9, <1>10, <1>11, <1>13, <1>14, <1>15, Within DEF d

\* A result is added to those of the iteration.
LEMMA Emitted ==
    ASSUME ScriptInv, NEW g \in Gor, NEW ok \in BOOLEAN,
           gor[g].pc = "steps"
    PROVE  LET res == rts[rtOf[g]].results
               x == [rts[rtOf[g]] EXCEPT !.results = Append(@, result(g, ok))]
           IN  /\ x \in Runtime /\ x.id = g /\ x.interrupt = rts[rtOf[g]].interrupt
               /\ x.results \in Seq(Result) /\ Len(x.results) = Len(res) + 1
               /\ \A i \in 1..Len(res) : x.results[i] = res[i]
               /\ x.results[Len(res) + 1].ok = ok
               /\ Own(g, gor[g].n, x.results)
<1> DEFINE k == rtOf[g]
<1> DEFINE res == rts[k].results
<1> DEFINE y == result(g, ok)
<1>0. /\ rts[k] \in Runtime /\ rts[k].id = g /\ res \in Seq(Result) /\ gor[g].n \in Nat
      /\ Sound(g, gor[g], k, res, budget[g], report[g])
  BY InCall DEF Goroutine
<1>1. y \in Result /\ y.of = <<g, gor[g].n>> /\ y.ok = ok
  BY <1>0 DEF result, Result
<1> HIDE DEF y
<1>2. PICK a \in Seq(Result) : a = Append(res, y)
  <2>1. Append(res, y) \in Seq(Result)
    BY <1>0, <1>1, AppendProperties
  <2> QED
    BY <2>1
<1>3. /\ Len(a) = Len(res) + 1 /\ \A i \in 1..Len(res) : a[i] = res[i]
      /\ a[Len(res) + 1] = y
  BY <1>0, <1>1, <1>2, AppendProperties
<1>4. Own(g, gor[g].n, a)
  <2>1. Own(g, gor[g].n, res)
    BY <1>0 DEF Sound
  <2>2. \A i \in 1..Len(res) + 1 : i \in 1..Len(res) \/ i = Len(res) + 1
    BY <1>0
  <2> QED
    BY <1>1, <1>3, <2>1, <2>2 DEF Own
<1>5. LET v == [rts[k] EXCEPT !.results = a]
      IN  v \in Runtime /\ v.id = rts[k].id /\ v.results = a /\ v.interrupt = rts[k].interrupt
  BY <1>0 DEF Runtime
<1> QED
  BY <1>0, <1>1, <1>2, <1>3, <1>4, <1>5 DEF y

\* A step of the scenario.
LEMMA RunStepKeeps ==
    ASSUME ScriptInv, NEW g \in Gor, NEW ok \in BOOLEAN, RunStep(g, ok)
    PROVE  ScriptInv'
<1> DEFINE c == gor[g]
<1> DEFINE k == rtOf[g]
<1> DEFINE res == rts[k].results
<1> DEFINE x == [rts[k] EXCEPT !.results = Append(@, result(g, ok))]
<1> DEFINE work == Head(c.todo) > Setup
<1> DEFINE fs == [todo |-> Tail(c.todo), ran |-> c.ran + (IF work THEN 1 ELSE 0),
                  ok |-> c.ok /\ (work => ok)]
<1> DEFINE d == With(c, fs)
<1>0. /\ k # 0 /\ c.rt = k /\ rts[k] \in Runtime /\ rts[k].id = g /\ c \in Goroutine
      /\ c.pc = "steps" /\ c.todo # <<>> /\ res \in Seq(Result)
      /\ Sound(g, c, k, res, budget[g], report[g])
      /\ c.todo \in Seq(Nat) /\ c.ran \in Nat /\ c.ok \in BOOLEAN
  BY InCall DEF RunStep, Goroutine
<1>1. /\ goes(g, fs) /\ UNCHANGED <<rtOf, budget, fires, hits, report>>
      /\ rts' = [rts EXCEPT ![k] = x]
  BY <1>0 DEF RunStep, emit
<1>2. /\ x \in Runtime /\ x.id = g /\ x.interrupt = rts[k].interrupt
      /\ x.results \in Seq(Result) /\ Len(x.results) = Len(res) + 1
      /\ \A i \in 1..Len(res) : x.results[i] = res[i]
      /\ x.results[Len(res) + 1].ok = ok
      /\ Own(g, c.n, x.results)
  <2>1. gor[g].pc = "steps"
    BY <1>0
  <2> HIDE DEF fs, d, work
  <2> QED
    BY <2>1, Emitted
<1> HIDE DEF x, work
<1>3. DOMAIN fs = {"todo", "ran", "ok"}
  OBVIOUS
<1>4. /\ d.pc = c.pc /\ d.rt = c.rt /\ d.n = c.n /\ d.timeout = c.timeout
      /\ d.todo = Tail(c.todo) /\ d.ran = c.ran + (IF work THEN 1 ELSE 0)
      /\ d.ok = (c.ok /\ (work => ok))
  <2>1. \A f \in Name : d[f] = IF f \in DOMAIN fs THEN fs[f] ELSE c[f]
    <3>1. DOMAIN fs \subseteq Name
      BY <1>3 DEF Name
    <3> HIDE DEF fs
    <3> QED
      BY <1>0, <3>1, WithIs
  <2>2. fs.todo = Tail(c.todo) /\ fs.ran = c.ran + (IF work THEN 1 ELSE 0)
        /\ fs.ok = (c.ok /\ (work => ok))
    OBVIOUS
  <2> HIDE DEF fs, d
  <2>3. /\ d.pc = c.pc /\ d.rt = c.rt /\ d.n = c.n /\ d.timeout = c.timeout
        /\ d.todo = fs.todo /\ d.ran = fs.ran /\ d.ok = fs.ok
    BY <1>3, <2>1 DEF Name
  <2> QED
    BY <2>2, <2>3, Zenon
<1>5. DOMAIN fs \subseteq Name
  BY <1>3 DEF Name
<1> HIDE DEF fs
<1>6. d \in Goroutine
  <2>1. d.todo \in Seq(Nat)
    BY <1>0, <1>4, HeadTailProperties
  <2>2. d.ran \in Nat
    BY <1>0, <1>4
  <2>3. d.ok \in BOOLEAN
    BY <1>4, Zenon
  <2>4. d.pc \in Pc /\ d.rt \in Nat /\ d.n \in Nat /\ d.timeout \in BOOLEAN
    BY <1>0, <1>4 DEF Goroutine
  <2> QED
    BY <1>0, <1>5, <2>1, <2>2, <2>3, <2>4, WithIn
<1> HIDE DEF d
<1>7. ASSUME Mode = "sequence" PROVE Midway(d, x.results)
  <2> HIDE DEF c, res
  <2>a. PICK left \in Nat : left = Len(c.todo)
    BY <1>0
  <2>0. Setup \in Nat /\ Work \in Nat /\ left # 0 /\ Len(res) \in Nat
    BY <1>0, <2>a, ScriptAssumption
  <2>1. /\ left <= Setup + Work
        /\ \A j \in 1..left : c.todo[j] = ((Setup + Work) - left) + j
        /\ c.ran = IF left < Work THEN Work - left ELSE 0
        /\ c.ran <= Len(res)
        /\ c.ok => \A i \in (Len(res) - c.ran) + 1..Len(res) : res[i].ok
    BY <1>0, <1>7, <2>a DEF Sound, Midway
  <2>2. /\ Len(d.todo) = left - 1
        /\ \A j \in 1..left - 1 : d.todo[j] = c.todo[j + 1]
        /\ Head(c.todo) = c.todo[1]
    <3>1. /\ Len(Tail(c.todo)) = left - 1
          /\ \A j \in 1..Len(Tail(c.todo)) : Tail(c.todo)[j] = c.todo[j + 1]
      BY <1>0, <2>a, HeadTailProperties
    <3>2. Head(c.todo) = c.todo[1]
      BY <1>0
    <3> QED
      BY <1>4, <3>1, <3>2
  <2>3. c.todo[1] = ((Setup + Work) - left) + 1
    BY <2>0, <2>1
  <2>4. work <=> left <= Work
    BY <2>0, <2>2, <2>3 DEF work
  <2>5. \A j \in 1..left - 1 : d.todo[j] = ((Setup + Work) - (left - 1)) + j
    <3>1. \A j \in 1..left - 1 : j + 1 \in 1..left
      BY <2>0
    <3>2. \A j \in 1..left - 1 : d.todo[j] = ((Setup + Work) - left) + (j + 1)
      BY <2>1, <2>2, <3>1
    <3>3. \A j \in 1..left - 1 : ((Setup + Work) - left) + (j + 1) = ((Setup + Work) - (left - 1)) + j
      BY <2>0
    <3> QED
      BY <3>2, <3>3
  <2>6. d.ran = IF left - 1 < Work THEN Work - (left - 1) ELSE 0
    <3>1. CASE work
      BY <1>4, <2>0, <2>1, <2>4, <3>1
    <3>2. CASE ~work
      BY <1>4, <2>0, <2>1, <2>4, <3>2
    <3> QED
      BY <3>1, <3>2
  <2>7. d.ran <= Len(x.results) /\ d.ran \in Nat
    BY <1>0, <1>2, <1>4, <2>0, <2>1
  <2>8. ASSUME d.ok, NEW i \in (Len(x.results) - d.ran) + 1..Len(x.results)
        PROVE  x.results[i].ok
    <3>1. c.ok /\ (work => ok)
      BY <1>4, <2>8
    <3>2. CASE work
      <4>1. (Len(x.results) - d.ran) + 1 = (Len(res) - c.ran) + 1
        <5>1. Len(x.results) = Len(res) + 1
          BY <1>2, <3>2
        <5>2. d.ran = c.ran + 1 /\ c.ran \in Nat
          BY <1>0, <1>4, <3>2
        <5>3. \A a, b \in Nat : ((a + 1) - (b + 1)) + 1 = (a - b) + 1
          OBVIOUS
        <5> QED
          BY <2>0, <5>1, <5>2, <5>3
      <4>2. CASE i = Len(res) + 1
        BY <1>2, <3>1, <3>2, <4>2
      <4>3. CASE i # Len(res) + 1
        <5>1. i \in (Len(res) - c.ran) + 1..Len(res) /\ i \in 1..Len(res)
          BY <1>0, <1>2, <2>0, <2>1, <4>1, <4>3
        <5> QED
          BY <1>2, <2>1, <3>1, <5>1
      <4> QED
        BY <4>2, <4>3
    <3>3. CASE ~work
      <4>1. d.ran = 0
        BY <1>4, <2>0, <2>1, <2>4, <3>3
      <4> QED
        BY <1>2, <2>0, <4>1
    <3> QED
      BY <3>2, <3>3
  <2>9. left - 1 <= Setup + Work
    BY <2>0, <2>1
  <2> QED
    BY <2>2, <2>5, <2>6, <2>7, <2>8, <2>9 DEF Midway
<1>8. Sound(g, d, k, x.results, budget[g], report[g])
  BY <1>0, <1>2, <1>4, <1>7 DEF Sound
<1>9. raised(d, x) => raised(c, rts[k])
  BY <1>0, <1>2, <1>4 DEF raised
<1>10. hits' = hits
  BY <1>1
<1> QED
  BY <1>0, <1>1, <1>2, <1>5, <1>6, <1>8, <1>9, <1>10, Within DEF d

\* The end of an iteration, with the result of the transaction.
LEMMA EndIterationKeeps ==
    ASSUME ScriptInv, NEW g \in Gor, EndIteration(g)
    PROVE  ScriptInv'
<1> DEFINE c == gor[g]
<1> DEFINE k == rtOf[g]
<1> DEFINE res == rts[k].results
<1> DEFINE fs == [pc |-> "clear"]
<1> DEFINE d == With(c, fs)
<1> DEFINE total == Mode = "sequence" /\ c.ran > 1
<1> DEFINE x == IF total THEN [rts[k] EXCEPT !.results = Append(@, result(g, c.ok))] ELSE rts[k]
<1>0. /\ k # 0 /\ c.rt = k /\ rts[k] \in Runtime /\ rts[k].id = g /\ c \in Goroutine
      /\ c.pc = "steps" /\ c.todo = <<>> /\ res \in Seq(Result) /\ Len(res) \in Nat
      /\ Sound(g, c, k, res, budget[g], report[g])
      /\ rts = [rts EXCEPT ![k] = rts[k]] /\ c.ran \in Nat /\ c.ok \in BOOLEAN
      /\ ~rts[k].interrupt
  BY InCall DEF EndIteration, Goroutine
<1>1. /\ goes(g, fs) /\ UNCHANGED <<rtOf, budget, fires, hits, report>>
      /\ rts' = [rts EXCEPT ![k] = x]
  BY <1>0 DEF EndIteration, emit
<1>2. DOMAIN fs = {"pc"}
  OBVIOUS
<1>3. /\ d.pc = "clear" /\ d.timeout = c.timeout /\ d.ran = c.ran /\ d.ok = c.ok
      /\ d.rt = c.rt /\ d.n = c.n /\ d.todo = c.todo
  BY <1>0, <1>2, WithIs DEF Name
<1>4. d \in Goroutine
  BY <1>0, <1>2, <1>3, WithIn DEF Goroutine, Name, Pc
<1>5. DOMAIN fs \subseteq Name
  BY <1>2 DEF Name
<1> HIDE DEF fs, d
<1>6. CASE ~total
  <2>1. x = rts[k]
    BY <1>6
  <2>2. Honest(d, res)
    BY <1>3, <1>6 DEF Honest
  <2>3. Sound(g, d, k, res, budget[g], report[g])
    BY <1>0, <1>3, <2>2 DEF Sound
  <2>4. ~raised(d, rts[k]) /\ hits' = hits
    BY <1>0, <1>1 DEF raised
  <2> QED
    BY <1>0, <1>1, <1>4, <1>5, <2>1, <2>3, <2>4, Within DEF d
<1>7. CASE total
  <2>1. /\ x \in Runtime /\ x.id = g /\ x.interrupt = rts[k].interrupt
        /\ x.results \in Seq(Result) /\ Len(x.results) = Len(res) + 1
        /\ \A i \in 1..Len(res) : x.results[i] = res[i]
        /\ x.results[Len(res) + 1].ok = c.ok
        /\ Own(g, c.n, x.results)
    BY <1>0, <1>7, Emitted
  <2> HIDE DEF x
  <2>2. /\ c.ran = Work /\ c.ran <= Len(res) /\ Work \in Nat
        /\ c.ok => \A i \in (Len(res) - c.ran) + 1..Len(res) : res[i].ok
    <3>1. Midway(c, res) /\ Len(c.todo) = 0 /\ Work \in Nat
      BY <1>0, <1>7, ScriptAssumption DEF Sound
    <3> QED
      BY <1>7, <3>1 DEF Midway
  <2>3. ASSUME x.results[Len(x.results)].ok,
               NEW i \in Len(x.results) - Work..Len(x.results)
        PROVE  x.results[i].ok
    <3>1. c.ok
      BY <2>1, <2>3
    <3>2. CASE i = Len(res) + 1
      BY <2>1, <3>1, <3>2
    <3>3. CASE i # Len(res) + 1
      <4>1. i \in (Len(res) - c.ran) + 1..Len(res) /\ i \in 1..Len(res)
        BY <1>0, <2>1, <2>2, <3>3
      <4> QED
        BY <2>1, <2>2, <3>1, <4>1
    <3> QED
      BY <3>2, <3>3
  <2>4. Honest(d, x.results)
    BY <2>3 DEF Honest
  <2>5. Sound(g, d, k, x.results, budget[g], report[g])
    BY <1>0, <1>3, <2>1, <2>4 DEF Sound
  <2>6. ~raised(d, x) /\ hits' = hits
    BY <1>0, <1>1, <2>1 DEF raised
  <2> QED
    BY <1>0, <1>1, <1>4, <1>5, <2>1, <2>5, <2>6, Within DEF d
<1> QED
  BY <1>6, <1>7

-----------------------------------------------------------------------------
(* The invariant holds                                                     *)

\* At the start there are no runtimes.
LEMMA ScriptStart ==
    ASSUME ScriptInit
    PROVE  ScriptInv
<1>1. Idle \in Goroutine /\ Idle.pc = "idle" /\ Idle.n = 0 /\ Idle.ran = 0
  <2>1. <<>> \in Seq(Nat)
    OBVIOUS
  <2>2. "idle" \in Pc
    BY DEF Pc
  <2> QED
    BY <2>1, <2>2 DEF Idle, Goroutine
<1>2. Typed
  <2>1. gor \in [Gor -> Goroutine]
    BY <1>1 DEF ScriptInit
  <2>2. report \in [Gor -> Seq(Result)] /\ rts \in Seq(Runtime)
    BY DEF ScriptInit
  <2>3. rtOf \in [{0} \cup Gor -> Nat] /\ budget \in [Gor -> Nat] /\ fires \in Nat /\ hits \in Nat
    BY DEF ScriptInit
  <2> QED
    BY <2>1, <2>2, <2>3 DEF Typed
<1>3. rts = <<>> /\ Len(rts) = 0 /\ \A g \in Gor : rtOf[g] = 0
  BY DEF ScriptInit
<1>4. Belongs
  BY <1>3 DEF Belongs
<1>5. ASSUME NEW g \in Gor PROVE Iteration(g)
  <2>1. gor[g] = Idle /\ budget[g] = 0 /\ report[g] = <<>>
    BY DEF ScriptInit
  <2>2. Honest(Idle, <<>>)
    BY <1>1 DEF Honest
  <2> QED
    BY <1>1, <1>3, <2>1, <2>2 DEF Iteration, Sound
<1>6. TimersCounted
  <2>1. Pending = {}
    BY <1>3 DEF Pending
  <2>2. Cardinality(Pending) = 0
    BY <2>1, FS_EmptySet
  <2> QED
    BY <2>2 DEF TimersCounted, ScriptInit
<1> QED
  BY <1>2, <1>4, <1>5, <1>6 DEF ScriptInv

\* Every step keeps the invariant.
LEMMA ScriptStep ==
    ASSUME ScriptInv, ~OpenModel, [ScriptNext]_scriptVars
    PROVE  ScriptInv'
<1>1. ASSUME NEW g \in Gor,
             \/ Lookup(g) \/ Build(g) \/ Begin(g) \/ Enter(g)
             \/ \E ok \in BOOLEAN : RunStep(g, ok)
             \/ EndIteration(g) \/ Interrupted(g) \/ ClearInterrupt(g) \/ Return(g)
             \/ TimerFires(g)
      PROVE  ScriptInv'
  BY <1>1, LookupKeeps, BuildKeeps, BeginKeeps, EnterKeeps, RunStepKeeps, EndIterationKeeps,
     InterruptedKeeps, ClearKeeps, ReturnKeeps, TimerFiresKeeps
<1>2. CASE UNCHANGED scriptVars
  <2>1. UNCHANGED <<gor, rtOf, rts, budget, fires, hits, report>>
    BY <1>2 DEF scriptVars
  <2>2. Pending' = Pending
    BY <2>1 DEF Pending
  <2>3. TimersCounted'
    BY <2>1, <2>2 DEF TimersCounted, ScriptInv
  <2>4. Typed' /\ Belongs'
    BY <2>1 DEF Typed, Belongs, ScriptInv
  <2>5. \A g \in Gor : Iteration(g)'
    BY <2>1 DEF Iteration, resultsOf, ScriptInv
  <2> QED
    BY <2>3, <2>4, <2>5 DEF ScriptInv
<1> QED
  BY <1>1, <1>2 DEF ScriptNext

\* Whatever the scenario, in the closed model every goroutine keeps to its own runtime,
\* and what its runtime holds is that of the iteration in progress.
THEOREM ScriptInvariant == ~OpenModel /\ ScriptSpec => []ScriptInv
<1>1. ScriptInit => ScriptInv
  BY ScriptStart
<1>2. ~OpenModel /\ ScriptInv /\ [ScriptNext]_scriptVars => ScriptInv'
  BY ScriptStep
<1>3. CASE ~OpenModel
  <2>1. ScriptInv /\ [ScriptNext]_scriptVars => ScriptInv'
    BY <1>2, <1>3
  <2> QED
    BY <1>1, <2>1, PTL DEF ScriptSpec
<1> QED
  BY <1>3

\* In the closed model no two goroutines are in the same goja runtime, which is not safe
\* for concurrent use: vuFor builds one for each VU id without the lock.
THEOREM RuntimesAreOwned == ~OpenModel /\ ScriptSpec => []RuntimeIsOwned
<1>1. ScriptInv => RuntimeIsOwned
  <2> SUFFICES ASSUME ScriptInv, NEW g \in Gor, NEW h \in Gor, g # h,
                      {gor[g].pc, gor[h].pc} \cap {"idle", "build"} = {}
               PROVE  gor[g].rt # gor[h].rt
    BY DEF RuntimeIsOwned
  <2>1. /\ gor[g].pc \notin {"idle", "build"} /\ gor[h].pc \notin {"idle", "build"}
    OBVIOUS
  <2>2. /\ rtOf[g] # 0 /\ gor[g].rt = rtOf[g]
        /\ rtOf[h] # 0 /\ gor[h].rt = rtOf[h]
    BY <2>1, Facts DEF Sound
  <2>3. rts[rtOf[g]].id = g /\ rts[rtOf[h]].id = h
    BY <2>2, Facts
  <2> QED
    BY <2>2, <2>3
<1> QED
  BY <1>1, ScriptInvariant, PTL

\* In the closed model an iteration answers for itself: it returns its own results, it is
\* interrupted only by a timer that fired, the setup of its VU has run once, and its
\* transaction has failed if one of its steps has.
THEOREM IterationsAnswerForThemselves == ~OpenModel /\ ScriptSpec => []IterationsAreOwn
<1>1. ScriptInv => IterationsAreOwn
  <2> SUFFICES ASSUME ScriptInv PROVE IterationsAreOwn
    OBVIOUS
  <2>1. ASSUME NEW g \in Gor, gor[g].pc = "idle", gor[g].n > 0
        PROVE  /\ report[g] # <<>>
               /\ \A i \in DOMAIN report[g] : report[g][i].of = <<g, gor[g].n>>
    <3>1. report[g] # <<>> /\ Own(g, gor[g].n, report[g]) /\ report[g] \in Seq(Result)
      BY <2>1, Facts DEF Sound
    <3> QED
      BY <3>1 DEF Own
  <2>2. InterruptsAreTimeouts
    <3>1. hits \in Nat /\ fires \in Nat /\ hits + Cardinality(Pending) <= fires
      BY DEF ScriptInv, Typed, TimersCounted
    <3> QED
      BY <3>1, PendingFinite DEF InterruptsAreTimeouts
  <2>3. SetupRunsOnce
    <3>1. rts \in Seq(Runtime) /\ DOMAIN rts = 1..Len(rts)
      BY DEF ScriptInv, Typed
    <3>2. \A y \in Runtime : y.setups <= 1
      BY DEF Runtime
    <3>3. \A i \in 1..Len(rts) : rtOf[rts[i].id] = i
      BY DEF ScriptInv, Belongs
    <3>4. \A i \in 1..Len(rts) : rts[i].setups <= 1
      BY <3>2, Runtimes
    <3> QED
      BY <3>1, <3>3, <3>4 DEF SetupRunsOnce
  <2>4. ASSUME NEW g \in Gor, gor[g].pc = "idle" PROVE Honest(gor[g], report[g])
    BY <2>4, Facts DEF Sound
  <2>5. TransactionsAreHonest
    BY <2>4 DEF TransactionsAreHonest, Honest
  <2> QED
    BY <2>1, <2>2, <2>3, <2>5 DEF IterationsAreOwn, ResultsAreOwn
<1> QED
  BY <1>1, ScriptInvariant, PTL

-----------------------------------------------------------------------------
(* The reporter                                                            *)

Message ==
    [kind : {"batch"}, run : RunId, n : Nat] \cup [kind : {"finished"}, run : RunId, drops : Nat]
        \cup [kind : {"beat"}, vus : Nat]
FlushLoop ==
    {Waiting, Gone} \cup [step : {"count"}, n : Nat, vus : 0..1] \cup [step : {"send"}, n : Nat]
AgentState ==
    [step : {"exec", "tally", "finish", "gone"}] \cup [step : {"flush", "finished"}, drops : Nat]
        \cup [step : {"batch"}, drops : Nat, n : Nat]

\* Every variable in its type.
ReporterTypes ==
    /\ rec \in [RunId -> Nat] /\ vus \in [RunId -> 0..1]
    /\ flusher \in [RunId -> FlushLoop] /\ agent \in [RunId -> AgentState]
    /\ activeByRun \in [RunId -> 0..1]
    /\ sendCh \in Seq(Message) /\ Len(sendCh) <= SendCap
    /\ droppedSend \in Nat /\ told \in Nat /\ drops \in Nat /\ untold \in Nat
    /\ got \in [RunId -> Nat] /\ results \in [RunId -> Nat] /\ lost \in [RunId -> Nat]
    /\ late \subseteq RunId
    /\ ticks \in 0..MaxTicks

\* A run that was not late has ended after its flush loop.
LoopsEnd == \A r \in RunId : agent[r] = Gone /\ r \notin late => flusher[r] = Gone

\* The inductive invariant of the reporter.
ReporterInv == ReporterTypes /\ ReportsAreTrue /\ LoopsEnd

\* What a sequence of messages carries, by a weight of each.
weigh(s, w) == SumFunction([i \in 1..Len(s) |-> w[s[i]]])
ofRun(r) == [m \in Message |-> IF m.kind = "batch" /\ m.run = r THEN m.n ELSE 0]
ofDrops == [m \in Message |-> IF m.kind = "finished" THEN m.drops ELSE 0]

LEMMA Weights ==
    /\ \A r \in RunId : ofRun(r) \in [Message -> Nat]
    /\ ofDrops \in [Message -> Nat]
<1>1. \A m \in Message : /\ m.kind = "batch" => m.n \in Nat
                         /\ m.kind = "finished" => m.drops \in Nat
  BY DEF Message
<1> QED
  BY <1>1 DEF ofRun, ofDrops

LEMMA WeighNat ==
    ASSUME NEW s \in Seq(Message), NEW w \in [Message -> Nat]
    PROVE  weigh(s, w) \in Nat
<1> DEFINE N == 1..Len(s)
<1> DEFINE f == [i \in N |-> w[s[i]]]
<1>1. Len(s) \in Nat /\ \A i \in N : s[i] \in Message
  BY LenProperties
<1>2. IsFiniteSet(N) /\ f \in [N -> Nat]
  BY <1>1, Interval
<1> HIDE DEF N, f
<1>3. SumFunction(f) \in Nat
  BY <1>2, SumNat
<1> QED
  BY <1>3 DEF weigh, f, N

LEMMA WeighAppend ==
    ASSUME NEW s \in Seq(Message), NEW w \in [Message -> Nat], NEW m \in Message
    PROVE  weigh(Append(s, m), w) = weigh(s, w) + w[m]
<1>1. PICK n \in Nat : n = Len(s)
  BY LenProperties
<1> DEFINE f == [i \in 1..n |-> w[s[i]]]
<1> DEFINE t == Append(s, m)
<1> DEFINE g == [i \in 1..n + 1 |-> w[t[i]]]
<1>2. /\ Len(t) = n + 1 /\ \A i \in 1..n : t[i] = s[i] /\ s[i] \in Message
      /\ t[n + 1] = m
  BY <1>1, AppendProperties
<1> HIDE DEF t
<1>3. \A i \in 1..n + 1 : i = n + 1 \/ i \in 1..n
  OBVIOUS
<1>4. /\ f \in [1..n -> Int] /\ g \in [1..n + 1 -> Int]
      /\ \A i \in 1..n : g[i] = f[i]
  <2>1. \A i \in 1..n : w[s[i]] \in Int
    BY <1>2
  <2>2. \A i \in 1..n + 1 : w[t[i]] \in Int
    BY <1>2, <1>3
  <2>3. \A i \in 1..n : i \in 1..n + 1
    OBVIOUS
  <2> QED
    BY <1>2, <2>1, <2>2, <2>3
<1>5. g[n + 1] = w[m]
  BY <1>2
<1> HIDE DEF f, g
<1>6. SumFunction(g) = SumFunction(f) + g[n + 1]
  BY <1>4, SumLast
<1>7. weigh(t, w) = SumFunction(g) /\ weigh(s, w) = SumFunction(f)
  BY <1>1, <1>2 DEF weigh, f, g
<1> QED
  BY <1>5, <1>6, <1>7 DEF t

LEMMA WeighTail ==
    ASSUME NEW s \in Seq(Message), NEW w \in [Message -> Nat], s # <<>>
    PROVE  weigh(s, w) = w[Head(s)] + weigh(Tail(s), w)
<1>1. PICK n \in Nat : n + 1 = Len(s)
  <2>1. Len(s) \in Nat /\ Len(s) # 0
    BY EmptySeq, LenProperties
  <2>2. Len(s) - 1 \in Nat /\ (Len(s) - 1) + 1 = Len(s)
    BY <2>1
  <2> QED
    BY <2>2
<1> DEFINE t == Tail(s)
<1> DEFINE f == [i \in 1..n + 1 |-> w[s[i]]]
<1> DEFINE g == [i \in 1..n |-> w[t[i]]]
<1>2. /\ t \in Seq(Message) /\ Len(t) = n /\ \A i \in 1..n : t[i] = s[i + 1]
      /\ Head(s) = s[1]
  BY <1>1, HeadTailProperties
<1>3. \A i \in 1..n + 1 : s[i] \in Message
  BY <1>1, LenProperties
<1>4. f \in [1..n + 1 -> Int] /\ g \in [1..n -> Int] /\ \A i \in 1..n : g[i] = f[i + 1]
  <2>1. \A i \in 1..n : i + 1 \in 1..n + 1 /\ t[i] = s[i + 1]
    BY <1>2
  <2> HIDE DEF t
  <2>2. \A i \in 1..n + 1 : w[s[i]] \in Int
    BY <1>3
  <2>3. \A i \in 1..n : w[t[i]] \in Int
    BY <2>1, <2>2
  <2> QED
    BY <2>1, <2>2, <2>3
<1>5. f[1] = w[s[1]]
  OBVIOUS
<1> HIDE DEF f, g, t
<1>6. SumFunction(f) = f[1] + SumFunction(g)
  BY <1>4, SumFirst
<1>7. weigh(s, w) = SumFunction(f) /\ weigh(t, w) = SumFunction(g)
  BY <1>1, <1>2 DEF weigh, f, g
<1> QED
  BY <1>2, <1>5, <1>6, <1>7 DEF t

\* The counts of the buffer are such weights.
LEMMA Buffered ==
    ASSUME NEW s \in Seq(Message)
    PROVE  /\ SumFunction([i \in DOMAIN s |-> IF s[i].kind = "finished" THEN s[i].drops ELSE 0])
                = weigh(s, ofDrops)
           /\ \A r \in RunId :
                SumFunction([i \in DOMAIN s |-> IF s[i].kind = "batch" /\ s[i].run = r
                                                THEN s[i].n ELSE 0])
                  = weigh(s, ofRun(r))
<1>1. DOMAIN s = 1..Len(s) /\ \A i \in 1..Len(s) : s[i] \in Message
  BY LenProperties
<1>2. [i \in DOMAIN s |-> IF s[i].kind = "finished" THEN s[i].drops ELSE 0]
        = [i \in 1..Len(s) |-> ofDrops[s[i]]]
  BY <1>1 DEF ofDrops
<1>3. ASSUME NEW r \in RunId
      PROVE  [i \in DOMAIN s |-> IF s[i].kind = "batch" /\ s[i].run = r THEN s[i].n ELSE 0]
               = [i \in 1..Len(s) |-> ofRun(r)[s[i]]]
  BY <1>1 DEF ofRun
<1> QED
  BY <1>2, <1>3 DEF weigh

LEMMA BufferCounts ==
    ASSUME sendCh \in Seq(Message)
    PROVE  /\ inFinished = weigh(sendCh, ofDrops) /\ inFinished \in Nat
           /\ \A r \in RunId : inBatches(r) = weigh(sendCh, ofRun(r)) /\ inBatches(r) \in Nat
<1>1. inFinished = weigh(sendCh, ofDrops)
  BY Buffered DEF inFinished
<1>2. ASSUME NEW r \in RunId PROVE inBatches(r) = weigh(sendCh, ofRun(r))
  BY Buffered DEF inBatches
<1>3. weigh(sendCh, ofDrops) \in Nat /\ \A r \in RunId : weigh(sendCh, ofRun(r)) \in Nat
  BY Weights, WeighNat
<1> QED
  BY <1>1, <1>2, <1>3

LEMMA BufferCountsNext ==
    ASSUME sendCh' \in Seq(Message)
    PROVE  /\ inFinished' = weigh(sendCh', ofDrops) /\ inFinished' \in Nat
           /\ \A r \in RunId : inBatches(r)' = weigh(sendCh', ofRun(r)) /\ inBatches(r)' \in Nat
<1>1. inFinished' = weigh(sendCh', ofDrops)
  BY Buffered DEF inFinished
<1>2. ASSUME NEW r \in RunId PROVE inBatches(r)' = weigh(sendCh', ofRun(r))
  BY Buffered DEF inBatches
<1>3. weigh(sendCh', ofDrops) \in Nat /\ \A r \in RunId : weigh(sendCh', ofRun(r)) \in Nat
  BY Weights, WeighNat
<1> QED
  BY <1>1, <1>2, <1>3

\* What enqueue does to the counts: a message is in the buffer or lost.
LEMMA Enqueued ==
    ASSUME ReporterTypes, NEW m \in Message, enqueue(m)
    PROVE  /\ sendCh' \in Seq(Message) /\ Len(sendCh') <= SendCap
           /\ lost' \in [RunId -> Nat]
           /\ droppedSend' \in Nat /\ drops' \in Nat /\ untold' \in Nat
           /\ \A q \in RunId :
                inBatches(q)' + lost'[q] = (inBatches(q) + lost[q]) + ofRun(q)[m]
           /\ ((droppedSend' + inFinished') + untold') + drops
                = (((droppedSend + inFinished) + untold) + ofDrops[m]) + drops'
<1>0. /\ sendCh \in Seq(Message) /\ Len(sendCh) <= SendCap /\ Len(sendCh) \in Nat
      /\ SendCap \in Nat
      /\ lost \in [RunId -> Nat] /\ droppedSend \in Nat /\ drops \in Nat /\ untold \in Nat
  BY ReporterAssumption, LenProperties DEF ReporterTypes
<1>1. /\ inFinished = weigh(sendCh, ofDrops) /\ inFinished \in Nat
      /\ \A r \in RunId : inBatches(r) = weigh(sendCh, ofRun(r)) /\ inBatches(r) \in Nat
  BY <1>0, BufferCounts
<1>2. ofDrops[m] \in Nat /\ \A q \in RunId : ofRun(q)[m] \in Nat
  BY Weights
<1>3. CASE Len(sendCh) < SendCap
  <2>1. sendCh' = Append(sendCh, m) /\ UNCHANGED <<droppedSend, drops, lost, untold>>
    BY <1>3 DEF enqueue
  <2>2. sendCh' \in Seq(Message) /\ Len(sendCh') = Len(sendCh) + 1
    BY <1>0, <2>1, AppendProperties
  <2>3. inFinished' = inFinished + ofDrops[m]
    BY <1>0, <1>1, <2>1, <2>2, BufferCountsNext, Weights, WeighAppend
  <2>4. ASSUME NEW q \in RunId PROVE inBatches(q)' = inBatches(q) + ofRun(q)[m]
    BY <1>0, <1>1, <2>1, <2>2, BufferCountsNext, Weights, WeighAppend
  <2>5. \A q \in RunId : inBatches(q)' + lost'[q] = (inBatches(q) + lost[q]) + ofRun(q)[m]
    <3> TAKE q \in RunId
    <3>1. \A a, b, c \in Nat : (a + b) + c = (a + c) + b
      OBVIOUS
    <3>2. inBatches(q) \in Nat /\ lost[q] \in Nat /\ ofRun(q)[m] \in Nat
      BY <1>0, <1>1, <1>2
    <3> QED
      BY <2>1, <2>4, <3>1, <3>2
  <2>6. ((droppedSend' + inFinished') + untold') + drops
           = (((droppedSend + inFinished) + untold) + ofDrops[m]) + drops'
    <3>0. PICK a \in Nat, b \in Nat, c \in Nat, d \in Nat, e \in Nat :
             a = droppedSend /\ b = inFinished /\ c = untold /\ d = drops /\ e = ofDrops[m]
      BY <1>0, <1>1, <1>2
    <3>1. ((a + (b + e)) + c) + d = (((a + b) + c) + e) + d
      OBVIOUS
    <3>2. droppedSend' = a /\ untold' = c /\ drops' = d /\ inFinished' = b + e
      BY <2>1, <2>3, <3>0
    <3> QED
      BY <3>0, <3>1, <3>2
  <2>7. Len(sendCh') <= SendCap
    BY <1>0, <1>3, <2>2
  <2> QED
    BY <1>0, <2>1, <2>2, <2>5, <2>6, <2>7
<1>4. CASE ~(Len(sendCh) < SendCap)
  <2>1. /\ droppedSend' = droppedSend + 1 /\ drops' = drops + 1 /\ forget(m)
        /\ UNCHANGED sendCh
    BY <1>4 DEF enqueue
  <2>2. inFinished' = inFinished /\ \A q \in RunId : inBatches(q)' = inBatches(q)
    BY <2>1 DEF inFinished, inBatches
  <2>3. untold' = untold + ofDrops[m]
    BY <1>0, <2>1 DEF forget, ofDrops
  <2>4. \A q \in RunId : lost'[q] = lost[q] + ofRun(q)[m]
    <3>1. CASE m.kind = "batch"
      <4>1. lost' = [lost EXCEPT ![m.run] = @ + m.n]
        BY <2>1, <3>1 DEF forget
      <4> QED
        BY <1>0, <3>1, <4>1 DEF ofRun
    <3>2. CASE m.kind # "batch"
      <4>1. lost' = lost
        BY <2>1, <3>2 DEF forget
      <4> QED
        BY <1>0, <3>2, <4>1 DEF ofRun
    <3> QED
      BY <3>1, <3>2
  <2>5. lost' \in [RunId -> Nat]
    <3>1. lost' = [q \in RunId |-> lost'[q]]
      BY <1>0, <2>1 DEF forget
    <3>2. \A q \in RunId : lost'[q] \in Nat
      BY <1>0, <1>2, <2>4
    <3> QED
      BY <3>1, <3>2
  <2>6. \A q \in RunId : inBatches(q)' + lost'[q] = (inBatches(q) + lost[q]) + ofRun(q)[m]
    <3> TAKE q \in RunId
    <3>1. \A a, b, c \in Nat : a + (b + c) = (a + b) + c
      OBVIOUS
    <3>2. inBatches(q) \in Nat /\ lost[q] \in Nat /\ ofRun(q)[m] \in Nat
      BY <1>0, <1>1, <1>2
    <3> QED
      BY <2>2, <2>4, <3>1, <3>2
  <2>7. ((droppedSend' + inFinished') + untold') + drops
           = (((droppedSend + inFinished) + untold) + ofDrops[m]) + drops'
    <3>0. PICK a \in Nat, b \in Nat, c \in Nat, d \in Nat, e \in Nat :
             a = droppedSend /\ b = inFinished /\ c = untold /\ d = drops /\ e = ofDrops[m]
      BY <1>0, <1>1, <1>2
    <3>1. (((a + 1) + b) + (c + e)) + d = (((a + b) + c) + e) + (d + 1)
      OBVIOUS
    <3>2. /\ droppedSend' = a + 1 /\ untold' = c + e /\ drops' = d + 1 /\ inFinished' = b
      BY <2>1, <2>2, <2>3, <3>0
    <3> QED
      BY <3>0, <3>1, <3>2
  <2> QED
    BY <1>0, <1>2, <2>1, <2>3, <2>5, <2>6, <2>7
<1> QED
  BY <1>3, <1>4

\* The results that a run still holds, and the drops that ending runs will tell of.
held(r) == (rec[r] + carried(flusher[r], "n")) + carried(agent[r], "n")
tallied == SumFunction([r \in RunId |-> carried(agent[r], "drops")])

LEMMA CarriedNat ==
    /\ \A x \in FlushLoop : carried(x, "n") \in Nat
    /\ \A x \in AgentState : carried(x, "n") \in Nat /\ carried(x, "drops") \in Nat
BY DEF FlushLoop, AgentState, carried, Waiting, Gone

\* A step of one agent goroutine.
LEMMA AgentMoves ==
    ASSUME ReporterTypes, NEW r \in RunId, NEW a \in AgentState,
           agent' = [agent EXCEPT ![r] = a]
    PROVE  /\ agent' \in [RunId -> AgentState]
           /\ agent'[r] = a /\ \A q \in RunId \ {r} : agent'[q] = agent[q]
           /\ tallied \in Nat /\ tallied' \in Nat
           /\ tallied' + carried(agent[r], "drops") = tallied + carried(a, "drops")
<1> DEFINE f == [q \in RunId |-> carried(agent[q], "drops")]
<1> DEFINE g == [q \in RunId |-> carried(agent'[q], "drops")]
<1>0. IsFiniteSet(RunId) /\ agent \in [RunId -> AgentState]
  BY ReporterAssumption DEF ReporterTypes
<1>1. /\ agent' \in [RunId -> AgentState]
      /\ agent'[r] = a /\ \A q \in RunId \ {r} : agent'[q] = agent[q]
  BY <1>0
<1>2. f \in [RunId -> Nat] /\ g \in [RunId -> Nat]
  BY <1>0, <1>1, CarriedNat
<1>3. /\ f[r] = carried(agent[r], "drops") /\ g[r] = carried(a, "drops")
      /\ \A q \in RunId \ {r} : f[q] = g[q]
  BY <1>1
<1>4. tallied = SumFunction(f) /\ tallied' = SumFunction(g)
  BY DEF tallied
<1> HIDE DEF f, g
<1>5. f \in [RunId -> Int] /\ g \in [RunId -> Int]
  BY <1>2
<1>6. SumFunction(g) = (SumFunction(f) - f[r]) + g[r]
  BY <1>0, <1>3, <1>5, SumChange
<1>7. SumFunction(f) \in Nat /\ SumFunction(g) \in Nat
  BY <1>0, <1>2, SumNat
<1>8. f[r] \in Nat /\ g[r] \in Nat
  BY <1>2
<1>9. SumFunction(g) + f[r] = SumFunction(f) + g[r]
  BY <1>6, <1>7, <1>8
<1> QED
  BY <1>1, <1>3, <1>4, <1>7, <1>9

\* The numbers that the balances are about.
LEMMA Numbers ==
    ASSUME ReporterTypes
    PROVE  /\ tallied \in Nat /\ inFinished \in Nat
           /\ \A q \in RunId : held(q) \in Nat /\ inBatches(q) \in Nat
<1>1. tallied \in Nat
  <2> DEFINE f == [q \in RunId |-> carried(agent[q], "drops")]
  <2>1. f \in [RunId -> Nat] /\ IsFiniteSet(RunId)
    BY CarriedNat, ReporterAssumption DEF ReporterTypes
  <2> HIDE DEF f
  <2> QED
    BY <2>1, SumNat DEF tallied, f
<1>2. \A q \in RunId : held(q) \in Nat
  BY CarriedNat DEF held, ReporterTypes
<1> QED
  BY <1>1, <1>2, BufferCounts DEF ReporterTypes

\* The balances, before and after a step.
LEMMA Balances ==
    ASSUME ReporterTypes, ResultsConserved, DropsAccounted,
           \A q \in RunId :
             /\ held(q)' \in Nat /\ inBatches(q)' \in Nat
             /\ lost'[q] \in Nat /\ got'[q] \in Nat /\ results'[q] \in Nat
             /\ ((held(q)' + (inBatches(q)' + lost'[q])) + got'[q]) + results[q]
                  = ((held(q) + (inBatches(q) + lost[q])) + got[q]) + results'[q],
           /\ droppedSend' \in Nat /\ tallied' \in Nat /\ inFinished' \in Nat
           /\ told' \in Nat /\ untold' \in Nat /\ drops' \in Nat,
           ((((droppedSend' + inFinished') + untold') + tallied') + told') + drops
             = ((((droppedSend + inFinished) + untold) + tallied) + told) + drops'
    PROVE  ResultsConserved' /\ DropsAccounted'
<1>0. /\ droppedSend \in Nat /\ told \in Nat /\ untold \in Nat /\ drops \in Nat
      /\ lost \in [RunId -> Nat] /\ got \in [RunId -> Nat] /\ results \in [RunId -> Nat]
  BY DEF ReporterTypes
<1>1. ResultsConserved'
  <2> SUFFICES ASSUME NEW q \in RunId
               PROVE  results'[q] = ((held(q)' + inBatches(q)') + got'[q]) + lost'[q]
    BY DEF ResultsConserved, held
  <2>1. results[q] = ((held(q) + inBatches(q)) + got[q]) + lost[q]
    BY DEF ResultsConserved, held
  <2>2. PICK h \in Nat, i \in Nat, l \in Nat, g \in Nat, s \in Nat :
           h = held(q) /\ i = inBatches(q) /\ l = lost[q] /\ g = got[q] /\ s = results[q]
    BY <1>0, Numbers
  <2>3. PICK hh \in Nat, ii \in Nat, ll \in Nat, gg \in Nat, ss \in Nat :
           /\ hh = held(q)' /\ ii = inBatches(q)' /\ ll = lost'[q] /\ gg = got'[q]
           /\ ss = results'[q]
    OBVIOUS
  <2>4. s = ((h + i) + g) + l
    BY <2>1, <2>2
  <2>5. ((hh + (ii + ll)) + gg) + s = ((h + (i + l)) + g) + ss
    BY <2>2, <2>3
  <2>6. ss = ((hh + ii) + gg) + ll
    BY <2>4, <2>5
  <2> QED
    BY <2>3, <2>6
<1>2. DropsAccounted'
  <2>1. drops = (((droppedSend + tallied) + inFinished) + told) + untold
    BY DEF DropsAccounted, tallied
  <2>2. PICK a \in Nat, b \in Nat, c \in Nat, d \in Nat, e \in Nat, s \in Nat :
           /\ a = droppedSend /\ b = inFinished /\ c = untold /\ d = tallied /\ e = told
           /\ s = drops
    BY <1>0, Numbers
  <2>3. PICK aa \in Nat, bb \in Nat, cc \in Nat, dd \in Nat, ee \in Nat, ss \in Nat :
           /\ aa = droppedSend' /\ bb = inFinished' /\ cc = untold' /\ dd = tallied'
           /\ ee = told' /\ ss = drops'
    OBVIOUS
  <2>4. s = (((a + d) + b) + e) + c
    BY <2>1, <2>2
  <2>5. ((((aa + bb) + cc) + dd) + ee) + s = ((((a + b) + c) + d) + e) + ss
    BY <2>2, <2>3
  <2>6. ss = (((aa + dd) + bb) + ee) + cc
    BY <2>4, <2>5
  <2> QED
    BY <2>3, <2>6 DEF DropsAccounted, tallied
<1> QED
  BY <1>1, <1>2

LEMMA NumbersNext ==
    ASSUME ReporterTypes'
    PROVE  /\ tallied' \in Nat /\ inFinished' \in Nat
           /\ \A q \in RunId : held(q)' \in Nat /\ inBatches(q)' \in Nat
<1>1. tallied' \in Nat
  <2> DEFINE f == [q \in RunId |-> carried(agent'[q], "drops")]
  <2>1. f \in [RunId -> Nat] /\ IsFiniteSet(RunId)
    BY CarriedNat, ReporterAssumption DEF ReporterTypes
  <2>2. tallied' = SumFunction(f)
    BY DEF tallied
  <2> HIDE DEF f
  <2> QED
    BY <2>1, <2>2, SumNat
<1>2. \A q \in RunId : held(q)' \in Nat
  BY CarriedNat DEF held, ReporterTypes
<1> QED
  BY <1>1, <1>2, BufferCountsNext DEF ReporterTypes

\* A step that moves results and drops within the worker.
LEMMA Moves ==
    ASSUME ReporterInv, ReporterTypes',
           UNCHANGED <<sendCh, drops, lost, untold, got, told>>,
           \A q \in RunId : held(q)' + results[q] = held(q) + results'[q],
           droppedSend' + tallied' = droppedSend + tallied
    PROVE  ResultsConserved' /\ DropsAccounted'
<1>0. ReporterTypes /\ ResultsConserved /\ DropsAccounted
  BY DEF ReporterInv, ReportsAreTrue
<1>1. inFinished' = inFinished /\ \A q \in RunId : inBatches(q)' = inBatches(q)
  BY DEF inFinished, inBatches
<1>2. /\ \A q \in RunId : held(q)' \in Nat /\ inBatches(q)' \in Nat
      /\ tallied' \in Nat /\ inFinished' \in Nat
  BY NumbersNext
<1>3. /\ \A q \in RunId : lost'[q] \in Nat /\ got'[q] \in Nat /\ results'[q] \in Nat
      /\ droppedSend' \in Nat /\ told' \in Nat /\ untold' \in Nat /\ drops' \in Nat
  BY DEF ReporterTypes
<1>4. /\ \A q \in RunId : /\ lost[q] \in Nat /\ got[q] \in Nat /\ results[q] \in Nat
                           /\ held(q) \in Nat /\ inBatches(q) \in Nat
      /\ tallied \in Nat /\ inFinished \in Nat
      /\ droppedSend \in Nat /\ told \in Nat /\ untold \in Nat /\ drops \in Nat
  BY <1>0, Numbers DEF ReporterTypes
<1>5. ASSUME NEW q \in RunId
      PROVE  ((held(q)' + (inBatches(q)' + lost'[q])) + got'[q]) + results[q]
                = ((held(q) + (inBatches(q) + lost[q])) + got[q]) + results'[q]
  <2>0. inBatches(q) + lost[q] \in Nat
    BY <1>4
  <2>1. PICK h \in Nat, hh \in Nat, s \in Nat, ss \in Nat, x \in Nat, y \in Nat :
           /\ h = held(q) /\ hh = held(q)' /\ s = results[q] /\ ss = results'[q]
           /\ x = inBatches(q) + lost[q] /\ y = got[q]
    BY <1>2, <1>3, <1>4, <2>0
  <2>2. inBatches(q)' + lost'[q] = x /\ got'[q] = y /\ hh + s = h + ss
    BY <1>1, <2>1
  <2>3. ((hh + x) + y) + s = ((h + x) + y) + ss
    BY <2>2
  <2> QED
    BY <2>1, <2>2, <2>3
<1>6. ((((droppedSend' + inFinished') + untold') + tallied') + told') + drops
        = ((((droppedSend + inFinished) + untold) + tallied) + told) + drops'
  <2>1. PICK a \in Nat, aa \in Nat, d \in Nat, dd \in Nat, b \in Nat, c \in Nat,
             e \in Nat, s \in Nat :
           /\ a = droppedSend /\ aa = droppedSend' /\ d = tallied /\ dd = tallied'
           /\ b = inFinished /\ c = untold /\ e = told /\ s = drops
    BY <1>2, <1>3, <1>4
  <2>2. /\ inFinished' = b /\ untold' = c /\ told' = e /\ drops' = s /\ aa + dd = a + d
    BY <1>1, <2>1
  <2>3. ((((aa + b) + c) + dd) + e) + s = ((((a + b) + c) + d) + e) + s
    BY <2>2
  <2> QED
    BY <2>1, <2>2, <2>3
<1> HIDE DEF held
<1> QED
  BY <1>0, <1>2, <1>3, <1>5, <1>6, Balances

\* A step that hands a message to the buffer.
LEMMA Hands ==
    ASSUME ReporterInv, ReporterTypes', NEW m \in Message, enqueue(m),
           UNCHANGED <<got, told, results>>,
           \A q \in RunId : held(q)' + ofRun(q)[m] = held(q),
           tallied' + ofDrops[m] = tallied
    PROVE  ResultsConserved' /\ DropsAccounted'
<1>0. ReporterTypes /\ ResultsConserved /\ DropsAccounted
  BY DEF ReporterInv, ReportsAreTrue
<1>1. /\ \A q \in RunId :
            inBatches(q)' + lost'[q] = (inBatches(q) + lost[q]) + ofRun(q)[m]
      /\ ((droppedSend' + inFinished') + untold') + drops
            = (((droppedSend + inFinished) + untold) + ofDrops[m]) + drops'
  BY <1>0, Enqueued
<1>2. /\ \A q \in RunId : held(q)' \in Nat /\ inBatches(q)' \in Nat
      /\ tallied' \in Nat /\ inFinished' \in Nat
  BY NumbersNext
<1>3. /\ \A q \in RunId : lost'[q] \in Nat /\ got'[q] \in Nat /\ results'[q] \in Nat
      /\ droppedSend' \in Nat /\ told' \in Nat /\ untold' \in Nat /\ drops' \in Nat
  BY DEF ReporterTypes
<1>4. /\ \A q \in RunId : /\ lost[q] \in Nat /\ got[q] \in Nat /\ results[q] \in Nat
                           /\ held(q) \in Nat /\ inBatches(q) \in Nat
      /\ tallied \in Nat /\ inFinished \in Nat
      /\ droppedSend \in Nat /\ told \in Nat /\ untold \in Nat /\ drops \in Nat
  BY <1>0, Numbers DEF ReporterTypes
<1>5. ASSUME NEW q \in RunId
      PROVE  ((held(q)' + (inBatches(q)' + lost'[q])) + got'[q]) + results[q]
                = ((held(q) + (inBatches(q) + lost[q])) + got[q]) + results'[q]
  <2>0. /\ inBatches(q) + lost[q] \in Nat /\ inBatches(q)' + lost'[q] \in Nat
        /\ ofRun(q)[m] \in Nat
    BY <1>2, <1>3, <1>4, Weights
  <2>1. PICK hh \in Nat, w \in Nat, x \in Nat, xx \in Nat, y \in Nat, s \in Nat :
           /\ hh = held(q)' /\ w = ofRun(q)[m] /\ x = inBatches(q) + lost[q]
           /\ xx = inBatches(q)' + lost'[q] /\ y = got[q] /\ s = results[q]
    BY <1>2, <1>3, <1>4, <2>0
  <2>2. held(q) = hh + w /\ xx = x + w /\ got'[q] = y /\ results'[q] = s
    BY <1>1, <2>1
  <2>3. ((hh + xx) + y) + s = (((hh + w) + x) + y) + s
    BY <2>2
  <2> QED
    BY <2>1, <2>2, <2>3
<1>6. ((((droppedSend' + inFinished') + untold') + tallied') + told') + drops
        = ((((droppedSend + inFinished) + untold) + tallied) + told) + drops'
  <2>0. /\ (droppedSend + inFinished) + untold \in Nat
        /\ (droppedSend' + inFinished') + untold' \in Nat /\ ofDrops[m] \in Nat
    <3>1. \A a, b, c \in Nat : (a + b) + c \in Nat
      OBVIOUS
    <3> QED
      BY <1>2, <1>3, <1>4, <3>1, Weights
  <2>1. PICK dd \in Nat, w \in Nat, x \in Nat, xx \in Nat, e \in Nat, s \in Nat,
             ss \in Nat :
           /\ dd = tallied' /\ w = ofDrops[m] /\ x = (droppedSend + inFinished) + untold
           /\ xx = (droppedSend' + inFinished') + untold' /\ e = told /\ s = drops
           /\ ss = drops'
    BY <1>2, <1>3, <1>4, <2>0
  <2>2. tallied = dd + w /\ xx + s = (x + w) + ss /\ told' = e
    BY <1>1, <2>1
  <2>3. ((xx + dd) + e) + s = ((x + (dd + w)) + e) + ss
    BY <2>2
  <2> QED
    BY <2>1, <2>2, <2>3
<1> HIDE DEF held
<1> QED
  BY <1>0, <1>2, <1>3, <1>5, <1>6, Balances

\* What a goroutine in a step carries.
LEMMA AgentSteps ==
    ASSUME NEW x \in AgentState
    PROVE  /\ x.step \in {"exec", "tally", "finish", "gone"}
                => carried(x, "n") = 0 /\ carried(x, "drops") = 0
           /\ x.step \in {"flush", "finished"}
                => x.drops \in Nat /\ carried(x, "n") = 0 /\ carried(x, "drops") = x.drops
           /\ x.step = "batch"
                => /\ x.drops \in Nat /\ carried(x, "drops") = x.drops
                   /\ x.n \in Nat /\ carried(x, "n") = x.n
BY DEF AgentState, carried

LEMMA FlushSteps ==
    ASSUME NEW x \in FlushLoop
    PROVE  /\ x.step \in {"wait", "gone"} => carried(x, "n") = 0
           /\ x.step = "count" => x.vus \in 0..1 /\ x.n \in Nat /\ carried(x, "n") = x.n
           /\ x.step = "send" => x.n \in Nat /\ carried(x, "n") = x.n
BY DEF FlushLoop, carried, Waiting, Gone

LEMMA StillEnded ==
    ASSUME ReporterInv, UNCHANGED late,
           \A q \in RunId : /\ agent'[q] = Gone => agent[q] = Gone
                            /\ flusher[q] = Gone => flusher'[q] = Gone
                                                 /\ activeByRun'[q] = activeByRun[q]
    PROVE  EndedRunsHaveNoVUs' /\ LoopsEnd'
BY DEF ReporterInv, ReportsAreTrue, EndedRunsHaveNoVUs, LoopsEnd

LEMMA ResultRecorded ==
    ASSUME ReporterInv, NEW r \in RunId, Record(r)
    PROVE  ReporterInv'
<1>0. ReporterTypes
  BY DEF ReporterInv
<1>1. /\ rec' = [rec EXCEPT ![r] = @ + 1] /\ results' = [results EXCEPT ![r] = @ + 1]
      /\ UNCHANGED <<vus, flusher, agent, activeByRun, sendCh, droppedSend, drops, lost,
                     untold, got, told, late, ticks>>
  BY DEF Record, sendVars
<1>2. ReporterTypes'
  BY <1>0, <1>1 DEF ReporterTypes
<1>3. \A q \in RunId : held(q)' + results[q] = held(q) + results'[q]
  <2> TAKE q \in RunId
  <2>1. CASE q # r
    BY <1>0, <1>1, <2>1 DEF held, ReporterTypes
  <2>2. CASE q = r
    <3>1. PICK a \in Nat, b \in Nat, c \in Nat, d \in Nat :
             /\ a = rec[r] /\ b = carried(flusher[r], "n") /\ c = carried(agent[r], "n")
             /\ d = results[r]
      BY <1>0, CarriedNat DEF ReporterTypes
    <3>2. rec'[r] = a + 1 /\ results'[r] = d + 1
      BY <1>0, <1>1, <3>1 DEF ReporterTypes
    <3>3. (((a + 1) + b) + c) + d = ((a + b) + c) + (d + 1)
      OBVIOUS
    <3> QED
      BY <1>1, <2>2, <3>1, <3>2, <3>3 DEF held
  <2> QED
    BY <2>1, <2>2
<1>4. droppedSend' + tallied' = droppedSend + tallied
  BY <1>1 DEF tallied
<1>5. ResultsConserved' /\ DropsAccounted'
  BY <1>1, <1>2, <1>3, <1>4, Moves
<1>6. EndedRunsHaveNoVUs' /\ LoopsEnd'
  BY <1>1, StillEnded
<1> QED
  BY <1>2, <1>5, <1>6 DEF ReporterInv, ReportsAreTrue

LEMMA VUsSet ==
    ASSUME ReporterInv, NEW r \in RunId, SetActiveVUs(r)
    PROVE  ReporterInv'
<1>0. ReporterTypes
  BY DEF ReporterInv
<1>1. /\ vus' = [vus EXCEPT ![r] = 1 - @]
      /\ UNCHANGED <<rec, flusher, agent, activeByRun, sendCh, droppedSend, drops, lost,
                     untold, got, told, results, late, ticks>>
  BY DEF SetActiveVUs, sendVars
<1>2. ReporterTypes'
  <2>1. \A x \in 0..1 : 1 - x \in 0..1
    OBVIOUS
  <2>2. vus' \in [RunId -> 0..1]
    BY <1>0, <1>1, <2>1 DEF ReporterTypes
  <2> QED
    BY <1>0, <1>1, <2>2 DEF ReporterTypes
<1>3. /\ \A q \in RunId : held(q)' + results[q] = held(q) + results'[q]
      /\ droppedSend' + tallied' = droppedSend + tallied
  BY <1>1 DEF held, tallied
<1>4. ResultsConserved' /\ DropsAccounted'
  BY <1>1, <1>2, <1>3, Moves
<1>5. EndedRunsHaveNoVUs' /\ LoopsEnd'
  BY <1>1, StillEnded
<1> QED
  BY <1>2, <1>4, <1>5 DEF ReporterInv, ReportsAreTrue

LEMMA RunEnds ==
    ASSUME ReporterInv, NEW r \in RunId, EndRun(r)
    PROVE  ReporterInv'
<1> DEFINE a == [step |-> "tally"]
<1>0. ReporterTypes /\ a \in AgentState
  BY DEF ReporterInv, AgentState
<1>1. /\ agent[r].step = "exec" /\ agent' = [agent EXCEPT ![r] = a]
      /\ vus' \in {vus, [vus EXCEPT ![r] = 0]}
      /\ UNCHANGED <<rec, flusher, activeByRun, sendCh, droppedSend, drops, lost,
                     untold, got, told, results, late, ticks>>
  BY DEF EndRun, sendVars
<1>2. agent[r] \in AgentState /\ a.step = "tally"
  BY <1>0 DEF ReporterTypes
<1> HIDE DEF a
<1>3. /\ agent' \in [RunId -> AgentState]
      /\ agent'[r] = a /\ \A q \in RunId \ {r} : agent'[q] = agent[q]
      /\ tallied \in Nat /\ tallied' \in Nat
      /\ tallied' + carried(agent[r], "drops") = tallied + carried(a, "drops")
  BY <1>0, <1>1, AgentMoves
<1>4. vus' \in [RunId -> 0..1]
  <2>1. 0 \in 0..1 /\ vus \in [RunId -> 0..1]
    BY <1>0 DEF ReporterTypes
  <2>2. [vus EXCEPT ![r] = 0] \in [RunId -> 0..1]
    BY <2>1
  <2> QED
    BY <1>1, <2>1, <2>2
<1>5. ReporterTypes'
  BY <1>0, <1>1, <1>3, <1>4 DEF ReporterTypes
<1>6. /\ carried(agent[r], "n") = 0 /\ carried(agent[r], "drops") = 0
      /\ carried(a, "n") = 0 /\ carried(a, "drops") = 0
  BY <1>0, <1>1, <1>2, AgentSteps
<1>7. \A q \in RunId : held(q)' + results[q] = held(q) + results'[q]
  BY <1>1, <1>3, <1>6 DEF held
<1>8. droppedSend' + tallied' = droppedSend + tallied
  BY <1>1, <1>3, <1>6
<1>9. ResultsConserved' /\ DropsAccounted'
  BY <1>1, <1>5, <1>7, <1>8, Moves
<1>10. EndedRunsHaveNoVUs' /\ LoopsEnd'
  BY <1>1, <1>2, <1>3, StillEnded DEF Gone
<1> QED
  BY <1>5, <1>9, <1>10 DEF ReporterInv, ReportsAreTrue

LEMMA DropsTallied ==
    ASSUME ReporterInv, NEW r \in RunId, TallyDrops(r)
    PROVE  ReporterInv'
<1> DEFINE a == [step |-> "flush", drops |-> droppedSend]
<1>0. ReporterTypes /\ droppedSend \in Nat
  BY DEF ReporterInv, ReporterTypes
<1>00. a \in AgentState
  BY <1>0 DEF AgentState
<1>1. /\ agent[r].step = "tally" /\ agent' = [agent EXCEPT ![r] = a] /\ droppedSend' = 0
      /\ UNCHANGED <<rec, vus, flusher, activeByRun, sendCh, drops, lost, untold, got, told,
                     results, late, ticks>>
  BY DEF TallyDrops
<1>2. agent[r] \in AgentState /\ a.step = "flush" /\ a.drops = droppedSend
  BY <1>0 DEF ReporterTypes
<1> HIDE DEF a
<1>3. /\ agent' \in [RunId -> AgentState]
      /\ agent'[r] = a /\ \A q \in RunId \ {r} : agent'[q] = agent[q]
      /\ tallied \in Nat /\ tallied' \in Nat
      /\ tallied' + carried(agent[r], "drops") = tallied + carried(a, "drops")
  BY <1>0, <1>00, <1>1, AgentMoves
<1>5. ReporterTypes'
  BY <1>0, <1>1, <1>3 DEF ReporterTypes
<1>6. /\ carried(agent[r], "n") = 0 /\ carried(agent[r], "drops") = 0
      /\ carried(a, "n") = 0 /\ carried(a, "drops") = droppedSend
  BY <1>00, <1>1, <1>2, AgentSteps
<1>7. \A q \in RunId : held(q)' + results[q] = held(q) + results'[q]
  BY <1>1, <1>3, <1>6 DEF held
<1>8. droppedSend' + tallied' = droppedSend + tallied
  <2>1. tallied' + 0 = tallied + droppedSend /\ droppedSend' = 0
    BY <1>1, <1>3, <1>6
  <2>2. PICK d \in Nat, x \in Nat, y \in Nat : d = droppedSend /\ x = tallied /\ y = tallied'
    BY <1>0, <1>3
  <2>3. y + 0 = x + d
    BY <2>1, <2>2
  <2>4. 0 + y = d + x
    BY <2>3
  <2> QED
    BY <2>1, <2>2, <2>4
<1>9. ResultsConserved' /\ DropsAccounted'
  BY <1>1, <1>5, <1>7, <1>8, Moves
<1>10. EndedRunsHaveNoVUs' /\ LoopsEnd'
  BY <1>1, <1>2, <1>3, StillEnded DEF Gone
<1> QED
  BY <1>5, <1>9, <1>10 DEF ReporterInv, ReportsAreTrue

LEMMA FinalFlushed ==
    ASSUME ReporterInv, NEW r \in RunId, FinalFlush(r)
    PROVE  ReporterInv'
<1> DEFINE a == [step |-> "batch", drops |-> agent[r].drops, n |-> rec[r]]
<1>0. ReporterTypes /\ agent[r] \in AgentState /\ rec[r] \in Nat /\ flusher[r] \in FlushLoop
  BY DEF ReporterInv, ReporterTypes
<1>1. /\ agent[r].step = "flush" /\ agent' = [agent EXCEPT ![r] = a]
      /\ rec' = [rec EXCEPT ![r] = 0]
      /\ UNCHANGED <<vus, flusher, activeByRun, sendCh, droppedSend, drops, lost, untold, got,
                     told, results, late, ticks>>
  BY <1>0 DEF FinalFlush, sendVars, ReporterTypes
<1>2. /\ agent[r].drops \in Nat /\ carried(agent[r], "n") = 0
      /\ carried(agent[r], "drops") = agent[r].drops
  BY <1>0, <1>1, AgentSteps
<1>3. a \in AgentState /\ a.step = "batch" /\ a.drops = agent[r].drops /\ a.n = rec[r]
  BY <1>0, <1>2 DEF AgentState
<1> HIDE DEF a
<1>4. /\ agent' \in [RunId -> AgentState]
      /\ agent'[r] = a /\ \A q \in RunId \ {r} : agent'[q] = agent[q]
      /\ tallied \in Nat /\ tallied' \in Nat
      /\ tallied' + carried(agent[r], "drops") = tallied + carried(a, "drops")
  BY <1>0, <1>1, <1>3, AgentMoves
<1>5. /\ rec' \in [RunId -> Nat] /\ rec'[r] = 0 /\ \A q \in RunId \ {r} : rec'[q] = rec[q]
  BY <1>0, <1>1 DEF ReporterTypes
<1>6. ReporterTypes'
  BY <1>0, <1>1, <1>4, <1>5 DEF ReporterTypes
<1>7. carried(a, "n") = rec[r] /\ carried(a, "drops") = agent[r].drops
  BY <1>3, AgentSteps
<1>8. \A q \in RunId : held(q)' + results[q] = held(q) + results'[q]
  <2> TAKE q \in RunId
  <2>1. CASE q # r
    BY <1>1, <1>4, <1>5, <2>1 DEF held
  <2>2. CASE q = r
    <3>1. PICK x \in Nat, y \in Nat : x = rec[r] /\ y = carried(flusher[r], "n")
      BY <1>0, CarriedNat
    <3>2. (0 + y) + x = (x + y) + 0
      OBVIOUS
    <3>3. /\ held(r)' = (0 + y) + x /\ held(r) = (x + y) + 0
      BY <1>1, <1>2, <1>4, <1>5, <1>7, <3>1 DEF held
    <3> QED
      BY <1>1, <2>2, <3>2, <3>3
  <2> QED
    BY <2>1, <2>2
<1>9. droppedSend' + tallied' = droppedSend + tallied
  <2>1. tallied' = tallied
    BY <1>2, <1>4, <1>7
  <2> QED
    BY <1>1, <2>1
<1>10. ResultsConserved' /\ DropsAccounted'
  BY <1>1, <1>6, <1>8, <1>9, Moves
<1>11. EndedRunsHaveNoVUs' /\ LoopsEnd'
  BY <1>1, <1>3, <1>4, StillEnded DEF Gone
<1> QED
  BY <1>6, <1>10, <1>11 DEF ReporterInv, ReportsAreTrue

LEMMA FinalBatchSent ==
    ASSUME ReporterInv, NEW r \in RunId, SendFinalBatch(r)
    PROVE  ReporterInv'
<1> DEFINE a == [step |-> "finished", drops |-> agent[r].drops]
<1> DEFINE m == [kind |-> "batch", run |-> r, n |-> agent[r].n]
<1>0. ReporterTypes /\ agent[r] \in AgentState /\ rec[r] \in Nat /\ flusher[r] \in FlushLoop
  BY DEF ReporterInv, ReporterTypes
<1>1. /\ agent[r].step = "batch" /\ agent' = [agent EXCEPT ![r] = a] /\ enqueue(m)
      /\ UNCHANGED <<rec, vus, flusher, activeByRun, got, told, results, late, ticks>>
  BY <1>0 DEF SendFinalBatch, ReporterTypes
<1>2. /\ agent[r].drops \in Nat /\ agent[r].n \in Nat
      /\ carried(agent[r], "n") = agent[r].n /\ carried(agent[r], "drops") = agent[r].drops
  BY <1>0, <1>1, AgentSteps
<1>3. /\ a \in AgentState /\ a.step = "finished" /\ a.drops = agent[r].drops
      /\ m \in Message /\ m.kind = "batch" /\ m.run = r /\ m.n = agent[r].n
  BY <1>2 DEF AgentState, Message
<1> HIDE DEF a, m
<1>4. /\ agent' \in [RunId -> AgentState]
      /\ agent'[r] = a /\ \A q \in RunId \ {r} : agent'[q] = agent[q]
      /\ tallied \in Nat /\ tallied' \in Nat
      /\ tallied' + carried(agent[r], "drops") = tallied + carried(a, "drops")
  BY <1>0, <1>1, <1>3, AgentMoves
<1>5. /\ sendCh' \in Seq(Message) /\ Len(sendCh') <= SendCap /\ lost' \in [RunId -> Nat]
      /\ droppedSend' \in Nat /\ drops' \in Nat /\ untold' \in Nat
  BY <1>0, <1>1, <1>3, Enqueued
<1>6. ReporterTypes'
  BY <1>0, <1>1, <1>4, <1>5 DEF ReporterTypes
<1>7. carried(a, "n") = 0 /\ carried(a, "drops") = agent[r].drops
  BY <1>3, AgentSteps
<1>8. \A q \in RunId : held(q)' + ofRun(q)[m] = held(q)
  <2> TAKE q \in RunId
  <2>1. CASE q # r
    <3>1. ofRun(q)[m] = 0 /\ held(q)' = held(q) /\ held(q) \in Nat
      BY <1>0, <1>1, <1>3, <1>4, <2>1, Numbers DEF held, ofRun
    <3> QED
      BY <3>1
  <2>2. CASE q = r
    <3>1. PICK x \in Nat, y \in Nat, z \in Nat :
             x = rec[r] /\ y = carried(flusher[r], "n") /\ z = agent[r].n
      BY <1>0, <1>2, CarriedNat
    <3>2. ((x + y) + 0) + z = (x + y) + z
      OBVIOUS
    <3>3. /\ held(r)' = (x + y) + 0 /\ held(r) = (x + y) + z /\ ofRun(r)[m] = z
      BY <1>1, <1>2, <1>3, <1>4, <1>7, <3>1 DEF held, ofRun
    <3> QED
      BY <2>2, <3>2, <3>3
  <2> QED
    BY <2>1, <2>2
<1>9. tallied' + ofDrops[m] = tallied
  <2>1. ofDrops[m] = 0 /\ tallied' = tallied
    BY <1>2, <1>3, <1>4, <1>7 DEF ofDrops
  <2> QED
    BY <1>4, <2>1
<1>10. ResultsConserved' /\ DropsAccounted'
  BY <1>1, <1>3, <1>6, <1>8, <1>9, Hands
<1>11. EndedRunsHaveNoVUs' /\ LoopsEnd'
  BY <1>1, <1>3, <1>4, StillEnded DEF Gone
<1> QED
  BY <1>6, <1>10, <1>11 DEF ReporterInv, ReportsAreTrue

LEMMA FinishedSent ==
    ASSUME ReporterInv, NEW r \in RunId, SendFinished(r)
    PROVE  ReporterInv'
<1> DEFINE a == [step |-> "finish"]
<1> DEFINE m == [kind |-> "finished", run |-> r, drops |-> agent[r].drops]
<1>0. ReporterTypes /\ agent[r] \in AgentState
  BY DEF ReporterInv, ReporterTypes
<1>1. /\ agent[r].step = "finished" /\ agent' = [agent EXCEPT ![r] = a] /\ enqueue(m)
      /\ UNCHANGED <<rec, vus, flusher, activeByRun, got, told, results, late, ticks>>
  BY DEF SendFinished
<1>2. /\ agent[r].drops \in Nat /\ carried(agent[r], "n") = 0
      /\ carried(agent[r], "drops") = agent[r].drops
  BY <1>0, <1>1, AgentSteps
<1>3. /\ a \in AgentState /\ a.step = "finish"
      /\ m \in Message /\ m.kind = "finished" /\ m.drops = agent[r].drops
  BY <1>2 DEF AgentState, Message
<1> HIDE DEF a, m
<1>4. /\ agent' \in [RunId -> AgentState]
      /\ agent'[r] = a /\ \A q \in RunId \ {r} : agent'[q] = agent[q]
      /\ tallied \in Nat /\ tallied' \in Nat
      /\ tallied' + carried(agent[r], "drops") = tallied + carried(a, "drops")
  BY <1>0, <1>1, <1>3, AgentMoves
<1>5. /\ sendCh' \in Seq(Message) /\ Len(sendCh') <= SendCap /\ lost' \in [RunId -> Nat]
      /\ droppedSend' \in Nat /\ drops' \in Nat /\ untold' \in Nat
  BY <1>0, <1>1, <1>3, Enqueued
<1>6. ReporterTypes'
  BY <1>0, <1>1, <1>4, <1>5 DEF ReporterTypes
<1>7. carried(a, "n") = 0 /\ carried(a, "drops") = 0
  BY <1>3, AgentSteps
<1>8. \A q \in RunId : held(q)' + ofRun(q)[m] = held(q)
  <2> TAKE q \in RunId
  <2>1. ofRun(q)[m] = 0 /\ held(q) \in Nat
    BY <1>0, <1>3, Numbers DEF ofRun
  <2>2. held(q)' = held(q)
    BY <1>1, <1>2, <1>4, <1>7 DEF held
  <2> QED
    BY <2>1, <2>2
<1>9. tallied' + ofDrops[m] = tallied
  <2>1. ofDrops[m] = agent[r].drops
    BY <1>3 DEF ofDrops
  <2> QED
    BY <1>2, <1>4, <1>7, <2>1
<1>10. ResultsConserved' /\ DropsAccounted'
  BY <1>1, <1>3, <1>6, <1>8, <1>9, Hands
<1>11. EndedRunsHaveNoVUs' /\ LoopsEnd'
  BY <1>1, <1>3, <1>4, StillEnded DEF Gone
<1> QED
  BY <1>6, <1>10, <1>11 DEF ReporterInv, ReportsAreTrue

LEMMA RunFinished ==
    ASSUME ReporterInv, NEW r \in RunId, FinishRun(r)
    PROVE  ReporterInv'
<1> DEFINE a == Gone
<1>0. ReporterTypes /\ agent[r] \in AgentState /\ a \in AgentState /\ a.step = "gone"
  BY DEF ReporterInv, ReporterTypes, AgentState, Gone
<1>1. /\ agent[r].step = "finish" /\ agent' = [agent EXCEPT ![r] = a]
      /\ activeByRun' = [activeByRun EXCEPT ![r] = 0]
      /\ late' = IF flusher[r] = Gone THEN late ELSE late \cup {r}
      /\ UNCHANGED <<rec, vus, flusher, sendCh, droppedSend, drops, lost, untold, got, told,
                     results, ticks>>
  BY DEF FinishRun, sendVars
<1> HIDE DEF a
<1>2. /\ agent' \in [RunId -> AgentState]
      /\ agent'[r] = a /\ \A q \in RunId \ {r} : agent'[q] = agent[q]
      /\ tallied \in Nat /\ tallied' \in Nat
      /\ tallied' + carried(agent[r], "drops") = tallied + carried(a, "drops")
  BY <1>0, <1>1, AgentMoves
<1>3. /\ activeByRun' \in [RunId -> 0..1] /\ activeByRun'[r] = 0
      /\ \A q \in RunId \ {r} : activeByRun'[q] = activeByRun[q]
  <2>1. 0 \in 0..1
    OBVIOUS
  <2> QED
    BY <1>0, <1>1, <2>1 DEF ReporterTypes
<1>4. late' \subseteq RunId /\ late \subseteq late' /\ (r \notin late' => flusher[r] = Gone)
  BY <1>0, <1>1 DEF ReporterTypes
<1>5. ReporterTypes'
  BY <1>0, <1>1, <1>2, <1>3, <1>4 DEF ReporterTypes
<1>6. /\ carried(agent[r], "n") = 0 /\ carried(agent[r], "drops") = 0
      /\ carried(a, "n") = 0 /\ carried(a, "drops") = 0
  BY <1>0, <1>1, AgentSteps
<1>7. \A q \in RunId : held(q)' + results[q] = held(q) + results'[q]
  BY <1>1, <1>2, <1>6 DEF held
<1>8. droppedSend' + tallied' = droppedSend + tallied
  BY <1>1, <1>2, <1>6
<1>9. ResultsConserved' /\ DropsAccounted'
  BY <1>1, <1>5, <1>7, <1>8, Moves
<1>10. EndedRunsHaveNoVUs' /\ LoopsEnd'
  BY <1>1, <1>2, <1>3, <1>4 DEF ReporterInv, ReportsAreTrue, EndedRunsHaveNoVUs, LoopsEnd
<1> QED
  BY <1>5, <1>9, <1>10 DEF ReporterInv, ReportsAreTrue

\* A step of one flush loop.
LEMMA LoopMoves ==
    ASSUME ReporterTypes, NEW r \in RunId, NEW f \in FlushLoop,
           flusher' = [flusher EXCEPT ![r] = f]
    PROVE  /\ flusher' \in [RunId -> FlushLoop] /\ flusher'[r] = f
           /\ \A q \in RunId \ {r} : flusher'[q] = flusher[q]
BY DEF ReporterTypes

LEMMA LoopTicked ==
    ASSUME ReporterInv, NEW r \in RunId, FlushTick(r)
    PROVE  ReporterInv'
<1> DEFINE f == [step |-> "count", n |-> rec[r], vus |-> vus[r]]
<1>0. /\ ReporterTypes /\ agent[r] \in AgentState /\ rec[r] \in Nat /\ vus[r] \in 0..1
      /\ flusher[r] \in FlushLoop /\ ticks \in 0..MaxTicks /\ MaxTicks \in Nat
  BY ReporterAssumption DEF ReporterInv, ReporterTypes
<1>1. /\ flusher[r] = Waiting /\ ticks < MaxTicks /\ ticks' = ticks + 1
      /\ flusher' = [flusher EXCEPT ![r] = f] /\ rec' = [rec EXCEPT ![r] = 0]
      /\ UNCHANGED <<vus, agent, activeByRun, sendCh, droppedSend, drops, lost, untold, got,
                     told, results, late>>
  BY DEF FlushTick, sendVars
<1>2. f \in FlushLoop /\ f.step = "count" /\ f.n = rec[r]
  BY <1>0 DEF FlushLoop
<1> HIDE DEF f
<1>3. /\ flusher' \in [RunId -> FlushLoop] /\ flusher'[r] = f
      /\ \A q \in RunId \ {r} : flusher'[q] = flusher[q]
  BY <1>0, <1>1, <1>2, LoopMoves
<1>4. /\ rec' \in [RunId -> Nat] /\ rec'[r] = 0 /\ \A q \in RunId \ {r} : rec'[q] = rec[q]
  BY <1>0, <1>1 DEF ReporterTypes
<1>5. ticks' \in 0..MaxTicks
  BY <1>0, <1>1
<1>6. ReporterTypes'
  BY <1>0, <1>1, <1>3, <1>4, <1>5 DEF ReporterTypes
<1>7. flusher[r].step = "wait" /\ carried(flusher[r], "n") = 0 /\ carried(f, "n") = rec[r]
  BY <1>0, <1>1, <1>2, FlushSteps DEF Waiting
<1>8. \A q \in RunId : held(q)' + results[q] = held(q) + results'[q]
  <2> TAKE q \in RunId
  <2>1. CASE q # r
    BY <1>1, <1>3, <1>4, <2>1 DEF held
  <2>2. CASE q = r
    <3>1. PICK x \in Nat, y \in Nat : x = rec[r] /\ y = carried(agent[r], "n")
      BY <1>0, CarriedNat
    <3>2. (0 + x) + y = (x + 0) + y
      OBVIOUS
    <3>3. /\ held(r)' = (0 + x) + y /\ held(r) = (x + 0) + y
      BY <1>1, <1>3, <1>4, <1>7, <3>1 DEF held
    <3> QED
      BY <1>1, <2>2, <3>2, <3>3
  <2> QED
    BY <2>1, <2>2
<1>9. droppedSend' + tallied' = droppedSend + tallied
  BY <1>1 DEF tallied
<1>10. ResultsConserved' /\ DropsAccounted'
  BY <1>1, <1>6, <1>8, <1>9, Moves
<1>11. EndedRunsHaveNoVUs' /\ LoopsEnd'
  BY <1>1, <1>3, StillEnded DEF Gone, Waiting
<1> QED
  BY <1>6, <1>10, <1>11 DEF ReporterInv, ReportsAreTrue

LEMMA ActiveCounted ==
    ASSUME ReporterInv, NEW r \in RunId, FlushSetActive(r)
    PROVE  ReporterInv'
<1> DEFINE f == [step |-> "send", n |-> flusher[r].n]
<1>0. ReporterTypes /\ flusher[r] \in FlushLoop
  BY DEF ReporterInv, ReporterTypes
<1>1. /\ flusher[r].step = "count" /\ flusher' = [flusher EXCEPT ![r] = f]
      /\ activeByRun' = [activeByRun EXCEPT ![r] = flusher[r].vus]
      /\ UNCHANGED <<rec, vus, agent, sendCh, droppedSend, drops, lost, untold, got, told,
                     results, late, ticks>>
  BY <1>0 DEF FlushSetActive, sendVars, ReporterTypes
<1>2. flusher[r].n \in Nat /\ flusher[r].vus \in 0..1 /\ carried(flusher[r], "n") = flusher[r].n
  BY <1>0, <1>1, FlushSteps
<1>3. f \in FlushLoop /\ f.step = "send" /\ f.n = flusher[r].n
  BY <1>2 DEF FlushLoop
<1> HIDE DEF f
<1>4. /\ flusher' \in [RunId -> FlushLoop] /\ flusher'[r] = f
      /\ \A q \in RunId \ {r} : flusher'[q] = flusher[q]
  BY <1>0, <1>1, <1>3, LoopMoves
<1>5. activeByRun' \in [RunId -> 0..1] /\ \A q \in RunId \ {r} : activeByRun'[q] = activeByRun[q]
  BY <1>0, <1>1, <1>2 DEF ReporterTypes
<1>6. ReporterTypes'
  BY <1>0, <1>1, <1>4, <1>5 DEF ReporterTypes
<1>7. carried(f, "n") = carried(flusher[r], "n")
  BY <1>2, <1>3, FlushSteps
<1>8. /\ \A q \in RunId : held(q)' + results[q] = held(q) + results'[q]
      /\ droppedSend' + tallied' = droppedSend + tallied
  BY <1>1, <1>4, <1>7 DEF held, tallied
<1>9. ResultsConserved' /\ DropsAccounted'
  BY <1>1, <1>6, <1>8, Moves
<1>10. EndedRunsHaveNoVUs' /\ LoopsEnd'
  BY <1>1, <1>4, <1>5, StillEnded DEF Gone
<1> QED
  BY <1>6, <1>9, <1>10 DEF ReporterInv, ReportsAreTrue

LEMMA WindowSent ==
    ASSUME ReporterInv, NEW r \in RunId, FlushSend(r)
    PROVE  ReporterInv'
<1> DEFINE f == Waiting
<1> DEFINE m == [kind |-> "batch", run |-> r, n |-> flusher[r].n]
<1>0. /\ ReporterTypes /\ agent[r] \in AgentState /\ rec[r] \in Nat
      /\ flusher[r] \in FlushLoop /\ f \in FlushLoop /\ f.step = "wait" /\ f # Gone
  BY DEF ReporterInv, ReporterTypes, FlushLoop, Waiting, Gone
<1>1. /\ flusher[r].step = "send" /\ flusher' = [flusher EXCEPT ![r] = f] /\ enqueue(m)
      /\ UNCHANGED <<rec, vus, agent, activeByRun, got, told, results, late, ticks>>
  BY DEF FlushSend
<1>2. flusher[r].n \in Nat /\ carried(flusher[r], "n") = flusher[r].n
  BY <1>0, <1>1, FlushSteps
<1>3. m \in Message /\ m.kind = "batch" /\ m.run = r /\ m.n = flusher[r].n
  BY <1>2 DEF Message
<1> HIDE DEF f, m
<1>4. /\ flusher' \in [RunId -> FlushLoop] /\ flusher'[r] = f
      /\ \A q \in RunId \ {r} : flusher'[q] = flusher[q]
  BY <1>0, <1>1, <1>3, LoopMoves
<1>5. /\ sendCh' \in Seq(Message) /\ Len(sendCh') <= SendCap /\ lost' \in [RunId -> Nat]
      /\ droppedSend' \in Nat /\ drops' \in Nat /\ untold' \in Nat
  BY <1>0, <1>1, <1>3, Enqueued
<1>6. ReporterTypes'
  BY <1>0, <1>1, <1>4, <1>5 DEF ReporterTypes
<1>7. carried(f, "n") = 0
  BY <1>0, FlushSteps
<1>8. \A q \in RunId : held(q)' + ofRun(q)[m] = held(q)
  <2> TAKE q \in RunId
  <2>1. CASE q # r
    <3>1. ofRun(q)[m] = 0 /\ held(q)' = held(q) /\ held(q) \in Nat
      BY <1>0, <1>1, <1>3, <1>4, <2>1, Numbers DEF held, ofRun
    <3> QED
      BY <3>1
  <2>2. CASE q = r
    <3>1. PICK x \in Nat, y \in Nat, z \in Nat :
             x = rec[r] /\ y = carried(agent[r], "n") /\ z = flusher[r].n
      BY <1>0, <1>2, CarriedNat
    <3>2. ((x + 0) + y) + z = (x + z) + y
      OBVIOUS
    <3>3. /\ held(r)' = (x + 0) + y /\ held(r) = (x + z) + y /\ ofRun(r)[m] = z
      BY <1>1, <1>2, <1>3, <1>4, <1>7, <3>1 DEF held, ofRun
    <3> QED
      BY <2>2, <3>2, <3>3
  <2> QED
    BY <2>1, <2>2
<1>9. tallied' + ofDrops[m] = tallied
  <2>1. ofDrops[m] = 0 /\ tallied' = tallied /\ tallied \in Nat
    BY <1>0, <1>1, <1>3, Numbers DEF ofDrops, tallied
  <2> QED
    BY <2>1
<1>10. ResultsConserved' /\ DropsAccounted'
  BY <1>1, <1>3, <1>6, <1>8, <1>9, Hands
<1>11. EndedRunsHaveNoVUs' /\ LoopsEnd'
  BY <1>1, <1>4, StillEnded DEF Gone
<1> QED
  BY <1>6, <1>10, <1>11 DEF ReporterInv, ReportsAreTrue

LEMMA LoopExits ==
    ASSUME ReporterInv, NEW r \in RunId, FlushExit(r)
    PROVE  ReporterInv'
<1> DEFINE f == Gone
<1>0. /\ ReporterTypes /\ flusher[r] \in FlushLoop /\ f \in FlushLoop /\ f.step = "gone"
      /\ f = Gone
  BY DEF ReporterInv, ReporterTypes, FlushLoop, Gone
<1>1. /\ flusher[r] = Waiting /\ flusher' = [flusher EXCEPT ![r] = f]
      /\ UNCHANGED <<rec, vus, agent, activeByRun, sendCh, droppedSend, drops, lost, untold,
                     got, told, results, late, ticks>>
  BY DEF FlushExit, sendVars
<1> HIDE DEF f
<1>2. /\ flusher' \in [RunId -> FlushLoop] /\ flusher'[r] = f
      /\ \A q \in RunId \ {r} : flusher'[q] = flusher[q]
  BY <1>0, <1>1, LoopMoves
<1>3. ReporterTypes'
  BY <1>0, <1>1, <1>2 DEF ReporterTypes
<1>4. carried(f, "n") = carried(flusher[r], "n")
  BY <1>0, <1>1, FlushSteps DEF Waiting
<1>5. /\ \A q \in RunId : held(q)' + results[q] = held(q) + results'[q]
      /\ droppedSend' + tallied' = droppedSend + tallied
  BY <1>1, <1>2, <1>4 DEF held, tallied
<1>6. ResultsConserved' /\ DropsAccounted'
  BY <1>1, <1>3, <1>5, Moves
<1>7. EndedRunsHaveNoVUs' /\ LoopsEnd'
  BY <1>0, <1>1, <1>2, StillEnded
<1> QED
  BY <1>3, <1>6, <1>7 DEF ReporterInv, ReportsAreTrue

LEMMA HeartbeatSent ==
    ASSUME ReporterInv, Heartbeat
    PROVE  ReporterInv'
<1> DEFINE m == [kind |-> "beat", vus |-> SumFunction(activeByRun)]
<1>0. ReporterTypes /\ ticks \in 0..MaxTicks /\ MaxTicks \in Nat
  BY ReporterAssumption DEF ReporterInv, ReporterTypes
<1>1. /\ ticks < MaxTicks /\ ticks' = ticks + 1 /\ enqueue(m)
      /\ UNCHANGED <<rec, vus, flusher, agent, activeByRun, got, told, results, late>>
  BY DEF Heartbeat
<1>2. m \in Message /\ m.kind = "beat"
  <2>1. activeByRun \in [RunId -> Nat] /\ IsFiniteSet(RunId)
    <3>1. \A x \in 0..1 : x \in Nat
      OBVIOUS
    <3> QED
      BY <1>0, <3>1, ReporterAssumption DEF ReporterTypes
  <2>2. SumFunction(activeByRun) \in Nat
    BY <2>1, SumNat
  <2> QED
    BY <2>2 DEF Message
<1> HIDE DEF m
<1>3. /\ sendCh' \in Seq(Message) /\ Len(sendCh') <= SendCap /\ lost' \in [RunId -> Nat]
      /\ droppedSend' \in Nat /\ drops' \in Nat /\ untold' \in Nat
  BY <1>0, <1>1, <1>2, Enqueued
<1>4. ticks' \in 0..MaxTicks
  BY <1>0, <1>1
<1>5. ReporterTypes'
  BY <1>0, <1>1, <1>3, <1>4 DEF ReporterTypes
<1>6. \A q \in RunId : held(q)' + ofRun(q)[m] = held(q)
  <2> TAKE q \in RunId
  <2>1. ofRun(q)[m] = 0 /\ held(q)' = held(q) /\ held(q) \in Nat
    BY <1>0, <1>1, <1>2, Numbers DEF held, ofRun
  <2> QED
    BY <2>1
<1>7. tallied' + ofDrops[m] = tallied
  <2>1. ofDrops[m] = 0 /\ tallied' = tallied /\ tallied \in Nat
    BY <1>0, <1>1, <1>2, Numbers DEF ofDrops, tallied
  <2> QED
    BY <2>1
<1>8. ResultsConserved' /\ DropsAccounted'
  BY <1>1, <1>2, <1>5, <1>6, <1>7, Hands
<1>9. EndedRunsHaveNoVUs' /\ LoopsEnd'
  BY <1>1, StillEnded
<1> QED
  BY <1>5, <1>8, <1>9 DEF ReporterInv, ReportsAreTrue

LEMMA MessageSent ==
    ASSUME ReporterInv, Send
    PROVE  ReporterInv'
<1>0. /\ ReporterTypes /\ ResultsConserved /\ DropsAccounted /\ sendCh \in Seq(Message)
      /\ got \in [RunId -> Nat] /\ told \in Nat /\ Len(sendCh) <= SendCap /\ SendCap \in Nat
  BY ReporterAssumption DEF ReporterInv, ReportsAreTrue, ReporterTypes
<1>1. PICK m : m = Head(sendCh)
  OBVIOUS
<1>2. /\ sendCh # <<>> /\ sendCh' = Tail(sendCh)
      /\ got' = IF m.kind = "batch" THEN [got EXCEPT ![m.run] = @ + m.n] ELSE got
      /\ told' = IF m.kind = "finished" THEN told + m.drops ELSE told
      /\ UNCHANGED <<rec, vus, flusher, agent, activeByRun, droppedSend, drops, lost, untold,
                     results, late, ticks>>
  BY <1>1 DEF Send
<1>3. m \in Message /\ sendCh' \in Seq(Message) /\ Len(sendCh') <= SendCap
  <2>1. Head(sendCh) \in Message /\ Tail(sendCh) \in Seq(Message)
    BY <1>0, <1>2, HeadTailProperties
  <2>2. Len(Tail(sendCh)) = Len(sendCh) - 1 /\ Len(sendCh) \in Nat
    BY <1>0, <1>2, HeadTailProperties, LenProperties
  <2> QED
    BY <1>0, <1>1, <1>2, <2>1, <2>2
<1>4. ofDrops[m] \in Nat /\ \A q \in RunId : ofRun(q)[m] \in Nat
  BY <1>3, Weights
<1>5. told' = told + ofDrops[m]
  BY <1>0, <1>2, <1>3 DEF ofDrops
<1>6. \A q \in RunId : got'[q] = got[q] + ofRun(q)[m]
  <2>1. CASE m.kind = "batch"
    <3>1. m.run \in RunId /\ m.n \in Nat
      BY <1>3, <2>1 DEF Message
    <3> QED
      BY <1>0, <1>2, <1>3, <2>1, <3>1 DEF ofRun
  <2>2. CASE m.kind # "batch"
    BY <1>0, <1>2, <1>3, <2>2 DEF ofRun
  <2> QED
    BY <2>1, <2>2
<1>7. got' \in [RunId -> Nat] /\ told' \in Nat
  <2>1. got' = [q \in RunId |-> got'[q]]
    BY <1>0, <1>2
  <2>2. \A q \in RunId : got'[q] \in Nat
    BY <1>0, <1>4, <1>6
  <2> QED
    BY <1>0, <1>4, <1>5, <2>1, <2>2
<1>8. ReporterTypes'
  BY <1>0, <1>2, <1>3, <1>7 DEF ReporterTypes
<1>9. /\ inFinished = ofDrops[m] + inFinished' /\ inFinished' \in Nat
      /\ \A q \in RunId : /\ inBatches(q) = ofRun(q)[m] + inBatches(q)'
                          /\ inBatches(q)' \in Nat
  BY <1>0, <1>1, <1>2, <1>3, BufferCounts, BufferCountsNext, Weights, WeighTail
<1>10. /\ \A q \in RunId : held(q)' = held(q) /\ held(q) \in Nat
       /\ tallied' = tallied /\ tallied \in Nat
  BY <1>0, <1>2, Numbers DEF held, tallied
<1>11. /\ \A q \in RunId : lost[q] \in Nat /\ got[q] \in Nat /\ results[q] \in Nat
                            /\ got'[q] \in Nat
       /\ droppedSend \in Nat /\ untold \in Nat /\ drops \in Nat
  BY <1>0, <1>7 DEF ReporterTypes
<1>12. ASSUME NEW q \in RunId
       PROVE  /\ held(q)' \in Nat /\ inBatches(q)' \in Nat
              /\ lost'[q] \in Nat /\ got'[q] \in Nat /\ results'[q] \in Nat
              /\ ((held(q)' + (inBatches(q)' + lost'[q])) + got'[q]) + results[q]
                    = ((held(q) + (inBatches(q) + lost[q])) + got[q]) + results'[q]
  <2>1. PICK h \in Nat, i \in Nat, l \in Nat, g \in Nat, s \in Nat, w \in Nat :
           /\ h = held(q) /\ i = inBatches(q)' /\ l = lost[q] /\ g = got[q]
           /\ s = results[q] /\ w = ofRun(q)[m]
    BY <1>4, <1>9, <1>10, <1>11
  <2>2. /\ held(q)' = h /\ inBatches(q) = w + i /\ lost'[q] = l /\ got'[q] = g + w
        /\ results'[q] = s
    BY <1>2, <1>6, <1>9, <1>10, <2>1
  <2>3. ((h + (i + l)) + (g + w)) + s = ((h + ((w + i) + l)) + g) + s
    OBVIOUS
  <2> QED
    BY <2>1, <2>2, <2>3
<1>13. /\ droppedSend' \in Nat /\ tallied' \in Nat /\ inFinished' \in Nat
       /\ told' \in Nat /\ untold' \in Nat /\ drops' \in Nat
  BY <1>2, <1>7, <1>9, <1>10, <1>11
<1>14. ((((droppedSend' + inFinished') + untold') + tallied') + told') + drops
         = ((((droppedSend + inFinished) + untold) + tallied) + told) + drops'
  <2>1. PICK a \in Nat, b \in Nat, c \in Nat, d \in Nat, e \in Nat, s \in Nat, w \in Nat :
           /\ a = droppedSend /\ b = inFinished' /\ c = untold /\ d = tallied /\ e = told
           /\ s = drops /\ w = ofDrops[m]
    BY <1>0, <1>4, <1>9, <1>10, <1>11
  <2>2. /\ droppedSend' = a /\ inFinished = w + b /\ untold' = c /\ tallied' = d
        /\ told' = e + w /\ drops' = s
    BY <1>2, <1>5, <1>9, <1>10, <2>1
  <2>3. ((((a + b) + c) + d) + (e + w)) + s = ((((a + (w + b)) + c) + d) + e) + s
    OBVIOUS
  <2> QED
    BY <2>1, <2>2, <2>3
<1>15. ResultsConserved' /\ DropsAccounted'
  BY <1>0, <1>12, <1>13, <1>14, Balances
<1>16. EndedRunsHaveNoVUs' /\ LoopsEnd'
  BY <1>2, StillEnded
<1> QED
  BY <1>8, <1>15, <1>16 DEF ReporterInv, ReportsAreTrue

LEMMA ReporterStarts == ReporterInit => ReporterInv
<1> SUFFICES ASSUME ReporterInit PROVE ReporterInv
  OBVIOUS
<1> DEFINE start == [step |-> "exec"]
<1>1. /\ sendCh = <<>> /\ droppedSend = 0 /\ told = 0 /\ drops = 0 /\ untold = 0
      /\ agent = [r \in RunId |-> start] /\ flusher = [r \in RunId |-> Waiting]
  BY DEF ReporterInit
<1>2. /\ start \in AgentState /\ start.step = "exec" /\ Waiting \in FlushLoop
      /\ Waiting.step = "wait" /\ start # Gone
  BY DEF AgentState, FlushLoop, Waiting, Gone
<1> HIDE DEF start
<1>3. carried(start, "n") = 0 /\ carried(start, "drops") = 0 /\ carried(Waiting, "n") = 0
  BY <1>2, AgentSteps, FlushSteps
<1>4. sendCh \in Seq(Message) /\ Len(sendCh) = 0
  BY <1>1, EmptySeq
<1>5. ReporterTypes
  <2>1. 0 \in 0..1 /\ 0 \in 0..MaxTicks /\ SendCap \in Nat
    BY ReporterAssumption
  <2> QED
    BY <1>1, <1>2, <1>4, <2>1 DEF ReporterInit, ReporterTypes
<1>6. inFinished = 0 /\ \A r \in RunId : inBatches(r) = 0
  <2>1. DOMAIN sendCh = {}
    BY <1>4, LenProperties
  <2>2. inFinished = 0
    <3> DEFINE f == [i \in DOMAIN sendCh |-> IF sendCh[i].kind = "finished"
                                            THEN sendCh[i].drops ELSE 0]
    <3>1. f \in [{} -> Int]
      BY <2>1
    <3> HIDE DEF f
    <3> QED
      BY <3>1, SumEmpty DEF inFinished, f
  <2>3. ASSUME NEW r \in RunId PROVE inBatches(r) = 0
    <3> DEFINE f == [i \in DOMAIN sendCh |-> IF sendCh[i].kind = "batch" /\ sendCh[i].run = r
                                            THEN sendCh[i].n ELSE 0]
    <3>1. f \in [{} -> Int]
      BY <2>1
    <3> HIDE DEF f
    <3> QED
      BY <3>1, SumEmpty DEF inBatches, f
  <2> QED
    BY <2>2, <2>3
<1>7. tallied = 0
  <2> DEFINE f == [r \in RunId |-> carried(agent[r], "drops")]
  <2>1. IsFiniteSet(RunId) /\ f \in [RunId -> Int] /\ \A r \in RunId : f[r] = 0
    BY <1>1, <1>3, ReporterAssumption
  <2> HIDE DEF f
  <2>2. SumFunction(f) = 0
    BY <2>1, SumZero
  <2> QED
    BY <2>2 DEF f, tallied
<1>8. \A r \in RunId : held(r) = 0
  BY <1>1, <1>3 DEF held, ReporterInit
<1>9. ResultsConserved
  BY <1>6, <1>8 DEF ResultsConserved, held, ReporterInit
<1>10. DropsAccounted
  BY <1>1, <1>6, <1>7 DEF DropsAccounted, tallied
<1>11. EndedRunsHaveNoVUs /\ LoopsEnd
  BY <1>1, <1>2 DEF EndedRunsHaveNoVUs, LoopsEnd
<1> QED
  BY <1>5, <1>9, <1>10, <1>11 DEF ReporterInv, ReportsAreTrue

LEMMA ReporterSteps ==
    ASSUME ReporterInv, [ReporterNext]_reporterVars
    PROVE  ReporterInv'
<1>1. CASE UNCHANGED reporterVars
  <2>1. UNCHANGED reporterVars
    BY <1>1
  <2>2. ReporterTypes' /\ LoopsEnd'
    BY <2>1 DEF ReporterInv, ReporterTypes, LoopsEnd, reporterVars
  <2>3. ReportsAreTrue'
    BY <2>1 DEF ReporterInv, ReportsAreTrue, ResultsConserved, DropsAccounted,
                EndedRunsHaveNoVUs, inBatches, inFinished, reporterVars
  <2> QED
    BY <2>2, <2>3 DEF ReporterInv
<1>2. CASE \E r \in RunId :
             \/ Record(r) \/ SetActiveVUs(r) \/ EndRun(r) \/ AgentStep(r)
             \/ FlushTick(r) \/ FlushSetActive(r) \/ FlushSend(r) \/ FlushExit(r)
  BY <1>2, ResultRecorded, VUsSet, RunEnds, DropsTallied, FinalFlushed, FinalBatchSent,
     FinishedSent, RunFinished, LoopTicked, ActiveCounted, WindowSent, LoopExits
     DEF AgentStep
<1>3. CASE Heartbeat \/ Send
  BY <1>3, HeartbeatSent, MessageSent
<1> QED
  BY <1>1, <1>2, <1>3 DEF ReporterNext

\* The invariant holds for any number of runs, any buffer and any interleaving.
THEOREM ReporterInvariant == ReporterSpec => []ReporterInv
<1> QED
  BY ReporterStarts, ReporterSteps, PTL DEF ReporterSpec

\* Results, losses and VU counts reach the coordinator as they are: every result is counted
\* once, every dropped message told of once, and a run that has ended after its flush loop
\* has no VUs (agent.go: enqueue, flushLoop, startRun and finishRun).
THEOREM ReportsHold == ReporterSpec => []ReportsAreTrue
<1>1. ReporterInv => ReportsAreTrue
  BY DEF ReporterInv
<1> QED
  BY <1>1, ReporterInvariant, PTL

LEMMA ReporterTyped == ReporterInv => ReporterTypeOK
<1> SUFFICES ASSUME ReporterInv PROVE ReporterTypeOK
  OBVIOUS
<1>1. ReporterTypes
  BY DEF ReporterInv
<1>2. \A x \in FlushLoop : x.step \in {"wait", "count", "send", "gone"}
  BY DEF FlushLoop, Waiting, Gone
<1>3. \A x \in AgentState :
         x.step \in {"exec", "tally", "flush", "batch", "finished", "finish", "gone"}
  BY DEF AgentState
<1>4. \A m \in Message : m.kind \in {"batch", "finished", "beat"}
  BY DEF Message
<1>5. \A i \in DOMAIN sendCh : sendCh[i] \in Message
  BY <1>1, ElementOfSeq, LenProperties DEF ReporterTypes
<1> QED
  BY <1>1, <1>2, <1>3, <1>4, <1>5 DEF ReporterTypes, ReporterTypeOK

\* The buffer of the reporter stays within its capacity, and every variable in its type.
THEOREM ReporterTypeCorrect == ReporterSpec => []ReporterTypeOK
<1> QED
  BY ReporterTyped, ReporterInvariant, PTL

-----------------------------------------------------------------------------
(* The parts side by side                                                  *)

WorkerInv == ExecutorInv /\ ArrivalInv /\ ReporterInv

LEMMA PartsUnchanged ==
    ASSUME WorkerInv
    PROVE  /\ UNCHANGED vars => ExecutorInv'
           /\ UNCHANGED arrivalVars => ArrivalInv'
           /\ UNCHANGED reporterVars => ReporterInv'
BY ExecutorStep, ArrivalStep, ReporterSteps DEF WorkerInv

LEMMA WorkerStep ==
    ASSUME WorkerInv, [MCNext]_wvars
    PROVE  WorkerInv'
<1>1. CASE UNCHANGED wvars
  BY <1>1, PartsUnchanged DEF WorkerInv, wvars
<1>2. CASE Closed(Next)
  BY <1>2, PartsUnchanged, ExecutorStep DEF WorkerInv, Closed
<1>3. CASE Open(ArrivalNext)
  BY <1>3, PartsUnchanged, ArrivalStep DEF WorkerInv, Open
<1>4. CASE Report(ReporterNext)
  BY <1>4, PartsUnchanged, ReporterSteps DEF WorkerInv, Report
<1>5. CASE Drive(ScriptNext)
  BY <1>5, PartsUnchanged DEF WorkerInv, Drive
<1> QED
  BY <1>1, <1>2, <1>3, <1>4, <1>5 DEF MCNext

\* In a worker whose parts run side by side each of them stays in its types and its limits:
\* the pool of VUs, the pool and the queue of the open model, and the send buffer.
THEOREM WorkerTypeCorrect == MCSpec => []WorkerTypeOK
<1>1. MCInit => WorkerInv
  BY ExecutorStarts, ArrivalStarts, ReporterStarts DEF MCInit, WorkerInv
<1>2. WorkerInv /\ [MCNext]_wvars => WorkerInv'
  BY WorkerStep
<1>3. WorkerInv => WorkerTypeOK
  BY ReporterTyped DEF WorkerInv, ExecutorInv, ArrivalInv, WorkerTypeOK
<1> QED
  BY <1>1, <1>2, <1>3, PTL DEF MCSpec
=============================================================================
