-------------------------- MODULE AggregatorProofs --------------------------
(***************************************************************************)
(* Machine-checked proofs about the aggregator, for every set of batches,  *)
(* every grace and every configuration of the breaker.                     *)
(***************************************************************************)
EXTENDS Aggregator, SumProofs, SequenceTheorems

\* A sequence, of whatever elements.
Listing(s) == s \in Seq({s[i] : i \in DOMAIN s})

\* A sequence of ticks, each of a second that some batch has.  What a tick counts is
\* left open, and no argument about merging depends on it: Counted is about that.
Ticks(s) ==
    /\ Listing(s)
    /\ \A i \in 1..Len(s) : s[i].sec \in Sec

\* The variables in their types.
Shape ==
    /\ now \in Nat
    /\ cancelled \in BOOLEAN
    /\ pc \in PC
    /\ final \in BOOLEAN
    /\ cutoff \in Int
    /\ buckets \in [Sec -> SUBSET Batch]
    /\ vusBySec \in [Sec -> [Name -> Nat]]
    /\ lastEmitted \in Sec \cup {0}
    /\ late \subseteq Batch
    /\ Ticks(out)
    /\ rows \subseteq Batch
    /\ targets \subseteq Client
    /\ sends \in 0..Len(out)
    /\ listeners \subseteq Client
    /\ inbox \in [Client -> Seq(Sec)]
    /\ stream \in [Client -> StreamState]
    /\ written \subseteq Batch
    /\ unwritten \subseteq Batch
    /\ Ticks(evaluated)

\* A batch waits in the bucket of its own second.
Filed == \A s \in Sec : \A b \in buckets[s] : b.sec = s

Active == {"collect", "write", "send", "eval"}

Ascending(s) == \A i, j \in 1..Len(s) : i < j => s[i].sec < s[j].sec

\* Whatever was emitted is at most lastEmitted, and each finalize emits later seconds
\* than all before it.
Emitted ==
    /\ \A i \in 1..Len(evaluated) : evaluated[i].sec <= lastEmitted
    /\ \A i \in 1..Len(out) : out[i].sec <= lastEmitted
    /\ Ascending(evaluated)
    /\ Ascending(out)
    /\ pc \in Active => \A i \in 1..Len(evaluated), j \in 1..Len(out) :
                            evaluated[i].sec < out[j].sec

\* Until the drain, nothing younger than the grace is emitted; the drain is the last
\* finalize.
GraceKept ==
    /\ final => pc # "wait"
    /\ ~final /\ pc = "collect" => cutoff <= now - Grace
    /\ ~final /\ lastEmitted # 0 => lastEmitted <= now - Grace

\* The inductive invariant of the merging half.
MergeInv == Shape /\ Filed /\ BatchesAccounted /\ Emitted /\ GraceKept

-----------------------------------------------------------------------------
(* Seconds, and the least of them                                          *)

\* Seconds are positive numbers, and a batch has one.
LEMMA Seconds == Sec \subseteq Nat \ {0} /\ \A b \in Batch : b.sec \in Sec /\ b.worker \in Name /\ b.vus \in Nat
BY BatchAssumption DEF Sec, BatchType, Name

\* The least of a set of numbers is in it, and at most all others.
LEMMA MinIsLeast ==
    ASSUME NEW T \in SUBSET Nat, T # {}
    PROVE  Min(T) \in T /\ \A y \in T : Min(T) <= y
BY LeastNumber DEF Min

-----------------------------------------------------------------------------
(* Lists                                                                   *)

\* A function on 1..n is a sequence of length n.
LEMMA ListOf ==
    ASSUME NEW n \in Nat, NEW f, f = [i \in 1..n |-> f[i]]
    PROVE  Listing(f) /\ Len(f) = n /\ DOMAIN f = 1..n
<1>1. DOMAIN f = 1..n
  OBVIOUS
<1> DEFINE S == {f[i] : i \in DOMAIN f}
<1>2. f \in [1..n -> S]
  BY <1>1
<1> HIDE DEF S
<1>3. f \in Seq(S)
  BY <1>2, SeqDef
<1>4. Len(f) \in Nat /\ DOMAIN f = 1..Len(f)
  BY <1>3, LenProperties
<1>5. Len(f) = n
  BY <1>1, <1>4
<1> QED
  BY <1>1, <1>3, <1>5 DEF Listing, S

\* And the other way round.
LEMMA ListIs ==
    ASSUME NEW s, Listing(s)
    PROVE  Len(s) \in Nat /\ DOMAIN s = 1..Len(s) /\ s = [i \in 1..Len(s) |-> s[i]]
<1> DEFINE S == {s[i] : i \in DOMAIN s}
<1>1. s \in Seq(S)
  BY DEF Listing
<1> HIDE DEF S
<1>2. Len(s) \in Nat /\ DOMAIN s = 1..Len(s) /\ s \in [1..Len(s) -> S]
  BY <1>1, LenProperties
<1> QED
  BY <1>2

\* Two sequences of the same elements are the same.
LEMMA ListEqual ==
    ASSUME NEW s, NEW t, Listing(s), Listing(t), Len(s) = Len(t),
           \A i \in 1..Len(s) : s[i] = t[i]
    PROVE  s = t
<1>1. s = [i \in 1..Len(s) |-> s[i]] /\ t = [i \in 1..Len(t) |-> t[i]]
  BY ListIs
<1>2. [i \in 1..Len(s) |-> s[i]] = [i \in 1..Len(s) |-> t[i]]
  OBVIOUS
<1> QED
  BY <1>1, <1>2

\* One sequence after the other.
LEMMA ListConcat ==
    ASSUME NEW s, NEW t, Listing(s), Listing(t)
    PROVE  /\ Listing(s \o t) /\ Len(s) \in Nat /\ Len(t) \in Nat
           /\ Len(s \o t) = Len(s) + Len(t)
           /\ \A i \in 1..Len(s) + Len(t) :
                (s \o t)[i] = IF i <= Len(s) THEN s[i] ELSE t[i - Len(s)]
<1> DEFINE S == {s[i] : i \in DOMAIN s}
<1> DEFINE U == {t[i] : i \in DOMAIN t}
<1> DEFINE T == S \cup U
<1> DEFINE a == s \o t
<1>1. s \in Seq(S) /\ t \in Seq(U)
  BY DEF Listing
<1>2. s \in Seq(T) /\ t \in Seq(T)
  <2>1. S \subseteq T /\ U \subseteq T
    OBVIOUS
  <2> HIDE DEF S, U, T
  <2> QED
    BY <1>1, <2>1, SeqMonotonic
<1> HIDE DEF S, U, T
<1>3. Len(s) \in Nat /\ Len(t) \in Nat
  BY <1>1, LenProperties
<1>4. /\ a \in Seq(T) /\ Len(a) = Len(s) + Len(t)
      /\ \A i \in 1..Len(s) + Len(t) : a[i] = IF i <= Len(s) THEN s[i] ELSE t[i - Len(s)]
  BY <1>2, ConcatProperties
<1> HIDE DEF a
<1>5. a = [i \in 1..Len(a) |-> a[i]] /\ Len(a) \in Nat
  <2>1. a \in [1..Len(a) -> T] /\ Len(a) \in Nat
    BY <1>4, LenProperties
  <2> QED
    BY <2>1
<1>6. Listing(a)
  BY <1>5, ListOf
<1> QED
  BY <1>3, <1>4, <1>6 DEF a

\* The last elements.
LEMMA LastOf ==
    ASSUME NEW s, Listing(s), NEW n \in Nat \ {0}
    PROVE  /\ Listing(lastOf(s, n))
           /\ Len(s) \in Nat
           /\ Len(lastOf(s, n)) = IF Len(s) > n THEN n ELSE Len(s)
           /\ \A i \in 1..(IF Len(s) > n THEN n ELSE Len(s)) :
                lastOf(s, n)[i] = s[i + (IF Len(s) > n THEN Len(s) - n ELSE 0)]
<1> DEFINE S == {s[i] : i \in DOMAIN s}
<1>1. Len(s) \in Nat /\ DOMAIN s = 1..Len(s)
  BY ListIs
<1> DEFINE m == IF Len(s) > n THEN Len(s) - n + 1 ELSE 1
<1> DEFINE l == SubSeq(s, m, Len(s))
<1>2. m \in 1..Len(s) + 1 /\ m \in Int
  BY <1>1
<1>3. \A i \in m..Len(s) : s[i] \in S
  <2> HIDE DEF m
  <2> QED
    BY <1>1, <1>2
<1> HIDE DEF S, m
<1>4. /\ l \in Seq(S) /\ Len(l) = (IF m <= Len(s) THEN Len(s) - m + 1 ELSE 0)
      /\ \A i \in 1..Len(s) - m + 1 : l[i] = s[m + i - 1]
  BY <1>1, <1>2, <1>3, SubSeqProperties
<1>5. lastOf(s, n) = l
  BY DEF lastOf, m
<1> HIDE DEF l
<1>6. Listing(l)
  <2>1. Len(l) \in Nat /\ l \in [1..Len(l) -> S]
    BY <1>4, LenProperties
  <2>2. l = [i \in 1..Len(l) |-> l[i]]
    BY <2>1
  <2> QED
    BY <2>1, <2>2, ListOf
<1>7. /\ Len(l) = IF Len(s) > n THEN n ELSE Len(s)
      /\ \A i \in 1..(IF Len(s) > n THEN n ELSE Len(s)) :
           l[i] = s[i + (IF Len(s) > n THEN Len(s) - n ELSE 0)]
  <2>1. CASE Len(s) > n
    <3>1. m = Len(s) - n + 1
      BY <2>1 DEF m
    <3>2. Len(l) = n
      BY <1>1, <1>4, <2>1, <3>1
    <3>3. ASSUME NEW i \in 1..n PROVE l[i] = s[i + (Len(s) - n)]
      <4>1. i \in 1..Len(s) - m + 1 /\ m + i - 1 = i + (Len(s) - n)
        BY <1>1, <2>1, <3>1
      <4> QED
        BY <1>4, <4>1
    <3> QED
      BY <2>1, <3>2, <3>3
  <2>2. CASE ~(Len(s) > n)
    <3>1. m = 1
      BY <2>2 DEF m
    <3>2. Len(l) = Len(s)
      BY <1>1, <1>4, <2>2, <3>1
    <3>3. ASSUME NEW i \in 1..Len(s) PROVE l[i] = s[i + 0]
      <4>1. i \in 1..Len(s) - m + 1 /\ m + i - 1 = i /\ i + 0 = i
        BY <1>1, <3>1
      <4> QED
        BY <1>4, <4>1
    <3> QED
      BY <2>2, <3>2, <3>3
  <2> QED
    BY <2>1, <2>2
<1> QED
  BY <1>1, <1>5, <1>6, <1>7

\* Keeping the last ones of a sequence before another is added changes nothing.
LEMMA LastOfConcat ==
    ASSUME NEW s, NEW t, Listing(s), Listing(t), NEW n \in Nat \ {0}
    PROVE  lastOf(lastOf(s, n) \o t, n) = lastOf(s \o t, n)
<1> DEFINE k == lastOf(s, n)
<1> DEFINE a == s \o t
<1> DEFINE b == k \o t
<1>1. /\ Listing(k) /\ Len(s) \in Nat /\ Len(t) \in Nat
      /\ Len(k) = IF Len(s) > n THEN n ELSE Len(s)
      /\ \A i \in 1..(IF Len(s) > n THEN n ELSE Len(s)) :
                k[i] = s[i + (IF Len(s) > n THEN Len(s) - n ELSE 0)]
  BY LastOf, ListIs
<1> HIDE DEF k
<1>2. /\ Listing(a) /\ Len(a) = Len(s) + Len(t)
      /\ \A i \in 1..Len(s) + Len(t) : a[i] = IF i <= Len(s) THEN s[i] ELSE t[i - Len(s)]
  BY ListConcat
<1>3. /\ Listing(b) /\ Len(b) = Len(k) + Len(t) /\ Len(k) \in Nat
      /\ \A i \in 1..Len(k) + Len(t) : b[i] = IF i <= Len(k) THEN k[i] ELSE t[i - Len(k)]
  BY <1>1, ListConcat
<1> HIDE DEF a, b
<1>4. \E d \in Nat : /\ Len(s) = Len(k) + d /\ (d > 0 => Len(k) = n)
                     /\ \A i \in 1..Len(k) : k[i] = s[i + d]
  <2>1. CASE Len(s) > n
    <3>1. Len(s) - n \in Nat /\ Len(s) = Len(k) + (Len(s) - n) /\ Len(k) = n
      BY <1>1, <2>1
    <3>2. \A i \in 1..Len(k) : k[i] = s[i + (Len(s) - n)]
      BY <1>1, <2>1
    <3> QED
      BY <3>1, <3>2
  <2>2. CASE ~(Len(s) > n)
    <3>1. Len(s) = Len(k) + 0
      BY <1>1, <2>2
    <3>2. \A i \in 1..Len(k) : k[i] = s[i + 0]
      BY <1>1, <2>2
    <3>3. 0 \in Nat /\ ~(0 > 0)
      OBVIOUS
    <3> QED
      BY <3>1, <3>2, <3>3, Zenon
  <2> QED
    BY <2>1, <2>2
<1>5. PICK d \in Nat : /\ Len(s) = Len(k) + d /\ (d > 0 => Len(k) = n)
                       /\ \A i \in 1..Len(k) : k[i] = s[i + d]
  BY <1>4
<1>6. \A i \in 1..Len(b) : b[i] = a[i + d]
  <2> SUFFICES ASSUME NEW i \in 1..Len(b) PROVE b[i] = a[i + d]
    OBVIOUS
  <2>0. i \in Nat /\ i + d \in 1..Len(s) + Len(t) /\ i \in 1..Len(k) + Len(t)
    BY <1>1, <1>3, <1>5
  <2>1. CASE i <= Len(k)
    <3>1. i \in 1..Len(k) /\ i + d <= Len(s)
      BY <1>1, <1>3, <1>5, <2>0, <2>1
    <3> QED
      BY <1>2, <1>3, <1>5, <2>0, <2>1, <3>1
  <2>2. CASE ~(i <= Len(k))
    <3>1. ~(i + d <= Len(s)) /\ i + d - Len(s) = i - Len(k)
      <4>1. \A p, q, r, e \in Nat : q = r + e /\ ~(p <= r) => ~(p + e <= q) /\ p + e - q = p - r
        OBVIOUS
      <4>2. i \in Nat /\ Len(s) \in Nat /\ Len(k) \in Nat /\ Len(s) = Len(k) + d /\ ~(i <= Len(k))
        BY <1>1, <1>3, <1>5, <2>0, <2>2
      <4> QED
        BY <4>1, <4>2
    <3> QED
      BY <1>2, <1>3, <2>0, <2>2, <3>1, SMTT(20)
  <2> QED
    BY <2>1, <2>2
<1>7. /\ Len(a) \in Nat /\ Len(b) \in Nat /\ Len(a) = Len(b) + d
      /\ (d > 0 => Len(b) >= n)
  <2>1. \A p, q, r, e \in Nat : q = r + e => /\ q + p \in Nat /\ r + p \in Nat
                                          /\ q + p = r + p + e /\ (r = n => r + p >= n)
    OBVIOUS
  <2>2. Len(a) = Len(s) + Len(t) /\ Len(b) = Len(k) + Len(t) /\ Len(s) = Len(k) + d
    BY <1>2, <1>3, <1>5
  <2>3. Len(s) \in Nat /\ Len(t) \in Nat /\ Len(k) \in Nat /\ (d > 0 => Len(k) = n)
    BY <1>1, <1>3, <1>5
  <2> QED
    BY <2>1, <2>2, <2>3
<1> DEFINE x == lastOf(a, n)
<1> DEFINE y == lastOf(b, n)
<1>8. /\ Listing(x)
      /\ Len(x) = IF Len(a) > n THEN n ELSE Len(a)
      /\ \A i \in 1..(IF Len(a) > n THEN n ELSE Len(a)) :
            x[i] = a[i + (IF Len(a) > n THEN Len(a) - n ELSE 0)]
  BY <1>2, LastOf
<1>9. /\ Listing(y)
      /\ Len(y) = IF Len(b) > n THEN n ELSE Len(b)
      /\ \A i \in 1..(IF Len(b) > n THEN n ELSE Len(b)) :
            y[i] = b[i + (IF Len(b) > n THEN Len(b) - n ELSE 0)]
  BY <1>3, LastOf
<1> HIDE DEF x, y
<1>10. Len(x) = Len(y)
  BY <1>7, <1>8, <1>9
<1>11. ASSUME NEW i \in 1..Len(x) PROVE x[i] = y[i]
  <2>1. CASE Len(b) > n
    <3>1. Len(a) > n /\ i \in 1..n
      BY <1>7, <1>8, <2>1
    <3>2. x[i] = a[i + (Len(a) - n)] /\ y[i] = b[i + (Len(b) - n)]
      BY <1>8, <1>9, <2>1, <3>1
    <3>3. i + (Len(b) - n) \in 1..Len(b) /\ i + (Len(b) - n) + d = i + (Len(a) - n)
      BY <1>7, <2>1, <3>1
    <3> QED
      BY <1>6, <3>2, <3>3
  <2>2. CASE ~(Len(b) > n)
    <3>1. i \in 1..Len(b) /\ y[i] = b[i + 0] /\ i + 0 = i
      BY <1>7, <1>9, <1>10, <2>2
    <3>2. x[i] = a[i + d]
      <4>1. CASE Len(a) > n
        <5>1. d = Len(a) - n /\ i \in 1..n
          BY <1>7, <1>8, <2>2, <4>1
        <5> QED
          BY <1>8, <4>1, <5>1
      <4>2. CASE ~(Len(a) > n)
        <5>1. d = 0 /\ i \in 1..Len(a)
          BY <1>7, <1>8, <2>2, <4>2
        <5> QED
          BY <1>8, <4>2, <5>1
      <4> QED
        BY <4>1, <4>2
    <3> QED
      BY <1>6, <3>1, <3>2
  <2> QED
    BY <2>1, <2>2
<1>12. x = y
  BY <1>8, <1>9, <1>10, <1>11, ListEqual
<1> QED
  BY <1>12 DEF x, y, a, b, k

-----------------------------------------------------------------------------
(* Ticks                                                                   *)

\* A further tick.
LEMMA TicksAppend ==
    ASSUME NEW s, NEW e, Ticks(s), e.sec \in Sec
    PROVE  /\ Ticks(Append(s, e))
           /\ Len(s) \in Nat
           /\ Len(Append(s, e)) = Len(s) + 1
           /\ \A i \in 1..Len(s) : Append(s, e)[i] = s[i]
           /\ Append(s, e)[Len(s) + 1] = e
<1> DEFINE S == {s[i] : i \in DOMAIN s}
<1> DEFINE T == S \cup {e}
<1> DEFINE a == Append(s, e)
<1>1. s \in Seq(S)
  BY DEF Ticks, Listing
<1>2. s \in Seq(T)
  <2>1. S \subseteq T
    OBVIOUS
  <2> HIDE DEF S, T
  <2> QED
    BY <1>1, <2>1, SeqMonotonic
<1>3. Len(s) \in Nat /\ DOMAIN s = 1..Len(s)
  BY <1>1, LenProperties
<1>4. /\ a \in Seq(T) /\ Len(a) = Len(s) + 1
      /\ \A i \in 1..Len(s) : a[i] = s[i]
      /\ a[Len(s) + 1] = e
  <2>1. e \in T
    OBVIOUS
  <2> HIDE DEF T
  <2> QED
    BY <1>2, <2>1, AppendProperties
<1>5. a \in [1..Len(a) -> T] /\ DOMAIN a = 1..Len(a)
  <2> HIDE DEF T, a
  <2> QED
    BY <1>4, LenProperties
<1>6. Listing(a)
  <2> HIDE DEF T, a
  <2>1. a = [i \in 1..Len(a) |-> a[i]] /\ Len(a) \in Nat
    BY <1>3, <1>4, <1>5
  <2> QED
    BY <2>1, ListOf
<1>7. \A i \in 1..Len(a) : a[i].sec \in Sec
  <2>1. \A i \in 1..Len(s) : s[i].sec \in Sec
    BY DEF Ticks
  <2>2. \A i \in 1..Len(a) : i = Len(s) + 1 \/ i \in 1..Len(s)
    BY <1>3, <1>4
  <2> HIDE DEF a, T
  <2> QED
    BY <1>4, <2>1, <2>2
<1> QED
  BY <1>3, <1>4, <1>6, <1>7 DEF Ticks

\* The ticks of two sequences, one after the other.
LEMMA TicksConcat ==
    ASSUME NEW s, NEW t, Ticks(s), Ticks(t)
    PROVE  /\ Ticks(s \o t)
           /\ Len(s) \in Nat /\ Len(t) \in Nat
           /\ Len(s \o t) = Len(s) + Len(t)
           /\ \A i \in 1..Len(s) + Len(t) :
                (s \o t)[i] = IF i <= Len(s) THEN s[i] ELSE t[i - Len(s)]
<1> DEFINE a == s \o t
<1>1. /\ Listing(a) /\ Len(s) \in Nat /\ Len(t) \in Nat /\ Len(a) = Len(s) + Len(t)
      /\ \A i \in 1..Len(s) + Len(t) : a[i] = IF i <= Len(s) THEN s[i] ELSE t[i - Len(s)]
  BY ListConcat DEF Ticks
<1> HIDE DEF a
<1>2. ASSUME NEW i \in 1..Len(a) PROVE a[i].sec \in Sec
  <2>1. CASE i <= Len(s)
    <3>1. i \in 1..Len(s) /\ a[i] = s[i]
      BY <1>1, <2>1
    <3> QED
      BY <3>1 DEF Ticks
  <2>2. CASE ~(i <= Len(s))
    <3>1. i - Len(s) \in 1..Len(t) /\ a[i] = t[i - Len(s)]
      BY <1>1, <2>2
    <3> QED
      BY <3>1 DEF Ticks
  <2> QED
    BY <2>1, <2>2
<1> QED
  BY <1>1, <1>2 DEF Ticks, a

\* No ticks.
LEMMA TicksEmpty == Ticks(<<>>) /\ Len(<<>>) = 0
BY DEF Ticks, Listing

-----------------------------------------------------------------------------
(* Each step keeps the invariant                                           *)

\* The callers of the aggregator.
LEMMA CallersKeep ==
    ASSUME MergeInv,
           \/ \E b \in Batch : Ingest(b)
           \/ \E c \in Client : Subscribe(c) \/ Forward(c)
           \/ Cancel
           \/ ClockTick
    PROVE  MergeInv'
<1> USE GraceAssumption, ChanCapAssumption, MaxNowAssumption
<1>0. Shape /\ Filed /\ NoBucketDropped /\ CountedOnce /\ Emitted /\ GraceKept
  BY DEF MergeInv, BatchesAccounted
<1>1. ASSUME NEW b \in Batch, Ingest(b) PROVE MergeInv'
  <2>1. /\ UNCHANGED <<now, cancelled, pc, lastEmitted, finalizeVars, liveVars,
                       breakerVars, storeVars>>
        /\ b \notin pending \cup rows \cup late \cup written \cup unwritten
    BY <1>1 DEF Ingest, ingested
  <2>2. b.sec \in Sec /\ b.worker \in Name /\ b.vus \in Nat
    BY Seconds
  <2>3. \/ /\ fresh(b.sec)
           /\ \A s \in Sec : buckets'[s] = IF s = b.sec THEN buckets[s] \cup {b} ELSE buckets[s]
           /\ buckets' \in [Sec -> SUBSET Batch] /\ vusBySec' \in [Sec -> [Name -> Nat]]
           /\ late' = late
        \/ /\ buckets' = buckets /\ vusBySec' = vusBySec
           /\ late' = late \cup {b}
    <3>1. CASE fresh(b.sec)
      <4>1. /\ buckets' = [buckets EXCEPT ![b.sec] = buckets[b.sec] \cup {b}]
            /\ vusBySec' = [vusBySec EXCEPT ![b.sec] =
                              [vusBySec[b.sec] EXCEPT ![b.worker] = b.vus]]
            /\ late' = late
        BY <1>1, <3>1 DEF Ingest
      <4>2. buckets \in [Sec -> SUBSET Batch] /\ vusBySec \in [Sec -> [Name -> Nat]]
        BY <1>0 DEF Shape
      <4>3. vusBySec' \in [Sec -> [Name -> Nat]]
        <5>1. [vusBySec[b.sec] EXCEPT ![b.worker] = b.vus] \in [Name -> Nat]
          BY <2>2, <4>2
        <5> QED
          BY <2>2, <4>1, <4>2, <5>1
      <4> QED
        BY <2>2, <3>1, <4>1, <4>2, <4>3
    <3>2. CASE ~fresh(b.sec)
      BY <1>1, <3>2 DEF Ingest
    <3> QED
      BY <3>1, <3>2
  <2>4. Shape'
    BY <1>0, <2>1, <2>3 DEF Shape, finalizeVars, liveVars, breakerVars, storeVars
  <2>5. Filed'
    <3>1. ASSUME NEW s \in Sec, NEW b2 \in buckets'[s] PROVE b2.sec = s
      BY <1>0, <2>3, <3>1 DEF Filed
    <3> QED
      BY <3>1 DEF Filed
  <2>6. NoBucketDropped'
    BY <1>0, <2>1, <2>3 DEF NoBucketDropped, fresh
  <2>7. CountedOnce'
    <3>1. /\ rows' = rows /\ written' = written /\ unwritten' = unwritten
      BY <2>1 DEF finalizeVars, storeVars
    <3>2. pending' \subseteq pending \cup {b}
      <4>1. \A s \in Sec : buckets'[s] \subseteq buckets[s] \cup {b}
        BY <2>3
      <4> QED
        BY <4>1 DEF pending
    <3>3. late' = late \/ (late' = late \cup {b} /\ pending' = pending)
      BY <2>3 DEF pending
    <3> QED
      BY <1>0, <2>1, <3>1, <3>2, <3>3 DEF CountedOnce
  <2>8. Emitted' /\ GraceKept'
    BY <1>0, <2>1 DEF Emitted, GraceKept, finalizeVars, breakerVars, Ascending
  <2> QED
    BY <2>4, <2>5, <2>6, <2>7, <2>8 DEF MergeInv, BatchesAccounted
<1>2. ASSUME NEW c \in Client, Subscribe(c) \/ Forward(c) PROVE MergeInv'
  <2>1. /\ UNCHANGED <<now, cancelled, pc, bucketVars, finalizeVars, breakerVars, storeVars>>
        /\ listeners' \subseteq Client
        /\ inbox' \in [Client -> Seq(Sec)]
        /\ stream' \in [Client -> StreamState]
    <3>1. CASE Subscribe(c)
      BY <1>0, <3>1 DEF Subscribe, Shape, StreamState
    <3>2. CASE Forward(c)
      <4>1. inbox[c] \in Seq(Sec) /\ inbox[c] # <<>>
        BY <1>0, <3>2 DEF Forward, Shape
      <4>2. Tail(inbox[c]) \in Seq(Sec)
        BY <4>1, HeadTailProperties
      <4> QED
        BY <1>0, <3>2, <4>2 DEF Forward, Shape
    <3> QED
      BY <1>2, <3>1, <3>2
  <2>2. Shape'
    BY <1>0, <2>1 DEF Shape, bucketVars, finalizeVars, breakerVars, storeVars
  <2>3. Filed' /\ NoBucketDropped' /\ CountedOnce'
    BY <1>0, <2>1 DEF Filed, NoBucketDropped, fresh, CountedOnce, pending, bucketVars,
       finalizeVars, storeVars
  <2>4. Emitted' /\ GraceKept'
    BY <1>0, <2>1 DEF Emitted, GraceKept, bucketVars, finalizeVars, breakerVars, Ascending
  <2> QED
    BY <2>2, <2>3, <2>4 DEF MergeInv, BatchesAccounted
<1>3. CASE Cancel \/ ClockTick
  <2>1. /\ UNCHANGED <<pc, bucketVars, finalizeVars, liveVars, breakerVars, storeVars>>
        /\ cancelled' \in BOOLEAN /\ now' \in Nat /\ now <= now'
    <3>1. now \in Nat /\ cancelled \in BOOLEAN
      BY <1>0 DEF Shape
    <3>2. CASE Cancel
      BY <3>1, <3>2 DEF Cancel
    <3>3. CASE ClockTick
      BY <3>1, <3>3 DEF ClockTick
    <3> QED
      BY <1>3, <3>2, <3>3
  <2>2. Shape'
    BY <1>0, <2>1 DEF Shape, bucketVars, finalizeVars, liveVars, breakerVars, storeVars
  <2>3. Filed' /\ NoBucketDropped' /\ CountedOnce'
    BY <1>0, <2>1 DEF Filed, NoBucketDropped, fresh, CountedOnce, pending, bucketVars,
       finalizeVars, storeVars
  <2>4. Emitted'
    BY <1>0, <2>1 DEF Emitted, bucketVars, finalizeVars, breakerVars, Ascending
  <2>5. GraceKept'
    <3>1. lastEmitted \in Nat /\ cutoff \in Int /\ now \in Nat /\ final \in BOOLEAN
      BY <1>0, Seconds DEF Shape
    <3>2. /\ lastEmitted' = lastEmitted /\ cutoff' = cutoff /\ final' = final /\ pc' = pc
          /\ now' \in Nat /\ now <= now'
      BY <2>1 DEF bucketVars, finalizeVars
    <3>3. \A x \in Int : x <= now - Grace => x <= now' - Grace
      <4>1. now \in Nat /\ now' \in Nat /\ now <= now' /\ Grace \in Nat
        BY <3>1, <3>2, GraceAssumption
      <4>2. \A n, m, g \in Nat, x \in Int : n <= m /\ x <= n - g => x <= m - g
        OBVIOUS
      <4> QED
        BY <4>1, <4>2, Zenon
    <3>4. (lastEmitted # 0 => lastEmitted \in Int) /\ cutoff \in Int
      BY <3>1
    <3> QED
      BY <1>0, <3>2, <3>3, <3>4, Zenon DEF GraceKept
  <2> QED
    BY <2>2, <2>3, <2>4, <2>5 DEF MergeInv, BatchesAccounted
<1> QED
  BY <1>1, <1>2, <1>3

\* A finalize starts: the cutoff of the ticker is at least the grace behind the clock.
LEMMA FinalizeKeeps ==
    ASSUME MergeInv, Ticker \/ Drain
    PROVE  MergeInv'
<1> USE GraceAssumption
<1>0. Shape /\ Filed /\ NoBucketDropped /\ CountedOnce /\ Emitted /\ GraceKept
  BY DEF MergeInv, BatchesAccounted
<1>1. /\ pc = "wait" /\ pc' = "collect" /\ out' = <<>> /\ rows' = {} /\ sends' = 0
      /\ UNCHANGED <<now, cancelled, bucketVars, targets, liveVars, breakerVars, storeVars>>
      /\ final' \in BOOLEAN /\ cutoff' \in Int
      /\ ~final' => cutoff' <= now - Grace
  <2>1. now \in Nat
    BY <1>0 DEF Shape
  <2>2. CASE Ticker
    <3>1. PICK at \in 1..now : Finalize(FALSE, at - Grace)
      BY <2>2 DEF Ticker
    <3>2. at - Grace \in Int /\ at - Grace <= now - Grace
      BY <2>1
    <3> QED
      BY <3>1, <3>2 DEF Finalize
  <2>3. CASE Drain
    BY <2>1, <2>3 DEF Drain, Finalize
  <2> QED
    BY <2>2, <2>3
<1>2. Shape'
  <2>1. pc' \in PC /\ sends' \in 0..Len(out')
    BY <1>1, TicksEmpty DEF PC
  <2> QED
    BY <1>0, <1>1, <2>1, TicksEmpty
       DEF Shape, bucketVars, liveVars, breakerVars, storeVars
<1>3. Filed' /\ NoBucketDropped'
  BY <1>0, <1>1 DEF Filed, NoBucketDropped, fresh, bucketVars
<1>4. CountedOnce'
  BY <1>0, <1>1 DEF CountedOnce, pending, bucketVars, storeVars
<1>5. Emitted'
  BY <1>0, <1>1, TicksEmpty DEF Emitted, bucketVars, breakerVars, Ascending
<1>6. GraceKept'
  BY <1>0, <1>1 DEF GraceKept, bucketVars
<1> QED
  BY <1>2, <1>3, <1>4, <1>5, <1>6 DEF MergeInv, BatchesAccounted

\* A ready second is collected: the least one, so that the seconds that wait are later
\* than the last emitted one; its batches go to the rows of this finalize.
LEMMA CollectKeeps ==
    ASSUME MergeInv, CollectSecond
    PROVE  MergeInv'
<1>0. Shape /\ Filed /\ NoBucketDropped /\ CountedOnce /\ Emitted /\ GraceKept
  BY DEF MergeInv, BatchesAccounted
<1> DEFINE s == Min(ready)
<1>1. /\ s \in Sec /\ buckets[s] # {} /\ s <= cutoff /\ s \in Nat \ {0}
      /\ \A s2 \in Sec : buckets[s2] # {} /\ s2 <= cutoff => s <= s2
  <2>1. ready \in SUBSET Nat /\ ready # {} /\ ready \subseteq Sec
    BY Seconds DEF CollectSecond, ready
  <2>2. Min(ready) \in ready /\ \A y \in ready : Min(ready) <= y
    BY <2>1, MinIsLeast
  <2> QED
    BY <2>1, <2>2, Seconds DEF ready
<1>2. fresh(s)
  BY <1>0, <1>1 DEF NoBucketDropped
<1>3. /\ pc = "collect"
      /\ buckets' = [buckets EXCEPT ![s] = {}]
      /\ vusBySec' = [vusBySec EXCEPT ![s] = [w \in Name |-> 0]]
      /\ lastEmitted' = s
      /\ out' = Append(out, collect(s))
      /\ rows' = rows \cup buckets[s]
      /\ UNCHANGED <<now, cancelled, pc, late, final, cutoff, targets, sends,
                     liveVars, breakerVars, storeVars>>
  BY <1>2 DEF CollectSecond
<1>4. collect(s).sec = s
  BY DEF collect
<1>5. lastEmitted \in Nat /\ cutoff \in Int /\ (lastEmitted = 0 \/ s > lastEmitted)
  BY <1>0, <1>2, Seconds DEF Shape, fresh
<1> DEFINE e == collect(s)
<1> HIDE DEF s, e
<1>6. e.sec = s /\ out' = Append(out, e)
  BY <1>3, <1>4 DEF e
<1>7. /\ Ticks(out') /\ Len(out) \in Nat /\ Len(out') = Len(out) + 1
      /\ \A i \in 1..Len(out) : out'[i] = out[i]
      /\ out'[Len(out) + 1] = e
  BY <1>0, <1>1, <1>6, TicksAppend DEF Shape
<1>8. /\ buckets \in [Sec -> SUBSET Batch] /\ buckets' \in [Sec -> SUBSET Batch]
      /\ \A s2 \in Sec : buckets'[s2] = IF s2 = s THEN {} ELSE buckets[s2]
  BY <1>0, <1>1, <1>3 DEF Shape
<1>9. Shape'
  <2>1. vusBySec' \in [Sec -> [Name -> Nat]]
    BY <1>0, <1>1, <1>3 DEF Shape
  <2>2. sends' \in 0..Len(out')
    BY <1>0, <1>3, <1>7 DEF Shape
  <2>3. rows' \subseteq Batch /\ lastEmitted' \in Sec \cup {0}
    BY <1>0, <1>1, <1>3, <1>8 DEF Shape
  <2> QED
    BY <1>0, <1>3, <1>7, <1>8, <2>1, <2>2, <2>3 DEF Shape, liveVars, breakerVars, storeVars
<1>10. Filed'
  BY <1>0, <1>8 DEF Filed
<1>11. NoBucketDropped'
  <2>1. ASSUME NEW s2 \in Sec, buckets'[s2] # {} PROVE s2 > s
    <3>1. s2 # s /\ buckets[s2] # {}
      BY <1>8, <2>1
    <3>2. s2 \in Nat
      BY Seconds
    <3> QED
      BY <1>1, <1>5, <3>1, <3>2
  <2> QED
    BY <1>3, <2>1 DEF NoBucketDropped, fresh
<1>12. CountedOnce'
  <2>1. buckets[s] \subseteq pending /\ pending' \subseteq pending
    BY <1>1, <1>8 DEF pending
  <2>2. pending' \cap buckets[s] = {}
    BY <1>0, <1>1, <1>8 DEF pending, Filed
  <2>3. late' = late /\ written' = written /\ unwritten' = unwritten
    BY <1>3 DEF storeVars
  <2> QED
    BY <1>0, <1>3, <2>1, <2>2, <2>3 DEF CountedOnce
<1>13. Emitted'
  <2>0. /\ evaluated' = evaluated /\ pc \in Active /\ Len(evaluated) \in Nat
        /\ \A i \in 1..Len(evaluated) : evaluated[i].sec \in Nat
        /\ \A i \in 1..Len(out) : out[i].sec \in Nat
    <3>1. Len(evaluated) \in Nat
      BY <1>0, TicksConcat DEF Shape
    <3> QED
      BY <1>0, <1>3, <3>1, Seconds DEF Shape, Ticks, breakerVars, Active
  <2>1. \A i \in 1..Len(evaluated) : evaluated[i].sec \in Nat /\ evaluated[i].sec < s
    <3>1. ASSUME NEW i \in 1..Len(evaluated) PROVE evaluated[i].sec < s
      <4>1. evaluated[i].sec \in Nat /\ evaluated[i].sec <= lastEmitted /\ evaluated[i].sec \in Sec
        BY <1>0, <2>0 DEF Emitted, Shape, Ticks
      <4>2. evaluated[i].sec # 0
        BY <4>1, Seconds
      <4> QED
        BY <1>1, <1>5, <4>1, <4>2
    <3> QED
      BY <2>0, <3>1
  <2>2. \A i \in 1..Len(out) : out[i].sec \in Nat /\ out[i].sec < s
    <3>1. ASSUME NEW i \in 1..Len(out) PROVE out[i].sec < s
      <4>1. out[i].sec \in Nat /\ out[i].sec <= lastEmitted /\ out[i].sec \in Sec
        BY <1>0, <2>0 DEF Emitted, Shape, Ticks
      <4>2. out[i].sec # 0
        BY <4>1, Seconds
      <4> QED
        BY <1>1, <1>5, <4>1, <4>2
    <3> QED
      BY <2>0, <3>1
  <2>3. \A i \in 1..Len(out') : \/ i \in 1..Len(out) /\ out'[i] = out[i]
                                \/ i = Len(out) + 1 /\ out'[i] = e
    BY <1>7
  <2>4. \A i \in 1..Len(out') : out'[i].sec <= s
    BY <1>1, <1>6, <2>2, <2>3
  <2>5. Ascending(out')
    <3>1. ASSUME NEW i \in 1..Len(out'), NEW j \in 1..Len(out'), i < j
          PROVE  out'[i].sec < out'[j].sec
      <4>1. i \in 1..Len(out)
        BY <1>7, <3>1
      <4>2. CASE j = Len(out) + 1
        BY <1>6, <1>7, <2>2, <4>1, <4>2
      <4>3. CASE j \in 1..Len(out)
        BY <1>0, <1>7, <3>1, <4>1, <4>3 DEF Emitted, Ascending
      <4> QED
        BY <2>3, <4>2, <4>3
    <3> QED
      BY <3>1 DEF Ascending
  <2>6. \A i \in 1..Len(evaluated), j \in 1..Len(out') : evaluated[i].sec < out'[j].sec
    BY <1>0, <1>6, <2>0, <2>1, <2>3 DEF Emitted
  <2>7. \A i \in 1..Len(evaluated) : evaluated[i].sec <= s
    BY <1>1, <2>1
  <2> QED
    BY <1>0, <1>3, <2>0, <2>4, <2>5, <2>6, <2>7 DEF Emitted
<1>14. GraceKept'
  <2>1. now \in Nat /\ final \in BOOLEAN /\ Grace \in Nat
    BY <1>0, GraceAssumption DEF Shape
  <2>2. ~final => s <= now - Grace
    BY <1>0, <1>1, <1>3, <1>5, <2>1 DEF GraceKept
  <2> QED
    BY <1>0, <1>3, <2>2 DEF GraceKept
<1> QED
  BY <1>9, <1>10, <1>11, <1>12, <1>13, <1>14 DEF MergeInv, BatchesAccounted

\* The rest of a finalize: rows are written or counted as unwritten, ticks are sent and
\* evaluated, and Run goes back to its ticker or returns.
LEMMA RestKeeps ==
    ASSUME MergeInv,
           CollectEnd \/ WriteRollups \/ SendTick \/ SendEnd \/ EvalAutoStop \/ CloseListeners
    PROVE  MergeInv'
<1>0. Shape /\ Filed /\ NoBucketDropped /\ CountedOnce /\ Emitted /\ GraceKept
  BY DEF MergeInv, BatchesAccounted
<1>1. CASE CollectEnd
  <2>1. /\ pc = "collect" /\ pc' = "write" /\ targets' = listeners
        /\ UNCHANGED <<now, cancelled, bucketVars, final, cutoff, out, rows, sends,
                       liveVars, breakerVars, storeVars>>
    BY <1>1 DEF CollectEnd
  <2>2. Shape'
    BY <1>0, <2>1 DEF Shape, bucketVars, liveVars, breakerVars, storeVars, PC
  <2>3. Filed' /\ NoBucketDropped' /\ CountedOnce'
    BY <1>0, <2>1 DEF Filed, NoBucketDropped, fresh, CountedOnce, pending, bucketVars, storeVars
  <2>4. Emitted' /\ GraceKept'
    BY <1>0, <2>1 DEF Emitted, GraceKept, bucketVars, breakerVars, Ascending, Active
  <2> QED
    BY <2>2, <2>3, <2>4 DEF MergeInv, BatchesAccounted
<1>2. CASE WriteRollups
  <2>1. /\ pc = "write" /\ pc' = "send" /\ rows' = {}
        /\ \/ written' = written \cup rows /\ unwritten' = unwritten
           \/ unwritten' = unwritten \cup rows /\ written' = written
        /\ UNCHANGED <<now, cancelled, bucketVars, final, cutoff, out, targets,
                       sends, liveVars, breakerVars>>
    BY <1>2 DEF WriteRollups
  <2>2. Shape'
    BY <1>0, <2>1 DEF Shape, bucketVars, liveVars, breakerVars, PC
  <2>3. Filed' /\ NoBucketDropped' /\ CountedOnce'
    BY <1>0, <2>1 DEF Filed, NoBucketDropped, fresh, CountedOnce, pending, bucketVars
  <2>4. Emitted' /\ GraceKept'
    BY <1>0, <2>1 DEF Emitted, GraceKept, bucketVars, breakerVars, Ascending, Active
  <2> QED
    BY <2>2, <2>3, <2>4 DEF MergeInv, BatchesAccounted
<1>3. CASE SendTick
  <2>1. /\ sends < Len(out) /\ sends' = sends + 1
        /\ inbox' = [c \in Client |->
                       IF c \in targets /\ Len(inbox[c]) < ChanCap
                       THEN Append(inbox[c], out[sends + 1].sec)
                       ELSE inbox[c]]
        /\ UNCHANGED <<now, cancelled, pc, bucketVars, final, cutoff, out, rows,
                       targets, listeners, stream, breakerVars, storeVars>>
    BY <1>3 DEF SendTick
  <2>2. /\ Len(out) \in Nat /\ sends \in 0..Len(out) /\ Ticks(out)
        /\ inbox \in [Client -> Seq(Sec)]
    BY <1>0, TicksConcat DEF Shape
  <2>3. out[sends + 1].sec \in Sec /\ sends' \in 0..Len(out)
    BY <2>1, <2>2 DEF Ticks
  <2>4. \A c \in Client : Append(inbox[c], out[sends + 1].sec) \in Seq(Sec)
    BY <2>2, <2>3, AppendProperties
  <2>5. inbox' \in [Client -> Seq(Sec)]
    BY <2>1, <2>2, <2>4
  <2>6. Shape'
    BY <1>0, <2>1, <2>3, <2>5 DEF Shape, bucketVars, breakerVars, storeVars
  <2>7. Filed' /\ NoBucketDropped' /\ CountedOnce'
    BY <1>0, <2>1 DEF Filed, NoBucketDropped, fresh, CountedOnce, pending, bucketVars, storeVars
  <2>8. Emitted' /\ GraceKept'
    BY <1>0, <2>1 DEF Emitted, GraceKept, bucketVars, breakerVars, Ascending, Active
  <2> QED
    BY <2>6, <2>7, <2>8 DEF MergeInv, BatchesAccounted
<1>4. CASE SendEnd
  <2>1. /\ pc = "send" /\ pc' = "eval"
        /\ UNCHANGED <<now, cancelled, bucketVars, finalizeVars, liveVars,
                       breakerVars, storeVars>>
    BY <1>4 DEF SendEnd
  <2>2. Shape'
    BY <1>0, <2>1 DEF Shape, bucketVars, liveVars, breakerVars, storeVars, finalizeVars, PC
  <2>3. Filed' /\ NoBucketDropped' /\ CountedOnce'
    BY <1>0, <2>1 DEF Filed, NoBucketDropped, fresh, CountedOnce, pending, bucketVars, storeVars,
       finalizeVars
  <2>4. Emitted' /\ GraceKept'
    BY <1>0, <2>1 DEF Emitted, GraceKept, bucketVars, breakerVars, finalizeVars, Ascending, Active
  <2> QED
    BY <2>2, <2>3, <2>4 DEF MergeInv, BatchesAccounted
<1>5. CASE EvalAutoStop
  <2>1. /\ pc = "eval" /\ pc' = (IF final THEN "close" ELSE "wait")
        /\ evaluated' = evaluated \o out
        /\ UNCHANGED <<now, cancelled, bucketVars, finalizeVars, liveVars, storeVars>>
    BY <1>5 DEF EvalAutoStop
  <2>2. /\ Ticks(evaluated') /\ Len(evaluated) \in Nat /\ Len(out) \in Nat
        /\ Len(evaluated') = Len(evaluated) + Len(out)
        /\ \A i \in 1..Len(evaluated) + Len(out) :
             evaluated'[i] = IF i <= Len(evaluated) THEN evaluated[i] ELSE out[i - Len(evaluated)]
    BY <1>0, <2>1, TicksConcat DEF Shape
  <2>3. Shape'
    BY <1>0, <2>1, <2>2 DEF Shape, bucketVars, liveVars, storeVars, finalizeVars, PC
  <2>4. Filed' /\ NoBucketDropped' /\ CountedOnce'
    BY <1>0, <2>1 DEF Filed, NoBucketDropped, fresh, CountedOnce, pending, bucketVars, storeVars,
       finalizeVars
  <2>5. Emitted'
    <3>0. out' = out /\ lastEmitted' = lastEmitted /\ pc' \notin Active
      BY <2>1 DEF finalizeVars, bucketVars, Active
    <3>1. \A i \in 1..Len(evaluated') :
             \/ i \in 1..Len(evaluated) /\ evaluated'[i] = evaluated[i]
             \/ /\ i > Len(evaluated) /\ i - Len(evaluated) \in 1..Len(out)
                /\ evaluated'[i] = out[i - Len(evaluated)]
      BY <2>2
    <3>2. \A i \in 1..Len(evaluated') : evaluated'[i].sec <= lastEmitted
      BY <1>0, <3>1 DEF Emitted
    <3>3. ASSUME NEW i \in 1..Len(evaluated'), NEW j \in 1..Len(evaluated'), i < j
          PROVE  evaluated'[i].sec < evaluated'[j].sec
      <4>1. CASE i > Len(evaluated)
        <5>1. /\ i - Len(evaluated) \in 1..Len(out) /\ j - Len(evaluated) \in 1..Len(out)
              /\ i - Len(evaluated) < j - Len(evaluated)
              /\ evaluated'[i] = out[i - Len(evaluated)]
              /\ evaluated'[j] = out[j - Len(evaluated)]
          BY <2>2, <3>1, <3>3, <4>1
        <5> QED
          BY <1>0, <5>1 DEF Emitted, Ascending
      <4>2. CASE i \in 1..Len(evaluated) /\ j \in 1..Len(evaluated)
        BY <1>0, <2>2, <3>3, <4>2 DEF Emitted, Ascending
      <4>3. CASE i \in 1..Len(evaluated) /\ j > Len(evaluated)
        <5>1. /\ j - Len(evaluated) \in 1..Len(out)
              /\ evaluated'[i] = evaluated[i]
              /\ evaluated'[j] = out[j - Len(evaluated)]
          BY <2>2, <3>1, <3>3, <4>3
        <5>2. pc \in Active
          BY <2>1 DEF Active
        <5> QED
          BY <1>0, <4>3, <5>1, <5>2 DEF Emitted
      <4> QED
        BY <2>2, <4>1, <4>2, <4>3
    <3>4. Ascending(evaluated')
      BY <3>3 DEF Ascending
    <3> QED
      BY <1>0, <3>0, <3>2, <3>4 DEF Emitted
  <2>6. GraceKept'
    BY <1>0, <2>1 DEF GraceKept, bucketVars, finalizeVars
  <2> QED
    BY <2>3, <2>4, <2>5, <2>6 DEF MergeInv, BatchesAccounted
<1>6. CASE CloseListeners
  <2>1. /\ pc = "close" /\ pc' = "done" /\ listeners' = {}
        /\ stream' \in [Client -> StreamState]
        /\ UNCHANGED <<now, cancelled, bucketVars, finalizeVars, inbox,
                       breakerVars, storeVars>>
    BY <1>0, <1>6 DEF CloseListeners, Shape, StreamState
  <2>2. Shape'
    BY <1>0, <2>1 DEF Shape, bucketVars, breakerVars, storeVars, finalizeVars, PC
  <2>3. Filed' /\ NoBucketDropped' /\ CountedOnce'
    BY <1>0, <2>1 DEF Filed, NoBucketDropped, fresh, CountedOnce, pending, bucketVars, storeVars,
       finalizeVars
  <2>4. Emitted' /\ GraceKept'
    BY <1>0, <2>1 DEF Emitted, GraceKept, bucketVars, breakerVars, finalizeVars, Ascending, Active
  <2> QED
    BY <2>2, <2>3, <2>4 DEF MergeInv, BatchesAccounted
<1> QED
  BY <1>1, <1>2, <1>3, <1>4, <1>5, <1>6

-----------------------------------------------------------------------------
(* The theorems about merging                                              *)

\* Every step of the aggregator keeps the invariant.
LEMMA MergeStep ==
    ASSUME MergeInv, [Next]_vars
    PROVE  MergeInv'
<1>1. CASE UNCHANGED vars
  <2>1. Shape /\ Filed /\ NoBucketDropped /\ CountedOnce /\ Emitted /\ GraceKept
    BY DEF MergeInv, BatchesAccounted
  <2>2. /\ UNCHANGED <<now, cancelled, pc>>
        /\ UNCHANGED <<buckets, vusBySec, lastEmitted, late>>
        /\ UNCHANGED <<final, cutoff, out, rows, targets, sends>>
        /\ UNCHANGED <<listeners, inbox, stream>>
        /\ UNCHANGED <<evaluated, written, unwritten>>
    BY <1>1 DEF vars, bucketVars, finalizeVars, liveVars, breakerVars, storeVars
  <2>3. Shape'
    BY <2>1, <2>2 DEF Shape
  <2>4. Filed' /\ NoBucketDropped' /\ CountedOnce'
    BY <2>1, <2>2 DEF Filed, NoBucketDropped, fresh, CountedOnce, pending
  <2>5. Emitted' /\ GraceKept'
    BY <2>1, <2>2 DEF Emitted, GraceKept, Ascending
  <2> QED
    BY <2>3, <2>4, <2>5 DEF MergeInv, BatchesAccounted
<1> QED
  BY <1>1, CallersKeep, FinalizeKeeps, CollectKeeps, RestKeeps DEF Next, RunStep

\* The invariant of merging holds in every state.
THEOREM MergeInvariant == Spec => []MergeInv
<1>1. Init => MergeInv
  <2> SUFFICES ASSUME Init PROVE MergeInv
    OBVIOUS
  <2>1. /\ now = 1 /\ cancelled = FALSE /\ pc = "wait" /\ final = FALSE /\ cutoff = 0
        /\ lastEmitted = 0 /\ late = {} /\ out = <<>> /\ rows = {} /\ targets = {}
        /\ sends = 0 /\ listeners = {} /\ written = {} /\ unwritten = {} /\ evaluated = <<>>
    BY DEF Init
  <2>2. /\ buckets \in [Sec -> SUBSET Batch] /\ \A s \in Sec : buckets[s] = {}
        /\ vusBySec \in [Sec -> [Name -> Nat]]
        /\ stream \in [Client -> StreamState]
    BY DEF Init, StreamState
  <2>3. inbox \in [Client -> Seq(Sec)]
    <3>1. <<>> \in Seq(Sec)
      BY EmptySeq
    <3> QED
      BY <3>1 DEF Init
  <2>4. sends \in 0..Len(out)
    BY <2>1, TicksEmpty
  <2>5. Shape
    <3>1. /\ 1 \in Nat /\ 0 \in Int /\ "wait" \in PC /\ FALSE \in BOOLEAN
          /\ Ticks(out) /\ Ticks(evaluated)
      BY <2>1, TicksEmpty DEF PC
    <3> QED
      BY <2>1, <2>2, <2>3, <2>4, <3>1, Zenon DEF Shape
  <2>6. Filed /\ NoBucketDropped /\ CountedOnce
    BY <2>1, <2>2 DEF Filed, NoBucketDropped, CountedOnce, pending
  <2>7. Emitted /\ GraceKept
    BY <2>1, TicksEmpty DEF Emitted, GraceKept, Ascending
  <2> QED
    BY <2>5, <2>6, <2>7 DEF MergeInv, BatchesAccounted
<1>2. MergeInv /\ [Next]_vars => MergeInv'
  BY MergeStep
<1> QED
  BY <1>1, <1>2, PTL DEF Spec

\* No batch is lost between Ingest and finalize and none is counted twice, for every
\* set of batches in every order of arrival: a bucket never waits for a second that was
\* emitted, and a batch is late, in one bucket, or in the rows of one finalize.
THEOREM BatchesAreAccounted == Spec => []BatchesAccounted
<1>1. MergeInv => BatchesAccounted
  BY DEF MergeInv
<1> QED
  BY <1>1, MergeInvariant, PTL

\* The ticks of a run ascend strictly over all its finalizes: subscribers and the
\* breaker see each second once, and in order.
THEOREM TicksAscend == Spec => []TicksInOrder
<1>1. MergeInv => TicksInOrder
  <2> SUFFICES ASSUME MergeInv PROVE TicksInOrder
    OBVIOUS
  <2>1. Ticks(evaluated) /\ Ticks(out) /\ Emitted
    BY DEF MergeInv, Shape
  <2> DEFINE now_ == IF pc \in Active THEN out ELSE <<>>
  <2> DEFINE all == evaluated \o now_
  <2>2. /\ Ticks(now_)
        /\ \A j \in 1..Len(now_) : pc \in Active /\ j \in 1..Len(out) /\ now_[j] = out[j]
    BY <2>1, TicksEmpty
  <2> HIDE DEF now_
  <2>3. /\ Len(evaluated) \in Nat /\ Len(now_) \in Nat
        /\ Len(all) = Len(evaluated) + Len(now_)
        /\ \A i \in 1..Len(evaluated) + Len(now_) :
             all[i] = IF i <= Len(evaluated) THEN evaluated[i] ELSE now_[i - Len(evaluated)]
    BY <2>1, <2>2, TicksConcat
  <2> HIDE DEF all
  <2>4. ASSUME NEW i \in 1..Len(all), NEW j \in 1..Len(all), i < j
        PROVE  all[i].sec < all[j].sec
    <3>1. CASE i > Len(evaluated)
      <4>1. /\ i - Len(evaluated) \in 1..Len(now_) /\ j - Len(evaluated) \in 1..Len(now_)
            /\ i - Len(evaluated) < j - Len(evaluated)
            /\ all[i] = now_[i - Len(evaluated)] /\ all[j] = now_[j - Len(evaluated)]
        BY <2>3, <2>4, <3>1
      <4> QED
        BY <2>1, <2>2, <4>1 DEF Emitted, Ascending
    <3>2. CASE i <= Len(evaluated) /\ j <= Len(evaluated)
      <4>1. /\ i \in 1..Len(evaluated) /\ j \in 1..Len(evaluated)
            /\ all[i] = evaluated[i] /\ all[j] = evaluated[j]
        BY <2>3, <3>2
      <4> QED
        BY <2>1, <2>4, <4>1 DEF Emitted, Ascending
    <3>3. CASE i <= Len(evaluated) /\ j > Len(evaluated)
      <4>1. /\ i \in 1..Len(evaluated) /\ j - Len(evaluated) \in 1..Len(now_)
            /\ all[i] = evaluated[i] /\ all[j] = now_[j - Len(evaluated)]
        BY <2>3, <3>3
      <4> QED
        BY <2>1, <2>2, <4>1 DEF Emitted
    <3> QED
      BY <2>3, <3>1, <3>2, <3>3
  <2> QED
    BY <2>4 DEF TicksInOrder, all, now_, Active
<1> QED
  BY <1>1, MergeInvariant, PTL

\* Until the drain, a batch that arrives within the grace of its second is merged:
\* finalize never emits a second whose grace is not over, however late its ticker.
THEOREM GraceIsKept == Spec => InGraceIsMerged
<1>1. MergeInv /\ [Next]_vars =>
         [\A b \in late' \ late : final \/ b.sec <= now - Grace]_vars
  <2> SUFFICES ASSUME MergeInv, Next, NEW b \in late' \ late
               PROVE  final \/ b.sec <= now - Grace
    OBVIOUS
  <2>1. b \in Batch /\ Ingest(b) /\ ~fresh(b.sec)
    <3>1. CASE \E b2 \in Batch : Ingest(b2)
      BY <3>1 DEF Ingest
    <3>2. CASE late' = late
      BY <3>2
    <3> QED
      BY <3>1, <3>2 DEF Next, Subscribe, Forward, Cancel, ClockTick, RunStep, Ticker, Drain,
         Finalize, CollectSecond, CollectEnd, WriteRollups, SendTick, SendEnd, EvalAutoStop,
         CloseListeners, bucketVars
  <2>2. /\ b.sec \in Nat /\ lastEmitted \in Nat /\ now \in Nat /\ Grace \in Nat
        /\ lastEmitted # 0 /\ ~(b.sec > lastEmitted)
    BY <2>1, Seconds, GraceAssumption DEF fresh, MergeInv, Shape
  <2>3. ~final => lastEmitted <= now - Grace
    BY <2>2 DEF MergeInv, GraceKept
  <2> QED
    BY <2>2, <2>3
<1> QED
  BY <1>1, MergeInvariant, PTL DEF Spec, InGraceIsMerged

-----------------------------------------------------------------------------
(* The stall streak                                                        *)

\* What the loop of evalAutoStop counts over a sequence of ticks.
Counts(f, k, s) ==
    f = [i \in 0..Len(s) |-> IF i = 0 THEN k
                             ELSE IF stalled(s[i]) THEN f[i - 1] + 1
                             ELSE 0]

\* It counts something: the function that defines streak exists.
LEMMA CountsExist ==
    ASSUME NEW k, NEW s, Len(s) \in Nat
    PROVE  \E f : Counts(f, k, s)
<1> DEFINE D(f, n) == f = [i \in 0..n |-> IF i = 0 THEN k
                                          ELSE IF stalled(s[i]) THEN f[i - 1] + 1
                                          ELSE 0]
<1> DEFINE Bad == {n \in Nat : ~ \E f : D(f, n)}
<1>1. Bad = {}
  <2> SUFFICES ASSUME Bad # {} PROVE FALSE
    OBVIOUS
  <2>1. PICK n \in Bad : \A m \in Bad : n <= m
    <3>1. Bad \in SUBSET Nat
      OBVIOUS
    <3> HIDE DEF Bad
    <3> QED
      BY <3>1, LeastNumber
  <2>2. n # 0
    <3>1. D([i \in 0..0 |-> k], 0)
      <4> DEFINE g == [i \in 0..0 |-> k]
      <4>1. \A i \in 0..0 : i = 0
        OBVIOUS
      <4> QED
        BY <4>1
    <3> QED
      BY <2>1, <3>1
  <2>3. n \in Nat /\ n - 1 \in Nat /\ n - 1 \notin Bad
    BY <2>1, <2>2
  <2>4. PICK f : D(f, n - 1)
    BY <2>3
  <2> DEFINE v == IF stalled(s[n]) THEN f[n - 1] + 1 ELSE 0
  <2> DEFINE g == [i \in 0..n |-> IF i = n THEN v ELSE f[i]]
  <2>5. \A i \in 0..n : g[i] = IF i = 0 THEN k ELSE IF stalled(s[i]) THEN g[i - 1] + 1 ELSE 0
    <3> SUFFICES ASSUME NEW i \in 0..n
                 PROVE  g[i] = IF i = 0 THEN k ELSE IF stalled(s[i]) THEN g[i - 1] + 1 ELSE 0
      OBVIOUS
    <3>1. CASE i = n
      <4>1. g[i] = v /\ i # 0 /\ n - 1 \in 0..n /\ n - 1 # n
        BY <2>2, <2>3, <3>1
      <4>2. g[n - 1] = f[n - 1]
        BY <4>1
      <4> QED
        BY <3>1, <4>1, <4>2
    <3>2. CASE i # n
      <4>1. i \in 0..n - 1 /\ g[i] = f[i]
        BY <2>3, <3>2
      <4>2. f[i] = IF i = 0 THEN k ELSE IF stalled(s[i]) THEN f[i - 1] + 1 ELSE 0
        BY <2>4, <4>1
      <4>3. i # 0 => i - 1 \in 0..n /\ i - 1 # n /\ g[i - 1] = f[i - 1]
        BY <2>3, <4>1
      <4> QED
        BY <4>1, <4>2, <4>3
    <3> QED
      BY <3>1, <3>2
  <2>6. D(g, n)
    <3>1. g = [i \in 0..n |-> g[i]]
      OBVIOUS
    <3> HIDE DEF g
    <3> QED
      BY <2>5, <3>1
  <2> QED
    BY <2>1, <2>6
<1>2. \E f : D(f, Len(s))
  BY <1>1
<1> QED
  BY <1>2 DEF Counts

\* The streak starts with the one of the evaluation before, grows with each stalled
\* second, and is over with each second that is not.
LEMMA StreakIs ==
    ASSUME Ticks(out), stallStreak \in Nat
    PROVE  /\ Len(out) \in Nat
           /\ streak[0] = stallStreak
           /\ \A i \in 1..Len(out) :
                /\ streak[i - 1] \in Nat /\ streak[i] \in Nat
                /\ streak[i] = IF stalled(out[i]) THEN streak[i - 1] + 1 ELSE 0
<1>1. Len(out) \in Nat
  BY TicksConcat
<1>2. Counts(streak, stallStreak, out)
  <2>1. \E f : f = [i \in 0..Len(out) |-> IF i = 0 THEN stallStreak
                             ELSE IF stalled(out[i]) THEN f[i - 1] + 1
                             ELSE 0]
    <3>1. \E f : Counts(f, stallStreak, out)
      BY <1>1, CountsExist
    <3> QED
      BY <3>1 DEF Counts
  <2> QED
    BY <2>1 DEF streak, Counts
<1> DEFINE f == streak
<1> HIDE DEF f
<1>3. \A i \in 0..Len(out) : f[i] = IF i = 0 THEN stallStreak
                             ELSE IF stalled(out[i]) THEN f[i - 1] + 1
                             ELSE 0
  BY <1>2 DEF Counts, f
<1> DEFINE Bad == {i \in 0..Len(out) : f[i] \notin Nat}
<1>4. Bad = {}
  <2> SUFFICES ASSUME Bad # {} PROVE FALSE
    OBVIOUS
  <2>1. PICK n \in Bad : \A m \in Bad : n <= m
    <3>1. Bad \in SUBSET Nat
      BY <1>1
    <3> HIDE DEF Bad
    <3> QED
      BY <3>1, LeastNumber
  <2>2. n \in 0..Len(out) /\ f[n] \notin Nat
    OBVIOUS
  <2>3. n # 0
    BY <1>3, <2>2
  <2>4. n - 1 \in 0..Len(out) /\ n - 1 \notin Bad
    BY <1>1, <2>1, <2>2, <2>3
  <2>5. f[n - 1] \in Nat
    BY <2>4
  <2> QED
    BY <1>3, <2>2, <2>3, <2>5
<1>5. ASSUME NEW i \in 1..Len(out)
      PROVE  /\ f[i - 1] \in Nat /\ f[i] \in Nat
             /\ f[i] = IF stalled(out[i]) THEN f[i - 1] + 1 ELSE 0
  <2>1. i \in 0..Len(out) /\ i - 1 \in 0..Len(out) /\ i # 0
    BY <1>1
  <2> QED
    BY <1>3, <1>4, <2>1
<1>6. 0 \in 0..Len(out)
  BY <1>1
<1>7. f[0] = stallStreak
  BY <1>3, <1>6
<1> QED
  BY <1>1, <1>5, <1>7 DEF f

\* k is the length of the run of stalled seconds that ends with the n-th of h.
Trailing(h, n, k) ==
    /\ k \in 0..n
    /\ \A i \in n - k + 1 .. n : stalled(h[i])
    /\ k < n => ~stalled(h[n - k])

\* A streak of StallSec and more is a stall, a shorter one is not.
LEMMA TrailingStall ==
    ASSUME NEW h, NEW n \in Nat, NEW k, Trailing(h, n, k), StallSec > 0
    PROVE  stalledAt(h, n) <=> k >= StallSec
<1>0. StallSec \in Nat /\ k \in Nat /\ k <= n
  BY BreakerAssumption DEF Trailing
<1>1. ASSUME k >= StallSec PROVE stalledAt(h, n)
  <2>1. n >= StallSec /\ \A i \in n - StallSec + 1 .. n : i \in n - k + 1 .. n
    BY <1>0, <1>1
  <2> QED
    BY <2>1 DEF stalledAt, Trailing
<1>2. ASSUME ~(k >= StallSec), stalledAt(h, n) PROVE FALSE
  <2>1. n >= StallSec /\ \A i \in n - StallSec + 1 .. n : stalled(h[i])
    BY <1>2 DEF stalledAt
  <2>2. k < n /\ n - k \in n - StallSec + 1 .. n
    BY <1>0, <1>2, <2>1
  <2> QED
    BY <2>1, <2>2 DEF Trailing
<1> QED
  BY <1>1, <1>2

\* One more second.
LEMMA TrailingNext ==
    ASSUME NEW h, NEW n \in Nat, NEW k, Trailing(h, n, k)
    PROVE  Trailing(h, n + 1, IF stalled(h[n + 1]) THEN k + 1 ELSE 0)
<1>0. k \in Nat /\ k <= n
  BY DEF Trailing
<1>1. CASE stalled(h[n + 1])
  <2>1. k + 1 \in 0..n + 1
    BY <1>0
  <2>2. \A i \in (n + 1) - (k + 1) + 1 .. n + 1 : i = n + 1 \/ i \in n - k + 1 .. n
    BY <1>0
  <2>3. k + 1 < n + 1 => k < n /\ (n + 1) - (k + 1) = n - k
    BY <1>0
  <2> QED
    BY <1>1, <2>1, <2>2, <2>3 DEF Trailing
<1>2. CASE ~stalled(h[n + 1])
  <2>1. 0 \in 0..n + 1 /\ (n + 1) - 0 = n + 1 /\ (n + 1) - 0 + 1 .. n + 1 = {}
    BY <1>0
  <2> QED
    BY <1>2, <2>1 DEF Trailing
<1> QED
  BY <1>1, <1>2

\* The streak of evalAutoStop is the run of stalled seconds at the end of all ticks.
LEMMA StreakIsTrailing ==
    ASSUME Ticks(out), Ticks(evaluated), stallStreak \in Nat,
           Trailing(evaluated, Len(evaluated), stallStreak)
    PROVE  \A i \in 0..Len(out) : Trailing(evaluated \o out, Len(evaluated) + i, streak[i])
<1> DEFINE h == evaluated \o out
<1> DEFINE n == Len(evaluated)
<1> DEFINE f == streak
<1>1. /\ n \in Nat /\ Len(out) \in Nat
      /\ \A i \in 1..n + Len(out) : h[i] = IF i <= n THEN evaluated[i] ELSE out[i - n]
  BY TicksConcat
<1>2. /\ f[0] = stallStreak
      /\ \A i \in 1..Len(out) : f[i] = IF stalled(out[i]) THEN f[i - 1] + 1 ELSE 0
  BY StreakIs
<1>2a. Trailing(evaluated, n, stallStreak)
  OBVIOUS
<1> HIDE DEF h, f, n
<1>3. Trailing(h, n, f[0])
  <2>1. stallStreak \in Nat /\ stallStreak <= n
    BY <1>2a, <1>1 DEF Trailing
  <2>2. \A i \in n - stallStreak + 1 .. n : h[i] = evaluated[i]
    BY <1>1, <2>1
  <2>3. stallStreak < n => h[n - stallStreak] = evaluated[n - stallStreak]
    BY <1>1, <2>1
  <2> QED
    BY <1>2, <1>2a, <2>2, <2>3 DEF Trailing
<1> DEFINE Bad == {i \in 0..Len(out) : ~Trailing(h, n + i, f[i])}
<1>4. Bad = {}
  <2> SUFFICES ASSUME Bad # {} PROVE FALSE
    OBVIOUS
  <2>1. PICK i \in Bad : \A m \in Bad : i <= m
    <3>1. Bad \in SUBSET Nat
      BY <1>1
    <3> HIDE DEF Bad
    <3> QED
      BY <3>1, LeastNumber
  <2>2. i \in 0..Len(out) /\ ~Trailing(h, n + i, f[i])
    OBVIOUS
  <2>3. n + 0 = n
    BY <1>1
  <2>4. i # 0
    BY <1>3, <2>2, <2>3
  <2>5. i - 1 \in 0..Len(out) /\ i - 1 \notin Bad /\ i \in 1..Len(out)
    BY <1>1, <2>1, <2>2, <2>4
  <2>6. Trailing(h, n + (i - 1), f[i - 1])
    BY <2>5
  <2>7. n + (i - 1) \in Nat /\ (n + (i - 1)) + 1 = n + i
    BY <1>1, <2>5
  <2>8. h[n + i] = out[i]
    <3>1. n + i \in 1..n + Len(out) /\ ~(n + i <= n) /\ (n + i) - n = i
      BY <1>1, <2>5
    <3> QED
      BY <1>1, <3>1
  <2>9. Trailing(h, (n + (i - 1)) + 1,
                 IF stalled(h[(n + (i - 1)) + 1]) THEN f[i - 1] + 1 ELSE 0)
    BY <2>6, <2>7, TrailingNext
  <2>10. f[i] = IF stalled(h[(n + (i - 1)) + 1]) THEN f[i - 1] + 1 ELSE 0
    BY <1>2, <2>5, <2>7, <2>8
  <2> QED
    BY <2>2, <2>7, <2>9, <2>10
<1> QED
  BY <1>4 DEF h, n, f

\* Nothing is above the threshold where nothing was counted.
LEMMA NothingTrips == ~tripped(lastOf(stats(<<>>), Window))
<1>1. stats(<<>>) = <<>>
  BY DEF stats
<1>2. lastOf(<<>>, Window) = <<>>
  <2>1. Len(<<>>) = 0 /\ Window \in Nat \ {0}
    BY BreakerAssumption
  <2>2. lastOf(<<>>, Window) = SubSeq(<<>>, 1, 0)
    BY <2>1 DEF lastOf
  <2> QED
    BY <2>2, SubSeqEmpty
<1>3. DOMAIN <<>> = {}
  OBVIOUS
<1> DEFINE win == <<>>
<1>4. SumFunction([i \in DOMAIN win |-> win[i].count]) = 0
  <2> DEFINE f == [i \in DOMAIN win |-> win[i].count]
  <2>1. f \in [{} -> Int]
    BY <1>3
  <2> HIDE DEF f
  <2>2. SumFunction(f) = 0
    BY <2>1, SumEmpty
  <2> QED
    BY <2>2 DEF f
<1>5. ~tripped(win)
  <2> HIDE DEF win
  <2> QED
    BY <1>4 DEF tripped, total
<1> QED
  BY <1>1, <1>2, <1>5

-----------------------------------------------------------------------------
(* The breaker                                                             *)

\* The inductive invariant of the breaker: until it fires, its window is the end of
\* all ticks, its streak is the run of stalled seconds they end with, and no tick was
\* a cause.
BreakerInv ==
    /\ autoFired \in BOOLEAN
    /\ stallStreak \in Nat
    /\ Armed /\ ~autoFired =>
         /\ autoWin = lastOf(stats(evaluated), Window)
         /\ ~tripped(autoWin)
         /\ StallSec > 0 => /\ Trailing(evaluated, Len(evaluated), stallStreak)
                            /\ \A n \in 1..Len(evaluated) : ~stalledAt(evaluated, n)

\* The statistics of two parts of the ticks, one after the other.
LEMMA StatsConcat ==
    ASSUME NEW s, NEW t, Ticks(s), Ticks(t)
    PROVE  /\ Listing(stats(s)) /\ Listing(stats(t))
           /\ stats(s \o t) = stats(s) \o stats(t)
<1>1. ASSUME NEW u, Ticks(u)
      PROVE  /\ Len(u) \in Nat /\ Listing(stats(u)) /\ Len(stats(u)) = Len(u)
             /\ \A i \in 1..Len(u) : stats(u)[i] = [count |-> u[i].rps, errors |-> u[i].errors]
  <2>1. Len(u) \in Nat /\ DOMAIN u = 1..Len(u)
    BY <1>1, ListIs DEF Ticks
  <2>2. stats(u) = [i \in 1..Len(u) |-> stats(u)[i]]
    BY <2>1 DEF stats
  <2>3. \A i \in 1..Len(u) : stats(u)[i] = [count |-> u[i].rps, errors |-> u[i].errors]
    BY <2>1 DEF stats
  <2>4. Listing(stats(u)) /\ Len(stats(u)) = Len(u)
    BY <2>1, <2>2, ListOf
  <2> QED
    BY <2>1, <2>3, <2>4
<1> DEFINE a == s \o t
<1>2. /\ Ticks(a) /\ Len(a) = Len(s) + Len(t) /\ Len(s) \in Nat /\ Len(t) \in Nat
      /\ \A i \in 1..Len(s) + Len(t) : a[i] = IF i <= Len(s) THEN s[i] ELSE t[i - Len(s)]
  BY TicksConcat
<1> HIDE DEF a
<1> DEFINE x == stats(a)
<1> DEFINE p == stats(s)
<1> DEFINE q == stats(t)
<1> DEFINE y == p \o q
<1>3. /\ Listing(x) /\ Len(x) = Len(a)
      /\ \A i \in 1..Len(a) : x[i] = [count |-> a[i].rps, errors |-> a[i].errors]
  BY <1>1, <1>2
<1>4. /\ Listing(p) /\ Len(p) = Len(s)
      /\ \A i \in 1..Len(s) : p[i] = [count |-> s[i].rps, errors |-> s[i].errors]
  BY <1>1
<1>5. /\ Listing(q) /\ Len(q) = Len(t)
      /\ \A i \in 1..Len(t) : q[i] = [count |-> t[i].rps, errors |-> t[i].errors]
  BY <1>1
<1> HIDE DEF x, p, q
<1>6. /\ Listing(y) /\ Len(y) = Len(p) + Len(q)
      /\ \A i \in 1..Len(p) + Len(q) : y[i] = IF i <= Len(p) THEN p[i] ELSE q[i - Len(p)]
  BY <1>4, <1>5, ListConcat
<1> HIDE DEF y
<1>7. ASSUME NEW i \in 1..Len(x) PROVE x[i] = y[i]
  <2>1. i \in 1..Len(s) + Len(t) /\ i \in 1..Len(a) /\ i \in 1..Len(p) + Len(q)
    BY <1>2, <1>3, <1>4, <1>5
  <2>2. CASE i <= Len(s)
    <3>1. i \in 1..Len(s)
      BY <1>2, <2>1, <2>2
    <3>2. a[i] = s[i] /\ y[i] = p[i]
      BY <1>2, <1>4, <1>6, <2>1, <2>2
    <3> QED
      BY <1>3, <1>4, <2>1, <3>1, <3>2
  <2>3. CASE ~(i <= Len(s))
    <3>1. i - Len(s) \in 1..Len(t)
      BY <1>2, <2>1, <2>3
    <3>2. a[i] = t[i - Len(s)] /\ y[i] = q[i - Len(s)]
      BY <1>2, <1>4, <1>6, <2>1, <2>3
    <3> QED
      BY <1>3, <1>5, <2>1, <3>1, <3>2
  <2> QED
    BY <2>2, <2>3
<1>8. x = y
  <2>1. Len(x) = Len(y)
    BY <1>2, <1>3, <1>4, <1>5, <1>6
  <2> QED
    BY <1>3, <1>6, <1>7, <2>1, ListEqual
<1> QED
  BY <1>4, <1>5, <1>8 DEF x, y, p, q, a

\* An evaluation: what it adds to the window and to the streak is exactly what a look
\* at all ticks finds.
LEMMA EvalIsExact ==
    ASSUME BreakerInv, Ticks(out), Ticks(evaluated), EvalAutoStop
    PROVE  BreakerInv' /\ BreakerHasCause
<1> DEFINE h == evaluated \o out
<1> DEFINE n == Len(evaluated)
<1> DEFINE trips == {i \in 1..Len(out) : streak[i] >= StallSec}
<1>0. /\ StallSec \in Nat /\ Window \in Nat \ {0} /\ Armed \in BOOLEAN /\ evaluated' = h
      /\ autoFired \in BOOLEAN /\ stallStreak \in Nat
  BY BreakerAssumption, ArmedAssumption DEF EvalAutoStop, BreakerInv
<1>1. /\ n \in Nat /\ Len(out) \in Nat /\ Len(h) = n + Len(out)
      /\ \A i \in 1..n + Len(out) : h[i] = IF i <= n THEN evaluated[i] ELSE out[i - n]
  BY TicksConcat
<1>2. CASE ~Armed \/ autoFired
  <2>1. UNCHANGED <<autoWin, stallStreak, autoFired>>
    BY <1>0, <1>2 DEF EvalAutoStop
  <2> QED
    BY <1>0, <1>2, <2>1 DEF BreakerInv, BreakerHasCause
<1>3. CASE Armed /\ ~autoFired /\ out = <<>>
  <2>1. UNCHANGED <<autoWin, stallStreak, autoFired>>
    BY <1>0, <1>3 DEF EvalAutoStop
  <2>2. evaluated' = evaluated
    <3>1. h = evaluated
      <4>1. evaluated \in Seq({evaluated[i] : i \in DOMAIN evaluated})
        BY DEF Ticks, Listing
      <4> QED
        BY <1>3, <4>1, ConcatEmptySeq
    <3> QED
      BY <1>0, <3>1
  <2> QED
    BY <1>0, <1>3, <2>1, <2>2 DEF BreakerInv, BreakerHasCause
<1>4. CASE Armed /\ ~autoFired /\ out # <<>>
  <2>1. \/ /\ StallSec > 0 /\ trips # {}
           /\ stallStreak' = streak[Min(trips)]
           /\ autoFired' = TRUE
        \/ /\ StallSec = 0 \/ trips = {}
           /\ stallStreak' = (IF StallSec > 0 THEN streak[Len(out)] ELSE stallStreak)
           /\ autoWin' = lastOf(autoWin \o stats(out), Window)
           /\ autoFired' = tripped(autoWin')
    BY <1>4 DEF EvalAutoStop
  <2>2. StallSec > 0 => \A i \in 0..Len(out) : Trailing(h, n + i, streak[i])
    BY <1>0, <1>4, StreakIsTrailing DEF BreakerInv
  <2>3. \A i \in 1..Len(out) : streak[i] \in Nat
    BY <1>0, StreakIs
  <2>4. StallSec > 0 => \A i \in 1..Len(out) : stalledAt(h, n + i) <=> streak[i] >= StallSec
    <3>1. \A i \in 1..Len(out) : n + i \in Nat /\ i \in 0..Len(out)
      BY <1>1
    <3> HIDE DEF h, n
    <3> QED
      BY <2>2, <3>1, TrailingStall
  <2> HIDE DEF h, n
  <2>5. CASE StallSec > 0 /\ trips # {} /\ stallStreak' = streak[Min(trips)] /\ autoFired' = TRUE
    <3>1. trips \in SUBSET Nat
      BY <1>1
    <3>2. Min(trips) \in trips
      BY <2>5, <3>1, MinIsLeast
    <3>3. PICK i \in 1..Len(out) : i = Min(trips) /\ streak[i] >= StallSec
      BY <3>2
    <3>4. stallStreak' \in Nat
      BY <2>3, <2>5, <3>3
    <3>5. n + i \in n + 1 .. Len(h) /\ stalledAt(h, n + i)
      BY <1>1, <2>4, <2>5, <3>3
    <3> QED
      BY <1>0, <2>5, <3>4, <3>5 DEF BreakerInv, BreakerHasCause, n
  <2>6. CASE /\ StallSec = 0 \/ trips = {}
             /\ stallStreak' = (IF StallSec > 0 THEN streak[Len(out)] ELSE stallStreak)
             /\ autoWin' = lastOf(autoWin \o stats(out), Window)
             /\ autoFired' = tripped(autoWin')
    <3>1. autoWin' = lastOf(stats(h), Window)
      <4>1. autoWin = lastOf(stats(evaluated), Window)
        BY <1>4 DEF BreakerInv
      <4>2. /\ Listing(stats(evaluated)) /\ Listing(stats(out))
            /\ stats(h) = stats(evaluated) \o stats(out)
        BY StatsConcat DEF h
      <4> QED
        BY <1>0, <2>6, <4>1, <4>2, LastOfConcat
    <3>2. autoFired' \in BOOLEAN /\ (autoFired' <=> tripped(autoWin'))
      BY <2>6 DEF tripped
    <3>3. Len(out) # 0 /\ Len(out) \in 1..Len(out) /\ Len(out) \in 0..Len(out)
      <4>1. out \in Seq({out[i] : i \in DOMAIN out})
        BY DEF Ticks, Listing
      <4>2. Len(out) # 0
        BY <1>4, <4>1, EmptySeq
      <4> QED
        BY <1>1, <4>2
    <3>4. stallStreak' \in Nat
      BY <1>0, <2>3, <2>6, <3>3
    <3>5. ASSUME StallSec > 0
          PROVE  /\ Trailing(h, Len(h), stallStreak')
                 /\ \A m \in 1..Len(h) : ~stalledAt(h, m)
      <4>1. trips = {} /\ stallStreak' = streak[Len(out)]
        BY <1>0, <2>6, <3>5
      <4>2. Trailing(h, Len(h), stallStreak')
        BY <1>1, <2>2, <3>3, <3>5, <4>1
      <4>3. ASSUME NEW m \in 1..Len(h), stalledAt(h, m) PROVE FALSE
        <5>1. CASE m <= n
          <6>1. m \in 1..n
            BY <1>1, <5>1
          <6>2. \A i \in m - StallSec + 1 .. m : m >= StallSec => h[i] = evaluated[i]
            BY <1>0, <1>1, <6>1
          <6>3. stalledAt(evaluated, m)
            BY <4>3, <6>2 DEF stalledAt
          <6> QED
            BY <1>4, <3>5, <6>1, <6>3 DEF BreakerInv, n
        <5>2. CASE ~(m <= n)
          <6>1. m - n \in 1..Len(out) /\ n + (m - n) = m
            BY <1>1, <5>2
          <6>2. streak[m - n] >= StallSec
            BY <2>4, <3>5, <4>3, <6>1
          <6> QED
            BY <4>1, <6>1, <6>2
        <5> QED
          BY <5>1, <5>2
      <4> QED
        BY <4>2, <4>3
    <3>6. BreakerInv'
      BY <1>0, <3>1, <3>2, <3>4, <3>5 DEF BreakerInv
    <3>7. BreakerHasCause
      BY <1>0, <3>1, <3>2 DEF BreakerHasCause
    <3> QED
      BY <3>6, <3>7
  <2> QED
    BY <2>1, <2>5, <2>6
<1> QED
  BY <1>0, <1>2, <1>3, <1>4

\* What else happens leaves the breaker alone.
LEMMA BreakerStep ==
    ASSUME BreakerInv, Ticks(out), Ticks(evaluated), [Next]_vars
    PROVE  BreakerInv' /\ (BreakerHasCause \/ UNCHANGED vars)
<1>1. CASE EvalAutoStop
  BY <1>1, EvalIsExact
<1>2. CASE UNCHANGED breakerVars
  <2>1. UNCHANGED <<autoWin, stallStreak, autoFired, evaluated>>
    BY <1>2 DEF breakerVars
  <2>2. autoFired \in BOOLEAN
    BY DEF BreakerInv
  <2> QED
    BY <2>1, <2>2 DEF BreakerInv, BreakerHasCause
<1>3. CASE UNCHANGED vars
  BY <1>2, <1>3 DEF vars
<1>4. CASE Next /\ ~EvalAutoStop
  <2>1. UNCHANGED breakerVars
    <3>1. ASSUME NEW b \in Batch, Ingest(b) PROVE UNCHANGED breakerVars
      BY <3>1 DEF Ingest
    <3>2. ASSUME NEW c \in Client, Subscribe(c) \/ Forward(c) PROVE UNCHANGED breakerVars
      BY <3>2 DEF Subscribe, Forward
    <3>3. Cancel \/ ClockTick \/ Ticker \/ Drain => UNCHANGED breakerVars
      BY DEF Cancel, ClockTick, Ticker, Drain, Finalize
    <3>4. CollectSecond => UNCHANGED breakerVars
      BY DEF CollectSecond
    <3>5. CollectEnd \/ WriteRollups \/ SendTick \/ SendEnd \/ CloseListeners => UNCHANGED breakerVars
      BY DEF CollectEnd, WriteRollups, SendTick, SendEnd, CloseListeners
    <3> QED
      BY <1>4, <3>1, <3>2, <3>3, <3>4, <3>5 DEF Next, RunStep
  <2> QED
    BY <1>2, <2>1
<1> QED
  BY <1>1, <1>3, <1>4

\* No cause is missed where the invariant holds.
LEMMA NothingMissed == BreakerInv => BreakerMissesNothing
<1> SUFFICES ASSUME BreakerInv, Armed, ~autoFired
             PROVE  /\ ~tripped(lastOf(stats(evaluated), Window))
                    /\ \A n \in 1..Len(evaluated) : ~stalledAt(evaluated, n)
  BY DEF BreakerMissesNothing
<1>1. ASSUME NEW n \in 1..Len(evaluated), stalledAt(evaluated, n) PROVE FALSE
  <2>1. StallSec > 0
    BY <1>1 DEF stalledAt
  <2> QED
    BY <1>1, <2>1 DEF BreakerInv
<1> QED
  BY <1>1 DEF BreakerInv

\* The invariant of the breaker holds in every state.
THEOREM BreakerInvariant == Spec => []BreakerInv
<1>1. Init => BreakerInv
  <2> SUFFICES ASSUME Init PROVE BreakerInv
    OBVIOUS
  <2>1. autoWin = <<>> /\ stallStreak = 0 /\ autoFired = FALSE /\ evaluated = <<>>
    BY DEF Init
  <2>2. autoWin = lastOf(stats(evaluated), Window) /\ ~tripped(autoWin)
    <3>1. lastOf(stats(<<>>), Window) = <<>>
      <4>1. stats(<<>>) = <<>> /\ Len(<<>>) = 0 /\ Window \in Nat \ {0}
        BY BreakerAssumption DEF stats
      <4>2. lastOf(<<>>, Window) = SubSeq(<<>>, 1, 0)
        BY <4>1 DEF lastOf
      <4> QED
        BY <4>1, <4>2, SubSeqEmpty
    <3> QED
      BY <2>1, <3>1, NothingTrips
  <2>3. Trailing(evaluated, 0, stallStreak)
    BY <2>1 DEF Trailing
  <2>4. Len(evaluated) = 0 /\ \A n \in 1..Len(evaluated) : FALSE
    BY <2>1
  <2>5. autoFired \in BOOLEAN /\ stallStreak \in Nat
    BY <2>1
  <2> QED
    BY <2>2, <2>3, <2>4, <2>5, Zenon DEF BreakerInv
<1>2. MergeInv /\ BreakerInv /\ [Next]_vars => BreakerInv'
  BY BreakerStep DEF MergeInv, Shape
<1> QED
  BY <1>1, <1>2, MergeInvariant, PTL DEF Spec

\* The auto-stop breaker fires for a cause and misses none, for every window, threshold
\* and stall limit: what evalAutoStop keeps from one finalize to the next is equivalent
\* to a look at all ticks of the run.
THEOREM BreakerAgreesWithHistory == Spec => BreakerIsExact
<1>1. MergeInv /\ BreakerInv /\ BreakerInv' /\ [Next]_vars
        => [BreakerHasCause /\ BreakerMissesNothing']_vars
  <2> SUFFICES ASSUME MergeInv, BreakerInv, BreakerInv', [Next]_vars
               PROVE  UNCHANGED vars \/ (BreakerHasCause /\ BreakerMissesNothing')
    OBVIOUS
  <2>1. BreakerHasCause \/ UNCHANGED vars
    BY BreakerStep DEF MergeInv, Shape
  <2>2. BreakerMissesNothing'
    BY NothingMissed, PTL
  <2> QED
    BY <2>1, <2>2
<1> QED
  BY <1>1, MergeInvariant, BreakerInvariant, PTL DEF Spec, BreakerIsExact

-----------------------------------------------------------------------------
(* What ticks count                                                        *)

Stat == [count : Nat, errors : Nat]

\* The sums of a tick, and of the breaker's window, are numbers.
Counted == out \in Seq(Tick) /\ evaluated \in Seq(Tick) /\ autoWin \in Seq(Stat)

\* The workers are finitely many.
LEMMA NamesFinite == IsFiniteSet(Name)
<1> DEFINE f == [b \in Batch |-> b.worker]
<1>1. IsFiniteSet(Batch) /\ Name = {f[b] : b \in Batch}
  BY BatchAssumption DEF Name
<1>2. f \in Surjection(Batch, Name)
  BY <1>1 DEF Surjection
<1> QED
  BY <1>1, <1>2, FS_Surjection

\* collect makes a tick.
LEMMA CollectIsTick ==
    ASSUME Shape, NEW s \in Sec
    PROVE  collect(s) \in Tick
<1> DEFINE B == buckets[s]
<1> DEFINE u == vusBySec[s]
<1> DEFINE f == [b \in B |-> b.count]
<1> DEFINE g == [b \in B |-> b.errors]
<1> DEFINE h == [w \in Name |-> u[w]]
<1>1. B \subseteq Batch /\ IsFiniteSet(Batch) /\ u \in [Name -> Nat]
  BY BatchAssumption DEF Shape
<1>2. IsFiniteSet(B)
  BY <1>1, FS_Subset
<1>3. \A b \in B : b.count \in Nat /\ b.errors \in Nat
  BY <1>1, BatchAssumption DEF BatchType
<1> HIDE DEF B, u
<1>4. f \in [B -> Nat] /\ g \in [B -> Nat] /\ h \in [Name -> Nat]
  BY <1>1, <1>3
<1> HIDE DEF f, g, h
<1>5. SumFunction(f) \in Nat /\ SumFunction(g) \in Nat /\ SumFunction(h) \in Nat
  BY <1>2, <1>4, SumNat, NamesFinite
<1>6. collect(s) = [sec |-> s, rps |-> SumFunction(f), errors |-> SumFunction(g),
                    vus |-> SumFunction(h)]
  BY DEF collect, total, f, g, h, B, u
<1> QED
  BY <1>5, <1>6 DEF Tick

\* The statistics of ticks, and the end of a sequence.
LEMMA StatsTyped ==
    ASSUME NEW s \in Seq(Tick)
    PROVE  stats(s) \in Seq(Stat)
<1>1. PICK n \in Nat : n = Len(s)
  BY LenProperties
<1>2. DOMAIN s = 1..n /\ \A i \in 1..n : s[i] \in Tick
  BY <1>1, LenProperties
<1>3. \A i \in 1..n : [count |-> s[i].rps, errors |-> s[i].errors] \in Stat
  BY <1>2 DEF Tick, Stat
<1>4. stats(s) \in [1..n -> Stat]
  BY <1>2, <1>3 DEF stats
<1> QED
  BY <1>4, SeqDef

LEMMA LastOfTyped ==
    ASSUME NEW S, NEW s \in Seq(S), NEW n \in Nat \ {0}
    PROVE  lastOf(s, n) \in Seq(S)
<1>1. PICK k \in Nat : k = Len(s)
  BY LenProperties
<1>2. PICK a \in Nat : a = IF k > n THEN k - n + 1 ELSE 1
  <2>1. (IF k > n THEN k - n + 1 ELSE 1) \in Nat
    OBVIOUS
  <2> QED
    BY <2>1
<1>3. a \in 1..k + 1 /\ lastOf(s, n) = SubSeq(s, a, k)
  BY <1>1, <1>2 DEF lastOf
<1>4. CASE k = 0
  <2>1. a = 1 \/ a = 0
    BY <1>3, <1>4
  <2> QED
    BY <1>1, <1>3, <1>4, SubSeqProperties
<1>5. CASE k # 0
  <2>1. k \in 1..Len(s) /\ a \in 1..k + 1
    BY <1>1, <1>3, <1>5
  <2> QED
    BY <1>1, <1>3, <2>1, SubSeqProperties
<1> QED
  BY <1>4, <1>5

LEMMA CountedStep ==
    ASSUME MergeInv, Counted, [Next]_vars
    PROVE  Counted'
<1>0. Shape /\ out \in Seq(Tick) /\ evaluated \in Seq(Tick) /\ autoWin \in Seq(Stat)
  BY DEF MergeInv, Counted
<1>1. CASE UNCHANGED <<out, evaluated, autoWin>>
  BY <1>1 DEF Counted
<1>2. CASE Ticker \/ Drain
  <2>1. out' = <<>> /\ UNCHANGED <<evaluated, autoWin>>
    BY <1>2 DEF Ticker, Drain, Finalize, breakerVars
  <2> QED
    BY <1>0, <2>1, EmptySeq DEF Counted
<1>3. CASE CollectSecond
  <2>1. UNCHANGED <<evaluated, autoWin>>
    BY <1>3 DEF CollectSecond, breakerVars
  <2>2. Min(ready) \in Sec
    <3>1. ready \in SUBSET Nat /\ ready # {} /\ ready \subseteq Sec
      BY <1>3, Seconds DEF CollectSecond, ready
    <3> QED
      BY <3>1, MinIsLeast
  <2>3. out' = out \/ out' = Append(out, collect(Min(ready)))
    BY <1>3 DEF CollectSecond
  <2>4. collect(Min(ready)) \in Tick
    BY <1>0, <2>2, CollectIsTick
  <2>5. \A t \in Tick : Append(out, t) \in Seq(Tick)
    BY <1>0, AppendProperties
  <2>6. out' \in Seq(Tick)
    BY <1>0, <2>3, <2>4, <2>5, Zenon
  <2> QED
    BY <1>0, <2>1, <2>6 DEF Counted
<1>4. CASE EvalAutoStop
  <2>1. /\ out' = out /\ evaluated' = evaluated \o out
        /\ autoWin' = autoWin \/ autoWin' = lastOf(autoWin \o stats(out), Window)
    BY <1>4 DEF EvalAutoStop, finalizeVars
  <2>2. evaluated \o out \in Seq(Tick)
    BY <1>0, ConcatProperties
  <2>3. autoWin \o stats(out) \in Seq(Stat)
    BY <1>0, StatsTyped, ConcatProperties
  <2>4. lastOf(autoWin \o stats(out), Window) \in Seq(Stat)
    BY <2>3, BreakerAssumption, LastOfTyped
  <2> QED
    BY <1>0, <2>1, <2>2, <2>4 DEF Counted
<1>5. ASSUME NEW b \in Batch, Ingest(b) PROVE UNCHANGED <<out, evaluated, autoWin>>
  BY <1>5 DEF Ingest, finalizeVars, breakerVars
<1>6. ASSUME NEW c \in Client, Subscribe(c) \/ Forward(c)
      PROVE  UNCHANGED <<out, evaluated, autoWin>>
  BY <1>6 DEF Subscribe, Forward, finalizeVars, breakerVars
<1>7. Cancel \/ ClockTick \/ CollectEnd => UNCHANGED <<out, evaluated, autoWin>>
  BY DEF Cancel, ClockTick, CollectEnd, finalizeVars, breakerVars
<1>8. WriteRollups \/ SendTick => UNCHANGED <<out, evaluated, autoWin>>
  BY DEF WriteRollups, SendTick, breakerVars
<1>9. SendEnd \/ CloseListeners => UNCHANGED <<out, evaluated, autoWin>>
  BY DEF SendEnd, CloseListeners, finalizeVars, breakerVars
<1>10. UNCHANGED vars => UNCHANGED <<out, evaluated, autoWin>>
  BY DEF vars, finalizeVars, breakerVars
<1> QED
  BY <1>1, <1>2, <1>3, <1>4, <1>5, <1>6, <1>7, <1>8, <1>9, <1>10 DEF Next, RunStep

\* Every variable of the aggregator stays in its type: what Ingest merged, finalize
\* collected and evalAutoStop keeps is a number for every finite set of batches, and no
\* finalize sends more ticks than it has.
THEOREM AggregatorTypeCorrect == Spec => []TypeOK
<1>1. Init => Counted
  BY EmptySeq DEF Init, Counted
<1>2. MergeInv /\ Counted /\ [Next]_vars => Counted'
  BY CountedStep
<1>3. MergeInv /\ BreakerInv /\ Counted => TypeOK
  <2> SUFFICES ASSUME MergeInv, BreakerInv, Counted PROVE TypeOK
    OBVIOUS
  <2>1. Shape /\ out \in Seq(Tick) /\ evaluated \in Seq(Tick) /\ autoWin \in Seq(Stat)
    BY DEF MergeInv, Counted
  <2>2. stallStreak \in Nat /\ autoFired \in BOOLEAN
    BY DEF BreakerInv
  <2> QED
    BY <2>1, <2>2, Zenon DEF Shape, TypeOK, Stat
<1> QED
  BY <1>1, <1>2, <1>3, MergeInvariant, BreakerInvariant, PTL DEF Spec
=============================================================================
