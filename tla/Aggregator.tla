------------------------------ MODULE Aggregator ------------------------------
(***************************************************************************)
(* The per-run aggregator (internal/coordinator/aggregator/aggregator.go): *)
(* it merges the workers' batches into one bucket per second, finalizes a  *)
(* second once its grace is over, writes the rollups, sends one live tick  *)
(* per second to the subscribers and evaluates the auto-stop breaker.      *)
(*                                                                         *)
(* Run is one goroutine; `pc' says where it is.  It holds Aggregator.mu    *)
(* only while it collects the ready seconds, and Ingest and Subscribe run  *)
(* at any other moment, also after Run has returned: the coordinator keeps *)
(* the aggregator in the run state.                                        *)
(*                                                                         *)
(* Latency histograms, byte counts and raw samples are left out: they      *)
(* follow the counts of their bucket.                                      *)
(***************************************************************************)
EXTENDS Integers, FiniteSets, Sequences, FiniteSetsExt

CONSTANTS
    Batch,       \* the MetricBatch messages workers send
    Client,      \* StreamLive callers
    Grace,       \* finalizeGrace, in seconds
    ChanCap,     \* capacity of a listener's channel
    Armed,       \* is the breaker enabled and has it a callback?
    Window,      \* AutoStopConfig.WindowSec
    MinRequests, \* AutoStopConfig.MinRequests
    RatePct,     \* AutoStopConfig.ErrorRatePct
    StallSec,    \* seconds of stall that trip the breaker, 0 for never
    MaxNow       \* bound: the last second of the clock

\* vus: VUs the worker reports; count, errors: its requests in the second;
\* txn: entries of the scenario's transaction pseudo-groups
BatchType == [worker : STRING, sec : Nat \ {0}, vus : Nat, count : Nat,
              errors : Nat, txn : Nat, nr : Nat]

ASSUME BatchAssumption == IsFiniteSet(Batch) /\ Batch \subseteq BatchType
ASSUME GraceAssumption == Grace \in Nat
ASSUME ChanCapAssumption == ChanCap \in Nat \ {0}
ASSUME ArmedAssumption == Armed \in BOOLEAN
ASSUME BreakerAssumption ==
    /\ Window \in Nat \ {0}
    /\ MinRequests \in Nat
    /\ RatePct \in Nat
    /\ StallSec \in Nat
ASSUME MaxNowAssumption == MaxNow \in Nat

VARIABLES
    now,          \* the coordinator's clock, in seconds
    cancelled,    \* is the context of Run done?
    pc,           \* where Run is
    final,        \* is the current finalize the draining one?
    cutoff,       \* the cutoff of the current finalize
    buckets,      \* [Sec -> SUBSET Batch]: what each second has merged
    vusBySec,     \* [Sec -> [Name -> Nat]]: last report of each worker
    lastEmitted,  \* the last second that was emitted, 0 for none
    late,         \* batches counted in lateBatches
    out,          \* Seq(Tick): ticks of the current finalize
    rows,         \* batches in the rollup rows of the current finalize
    targets,      \* listeners the current finalize sends to
    sends,        \* how many ticks of out have been sent
    listeners,    \* clients whose channel is in a.listeners
    inbox,        \* [Client -> Seq(Nat)]: seconds waiting in the channel
    stream,       \* [Client -> StreamState]
    autoWin, stallStreak, autoFired,   \* the breaker
    \* history
    written,      \* batches whose rollup rows were written
    unwritten,    \* batches whose write failed, which is logged and counted
    evaluated     \* Seq(Tick): all ticks the breaker was given

bucketVars == <<buckets, vusBySec, lastEmitted, late>>
finalizeVars == <<final, cutoff, out, rows, targets, sends>>
liveVars == <<listeners, inbox, stream>>
breakerVars == <<autoWin, stallStreak, autoFired, evaluated>>
storeVars == <<written, unwritten>>
vars == <<now, cancelled, pc, bucketVars, finalizeVars, liveVars, breakerVars,
          storeVars>>

Sec == {b.sec : b \in Batch}
Name == {b.worker : b \in Batch}
Tick == [sec : Sec, rps : Nat, errors : Nat, vus : Nat]
StreamState == {"none", "open", "closed"}
PC == {"wait", "collect", "write", "send", "eval", "close", "done"}

Init ==
    /\ now = 1
    /\ cancelled = FALSE
    /\ pc = "wait"
    /\ final = FALSE
    /\ cutoff = 0
    /\ buckets = [s \in Sec |-> {}]
    /\ vusBySec = [s \in Sec |-> [w \in Name |-> 0]]
    /\ lastEmitted = 0
    /\ late = {}
    /\ out = <<>>
    /\ rows = {}
    /\ targets = {}
    /\ sends = 0
    /\ listeners = {}
    /\ inbox = [c \in Client |-> <<>>]
    /\ stream = [c \in Client |-> "none"]
    /\ autoWin = <<>>
    /\ stallStreak = 0
    /\ autoFired = FALSE
    /\ written = {}
    /\ unwritten = {}
    /\ evaluated = <<>>

\* Aggregator.mu is free.
Unlocked == pc # "collect"

\* Mutant of fresh: every second is accepted and emitted.
freshAlways(sec) == TRUE

\* Has the second not been emitted, nor passed over, yet?
fresh(sec) == lastEmitted = 0 \/ sec > lastEmitted

pending == UNION {buckets[s] : s \in Sec}
ingested == pending \cup rows \cup late \cup written \cup unwritten

-----------------------------------------------------------------------------
(* Callers                                                                 *)

\* Mutant of Ingest: a bucket is made again for an emitted second.
IngestLate(b) ==
    /\ Unlocked
    /\ b \notin ingested
    /\ buckets' = [buckets EXCEPT ![b.sec] = @ \cup {b}]
    /\ vusBySec' = [vusBySec EXCEPT ![b.sec][b.worker] = b.vus]
    /\ UNCHANGED <<now, cancelled, pc, lastEmitted, late, finalizeVars,
                   liveVars, breakerVars, storeVars>>

\* Ingest of a batch, which may arrive at any time and carries the second of
\* its worker's clock.
Ingest(b) ==
    /\ Unlocked
    /\ b \notin ingested
    /\ IF fresh(b.sec)
       THEN /\ buckets' = [buckets EXCEPT ![b.sec] = @ \cup {b}]
            /\ vusBySec' = [vusBySec EXCEPT ![b.sec][b.worker] = b.vus]
            /\ UNCHANGED late
       ELSE /\ late' = late \cup {b}
            /\ UNCHANGED <<buckets, vusBySec>>
    /\ UNCHANGED <<now, cancelled, pc, lastEmitted, finalizeVars, liveVars,
                   breakerVars, storeVars>>

\* StreamLive subscribes.
Subscribe(c) ==
    /\ Unlocked
    /\ stream[c] = "none"
    /\ stream' = [stream EXCEPT ![c] = "open"]
    /\ listeners' = listeners \cup {c}
    /\ UNCHANGED <<now, cancelled, pc, bucketVars, finalizeVars, inbox,
                   breakerVars, storeVars>>

\* StreamLive forwards a tick to its caller.
Forward(c) ==
    /\ inbox[c] # <<>>
    /\ inbox' = [inbox EXCEPT ![c] = Tail(@)]
    /\ UNCHANGED <<now, cancelled, pc, bucketVars, finalizeVars, listeners,
                   stream, breakerVars, storeVars>>

\* The coordinator cancels the aggregator once the drain grace is over.
Cancel ==
    /\ ~cancelled
    /\ cancelled' = TRUE
    /\ UNCHANGED <<now, pc, bucketVars, finalizeVars, liveVars, breakerVars,
                   storeVars>>

ClockTick ==
    /\ now < MaxNow
    /\ now' = now + 1
    /\ UNCHANGED <<cancelled, pc, bucketVars, finalizeVars, liveVars,
                   breakerVars, storeVars>>

-----------------------------------------------------------------------------
(* Run                                                                     *)

\* finalize starts: with the time of the ticker, or an hour ahead to drain.
Finalize(last, limit) ==
    /\ pc = "wait"
    /\ pc' = "collect"
    /\ final' = last
    /\ cutoff' = limit
    /\ out' = <<>>
    /\ rows' = {}
    /\ sends' = 0
    /\ UNCHANGED <<now, cancelled, bucketVars, targets, liveVars, breakerVars,
                   storeVars>>

\* Mutant of Ticker: the grace is one second short.
TickerEarly == \E at \in 1..now : Finalize(FALSE, at - Grace + 1)

\* The ticker's channel keeps one tick: Run may take it late, with the time at
\* which it fired.
Ticker == \E at \in 1..now : Finalize(FALSE, at - Grace)

Drain == cancelled /\ Finalize(TRUE, now + 3600 - Grace)

ready == {s \in Sec : buckets[s] # {} /\ s <= cutoff}

total(f(_), B) == SumFunction([x \in B |-> f(x)])

\* collect: one tick for the second, over its real request groups.
collect(s) ==
    LET count(b) == b.count
        errors(b) == b.errors
        vus(w) == vusBySec[s][w]
    IN  [sec |-> s, rps |-> total(count, buckets[s]),
         errors |-> total(errors, buckets[s]), vus |-> total(vus, Name)]

\* One iteration of finalize's loop: the ready seconds in order.
CollectSecond ==
    /\ pc = "collect"
    /\ ready # {}
    /\ LET s == Min(ready)
       IN  /\ buckets' = [buckets EXCEPT ![s] = {}]
           /\ vusBySec' = [vusBySec EXCEPT ![s] = [w \in Name |-> 0]]
           /\ IF fresh(s)
              THEN /\ lastEmitted' = s
                   /\ out' = Append(out, collect(s))
                   /\ rows' = rows \cup buckets[s]
              ELSE UNCHANGED <<lastEmitted, out, rows>>
    /\ UNCHANGED <<now, cancelled, pc, late, final, cutoff, targets, sends,
                   liveVars, breakerVars, storeVars>>

\* Mutant of CollectEnd: everything up to the cutoff counts as emitted.
CollectEndSkips ==
    /\ pc = "collect"
    /\ ready = {}
    /\ pc' = "write"
    /\ targets' = listeners
    /\ lastEmitted' = cutoff
    /\ UNCHANGED <<now, cancelled, buckets, vusBySec, late, final, cutoff, out,
                   rows, sends, liveVars, breakerVars, storeVars>>

\* The loop ends and the lock is released, with a copy of the listeners.
CollectEnd ==
    /\ pc = "collect"
    /\ ready = {}
    /\ pc' = "write"
    /\ targets' = listeners
    /\ UNCHANGED <<now, cancelled, bucketVars, final, cutoff, out, rows, sends,
                   liveVars, breakerVars, storeVars>>

\* WriteRollups; a failure is logged and counted, and nothing is retried.
WriteRollups ==
    /\ pc = "write"
    /\ pc' = "send"
    /\ rows' = {}
    /\ \/ written' = written \cup rows /\ UNCHANGED unwritten
       \/ /\ \E b \in rows : b.count + b.txn > 0
          /\ unwritten' = unwritten \cup rows
          /\ UNCHANGED written
    /\ UNCHANGED <<now, cancelled, bucketVars, final, cutoff, out, targets,
                   sends, liveVars, breakerVars>>

\* One tick goes to every listener whose channel has room.
SendTick ==
    /\ pc = "send"
    /\ sends < Len(out)
    /\ sends' = sends + 1
    /\ inbox' = [c \in Client |->
                   IF c \in targets /\ Len(inbox[c]) < ChanCap
                   THEN Append(inbox[c], out[sends + 1].sec)
                   ELSE inbox[c]]
    /\ UNCHANGED <<now, cancelled, pc, bucketVars, final, cutoff, out, rows,
                   targets, listeners, stream, breakerVars, storeVars>>

SendEnd ==
    /\ pc = "send"
    /\ sends = Len(out)
    /\ pc' = "eval"
    /\ UNCHANGED <<now, cancelled, bucketVars, finalizeVars, liveVars,
                   breakerVars, storeVars>>

stalled(t) == t.vus > 0 /\ t.rps = 0

\* Mutant of streak: it starts anew with every finalize.
streakForgets ==
    LET after[i \in 0..Len(out)] ==
            IF i = 0 THEN 0
            ELSE IF stalled(out[i]) THEN after[i - 1] + 1
            ELSE 0
    IN  after

\* The stall streak after the first i ticks of out.
streak ==
    LET after[i \in 0..Len(out)] ==
            IF i = 0 THEN stallStreak
            ELSE IF stalled(out[i]) THEN after[i - 1] + 1
            ELSE 0
    IN  after

lastOf(s, n) == SubSeq(s, IF Len(s) > n THEN Len(s) - n + 1 ELSE 1, Len(s))

\* Is the error rate over these seconds above the threshold?
tripped(win) ==
    LET count(i) == win[i].count
        errors(i) == win[i].errors
        c == total(count, DOMAIN win)
        e == total(errors, DOMAIN win)
    IN  c >= MinRequests /\ c # 0 /\ e * 100 > RatePct * c

stats(ticks) == [i \in DOMAIN ticks |-> [count |-> ticks[i].rps,
                                         errors |-> ticks[i].errors]]

\* evalAutoStop.  Firing calls Service.autoStopRun.
EvalAutoStop ==
    /\ pc = "eval"
    /\ pc' = IF final THEN "close" ELSE "wait"
    /\ evaluated' = evaluated \o out
    /\ LET trips == {i \in 1..Len(out) : streak[i] >= StallSec}
       IN  \/ /\ ~Armed \/ autoFired \/ out = <<>>
              /\ UNCHANGED <<autoWin, stallStreak, autoFired>>
           \/ /\ Armed /\ ~autoFired /\ out # <<>>
              /\ StallSec > 0 /\ trips # {}
              /\ stallStreak' = streak[Min(trips)]
              /\ autoFired' = TRUE
              /\ UNCHANGED autoWin
           \/ /\ Armed /\ ~autoFired /\ out # <<>>
              /\ StallSec = 0 \/ trips = {}
              /\ stallStreak' = IF StallSec > 0 THEN streak[Len(out)]
                                                ELSE stallStreak
              /\ autoWin' = lastOf(autoWin \o stats(out), Window)
              /\ autoFired' = tripped(autoWin')
    /\ UNCHANGED <<now, cancelled, bucketVars, finalizeVars, liveVars,
                   storeVars>>

\* Mutant of CloseListeners: it closes the copy the last finalize sent to.
CloseTargets ==
    /\ pc = "close"
    /\ pc' = "done"
    /\ stream' = [c \in Client |-> IF c \in targets THEN "closed"
                                                    ELSE stream[c]]
    /\ listeners' = {}
    /\ UNCHANGED <<now, cancelled, bucketVars, finalizeVars, inbox,
                   breakerVars, storeVars>>

\* closeListeners, and Run returns.
CloseListeners ==
    /\ pc = "close"
    /\ pc' = "done"
    /\ stream' = [c \in Client |-> IF c \in listeners THEN "closed"
                                                      ELSE stream[c]]
    /\ listeners' = {}
    /\ UNCHANGED <<now, cancelled, bucketVars, finalizeVars, inbox,
                   breakerVars, storeVars>>

-----------------------------------------------------------------------------
RunStep ==
    \/ Ticker \/ Drain \/ CollectSecond \/ CollectEnd \/ WriteRollups
    \/ SendTick \/ SendEnd \/ EvalAutoStop \/ CloseListeners

Next ==
    \/ \E b \in Batch : Ingest(b)
    \/ \E c \in Client : Subscribe(c) \/ Forward(c)
    \/ Cancel
    \/ ClockTick
    \/ RunStep

Spec == Init /\ [][Next]_vars

\* Run is scheduled; Go's select takes the done case in the end, although the
\* ticker keeps firing.
FairSpec == Spec /\ WF_vars(RunStep) /\ SF_vars(Drain)

-----------------------------------------------------------------------------
(* Properties                                                              *)

\* Every variable of the aggregator in its type.
TypeOK ==
    /\ now \in Nat
    /\ cancelled \in BOOLEAN
    /\ pc \in PC
    /\ final \in BOOLEAN
    /\ cutoff \in Int
    /\ buckets \in [Sec -> SUBSET Batch]
    /\ vusBySec \in [Sec -> [Name -> Nat]]
    /\ lastEmitted \in Sec \cup {0}
    /\ late \subseteq Batch
    /\ out \in Seq(Tick)
    /\ rows \subseteq Batch
    /\ targets \subseteq Client
    /\ sends \in 0..Len(out)
    /\ listeners \subseteq Client
    /\ inbox \in [Client -> Seq(Sec)]
    /\ stream \in [Client -> StreamState]
    /\ autoWin \in Seq([count : Nat, errors : Nat])
    /\ stallStreak \in Nat
    /\ autoFired \in BOOLEAN
    /\ written \subseteq Batch
    /\ unwritten \subseteq Batch
    /\ evaluated \in Seq(Tick)

\* A bucket never holds a second that was emitted or passed over: finalize's
\* `continue' drops no bucket, so no merged batch disappears unaccounted.
NoBucketDropped == \A s \in Sec : buckets[s] # {} => fresh(s)

\* Each batch is accounted for once: late, in a bucket, or in the rows of one
\* finalize only.
CountedOnce ==
    /\ late \cap (pending \cup rows \cup written \cup unwritten) = {}
    /\ pending \cap (rows \cup written \cup unwritten) = {}
    /\ rows \cap (written \cup unwritten) = {}
    /\ written \cap unwritten = {}

\* Ingest and finalize lose no batch between them and count none twice.
BatchesAccounted == NoBucketDropped /\ CountedOnce

\* The ticks of the run are strictly ascending in time, over all finalizes.
TicksInOrder ==
    LET all == evaluated \o (IF pc \in {"collect", "write", "send", "eval"}
                             THEN out ELSE <<>>)
    IN  \A i, j \in 1..Len(all) : i < j => all[i].sec < all[j].sec

\* While the run is not being drained, a batch that arrives within finalizeGrace
\* of its second is merged, never counted as late.
InGraceIsMerged ==
    [][\A b \in late' \ late : final \/ b.sec <= now - Grace]_vars

stalledAt(h, n) ==
    /\ StallSec > 0
    /\ n >= StallSec
    /\ \A i \in n - StallSec + 1 .. n : stalled(h[i])

\* The breaker fires only with cause: the last Window seconds it was given have
\* an error rate above the threshold, or StallSec successive ones had load and
\* no completion.
BreakerHasCause ==
    ~autoFired /\ autoFired' =>
        \/ tripped(lastOf(stats(evaluated'), Window))
        \/ \E n \in Len(evaluated) + 1 .. Len(evaluated') :
              stalledAt(evaluated', n)

\* The breaker misses no cause: while it has not fired, no stall run was in the
\* ticks, and the last Window of them are below the threshold.
BreakerMissesNothing ==
    Armed /\ ~autoFired =>
        /\ ~tripped(lastOf(stats(evaluated), Window))
        /\ \A n \in 1..Len(evaluated) : ~stalledAt(evaluated, n)

\* evalAutoStop agrees in both directions with a look at the whole history, at
\* every step (at first the history is empty and there is no cause to miss).
BreakerIsExact == [][BreakerHasCause /\ BreakerMissesNothing']_vars

\* A caller that subscribed before Run returned has its channel closed.
EarlyStreamsClose ==
    \A c \in Client :
        (cancelled /\ pc # "done" /\ stream[c] = "open") ~> stream[c] = "closed"
=============================================================================
