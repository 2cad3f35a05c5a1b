-------------------------------- MODULE Plan --------------------------------
(***************************************************************************)
(* The test plan (internal/plan/plan.go): what Validate accepts, the       *)
(* defaults of what is left out, and what other parts derive from it: the  *)
(* driver of a worker, the stall breaker, and the mid-run alert            *)
(* (internal/apisrv/alert.go) that is to warn before the breaker of the    *)
(* aggregator trips.                                                       *)
(*                                                                         *)
(* A URL, a host and a body are only "", good, bad or templated.  An       *)
(* optional configuration is a set of at most one record.                  *)
(***************************************************************************)
EXTENDS Integers, Sequences, FiniteSetsExt, HttpDriver

Protocol == {"http", "https", "grpc", "websocket", "sse", "script", "scenario"}

\* validateURL and validateHostPort: what carries a template is accepted as it is.
wellFormed(address) == address \in {"good", "template"}

-----------------------------------------------------------------------------
(* validateNumerics                                                        *)

validThink(c) ==
    /\ c.min >= 0 /\ c.max >= 0 /\ c.mean >= 0 /\ c.stddev >= 0
    /\ c.distribution = "uniform" => c.max >= c.min

\* validateBreakerFields, of auto_stop and of alert.
validBreaker(c) == c.pct \in 0..100 /\ c.window >= 0 /\ c.minReq >= 0

\* Of a rendezvous, and of the plan's own tunables.
validRendezvous(c) == c.vus >= 0 /\ c.timeout >= 0
validTunables(p) ==
    p.thinkTime >= 0 /\ p.maxVUs >= 0 /\ p.scriptTimeout >= 0 /\ p.maxBody >= 0

validateNumerics(p) ==
    /\ validTunables(p)
    /\ \A c \in p.think : validThink(c)
    /\ \A c \in p.rendezvous : validRendezvous(c)
    /\ \A c \in p.autoStop \cup p.alert : validBreaker(c)

-----------------------------------------------------------------------------
(* Validate                                                                *)

\* A body template within the limit, 1 MiB unless the plan says otherwise.
fits(p, c) == c.body <= (IF p.maxBody > 0 THEN p.maxBody ELSE 1048576)

validAsserts(c) == \A i \in DOMAIN c.asserts : validAssert(c.asserts[i])

validHTTP(p, c) ==
    /\ wellFormed(c.address)
    /\ c.expect # "" => numeral[c.expect] \in 100..599
    /\ fits(p, c)
    /\ validAsserts(c)

validGRPC(p, c) ==
    wellFormed(c.address) /\ c.method # "" /\ c.maxMessages >= 0 /\ fits(p, c)

\* ScenarioConfig.validate; the method and the weight it fills in are left out.
validScenario(p, c) ==
    /\ c.steps # <<>>
    /\ c.mode \in {"sequence", "weighted"}
    /\ \A i \in DOMAIN c.steps :
          LET st == c.steps[i]
          IN  /\ wellFormed(st.address)
              /\ st.scope \in {"", "once_per_vu", "once_global"}
              /\ validAsserts(st)
              /\ \A j \in DOMAIN st.extracts :
                    st.extracts[j].var # "" /\ st.extracts[j].path # ""
              /\ fits(p, st)

\* The protocol decides which configuration is required and looked at.
Validate(p) ==
    /\ validateNumerics(p)
    /\ CASE p.protocol \in {"http", "https"} -> \E c \in p.http : validHTTP(p, c)
         [] p.protocol = "grpc" -> \E c \in p.grpc : validGRPC(p, c)
         [] p.protocol = "websocket" -> \E c \in p.ws : wellFormed(c.address)
         [] p.protocol = "sse" -> \E c \in p.sse : wellFormed(c.address)
         [] p.protocol = "script" -> TRUE
         [] p.protocol = "scenario" -> \E c \in p.scenario : validScenario(p, c)
         [] OTHER -> FALSE

-----------------------------------------------------------------------------
(* The driver of a worker: launchRun, protoEnum, startRun and New          *)

\* launchRun compiles a scenario to a script; others carry the script of the test.
mainJs(p, script) == p.protocol = "scenario" \/ script

\* What a driver is built from: the script, or the configuration of the protocol.
driverConfig(p, script) ==
    IF mainJs(p, script) THEN {[kind |-> "script"]}
    ELSE CASE p.protocol \in {"http", "https"} -> p.http
           [] p.protocol = "grpc" -> p.grpc
           [] p.protocol = "websocket" -> p.ws
           [] p.protocol = "sse" -> p.sse
           [] OTHER -> {}      \* no driver is registered for UNSPECIFIED

-----------------------------------------------------------------------------
(* The stall breaker; times are in milliseconds                            *)

\* The request timeout of a configuration, by Prepare of its driver.
driverTimeout(c) == IF c.timeout = 0 THEN 30000 ELSE c.timeout

ScriptTimeout(p) == IF p.scriptTimeout > 0 THEN p.scriptTimeout ELSE 30000

\* How long the driver of a plan may be without a result, as a set of at most one
\* number.  A websocket round trip has 30 seconds.  A script is interrupted after its
\* budget, and an HTTP call that it is in then has its own 30 seconds.  A negative
\* timeout of an HTTP client is none.
execTime(p, script) ==
    IF mainJs(p, script) THEN {ScriptTimeout(p) + 30000}
    ELSE CASE p.protocol \in {"http", "https"} ->
                  {driverTimeout(c) : c \in {x \in p.http : x.timeout >= 0}}
           [] p.protocol = "grpc" -> {driverTimeout(c) : c \in p.grpc}
           [] p.protocol = "websocket" -> {30000 : c \in p.ws}
           [] p.protocol = "sse" -> {driverTimeout(c) : c \in p.sse}
           [] OTHER -> {}

\* Mutant of RequestTimeout: only HTTP requests have one.
RequestTimeoutHTTP(p) ==
    IF \E c \in p.http : c.timeout > 0
    THEN (CHOOSE c \in p.http : TRUE).timeout ELSE 30000

\* The first of the configurations that is there decides, whatever the protocol.
sizedBy(p) == IF p.http # {} THEN p.http ELSE IF p.grpc # {} THEN p.grpc ELSE p.sse
RequestTimeout(p) ==
    IF \E c \in sizedBy(p) : c.timeout > 0
    THEN (CHOOSE c \in sizedBy(p) : TRUE).timeout ELSE 30000

\* dispatchLocked: whole seconds without a completed request that trip the breaker.
stallSec(p) == Max({60, (3 * RequestTimeout(p)) \div 1000})

-----------------------------------------------------------------------------
(* Breaker and alert                                                       *)

\* AutoStopOrDefault and AlertOrDefault: 0 means the default.
orDefault(c, pct) ==
    LET pick(x, d) == IF x > 0 THEN x ELSE d
    IN  IF c = {} THEN [enabled |-> TRUE, pct |-> pct, window |-> 10, minReq |-> 20]
        ELSE LET x == CHOOSE x \in c : TRUE
             IN  [enabled |-> x.enabled, pct |-> pick(x.pct, pct),
                  window |-> pick(x.window, 10), minReq |-> pick(x.minReq, 20)]
AutoStopOrDefault(p) == orDefault(p.autoStop, 50)
AlertOrDefault(p) == orDefault(p.alert, 30)

\* The requests and the errors of the last w of the first i ticks.
over(f, ticks, i, w) ==
    SumFunction([j \in {j \in 1..i : j > i - w} |-> ticks[j][f]])

\* evalAutoStop finds the error rate over the threshold at tick i.
trips(c, ticks, i) ==
    LET n == over("reqs", ticks, i, c.window)
    IN  /\ c.enabled
        /\ n >= c.minReq /\ n # 0
        /\ 100 * over("errs", ticks, i, c.window) > c.pct * n

\* Mutant of observe: the window is not slid.
observeFirst(c, ticks, i) ==
    LET n == over("reqs", ticks, Min({i, c.window}), c.window)
    IN  /\ c.enabled
        /\ n >= c.minReq /\ n # 0
        /\ c.pct > 0
        /\ 100 * over("errs", ticks, Min({i, c.window}), c.window) >= c.pct * n

\* observe finds it at tick i.  (That it fires only once is left out.)
observe(c, ticks, i) ==
    LET n == over("reqs", ticks, i, c.window)
    IN  /\ c.enabled
        /\ n >= c.minReq /\ n # 0
        /\ c.pct > 0
        /\ 100 * over("errs", ticks, i, c.window) >= c.pct * n
=============================================================================
