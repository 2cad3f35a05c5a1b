----------------------------- MODULE Assignment -----------------------------
(***************************************************************************)
(* What a plan and a load profile mean, across the components that read    *)
(* them: properties of the operators of Ramp, Plan, HttpDriver and         *)
(* RateLimit, of one input at a time.                                      *)
(***************************************************************************)
EXTENDS Ramp, Plan, RateLimit

VARIABLE input

NoInput == [kind |-> "none"]

-----------------------------------------------------------------------------
(* Inputs                                                                  *)

\* Stages as the console and the command line make them: VUs or a rate.
Stage == [dur : {0, 2}, vus : {0, 3, 5}, rps : {0}]
            \cup [dur : {0, 2}, vus : {0}, rps : {1, 4}]
RampInput ==
    [kind : {"ramp"}, stages : UNION {[1..k -> Stage] : k \in 1..3}, workers : 1..3,
     time : {0, 1, 2, 3, 4, 6}]

ThinkInput ==
    [kind : {"think"}, min : -1..2, max : -1..2, mean : -1..2, stddev : -1..2,
     distribution : {"fixed", "uniform", "gaussian", "poisson"}]

\* Breakers with little to count, and ticks with few and with enough requests.
Breaker == {[enabled |-> TRUE, pct |-> pct, window |-> w, minReq |-> m] :
              pct \in {0, 40}, w \in {0, 2}, m \in {0, 10}}
Tick == {[reqs |-> n, errs |-> e] : n \in {0, 10, 20}, e \in {0, 5, 10}}
AlertInput ==
    [kind : {"alert"}, autoStop : {{}} \cup {{b} : b \in Breaker},
     alert : {{}} \cup {{b} : b \in Breaker},
     ticks : {s \in [1..3 -> Tick] : \A i \in 1..3 : s[i].errs <= s[i].reqs}]

\* Requests with the default timeout, one of no whole number of thirds of a second,
\* one beyond the least stall, and a negative one.
TimeoutMs == {-1, 0, 20500, 70000}
ScriptTimeoutMs == {0, 90000}
Addressed == [address : {"good"}, timeout : TimeoutMs, body : {1}, expect : {""},
              asserts : {<<>>}, method : {"m"}, maxMessages : {0}]
optional(S) == {{}} \cup {{c} : c \in S}
Step == [address : {"good"}, scope : {""}, asserts : {<<>>}, extracts : {<<>>},
         body : {1}]
PlanInput ==
    [kind : {"plan"}, protocol : Protocol, http : optional(Addressed),
     grpc : optional(Addressed), sse : optional(Addressed),
     ws : optional([address : {"good", "bad"}]),
     scenario : optional([mode : {"sequence"}, steps : {<<>>} \cup {<<s>> : s \in Step}]),
     script : BOOLEAN,
     thinkTime : {0}, maxVUs : {0}, scriptTimeout : ScriptTimeoutMs, maxBody : {0}, think : {{}},
     rendezvous : {{}}, autoStop : {{}}, alert : {{}}]

\* Responses in which the path of an assertion finds any type of JSON, or nothing.
Scalar == {[type |-> "num", text |-> x] : x \in DOMAIN numeral}
            \cup {[type |-> "str", text |-> x] : x \in Text}
            \cup {[type |-> "bool", text |-> x] : x \in {"true", "false"}}
            \cup {[type |-> "null", text |-> "null"], [type |-> "obj", text |-> "{}"],
                  [type |-> "arr", text |-> "[200]"]}
            \cup {[type |-> x, text |-> ""] : x \in {"missing", "invalid"}}
Answer ==
    [error : {FALSE}, status : {"200", "404"}, body : {"", "200", "200ms"}, found : Scalar]
        \cup [error : {TRUE}, status : {"0"}, body : {""},
              found : {[type |-> "invalid", text |-> ""]}]
Assert == [source : {"status", "body"}, path : {""}, op : ops, value : Text]
            \cup [source : {"json"}, path : {"p"}, op : ops, value : Text]
HttpInput ==
    [kind : {"http"}, asserts : {<<>>} \cup {<<a>> : a \in {a \in Assert : validAssert(a)}},
     answer : Answer]

\* Login attempts of one address, with up to two in a window of two or three.
LoginInput ==
    [kind : {"login"}, max : {1, 2}, window : {2, 3},
     times : {s \in [1..5 -> 0..7] : \A i \in 1..4 : s[i] <= s[i + 1]}]

Inputs ==
    RampInput \cup ThinkInput \cup AlertInput \cup PlanInput \cup HttpInput \cup LoginInput

is(kind) == input.kind = kind

-----------------------------------------------------------------------------
(* Properties                                                              *)

\* SliceRamp: the workers together get exactly the targets of the plan, no two of
\* them differing by more than one.
SlicesAddUp ==
    is("ramp") =>
        LET n == input.workers
            slices == SliceRamp(input.stages, n)
            vus(k) == [i \in 1..n |-> slices[i][k].vus]
            rps(k) == [i \in 1..n |-> slices[i][k].rps]
        IN  \A k \in DOMAIN input.stages :
              /\ SumFunction(vus(k)) = input.stages[k].vus
              /\ SumFunction(rps(k)) = input.stages[k].rps
              /\ \A i, j \in 1..n : vus(k)[i] <= vus(k)[j] + 1 /\ rps(k)[i] <= rps(k)[j] + 1

\* TargetAt on the slices: each worker rounds on its own, and still the VUs of all
\* of them are at any time those of the plan, up to half a VU for each rounding.
SlicesFollowThePlan ==
    is("ramp") =>
        LET n == input.workers
            slices == SliceRamp(input.stages, n)
            all == SumFunction([i \in 1..n |-> TargetAt(slices[i], input.time)])
            plan == TargetAt(input.stages, input.time)
        IN  2 * (all - plan) <= n + 1 /\ 2 * (plan - all) <= n + 1

\* IsArrival on the slices: a share of no rate at all makes a worker choose the
\* closed model, and still the workers that chose the open one make up the rate of
\* the plan at any time, and the others, of a plan without VUs, start none.
OpenRatesAddUp ==
    is("ramp") /\ IsArrival(input.stages) =>
        LET n == input.workers
            slices == SliceRamp(input.stages, n)
            rate(i) == RateAt(slices[i], input.time)
            plan == RateAt(input.stages, input.time)
            open == {i \in 1..n : IsArrival(slices[i])}
            vus == \E k \in DOMAIN input.stages : input.stages[k].vus > 0
        IN  /\ SumFunction([i \in open |-> rate(i).num]) * plan.den
                 = plan.num * (IF open = {} THEN 1 ELSE rate(Min(open)).den)
            /\ vus \/ \A i \in 1..n \ open : TargetAt(slices[i], input.time) = 0

\* TargetAt: a stage leads from the target before it to its own and stays between
\* the two; a stage of no duration is the last one that is ever followed.
StagesAreFollowed ==
    is("ramp") =>
        LET s == input.stages
            t == input.time
            target == [k \in DOMAIN s |-> s[k].vus]
            lasts(k) == \A j \in 1..k : s[j].dur > 0
            from(k) == IF k = 1 THEN 0 ELSE target[k - 1]
        IN  \A k \in DOMAIN s :
              /\ /\ lasts(k) /\ (k = Len(s) \/ lasts(k + 1))
                 /\ t \in begins(s, k)..begins(s, k + 1)
                 =>     /\ TargetAt(s, t) >= Min({from(k), target[k]})
                        /\ TargetAt(s, t) <= Max({from(k), target[k]})
                        /\ t = begins(s, k) => TargetAt(s, t) = from(k)
                        /\ t = begins(s, k + 1) => TargetAt(s, t) = target[k]
              /\ lasts(k - 1) /\ s[k].dur = 0 /\ t >= begins(s, k) =>
                     TargetAt(s, t) = target[k]

\* The load that the workers generate together is that of the plan: sliced, rounded
\* and interpolated by each of them on its own.
LoadFollowsThePlan ==
    SlicesAddUp /\ SlicesFollowThePlan /\ OpenRatesAddUp /\ StagesAreFollowed

\* thinker: a pause that Validate accepts is never negative, and when the hot loop
\* skips the pause there is none to draw.  (A gaussian around 0 is skipped as well.)
PausesAreSound ==
    is("think") /\ validThink(input) =>
        /\ \A x \in pauses(input) : x >= 0
        /\ (~anyPause(input) /\ (input.distribution = "gaussian" => input.stddev = 0))
             => pauses(input) = {0}

\* observe and evalAutoStop: an alert that is no less sensitive than the breaker, as
\* the defaults are, has warned when the breaker trips.
AlertWarnsFirst ==
    is("alert") =>
        LET a == AlertOrDefault(input)
            b == AutoStopOrDefault(input)
        IN  a.window = b.window /\ a.minReq <= b.minReq /\ a.pct <= b.pct =>
                \A i \in DOMAIN input.ticks :
                    trips(b, input.ticks, i) => \E j \in 1..i : observe(a, input.ticks, j)

\* Validate, launchRun and startRun: of the plans that are accepted, the script plans
\* whose test has no script, and no others, leave a worker without a driver or
\* without the configuration that its driver needs.
ValidPlansHaveADriver ==
    is("plan") /\ Validate(input) =>
        (driverConfig(input, input.script) = {}
            <=> input.protocol = "script" /\ ~input.script)

\* RequestTimeout and dispatchLocked: the stall breaker outlasts every request of an
\* accepted plan that has a time limit at all, three times over up to the second that
\* is cut off, if the breaker is sized by the configuration that the driver uses.
\* Sized by another one (a script, a scenario, or a plan with the configuration of a
\* second protocol) it still outlasts a minute.
StallOutlastsRequests ==
    is("plan") /\ Validate(input) =>
        \A t \in execTime(input, input.script) :
            IF driverConfig(input, input.script) = sizedBy(input)
            THEN t <= 1000 * stallSec(input) /\ 3 * t < 1000 * (stallSec(input) + 1)
            ELSE t <= 60000 => t <= 1000 * stallSec(input)

\* What an accepted plan promises its run: a driver unless it is a script plan without
\* a script, pauses that are pauses, and a stall breaker that outlasts its requests
\* where it is sized by them.
ValidPlansRun == ValidPlansHaveADriver /\ PausesAreSound /\ StallOutlastsRequests

\* What Go and JavaScript make something different of: the existence of a body, which
\* Go denies, and of a null; a value that is left empty; numbers of which one of them
\* cannot read the text; booleans, objects and arrays as numbers and as texts.
unlike(x) == parse(x) # parseFloat(x)
orderDiffers(v, x) == v.type \in {"bool", "arr"} \/ unlike(v.text) \/ unlike(x)
equalDiffers(v, x) ==
    \/ v.type = "num" /\ unlike(x)
    \/ v.type = "bool" /\ x = "0"
    \/ v.type \in {"obj", "arr"} /\ x \in {v.text, asString(v)}
differs(a, v) ==
    \/ a.op = "exists" /\ (a.source = "body" \/ v.type = "null")
    \/ a.op # "exists" /\ a.value = ""
    \/ a.op \in {"eq", "ne"} /\ equalDiffers(v, a.value)
    \/ a.op \in {"gt", "lt", "gte", "lte"} /\ orderDiffers(v, a.value)

\* evalAsserts and _runStep: an assertion has the same outcome in an HTTP plan and in a
\* step of a scenario wherever the two languages convert its value alike, and so has a
\* request with such assertions, but that a step with assertions does not look at the
\* status or at a transport error.
VerdictsAgree ==
    is("http") =>
        LET cfg == [expect |-> "", bodyContains |-> "", asserts |-> input.asserts]
            r == input.answer
            alike == {i \in DOMAIN input.asserts :
                        ~differs(input.asserts[i], actualOf(input.asserts[i], r))}
        IN  /\ \A i \in alike : passes(input.asserts[i], r) <=> assertOne(input.asserts[i], r)
            /\ alike = DOMAIN input.asserts =>
                 (succeeds(cfg, r) <=> stepOk(input.asserts, r) /\ ~r.error
                                         /\ numeral[r.status] < 400)

\* rateLimiter.allow: of a window's length no more than two windows' worth of
\* attempts gets through, and nobody is refused who did not have the full number of
\* attempts let through within the window before.
LoginsAreThrottled ==
    is("login") =>
        LET t == input.times
            w == input.window
            ok == allow(t, input.max, w)
            within(i) == {j \in ok : t[j] >= t[i] - w /\ j <= i}
        IN  \A i \in DOMAIN t :
              /\ Cardinality(within(i)) <= 2 * input.max
              /\ i \notin ok => Cardinality(within(i)) >= input.max

\* What counts within a window, errors or login attempts, counts neither more nor
\* less than the window says.
WindowsHold == AlertWarnsFirst /\ LoginsAreThrottled
=============================================================================
