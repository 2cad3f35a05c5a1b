-------------------------- MODULE AssignmentProofs --------------------------
(***************************************************************************)
(* Machine-checked proofs about what a plan and a load profile mean, for   *)
(* every profile, number of workers, time, think time, breaker, plan,      *)
(* sequence of assertions and sequence of login attempts.                  *)
(***************************************************************************)
EXTENDS Assignment, SumProofs, SequenceTheorems

-----------------------------------------------------------------------------
(* Inputs, without the bounds of a model                                   *)

AnyStage == [dur : Nat, vus : Nat, rps : Nat]
AnyRamp == [kind : {"ramp"}, stages : Seq(AnyStage), workers : Nat \ {0}, time : Nat]

Distribution == {"fixed", "uniform", "gaussian", "poisson"}
AnyThink == [kind : {"think"}, min : Int, max : Int, mean : Int, stddev : Int,
             distribution : Distribution]

\* An alert that is switched off warns of nothing; a breaker may be switched off.
AnyTick == [reqs : Nat, errs : Nat]
AnyAlert ==
    [kind : {"alert"},
     autoStop : optional([enabled : BOOLEAN, pct : Nat, window : Nat, minReq : Nat]),
     alert : optional([enabled : {TRUE}, pct : Nat, window : Nat, minReq : Nat]),
     ticks : Seq(AnyTick)]

\* Any text.  (That its literals are strings is not among the facts of the provers.)
Name == STRING \cup Protocol \cup {"good", "bad", "sequence", "m", ""}

\* Configurations with a timeout, whatever else they have.
Timed == [address : Name, timeout : Int, body : Nat, expect : Name,
          asserts : Seq(Assert), method : Name, maxMessages : Int]
AnyPlan ==
    [kind : {"plan"}, protocol : Name, http : optional(Timed), grpc : optional(Timed),
     sse : optional(Timed), ws : optional([address : Name]),
     scenario : optional([mode : Name, steps : Seq(Step)]), script : BOOLEAN,
     thinkTime : Int, maxVUs : Int, scriptTimeout : Int, maxBody : Int,
     think : optional(AnyThink), rendezvous : optional([vus : Int, timeout : Int]),
     autoStop : optional([enabled : BOOLEAN, pct : Int, window : Int, minReq : Int]),
     alert : optional([enabled : BOOLEAN, pct : Int, window : Int, minReq : Int])]

AnyHttp ==
    [kind : {"http"}, asserts : Seq({a \in Assert : validAssert(a)}), answer : Answer]

AnyLogin ==
    {x \in [kind : {"login"}, max : Nat, window : Nat, times : Seq(Nat)] :
        \A i, j \in 1..Len(x.times) : i <= j => x.times[i] <= x.times[j]}

AnyInput ==
    AnyRamp \cup AnyThink \cup AnyAlert \cup AnyPlan \cup AnyHttp \cup AnyLogin
        \cup {NoInput}

\* Which of them an input is.
LEMMA Kinds ==
    ASSUME input \in AnyInput
    PROVE  /\ is("ramp") => input \in AnyRamp
           /\ is("think") => input \in AnyThink
           /\ is("alert") => input \in AnyAlert
           /\ is("plan") => input \in AnyPlan
           /\ is("http") => input \in AnyHttp
           /\ is("login") => input \in AnyLogin
<1>1. /\ input \in AnyRamp => input.kind = "ramp"
      /\ input \in AnyThink => input.kind = "think"
      /\ input \in AnyAlert => input.kind = "alert"
  BY DEF AnyRamp, AnyThink, AnyAlert
<1>2. /\ input \in AnyPlan => input.kind = "plan"
      /\ input \in AnyHttp => input.kind = "http"
      /\ input \in AnyLogin => input.kind = "login"
  BY DEF AnyPlan, AnyHttp, AnyLogin
<1>3. input = NoInput => input.kind = "none"
  BY DEF NoInput
<1> QED
  BY <1>1, <1>2, <1>3 DEF AnyInput, is

-----------------------------------------------------------------------------
(* Numbers                                                                 *)

LEMMA MinOf ==
    ASSUME NEW T \in SUBSET Nat, T # {}
    PROVE  Min(T) \in T /\ \A y \in T : Min(T) <= y
BY LeastNumber DEF Min

LEMMA MaxOfTwo ==
    ASSUME NEW a \in Int, NEW b \in Int
    PROVE  Max({a, b}) \in {a, b} /\ Max({a, b}) >= a /\ Max({a, b}) >= b
<1>1. \E x \in {a, b} : \A y \in {a, b} : x >= y
  <2>1. CASE a >= b
    BY <2>1
  <2>2. CASE b >= a
    BY <2>2
  <2> QED
    BY <2>1, <2>2
<1> QED
  BY <1>1 DEF Max

LEMMA MinOfTwo ==
    ASSUME NEW a \in Int, NEW b \in Int
    PROVE  Min({a, b}) \in {a, b} /\ Min({a, b}) <= a /\ Min({a, b}) <= b
<1>1. \E x \in {a, b} : \A y \in {a, b} : x <= y
  <2>1. CASE a <= b
    BY <2>1
  <2>2. CASE b <= a
    BY <2>2
  <2> QED
    BY <2>1, <2>2
<1> QED
  BY <1>1 DEF Min

\* Products grow with their factors.
LEMMA TimesGrows ==
    ASSUME NEW a \in Int, NEW b \in Int, NEW n \in Nat, a <= b
    PROVE  a * n <= b * n
<1>1. b - a \in Nat
  OBVIOUS
<1>2. (b - a) * n \in Nat
  BY <1>1
<1>3. b * n = a * n + (b - a) * n
  OBVIOUS
<1> QED
  BY <1>2, <1>3

LEMMA Cancel ==
    ASSUME NEW d \in Nat, d # 0, NEW x \in Int, NEW y \in Int, d * x < d * y
    PROVE  x < y
<1> SUFFICES ASSUME y <= x PROVE FALSE
  OBVIOUS
<1>1. y * d <= x * d
  BY TimesGrows
<1>2. y * d = d * y /\ x * d = d * x /\ d * x \in Int /\ d * y \in Int
  OBVIOUS
<1> QED
  BY <1>1, <1>2

-----------------------------------------------------------------------------
(* Think time                                                              *)

LEMMA PausesSound == input \in AnyInput => PausesAreSound
<1> SUFFICES ASSUME input \in AnyThink, validThink(input)
             PROVE  /\ \A x \in pauses(input) : x >= 0
                    /\ (~anyPause(input) /\ (input.distribution = "gaussian" => input.stddev = 0))
                         => pauses(input) = {0}
  BY Kinds DEF PausesAreSound
<1>1. /\ input.min \in Int /\ input.max \in Int /\ input.mean \in Int /\ input.stddev \in Int
      /\ input.min >= 0 /\ input.max >= 0 /\ input.mean >= 0 /\ input.stddev >= 0
      /\ input.distribution = "uniform" => input.max >= input.min
      /\ input.distribution \in Distribution
  BY DEF AnyThink, validThink
<1>2. CASE input.distribution = "uniform"
  <2>1. pauses(input) = IF input.max <= input.min THEN {input.min} ELSE input.min..input.max
    BY <1>2 DEF pauses
  <2>2. anyPause(input) <=> input.max > 0
    BY <1>2 DEF anyPause
  <2> QED
    BY <1>1, <1>2, <2>1, <2>2
<1>3. CASE input.distribution = "gaussian"
  <2>1. pauses(input) = {Max({0, input.mean + d * input.stddev}) : d \in -Deviations..Deviations}
    BY <1>3 DEF pauses
  <2>2. anyPause(input) <=> input.mean > 0
    BY <1>3 DEF anyPause
  <2>3. \A d \in -Deviations..Deviations :
           d \in Int /\ input.mean + d * input.stddev \in Int
    BY <1>1 DEF Deviations
  <2>4. ASSUME NEW d \in -Deviations..Deviations
        PROVE  Max({0, input.mean + d * input.stddev}) >= 0
    <3>1. PICK y \in Int : y = input.mean + d * input.stddev
      BY <2>3
    <3>2. Max({0, y}) >= 0
      BY MaxOfTwo, SMTT(20)
    <3> QED
      BY <3>1, <3>2
  <2>5. ASSUME input.mean = 0, input.stddev = 0 PROVE pauses(input) = {0}
    <3>1. \A d \in -Deviations..Deviations : input.mean + d * input.stddev = 0
      BY <2>3, <2>5
    <3>2. \A d \in -Deviations..Deviations : Max({0, input.mean + d * input.stddev}) = 0
      BY <3>1, MaxOfTwo
    <3>3. 0 \in -Deviations..Deviations
      BY DEF Deviations
    <3> QED
      BY <2>1, <3>2, <3>3
  <2>6. ~anyPause(input) => input.mean = 0
    BY <1>1, <2>2
  <2>7. \A x \in pauses(input) : x >= 0
    BY <2>1, <2>4
  <2> QED
    BY <1>3, <2>5, <2>6, <2>7
<1>4. CASE input.distribution = "poisson"
  <2>1. pauses(input) = IF input.mean <= 0 THEN {0} ELSE 0..20 * input.mean
    BY <1>4 DEF pauses
  <2>2. anyPause(input) <=> input.mean > 0
    BY <1>4 DEF anyPause
  <2> QED
    BY <1>1, <1>4, <2>1, <2>2
<1>5. CASE input.distribution = "fixed"
  <2>1. pauses(input) = {input.min}
    BY <1>5 DEF pauses
  <2>2. anyPause(input) <=> input.min > 0
    BY <1>5 DEF anyPause
  <2> QED
    BY <1>1, <1>5, <2>1, <2>2
<1> QED
  BY <1>1, <1>2, <1>3, <1>4, <1>5 DEF Distribution

-----------------------------------------------------------------------------
(* Breaker and alert                                                       *)

\* The counts of a window are numbers.
LEMMA OverNat ==
    ASSUME NEW ticks \in Seq(AnyTick), NEW i \in 1..Len(ticks), NEW w \in Nat
    PROVE  over("reqs", ticks, i, w) \in Nat /\ over("errs", ticks, i, w) \in Nat
<1> DEFINE J == {j \in 1..i : j > i - w}
<1> DEFINE f == [j \in J |-> ticks[j].reqs]
<1> DEFINE g == [j \in J |-> ticks[j].errs]
<1>1. i \in Nat /\ \A j \in J : ticks[j] \in AnyTick
  BY LenProperties
<1>2. IsFiniteSet(J)
  <2>1. IsFiniteSet(1..i)
    BY <1>1, Interval
  <2> QED
    BY <2>1, FS_Subset
<1> HIDE DEF J
<1>3. f \in [J -> Nat] /\ g \in [J -> Nat]
  BY <1>1 DEF AnyTick
<1> HIDE DEF f, g
<1>4. SumFunction(f) \in Nat /\ SumFunction(g) \in Nat
  BY <1>2, <1>3, SumNat
<1> QED
  BY <1>4 DEF over, f, g, J

\* What is left out has a default, and the defaults are positive.
LEMMA Defaults ==
    ASSUME NEW E, NEW d \in Nat \ {0},
           NEW c \in optional([enabled : E, pct : Nat, window : Nat, minReq : Nat])
    PROVE  /\ orDefault(c, d).pct \in Nat \ {0}
           /\ orDefault(c, d).window \in Nat
           /\ orDefault(c, d).minReq \in Nat
<1>1. CASE c = {}
  <2>1. orDefault(c, d) = [enabled |-> TRUE, pct |-> d, window |-> 10, minReq |-> 20]
    BY <1>1 DEF orDefault
  <2> QED
    BY <2>1
<1>2. CASE c # {}
  <2>1. PICK y \in [enabled : E, pct : Nat, window : Nat, minReq : Nat] : c = {y}
    BY <1>2 DEF optional
  <2>2. (CHOOSE x \in c : TRUE) = y
    BY <2>1
  <2>3. orDefault(c, d) = [enabled |-> y.enabled,
                           pct |-> IF y.pct > 0 THEN y.pct ELSE d,
                           window |-> IF y.window > 0 THEN y.window ELSE 10,
                           minReq |-> IF y.minReq > 0 THEN y.minReq ELSE 20]
    BY <1>2, <2>2 DEF orDefault
  <2>4. y.pct \in Nat /\ y.window \in Nat /\ y.minReq \in Nat
    BY <2>1
  <2> QED
    BY <2>3, <2>4
<1> QED
  BY <1>1, <1>2

\* An alert that is not switched off is on.
LEMMA AlertIsOn ==
    ASSUME NEW d, NEW c \in optional([enabled : {TRUE}, pct : Nat, window : Nat, minReq : Nat])
    PROVE  orDefault(c, d).enabled
<1>1. CASE c = {}
  <2>1. orDefault(c, d) = [enabled |-> TRUE, pct |-> d, window |-> 10, minReq |-> 20]
    BY <1>1 DEF orDefault
  <2> QED
    BY <2>1
<1>2. CASE c # {}
  <2>1. PICK y \in [enabled : {TRUE}, pct : Nat, window : Nat, minReq : Nat] : c = {y}
    BY <1>2 DEF optional
  <2>2. (CHOOSE x \in c : TRUE) = y
    BY <2>1
  <2>3. orDefault(c, d).enabled = y.enabled
    BY <1>2, <2>2 DEF orDefault
  <2>4. y.enabled = TRUE
    BY <2>1
  <2> QED
    BY <2>3, <2>4
<1> QED
  BY <1>1, <1>2

LEMMA AlertIsFirst == input \in AnyInput => AlertWarnsFirst
<1> DEFINE a == AlertOrDefault(input)
<1> DEFINE b == AutoStopOrDefault(input)
<1> SUFFICES ASSUME input \in AnyAlert,
                    a.window = b.window, a.minReq <= b.minReq, a.pct <= b.pct,
                    NEW i \in DOMAIN input.ticks, trips(b, input.ticks, i)
             PROVE  observe(a, input.ticks, i) /\ i \in 1..i
  BY Kinds DEF AlertWarnsFirst
<1>1. input.ticks \in Seq(AnyTick) /\ i \in 1..Len(input.ticks) /\ i \in 1..i
  BY LenProperties DEF AnyAlert
<1>2. /\ a.enabled /\ a.pct \in Nat \ {0} /\ a.window \in Nat /\ a.minReq \in Nat
  <2>1. input.alert \in optional([enabled : {TRUE}, pct : Nat, window : Nat, minReq : Nat])
    BY DEF AnyAlert
  <2>2. 30 \in Nat \ {0} /\ a = orDefault(input.alert, 30)
    BY DEF AlertOrDefault
  <2> HIDE DEF a
  <2>3. a.pct \in Nat \ {0} /\ a.window \in Nat /\ a.minReq \in Nat
    BY <2>1, <2>2, Defaults
  <2>4. a.enabled
    BY <2>1, <2>2, AlertIsOn
  <2> QED
    BY <2>3, <2>4
<1>3. /\ b.pct \in Nat /\ b.window \in Nat /\ b.minReq \in Nat
  <2>1. input.autoStop \in optional([enabled : BOOLEAN, pct : Nat, window : Nat, minReq : Nat])
    BY DEF AnyAlert
  <2>2. 50 \in Nat \ {0} /\ b = orDefault(input.autoStop, 50)
    BY DEF AutoStopOrDefault
  <2> HIDE DEF b
  <2> QED
    BY <2>1, <2>2, Defaults
<1> HIDE DEF a, b
<1>4. PICK n \in Nat, e \in Nat :
         n = over("reqs", input.ticks, i, b.window) /\ e = over("errs", input.ticks, i, b.window)
  BY <1>1, <1>3, OverNat
<1>5. n >= b.minReq /\ n # 0 /\ 100 * e > b.pct * n
  BY <1>4 DEF trips
<1>6. a.pct * n <= b.pct * n
  BY <1>2, <1>3, TimesGrows
<1>7. a.pct * n \in Int /\ b.pct * n \in Int
  BY <1>2, <1>3
<1>8. n >= a.minReq /\ n # 0 /\ a.pct > 0 /\ 100 * e >= a.pct * n
  BY <1>2, <1>3, <1>5, <1>6, <1>7
<1> QED
  BY <1>1, <1>2, <1>4, <1>8 DEF observe

-----------------------------------------------------------------------------
(* Drivers and timeouts                                                    *)

\* What Validate requires of a plan for its protocol.
LEMMA Required ==
    ASSUME NEW p, Validate(p)
    PROVE  /\ p.protocol \in Protocol
           /\ p.protocol \in {"http", "https"} => p.http # {}
           /\ p.protocol = "grpc" => p.grpc # {}
           /\ p.protocol = "websocket" => p.ws # {}
           /\ p.protocol = "sse" => p.sse # {}
<1>1. CASE p.protocol \in {"http", "https"}
  BY <1>1 DEF Validate, Protocol
<1>2. CASE p.protocol = "grpc"
  BY <1>2 DEF Validate, Protocol
<1>3. CASE p.protocol = "websocket"
  BY <1>3 DEF Validate, Protocol
<1>4. CASE p.protocol = "sse"
  BY <1>4 DEF Validate, Protocol
<1>5. CASE p.protocol \in {"script", "scenario"}
  BY <1>5 DEF Protocol
<1>6. CASE p.protocol \notin Protocol
  BY <1>6 DEF Validate, Protocol
<1> QED
  BY <1>1, <1>2, <1>3, <1>4, <1>5, <1>6 DEF Protocol

LEMMA DriversExist == input \in AnyInput => ValidPlansHaveADriver
<1> SUFFICES ASSUME input \in AnyPlan, Validate(input)
             PROVE  driverConfig(input, input.script) = {}
                      <=> input.protocol = "script" /\ ~input.script
  BY Kinds DEF ValidPlansHaveADriver
<1>0. input.script \in BOOLEAN
  BY DEF AnyPlan
<1>1. CASE mainJs(input, input.script)
  <2>1. driverConfig(input, input.script) # {}
    BY <1>1 DEF driverConfig
  <2>2. input.protocol = "scenario" \/ input.script
    BY <1>1 DEF mainJs
  <2> QED
    BY <2>1, <2>2
<1>2. CASE ~mainJs(input, input.script)
  <2>0. input.protocol # "scenario" /\ ~input.script
    BY <1>2 DEF mainJs
  <2>1. CASE input.protocol \in {"http", "https"}
    BY <1>2, <2>1, Required DEF driverConfig
  <2>2. CASE input.protocol = "grpc"
    BY <1>2, <2>2, Required DEF driverConfig
  <2>3. CASE input.protocol = "websocket"
    BY <1>2, <2>3, Required DEF driverConfig
  <2>4. CASE input.protocol = "sse"
    BY <1>2, <2>4, Required DEF driverConfig
  <2>5. CASE input.protocol = "script"
    BY <1>2, <2>0, <2>5 DEF driverConfig
  <2> QED
    BY <2>0, <2>1, <2>2, <2>3, <2>4, <2>5, Required DEF Protocol
<1> QED
  BY <1>1, <1>2

\* Scripts and websocket configurations have no timeout to size a breaker by.
LEMMA Untimed ==
    /\ [kind |-> "script"] \notin Timed
    /\ [address : Name] \cap Timed = {}
<1>1. \A x \in Timed : "timeout" \in DOMAIN x
  BY DEF Timed
<1>2. "timeout" \notin DOMAIN [kind |-> "script"]
  OBVIOUS
<1>3. \A x \in [address : Name] : "timeout" \notin DOMAIN x
  OBVIOUS
<1> QED
  BY <1>1, <1>2, <1>3

\* The breaker's seconds for a request timeout, rounded down and at least 60.
LEMMA StallIs ==
    ASSUME NEW p, NEW x \in Nat, RequestTimeout(p) = x
    PROVE  /\ stallSec(p) \in Nat /\ stallSec(p) >= 60
           /\ 3 * x < 1000 * (stallSec(p) + 1)
<1>0. ASSUME NEW y \in Nat PROVE Max({60, y}) \in Nat /\ Max({60, y}) >= 60 /\ Max({60, y}) >= y
  <2>1. PICK z \in Int : z = 60
    OBVIOUS
  <2>2. y \in Int
    OBVIOUS
  <2>3. Max({z, y}) \in {z, y} /\ Max({z, y}) >= z /\ Max({z, y}) >= y
    BY <2>2, MaxOfTwo
  <2>4. PICK m : m = Max({z, y})
    OBVIOUS
  <2>5. m \in {z, y} /\ m >= z /\ m >= y
    BY <2>3, <2>4
  <2>6. m \in Nat /\ m >= 60 /\ m >= y
    BY <2>1, <2>5
  <2> QED
    BY <2>1, <2>4, <2>6
<1>1. PICK y \in Nat : y = (3 * x) \div 1000
  OBVIOUS
<1>2. 3 * x < 1000 * (y + 1)
  BY <1>1
<1>3. stallSec(p) = Max({60, y})
  BY <1>1 DEF stallSec
<1>4. PICK m : m = Max({60, y})
  OBVIOUS
<1>5. m \in Nat /\ m >= 60 /\ m >= y
  BY <1>0, <1>4
<1> QED
  BY <1>2, <1>3, <1>4, <1>5

\* RequestTimeout is what the configuration that sizes the breaker says.
LEMMA TimeoutIs ==
    ASSUME NEW p \in AnyPlan
    PROVE  /\ sizedBy(p) \in optional(Timed)
           /\ RequestTimeout(p) \in Nat
           /\ \A c \in sizedBy(p) : driverTimeout(c) \in Int /\ driverTimeout(c) <= RequestTimeout(p)
<1>1. p.http \in optional(Timed) /\ p.grpc \in optional(Timed) /\ p.sse \in optional(Timed)
  BY DEF AnyPlan
<1>2. sizedBy(p) \in optional(Timed)
  BY <1>1 DEF sizedBy
<1> DEFINE S == sizedBy(p)
<1>3. RequestTimeout(p) = IF \E c \in S : c.timeout > 0
                          THEN (CHOOSE c \in S : TRUE).timeout ELSE 30000
  BY DEF RequestTimeout
<1> HIDE DEF S
<1>4. CASE S = {}
  BY <1>2, <1>3, <1>4 DEF S
<1>5. CASE S # {}
  <2>1. PICK c \in Timed : S = {c}
    BY <1>2, <1>5 DEF optional, S
  <2>2. c.timeout \in Int
    BY <2>1 DEF Timed
  <2>3. (CHOOSE x \in {c} : TRUE) = c
    OBVIOUS
  <2>4. RequestTimeout(p) = IF c.timeout > 0 THEN c.timeout ELSE 30000
    BY <1>3, <2>1, <2>3
  <2>5. driverTimeout(c) \in Int /\ driverTimeout(c) <= RequestTimeout(p)
    BY <2>2, <2>4 DEF driverTimeout
  <2>6. RequestTimeout(p) \in Nat
    BY <2>2, <2>4
  <2> QED
    BY <1>2, <2>1, <2>5, <2>6 DEF S
<1> QED
  BY <1>4, <1>5

LEMMA StallsOutlast == input \in AnyInput => StallOutlastsRequests
<1> DEFINE own == driverConfig(input, input.script)
<1> DEFINE s == stallSec(input)
<1> SUFFICES ASSUME input \in AnyPlan, Validate(input), NEW t \in execTime(input, input.script)
             PROVE  IF own = sizedBy(input)
                    THEN t <= 1000 * s /\ 3 * t < 1000 * (s + 1)
                    ELSE t <= 60000 => t <= 1000 * s
  BY Kinds DEF StallOutlastsRequests
<1>1. PICK x \in Nat : x = RequestTimeout(input)
  BY TimeoutIs
<1>2. s \in Nat /\ s >= 60 /\ 3 * x < 1000 * (s + 1)
  BY <1>1, StallIs
<1>3. /\ input.http \in optional(Timed) /\ input.grpc \in optional(Timed)
      /\ input.sse \in optional(Timed) /\ input.ws \in optional([address : Name])
      /\ input.scriptTimeout \in Int
  BY DEF AnyPlan
<1>4. /\ t \in Int
      /\ \/ \E c \in own : t = driverTimeout(c)
         \/ own \notin optional(Timed)
  <2>1. CASE mainJs(input, input.script)
    <3>1. own = {[kind |-> "script"]}
      BY <2>1 DEF driverConfig
    <3>2. own \notin optional(Timed)
      BY <3>1, Untimed DEF optional
    <3>3. t = ScriptTimeout(input) + 30000
      BY <2>1 DEF execTime
    <3> QED
      BY <1>3, <3>2, <3>3 DEF ScriptTimeout
  <2>2. CASE ~mainJs(input, input.script)
    <3>0. \A C \in optional(Timed) : \A c \in C : driverTimeout(c) \in Int
      BY DEF optional, Timed, driverTimeout
    <3>1. CASE input.protocol \in {"http", "https"}
      <4>1. own = input.http
        BY <2>2, <3>1 DEF driverConfig
      <4>2. \E c \in input.http : t = driverTimeout(c)
        BY <2>2, <3>1 DEF execTime
      <4> QED
        BY <1>3, <3>0, <4>1, <4>2
    <3>2. CASE input.protocol = "grpc"
      <4>1. own = input.grpc
        BY <2>2, <3>2 DEF driverConfig
      <4>2. \E c \in input.grpc : t = driverTimeout(c)
        BY <2>2, <3>2 DEF execTime
      <4> QED
        BY <1>3, <3>0, <4>1, <4>2
    <3>3. CASE input.protocol = "sse"
      <4>1. own = input.sse
        BY <2>2, <3>3 DEF driverConfig
      <4>2. \E c \in input.sse : t = driverTimeout(c)
        BY <2>2, <3>3 DEF execTime
      <4> QED
        BY <1>3, <3>0, <4>1, <4>2
    <3>4. CASE input.protocol = "websocket"
      <4>1. own = input.ws
        BY <2>2, <3>4 DEF driverConfig
      <4>2. t = 30000 /\ input.ws # {}
        BY <2>2, <3>4 DEF execTime
      <4>3. input.ws \notin optional(Timed)
        BY <1>3, <4>2, Untimed DEF optional
      <4> QED
        BY <4>1, <4>2, <4>3
    <3>5. CASE input.protocol \notin {"http", "https", "grpc", "websocket", "sse"}
      BY <2>2, <3>5 DEF execTime
    <3> QED
      BY <3>1, <3>2, <3>3, <3>4, <3>5
  <2> QED
    BY <2>1, <2>2
<1>5. ASSUME own = sizedBy(input) PROVE t <= x
  <2>1. PICK c \in sizedBy(input) : t = driverTimeout(c)
    BY <1>4, <1>5, TimeoutIs
  <2> QED
    BY <1>1, <2>1, TimeoutIs
<1> HIDE DEF own, s
<1> QED
  BY <1>2, <1>4, <1>5

\* Of every plan that Validate accepts, whatever its protocol, pauses, timeouts and
\* further configurations: it has a driver unless it is a script plan without a script,
\* it draws no negative pause, and its stall breaker outlasts its requests three times
\* over, up to the second that is cut off, where it is sized by the driver's own
\* configuration, and else a minute (Validate, startRun, thinker, RequestTimeout and
\* dispatchLocked).
THEOREM AcceptedPlansRun == input \in AnyInput => ValidPlansRun
BY DriversExist, PausesSound, StallsOutlast DEF ValidPlansRun

-----------------------------------------------------------------------------
(* Assertions                                                              *)

JsonType == {"num", "str", "bool", "null", "obj", "arr"}

LEMMA ScalarIs ==
    ASSUME NEW v \in Scalar
    PROVE  /\ v.type \in JsonType \cup {"missing", "invalid"}
           /\ v.type = "num" => v.text \in DOMAIN numeral
           /\ v.type = "bool" => v.text \in {"true", "false"}
           /\ v.type = "null" => v.text = "null"
           /\ v.type = "obj" => v.text = "{}"
<1>1. CASE \E x \in DOMAIN numeral : v = [type |-> "num", text |-> x]
  <2>1. PICK x \in DOMAIN numeral : v = [type |-> "num", text |-> x]
    BY <1>1
  <2>2. v.type = "num" /\ v.text = x
    BY <2>1
  <2> QED
    BY <2>2 DEF JsonType
<1>2. CASE \E x \in Text : v = [type |-> "str", text |-> x]
  <2>1. PICK x \in Text : v = [type |-> "str", text |-> x]
    BY <1>2
  <2>2. v.type = "str"
    BY <2>1
  <2> QED
    BY <2>2 DEF JsonType
<1>3. CASE \E x \in {"missing", "invalid"} : v = [type |-> x, text |-> ""]
  <2>1. PICK x \in {"missing", "invalid"} : v = [type |-> x, text |-> ""]
    BY <1>3
  <2>2. v.type = x
    BY <2>1
  <2> QED
    BY <2>2
<1>4. CASE \E x \in {"true", "false"} : v = [type |-> "bool", text |-> x]
  <2>1. PICK x \in {"true", "false"} : v = [type |-> "bool", text |-> x]
    BY <1>4
  <2>2. v.type = "bool" /\ v.text = x
    BY <2>1
  <2> QED
    BY <2>2 DEF JsonType
<1>5. CASE v \in {[type |-> "null", text |-> "null"], [type |-> "obj", text |-> "{}"],
                  [type |-> "arr", text |-> "[200]"]}
  <2>1. CASE v = [type |-> "null", text |-> "null"]
    <3>1. v.type = "null" /\ v.text = "null"
      BY <2>1
    <3> QED
      BY <3>1 DEF JsonType
  <2>2. CASE v = [type |-> "obj", text |-> "{}"]
    <3>1. v.type = "obj" /\ v.text = "{}"
      BY <2>2
    <3> QED
      BY <3>1 DEF JsonType
  <2>3. CASE v = [type |-> "arr", text |-> "[200]"]
    <3>1. v.type = "arr"
      BY <2>3
    <3> QED
      BY <3>1 DEF JsonType
  <2> QED
    BY <1>5, <2>1, <2>2, <2>3
<1> QED
  BY <1>1, <1>2, <1>3, <1>4, <1>5 DEF Scalar

\* Both languages read a JSON number alike.
LEMMA NumeralsAgree ==
    ASSUME NEW x \in DOMAIN numeral
    PROVE  parse(x) = parseFloat(x)
BY DEF parse, parseFloat, isNumeral

\* Where the conversions do not differ, Go and JavaScript agree on what is equal.
LEMMA EqualAgrees ==
    ASSUME NEW v \in Scalar, v.type \in JsonType, NEW x, want(x) = x, ~equalDiffers(v, x)
    PROVE  looseEqual(v, x) <=> jsLooseEq(v, x)
<1>1. CASE v.type = "num"
  <2>1. parse(v.text) = parseFloat(v.text) /\ parse(x) = parseFloat(x)
    BY <1>1, ScalarIs, NumeralsAgree DEF equalDiffers, unlike
  <2>2. looseEqual(v, x) <=> \E n \in parse(x) : {n} = parse(v.text)
    BY <1>1 DEF looseEqual
  <2>3. jsLooseEq(v, x) <=> \E n \in parseFloat(x) : {n} = parseFloat(v.text)
    BY <1>1 DEF jsLooseEq
  <2> QED
    BY <2>1, <2>2, <2>3
<1>2. CASE v.type = "bool"
  <2>1. x # "0" /\ v.text \in {"true", "false"}
    BY <1>2, ScalarIs DEF equalDiffers
  <2>2. looseEqual(v, x) <=> \E b \in parseBool(x) : b = (v.text = "true")
    BY <1>2 DEF looseEqual
  <2>3. jsLooseEq(v, x) <=> v.text = x
    BY <1>2 DEF jsLooseEq
  <2>4. parseBool(x) = IF x = "true" THEN {TRUE} ELSE IF x = "false" THEN {FALSE} ELSE {}
    BY <2>1 DEF parseBool
  <2>5. CASE x = "true"
    <3>1. parseBool(x) = {TRUE}
      BY <2>4, <2>5
    <3>2. looseEqual(v, x) <=> v.text = "true"
      BY <2>2, <3>1, Zenon
    <3> QED
      BY <2>3, <2>5, <3>2
  <2>6. CASE x = "false"
    <3>1. parseBool(x) = {FALSE}
      BY <2>4, <2>6
    <3>2. looseEqual(v, x) <=> ~(v.text = "true")
      BY <2>2, <3>1, Zenon
    <3> QED
      BY <2>1, <2>3, <2>6, <3>2
  <2>7. CASE x \notin {"true", "false"}
    BY <2>1, <2>2, <2>3, <2>4, <2>7
  <2> QED
    BY <2>5, <2>6, <2>7
<1>3. CASE v.type = "null"
  BY <1>3 DEF looseEqual, jsLooseEq
<1>4. CASE v.type = "str"
  <2>1. jsLooseEq(v, x) <=> v.text = x
    BY <1>4 DEF jsLooseEq, asString
  <2> QED
    BY <1>4, <2>1 DEF looseEqual
<1>5. CASE v.type \in {"obj", "arr"}
  <2>1. x # v.text /\ x # asString(v)
    BY <1>5 DEF equalDiffers
  <2>2. looseEqual(v, x) <=> v.text = x
    BY <1>5 DEF looseEqual
  <2>3. jsLooseEq(v, x) <=> asString(v) = want(x)
    BY <1>5 DEF jsLooseEq
  <2> QED
    BY <2>1, <2>2, <2>3
<1> QED
  BY <1>1, <1>2, <1>3, <1>4, <1>5 DEF JsonType

\* So they do on the numbers that they order.
LEMMA NumbersAgree ==
    ASSUME NEW v \in Scalar, v.type \in JsonType, NEW x, ~orderDiffers(v, x)
    PROVE  toFloat(v) = parseFloat(asString(v)) /\ parse(x) = parseFloat(x)
<1>1. parse(x) = parseFloat(x) /\ parse(v.text) = parseFloat(v.text) /\ v.type \notin {"bool", "arr"}
  BY DEF orderDiffers, unlike
<1>2. CASE v.type \in {"num", "str"}
  BY <1>1, <1>2 DEF toFloat, asString
<1>3. CASE v.type = "null"
  <2>1. v.text = "null" /\ asString(v) = v.text /\ toFloat(v) = {}
    BY <1>3, ScalarIs DEF asString, toFloat
  <2>2. parseFloat("null") = {}
    BY DEF parseFloat, isNumeral, numeral
  <2> QED
    BY <1>1, <2>1, <2>2
<1>4. CASE v.type = "obj"
  <2>1. asString(v) = "[object Object]" /\ toFloat(v) = {}
    BY <1>4 DEF asString, toFloat
  <2>2. parseFloat("[object Object]") = {}
    BY DEF parseFloat, isNumeral, numeral
  <2> QED
    BY <1>1, <2>1, <2>2
<1> QED
  BY <1>1, <1>2, <1>3, <1>4 DEF JsonType

\* One assertion.
LEMMA OneAgrees ==
    ASSUME NEW a \in Assert, validAssert(a), NEW r \in Answer, ~differs(a, actualOf(a, r))
    PROVE  passes(a, r) <=> assertOne(a, r)
<1> DEFINE v == actualOf(a, r)
<1>1. v \in Scalar /\ a.op \in ops /\ a.source \in {"status", "body", "json"}
  <2>1. a.op \in ops /\ a.source \in {"status", "body", "json"}
    BY DEF Assert
  <2>2. r.status \in DOMAIN numeral /\ r.body \in Text /\ r.found \in Scalar
    BY DEF Answer, numeral, Text, Scalar
  <2>3. CASE a.source = "status"
    <3>1. v = [type |-> "num", text |-> r.status]
      BY <2>3 DEF actualOf
    <3> QED
      BY <2>1, <2>2, <3>1 DEF Scalar
  <2>4. CASE a.source = "body"
    <3>1. v = [type |-> "str", text |-> r.body]
      BY <2>4 DEF actualOf
    <3> QED
      BY <2>1, <2>2, <3>1 DEF Scalar
  <2>5. CASE a.source = "json"
    <3>1. v = r.found
      BY <2>5 DEF actualOf
    <3> QED
      BY <2>1, <2>2, <3>1
  <2> QED
    BY <2>1, <2>3, <2>4, <2>5
<1>2. a.op = "exists" => a.source = "json" /\ v.type # "null"
  BY <1>1 DEF validAssert, differs
<1>3. v.type \in JsonType \cup {"missing", "invalid"}
  BY <1>1, ScalarIs
<1>4. passes(a, r) <=> /\ v.type \notin {"missing", "invalid"}
                       /\ (a.source = "json" /\ a.op = "exists") \/ compare(v, a.op, a.value)
  BY DEF passes
<1>5. assertOne(a, r) <=>
        /\ v.type \notin {"missing", "invalid"}
        /\ CASE a.op = "exists" -> v.type # "null"
             [] a.op = "contains" -> contains(v.text, want(a.value))
             [] a.op = "eq" -> jsLooseEq(v, a.value)
             [] a.op = "ne" -> ~jsLooseEq(v, a.value)
             [] OTHER -> \E m \in parseFloat(asString(v)), n \in parseFloat(a.value) :
                            order(a.op, m, n)
  BY DEF assertOne
<1>6. a.op # "exists" => want(a.value) = a.value
  <2>1. a.op # "exists" => a.value # ""
    BY Zenon DEF differs
  <2> QED
    BY <2>1, Zenon DEF want
<1>7. /\ a.op \in {"eq", "ne"} => ~equalDiffers(v, a.value)
      /\ a.op \in {"gt", "lt", "gte", "lte"} => ~orderDiffers(v, a.value)
  BY Zenon DEF differs
<1> HIDE DEF v
<1>8. CASE v.type \in {"missing", "invalid"}
  BY <1>4, <1>5, <1>8
<1>9. CASE v.type \in JsonType
  <2>0. v.type \notin {"missing", "invalid"}
    BY <1>9 DEF JsonType
  <2>1. CASE a.op = "exists"
    BY <1>2, <1>4, <1>5, <2>0, <2>1
  <2>2. CASE a.op = "contains"
    BY <1>4, <1>5, <1>6, <2>0, <2>2 DEF compare
  <2>3. CASE a.op = "eq"
    BY <1>1, <1>4, <1>5, <1>6, <1>7, <1>9, <2>0, <2>3, EqualAgrees DEF compare
  <2>4. CASE a.op = "ne"
    BY <1>1, <1>4, <1>5, <1>6, <1>7, <1>9, <2>0, <2>4, EqualAgrees DEF compare
  <2>5. CASE a.op \in {"gt", "lt", "gte", "lte"}
    <3>1. compare(v, a.op, a.value) <=>
            \E m \in toFloat(v), n \in parse(a.value) : order(a.op, m, n)
      BY <2>5 DEF compare
    <3>2. toFloat(v) = parseFloat(asString(v)) /\ parse(a.value) = parseFloat(a.value)
      BY <1>1, <1>7, <1>9, <2>5, NumbersAgree
    <3>3. assertOne(a, r) <=>
            \E m \in parseFloat(asString(v)), n \in parseFloat(a.value) : order(a.op, m, n)
      BY <1>5, <2>0, <2>5
    <3>4. passes(a, r) <=> compare(v, a.op, a.value)
      BY <1>4, <2>0, <2>5
    <3> QED
      BY <3>1, <3>2, <3>3, <3>4
  <2> QED
    BY <1>1, <2>1, <2>2, <2>3, <2>4, <2>5 DEF ops
<1> QED
  BY <1>3, <1>8, <1>9

\* However many assertions a request has, the driver and the compiled scenario judge
\* each of them alike that the two languages convert alike, and the request if they
\* convert all of them alike (evalAsserts in assert.go and _runStep in scenario.go).
THEOREM VerdictsAlwaysAgree == input \in AnyInput => VerdictsAgree
<1> DEFINE r == input.answer
<1> DEFINE as == input.asserts
<1> DEFINE cfg == [expect |-> "", bodyContains |-> "", asserts |-> as]
<1> DEFINE alike == {i \in DOMAIN as : ~differs(as[i], actualOf(as[i], r))}
<1> SUFFICES ASSUME input \in AnyHttp
             PROVE  /\ \A i \in alike : passes(as[i], r) <=> assertOne(as[i], r)
                    /\ alike = DOMAIN as =>
                         (succeeds(cfg, r) <=> stepOk(as, r) /\ ~r.error
                                                 /\ numeral[r.status] < 400)
  BY Kinds DEF VerdictsAgree
<1>1. as \in Seq({a \in Assert : validAssert(a)}) /\ r \in Answer
  BY DEF AnyHttp
<1>2. cfg.expect = "" /\ cfg.bodyContains = "" /\ cfg.asserts = as
  OBVIOUS
<1> HIDE DEF cfg, r, as
<1>3. succeeds(cfg, r) <=> ~r.error /\ numeral[r.status] < 400 /\ evalAsserts(as, r)
  BY <1>2 DEF succeeds
<1>4. \A i \in DOMAIN as : as[i] \in Assert /\ validAssert(as[i])
  <2> DEFINE S == {a \in Assert : validAssert(a)}
  <2>0. \A a \in S : a \in Assert /\ validAssert(a)
    OBVIOUS
  <2>1. as \in Seq(S)
    BY <1>1
  <2> HIDE DEF S
  <2>2. \A i \in DOMAIN as : as[i] \in S
    BY <2>1, LenProperties
  <2> QED
    BY <2>0, <2>2
<1>5. \A i \in alike : passes(as[i], r) <=> assertOne(as[i], r)
  <2> SUFFICES ASSUME NEW i \in alike PROVE passes(as[i], r) <=> assertOne(as[i], r)
    OBVIOUS
  <2>1. i \in DOMAIN as /\ ~differs(as[i], actualOf(as[i], r))
    OBVIOUS
  <2> QED
    BY <1>1, <1>4, <2>1, OneAgrees
<1> HIDE DEF alike
<1>6. ASSUME alike = DOMAIN as
      PROVE  succeeds(cfg, r) <=> stepOk(as, r) /\ ~r.error /\ numeral[r.status] < 400
  <2>1. CASE as = <<>>
    <3>1. evalAsserts(as, r)
      BY <2>1 DEF evalAsserts
    <3> QED
      BY <1>3, <2>1, <3>1 DEF stepOk
  <2>2. CASE as # <<>>
    <3>1. evalAsserts(as, r) <=> stepOk(as, r)
      BY <1>5, <1>6, <2>2 DEF evalAsserts, stepOk
    <3> QED
      BY <1>3, <3>1
  <2> QED
    BY <2>1, <2>2
<1> QED
  BY <1>5, <1>6

-----------------------------------------------------------------------------
(* Login attempts                                                          *)

\* The buckets that the attempts leave behind one after the other.
Follows(f, n, t, w) ==
    f = [i \in 0..n |-> IF i = 0 THEN NoBucket ELSE attempted(f[i - 1], t[i], w)]

LEMMA BucketsExist ==
    ASSUME NEW t, NEW w
    PROVE  \A n \in Nat : \E f : Follows(f, n, t, w)
<1> DEFINE G == {n \in Nat : \E f : Follows(f, n, t, w)}
<1>1. 0 \in G
  <2> DEFINE f == [i \in 0..0 |-> NoBucket]
  <2>1. \A i \in 0..0 : i = 0
    OBVIOUS
  <2>2. Follows(f, 0, t, w)
    BY <2>1 DEF Follows
  <2> QED
    BY <2>2
<1>2. ASSUME NEW n \in Nat, n \in G PROVE n + 1 \in G
  <2>1. PICK f : Follows(f, n, t, w)
    BY <1>2
  <2>2. PICK m \in Nat : m = n + 1
    OBVIOUS
  <2> DEFINE g == [i \in 0..m |-> IF i = m THEN attempted(f[n], t[m], w) ELSE f[i]]
  <2>3. \A i \in 0..m : g[i] = IF i = 0 THEN NoBucket ELSE attempted(g[i - 1], t[i], w)
    <3> SUFFICES ASSUME NEW i \in 0..m
                 PROVE  g[i] = IF i = 0 THEN NoBucket ELSE attempted(g[i - 1], t[i], w)
      OBVIOUS
    <3>1. CASE i = m
      <4>1. g[i] = attempted(f[n], t[m], w) /\ i # 0 /\ i - 1 = n /\ n \in 0..m /\ n # m
        BY <2>2, <3>1
      <4>2. g[n] = f[n]
        BY <4>1
      <4> QED
        BY <3>1, <4>1, <4>2
    <3>2. CASE i # m
      <4>1. i \in 0..n /\ g[i] = f[i]
        BY <2>2, <3>2
      <4>2. f[i] = IF i = 0 THEN NoBucket ELSE attempted(f[i - 1], t[i], w)
        BY <2>1, <4>1 DEF Follows
      <4>3. i # 0 => i - 1 \in 0..m /\ i - 1 # m
        BY <2>2, <4>1
      <4>4. i # 0 => g[i - 1] = f[i - 1]
        BY <4>3
      <4> QED
        BY <4>1, <4>2, <4>4
    <3> QED
      BY <3>1, <3>2
  <2>4. Follows(g, m, t, w)
    <3>1. g = [i \in 0..m |-> g[i]]
      OBVIOUS
    <3> HIDE DEF g
    <3> QED
      BY <2>3, <3>1 DEF Follows
  <2> HIDE DEF g
  <2> QED
    BY <2>2, <2>4
<1> HIDE DEF G
<1>3. \A n \in Nat : n \in G
  BY <1>1, <1>2, NumberInduction
<1> QED
  BY <1>3 DEF G

LEMMA BucketsAre ==
    ASSUME NEW t, Len(t) \in Nat, NEW w
    PROVE  /\ buckets(t, w)[0] = NoBucket
           /\ \A i \in 1..Len(t) : buckets(t, w)[i] = attempted(buckets(t, w)[i - 1], t[i], w)
<1> DEFINE b == buckets(t, w)
<1>0. \E f : Follows(f, Len(t), t, w)
  BY BucketsExist
<1>1. \E f : f = [i \in 0..Len(t) |-> IF i = 0 THEN NoBucket ELSE attempted(f[i - 1], t[i], w)]
  BY <1>0 DEF Follows
<1>2. b = [i \in 0..Len(t) |-> IF i = 0 THEN NoBucket ELSE attempted(b[i - 1], t[i], w)]
  BY <1>1 DEF buckets
<1> HIDE DEF b
<1>3. \A i \in 0..Len(t) : b[i] = IF i = 0 THEN NoBucket ELSE attempted(b[i - 1], t[i], w)
  BY <1>2
<1>4. 0 \in 0..Len(t) /\ \A i \in 1..Len(t) : i \in 0..Len(t) /\ i # 0
  OBVIOUS
<1>5. b[0] = NoBucket /\ \A i \in 1..Len(t) : b[i] = attempted(b[i - 1], t[i], w)
  BY <1>3, <1>4
<1> QED
  BY <1>5 DEF b

\* The attempts st..i are those of one window, which began with st when the window
\* before had expired.
Group(b, t, w, st, i) ==
    /\ st \in 1..i
    /\ b[i] = [count |-> i - st + 1, reset |-> t[st] + w]
    /\ t[i] <= t[st] + w
    /\ \A j \in st..i : b[j].count = j - st + 1
    /\ st > 1 => t[st] > b[st - 1].reset

LEMMA GroupIs ==
    ASSUME NEW b, NEW t, NEW w, NEW st, NEW i, Group(b, t, w, st, i)
    PROVE  st \in 1..i /\ b[i].reset = t[st] + w /\ \A j \in st..i : b[j].count = j - st + 1
BY DEF Group

LEMMA Grouped ==
    ASSUME NEW t \in Seq(Nat), NEW w \in Nat,
           NEW b, b[0] = NoBucket, \A i \in 1..Len(t) : b[i] = attempted(b[i - 1], t[i], w)
    PROVE  \A i \in 1..Len(t) : \E st : Group(b, t, w, st, i)
<1>0. PICK N \in Nat : N = Len(t)
  BY LenProperties
<1>00. \A i \in 1..N : t[i] \in Nat
  BY <1>0, LenProperties
<1> DEFINE G == {n \in Nat : n \in 1..N => \E st : Group(b, t, w, st, n)}
<1>1. 0 \in G
  OBVIOUS
<1>2. ASSUME NEW n \in Nat, n \in G PROVE n + 1 \in G
  <2>0. PICK m \in Nat : m = n + 1
    OBVIOUS
  <2> SUFFICES ASSUME m \in 1..N PROVE \E st : Group(b, t, w, st, m)
    BY <2>0
  <2>1. m - 1 = n /\ b[m] = attempted(b[n], t[m], w) /\ t[m] \in Nat
    BY <1>0, <1>00, <2>0
  <2>2. CASE t[m] > b[n].reset
    <3>1. b[m] = [count |-> 1, reset |-> t[m] + w]
      BY <2>1, <2>2 DEF attempted
    <3>2. b[m].count = 1 /\ b[m].reset = t[m] + w
      BY <3>1
    <3>3. m \in 1..m /\ m - m + 1 = 1 /\ t[m] <= t[m] + w /\ \A j \in m..m : j = m
      BY <2>0, <2>1
    <3>4. m > 1 => t[m] > b[m - 1].reset
      BY <2>1, <2>2
    <3>5. Group(b, t, w, m, m)
      BY <3>1, <3>2, <3>3, <3>4 DEF Group
    <3> QED
      BY <3>5
  <2>3. CASE ~(t[m] > b[n].reset)
    <3>1. n # 0
      <4>1. n = 0 => b[n].reset = -1
        BY DEF NoBucket
      <4> QED
        BY <2>1, <2>3, <4>1
    <3>2. n \in 1..N
      BY <2>0, <3>1
    <3>3. PICK st : Group(b, t, w, st, n)
      BY <1>2, <3>2
    <3>4. /\ st \in 1..n /\ b[n] = [count |-> n - st + 1, reset |-> t[st] + w]
          /\ \A j \in st..n : b[j].count = j - st + 1
          /\ st > 1 => t[st] > b[st - 1].reset
      BY <3>3 DEF Group
    <3>5. b[m] = [b[n] EXCEPT !.count = @ + 1]
      BY <2>1, <2>3 DEF attempted
    <3>6. (n - st + 1) + 1 = m - st + 1 /\ st \in 1..m
      BY <2>0, <3>4
    <3>7. b[m] = [count |-> m - st + 1, reset |-> t[st] + w]
      BY <3>4, <3>5, <3>6
    <3>8. t[m] <= t[st] + w
      <4>1. b[n].reset = t[st] + w /\ t[st] + w \in Nat
        BY <1>00, <3>2, <3>4
      <4> QED
        BY <2>1, <2>3, <4>1
    <3>9. ASSUME NEW j \in st..m PROVE b[j].count = j - st + 1
      <4>1. j = m \/ j \in st..n
        BY <2>0, <3>4
      <4>2. b[m].count = m - st + 1
        BY <3>7
      <4> QED
        BY <3>4, <4>1, <4>2
    <3>10. Group(b, t, w, st, m)
      BY <3>4, <3>6, <3>7, <3>8, <3>9 DEF Group
    <3> QED
      BY <3>10
  <2> QED
    BY <2>2, <2>3
<1> HIDE DEF G
<1>3. \A n \in Nat : n \in G
  BY <1>1, <1>2, NumberInduction
<1> QED
  BY <1>0, <1>3 DEF G

\* A set of at most so many numbers, and one of exactly so many.
LEMMA RunOf ==
    ASSUME NEW st \in Nat, NEW m \in Nat, NEW S, S \subseteq {j \in Nat : st <= j /\ j < st + m}
    PROVE  IsFiniteSet(S) /\ Cardinality(S) <= m /\ Cardinality(S) \in Nat
<1> DEFINE R == st..st + m - 1
<1>1. st \in Int /\ st + m - 1 \in Int /\ S \subseteq R
  OBVIOUS
<1>2. IsFiniteSet(R) /\ Cardinality(R) <= m /\ Cardinality(R) \in Nat
  <2>1. IsFiniteSet(R) /\ Cardinality(R) = IF st > st + m - 1 THEN 0 ELSE (st + m - 1) - st + 1
    BY <1>1, FS_Interval
  <2> HIDE DEF R
  <2> QED
    BY <2>1
<1> HIDE DEF R
<1>3. IsFiniteSet(S) /\ Cardinality(S) <= Cardinality(R)
  BY <1>1, <1>2, FS_Subset
<1>4. Cardinality(S) \in Nat
  BY <1>3, FS_CardinalityType
<1> QED
  BY <1>2, <1>3, <1>4

\* Within a window before an attempt lie the first attempts of its own window and of
\* the one before, and all the first of its own when it is not among them.
LEMMA TwoWindows ==
    ASSUME NEW N \in Nat, NEW t \in [1..N -> Nat], NEW w \in Nat, NEW max \in Nat, NEW b,
           \A j, k \in 1..N : j <= k => t[j] <= t[k],
           \A j \in 1..N : \E st : Group(b, t, w, st, j),
           NEW i \in 1..N
    PROVE  \E st, sp \in Nat :
             /\ \A j \in 1..N : j <= i /\ b[j].count <= max /\ t[j] >= t[i] - w =>
                    (st <= j /\ j < st + max) \/ (sp <= j /\ j < sp + max)
             /\ ~(b[i].count <= max) =>
                    \A j \in Nat : st <= j /\ j < st + max =>
                        j \in 1..N /\ j <= i /\ b[j].count <= max /\ t[j] >= t[i] - w
<1>1. PICK st : Group(b, t, w, st, i)
  OBVIOUS
<1>2. /\ st \in 1..N /\ st <= i /\ t[i] <= t[st] + w /\ st \in Nat
      /\ b[i].count = i - st + 1
      /\ \A j \in st..i : b[j].count = j - st + 1
      /\ st > 1 => t[st] > b[st - 1].reset
  BY <1>1 DEF Group
<1>3. ASSUME ~(b[i].count <= max), NEW j \in Nat, st <= j, j < st + max
      PROVE  j \in 1..N /\ j <= i /\ b[j].count <= max /\ t[j] >= t[i] - w
  <2>0. i - st + 1 > max /\ st \in Nat /\ i \in Nat
    <3>1. st \in Nat /\ b[i].count = i - st + 1
      BY <1>2
    <3>2. i - st + 1 \in Int
      BY <3>1
    <3> QED
      BY <1>3, <3>1, <3>2
  <2>1. j \in st..i /\ j \in 1..N /\ j <= i
    <3>1. j <= i
      BY <1>3, <2>0
    <3>2. st >= 1 /\ i <= N
      BY <1>2
    <3> QED
      BY <1>3, <2>0, <3>1, <3>2
  <2>2. b[j].count <= max
    <3>1. b[j].count = j - st + 1
      BY <1>2, <2>1
    <3>2. j - st + 1 <= max
      BY <1>3, <2>0
    <3> QED
      BY <3>1, <3>2
  <2>3. t[st] <= t[j] /\ t[i] <= t[st] + w /\ t[st] \in Nat /\ t[j] \in Nat /\ t[i] \in Nat
    BY <1>2, <1>3, <2>1
  <2>4. t[j] >= t[i] - w
    BY <2>3
  <2> QED
    BY <2>1, <2>2, <2>4
<1>4. ASSUME NEW j \in 1..N, st <= j, j <= i, b[j].count <= max PROVE j < st + max
  <2>1. b[j].count = j - st + 1
    BY <1>2, <1>4
  <2> QED
    BY <1>2, <1>4, <2>1
<1>5. CASE st = 1
  <2>1. \A j \in 1..N : st <= j
    BY <1>5
  <2> QED
    BY <1>2, <1>3, <1>4, <2>1
<1>6. CASE st # 1
  <2>1. PICK k \in 1..N : k = st - 1
    BY <1>2, <1>6
  <2>2. PICK sp : Group(b, t, w, sp, k)
    OBVIOUS
  <2>3. /\ sp \in 1..N /\ sp <= k /\ b[k].reset = t[sp] + w /\ sp \in Nat
        /\ \A j \in sp..k : b[j].count = j - sp + 1
    <3>1. sp \in 1..k /\ b[k].reset = t[sp] + w /\ \A j \in sp..k : b[j].count = j - sp + 1
      BY <2>2, GroupIs
    <3>2. sp \in 1..N /\ sp <= k /\ sp \in Nat
      BY <3>1
    <3> QED
      BY <3>1, <3>2, Zenon
  <2>4. t[st] > t[sp] + w /\ t[i] >= t[st]
    BY <1>2, <1>6, <2>1, <2>3
  <2>5. ASSUME NEW j \in 1..N, j < st, b[j].count <= max, t[j] >= t[i] - w
        PROVE  sp <= j /\ j < sp + max
    <3>1. t[j] \in Nat /\ t[sp] \in Nat /\ t[st] \in Nat /\ t[i] \in Nat
      BY <1>2, <2>3
    <3>2. t[j] > t[sp]
      BY <2>4, <2>5, <3>1, SMTT(20)
    <3>3. sp <= j
      BY <2>3, <3>1, <3>2
    <3>4. j \in sp..k
      BY <1>2, <2>1, <2>3, <2>5, <3>3
    <3>5. b[j].count = j - sp + 1
      BY <2>3, <3>4
    <3> QED
      BY <2>3, <2>5, <3>3, <3>5
  <2>6. \A j \in 1..N : st <= j \/ j < st
    BY <1>2
  <2> QED
    BY <1>2, <1>3, <1>4, <2>3, <2>5, <2>6
<1> QED
  BY <1>5, <1>6

\* The members of two runs of numbers are at most twice as many as those of one.
LEMMA TwoRuns ==
    ASSUME NEW max \in Nat, NEW st \in Nat, NEW sp \in Nat, NEW V \in SUBSET Nat,
           \A j \in V : (st <= j /\ j < st + max) \/ (sp <= j /\ j < sp + max)
    PROVE  IsFiniteSet(V) /\ Cardinality(V) \in Nat /\ Cardinality(V) <= 2 * max
<1> DEFINE A == {j \in V : st <= j /\ j < st + max}
           B == {j \in V : sp <= j /\ j < sp + max}
<1>1. V = A \cup B
  OBVIOUS
<1>2. /\ A \subseteq {j \in Nat : st <= j /\ j < st + max}
      /\ B \subseteq {j \in Nat : sp <= j /\ j < sp + max}
  OBVIOUS
<1> HIDE DEF A, B
<1>3. IsFiniteSet(A) /\ Cardinality(A) <= max /\ Cardinality(A) \in Nat
  BY <1>2, RunOf
<1>4. IsFiniteSet(B) /\ Cardinality(B) <= max /\ Cardinality(B) \in Nat
  BY <1>2, RunOf
<1>5. /\ IsFiniteSet(A \cup B)
      /\ Cardinality(A \cup B) = Cardinality(A) + Cardinality(B) - Cardinality(A \cap B)
  BY <1>3, <1>4, FS_Union
<1>6. Cardinality(A \cap B) \in Nat
  <2>1. IsFiniteSet(A \cap B)
    BY <1>3, FS_Intersection
  <2> QED
    BY <2>1, FS_CardinalityType
<1>7. PICK a, c, d \in Nat : a = Cardinality(A) /\ c = Cardinality(B) /\ d = Cardinality(A \cap B)
  BY <1>3, <1>4, <1>6
<1>8. Cardinality(V) \in Nat /\ IsFiniteSet(V)
  BY <1>1, <1>5, FS_CardinalityType
<1>9. Cardinality(V) = a + c - d /\ a <= max /\ c <= max
  BY <1>1, <1>3, <1>4, <1>5, <1>7
<1>10. a + c - d <= 2 * max
  BY <1>9
<1> QED
  BY <1>8, <1>9, <1>10

\* A set with such a run in it has so many members.
LEMMA RunWithin ==
    ASSUME NEW max \in Nat, NEW st \in Nat, NEW V, IsFiniteSet(V),
           \A j \in Nat : st <= j /\ j < st + max => j \in V
    PROVE  Cardinality(V) >= max
<1> DEFINE R == st..st + max - 1
<1>1. st \in Int /\ st + max - 1 \in Int /\ R \subseteq V
  OBVIOUS
<1>2. Cardinality(R) = IF st > st + max - 1 THEN 0 ELSE (st + max - 1) - st + 1
  BY <1>1, FS_Interval
<1> HIDE DEF R
<1>3. Cardinality(R) = max
  BY <1>2
<1>4. Cardinality(R) <= Cardinality(V) /\ Cardinality(V) \in Nat
  BY <1>1, FS_Subset, FS_CardinalityType
<1> QED
  BY <1>3, <1>4

\* The attempts among ok in the window before attempt i.
Within(ok, t, w, i) == {j \in ok : t[j] >= t[i] - w /\ j <= i}

LEMMA Throttled ==
    ASSUME NEW t \in Seq(Nat), NEW w \in Nat, NEW max \in Nat,
           \A i, j \in 1..Len(t) : i <= j => t[i] <= t[j],
           NEW ok, ok = allow(t, max, w), NEW i \in 1..Len(t),
           NEW V, V = Within(ok, t, w, i)
    PROVE  /\ Cardinality(V) <= 2 * max
           /\ i \notin ok => Cardinality(V) >= max
<1>0. PICK N \in Nat : N = Len(t)
  BY LenProperties
<1>a. DOMAIN t = 1..N /\ i \in 1..N /\ t \in [1..N -> Nat]
  BY <1>0, LenProperties
<1>b. \A j, k \in 1..N : j <= k => t[j] <= t[k]
  BY <1>0
<1> DEFINE b == buckets(t, w)
<1>1. b[0] = NoBucket /\ \A j \in 1..Len(t) : b[j] = attempted(b[j - 1], t[j], w)
  BY <1>0, BucketsAre
<1>2. ok = {j \in 1..N : b[j].count <= max}
  BY <1>a DEF allow
<1> HIDE DEF b
<1>3. \A j \in 1..N : \E st : Group(b, t, w, st, j)
  BY <1>0, <1>1, Grouped
<1>4. PICK st, sp \in Nat :
         /\ \A j \in 1..N : j <= i /\ b[j].count <= max /\ t[j] >= t[i] - w =>
                (st <= j /\ j < st + max) \/ (sp <= j /\ j < sp + max)
         /\ ~(b[i].count <= max) =>
                \A j \in Nat : st <= j /\ j < st + max =>
                    j \in 1..N /\ j <= i /\ b[j].count <= max /\ t[j] >= t[i] - w
  BY <1>3, <1>a, <1>b, TwoWindows
<1>5. \A j : j \in V <=> j \in 1..N /\ j <= i /\ b[j].count <= max /\ t[j] >= t[i] - w
  BY <1>2 DEF Within
<1>6. V \in SUBSET Nat
  BY <1>5
<1>7. \A j \in V : (st <= j /\ j < st + max) \/ (sp <= j /\ j < sp + max)
  BY <1>4, <1>5
<1>8. IsFiniteSet(V) /\ Cardinality(V) \in Nat /\ Cardinality(V) <= 2 * max
  BY <1>6, <1>7, TwoRuns
<1>9. ASSUME i \notin ok PROVE Cardinality(V) >= max
  <2>1. ~(b[i].count <= max)
    BY <1>2, <1>9, <1>a
  <2>2. \A j \in Nat : st <= j /\ j < st + max => j \in V
    BY <1>4, <1>5, <2>1
  <2> QED
    BY <1>8, <2>2, RunWithin
<1> QED
  BY <1>8, <1>9

\* Logins are throttled whatever the limit, the window and the attempts.
LEMMA LoginsThrottled == input \in AnyInput => LoginsAreThrottled
<1> SUFFICES ASSUME input \in AnyLogin PROVE LoginsAreThrottled
  BY Kinds DEF LoginsAreThrottled
<1>1. /\ input.times \in Seq(Nat) /\ input.window \in Nat /\ input.max \in Nat
      /\ \A i, j \in 1..Len(input.times) : i <= j => input.times[i] <= input.times[j]
  BY DEF AnyLogin
<1>2. DOMAIN input.times = 1..Len(input.times)
  BY <1>1, LenProperties
<1> DEFINE t == input.times
           w == input.window
           ok == allow(t, input.max, w)
           within(i) == {j \in ok : t[j] >= t[i] - w /\ j <= i}
<1>3. ASSUME NEW i \in 1..Len(t)
      PROVE  /\ Cardinality(within(i)) <= 2 * input.max
             /\ i \notin ok => Cardinality(within(i)) >= input.max
  <2>1. PICK V : V = within(i)
    OBVIOUS
  <2>2. PICK O : O = allow(t, input.max, w)
    OBVIOUS
  <2>3. V = {j \in O : t[j] >= t[i] - w /\ j <= i}
    BY <2>1, <2>2
  <2>4. Cardinality(V) <= 2 * input.max /\ (i \notin O => Cardinality(V) >= input.max)
    <3>1. PICK T, W, M : T = t /\ W = w /\ M = input.max
      OBVIOUS
    <3>2. /\ T \in Seq(Nat) /\ W \in Nat /\ M \in Nat /\ i \in 1..Len(T)
          /\ \A j, k \in 1..Len(T) : j <= k => T[j] <= T[k]
          /\ O = allow(T, M, W) /\ V = Within(O, T, W, i)
      BY <1>1, <1>3, <2>2, <2>3, <3>1 DEF Within
    <3>3. Cardinality(V) <= 2 * M /\ (i \notin O => Cardinality(V) >= M)
      BY <3>2, Throttled
    <3> QED
      BY <3>1, <3>3
  <2> QED
    BY <2>1, <2>2, <2>4
<1> QED
  BY <1>2, <1>3 DEF LoginsAreThrottled

\* WindowsHold, for every breaker and alert over every sequence of ticks, and every
\* limit on every sequence of login attempts (observe, evalAutoStop, allow).
THEOREM WindowsAlwaysHold == input \in AnyInput => WindowsHold
BY AlertIsFirst, LoginsThrottled DEF WindowsHold

-----------------------------------------------------------------------------
(* Slices                                                                  *)

LEMMA Divided ==
    ASSUME NEW a \in Nat, NEW n \in Nat, n # 0
    PROVE  /\ a \div n \in Nat /\ a % n \in Nat /\ a % n < n
           /\ a = n * (a \div n) + (a % n)
<1>1. a \div n \in Nat /\ a % n \in Nat /\ a % n < n
  OBVIOUS
<1>2. a % n = a - n * (a \div n)
  OBVIOUS
<1> QED
  BY <1>1, <1>2

\* The shares of a number are natural numbers that add up to it, no two of them
\* further apart than one, the first of them none only if all are.
LEMMA Shares ==
    ASSUME NEW a \in Nat, NEW n \in Nat, n # 0
    PROVE  /\ splitEven(a, n) \in [1..n -> Nat]
           /\ SumFunction(splitEven(a, n)) = a
           /\ \A i, j \in 1..n : splitEven(a, n)[i] <= splitEven(a, n)[j] + 1
           /\ a > 0 => splitEven(a, n)[1] > 0
           /\ a = 0 => \A i \in 1..n : splitEven(a, n)[i] = 0
<1>1. PICK q, r \in Nat : q = a \div n /\ r = a % n
  BY Divided
<1>2. r < n /\ a = n * q + r
  BY <1>1, Divided
<1> DEFINE f == [i \in 1..n |-> q]
           g == [i \in 1..n |-> IF i <= r THEN 1 ELSE 0]
           h == [i \in 1..n |-> q + (IF i <= r THEN 1 ELSE 0)]
<1>3. splitEven(a, n) = h
  BY <1>1 DEF splitEven
<1>4. f \in [1..n -> Int] /\ g \in [1..n -> Int] /\ h \in [1..n -> Int]
  OBVIOUS
<1>5. \A i \in 1..n : h[i] = f[i] + g[i]
  OBVIOUS
<1>6. \A i \in 1..n : f[i] = q /\ g[i] = IF i <= r THEN 1 ELSE 0
  OBVIOUS
<1>7. h \in [1..n -> Nat] /\ (\A i \in 1..n : h[i] \in {q, q + 1}) /\ h[1] = q + (IF 1 <= r THEN 1 ELSE 0)
  BY <1>2
<1> HIDE DEF f, g, h
<1>8. SumFunction(f) = n * q
  <2>1. \A i \in 1..n : f[i] = q
    BY <1>6
  <2>2. q \in Int
    OBVIOUS
  <2> QED
    BY <1>4, <2>1, <2>2, SumConst
<1>9. SumFunction(g) = r
  <2>1. \A i \in 1..n : g[i] = IF i <= r THEN 1 ELSE 0
    BY <1>6
  <2>2. r <= n
    BY <1>2
  <2> QED
    BY <1>4, <2>1, <2>2, SumCount
<1>10. SumFunction(h) = SumFunction(f) + SumFunction(g)
  <2> DEFINE S == 1..n
  <2>1. IsFiniteSet(S) /\ f \in [S -> Int] /\ g \in [S -> Int] /\ h \in [S -> Int]
        /\ \A i \in S : h[i] = f[i] + g[i]
    BY <1>4, <1>5, Interval
  <2> HIDE DEF S
  <2> QED
    BY <2>1, SumPlus
<1>11. SumFunction(h) = a
  BY <1>2, <1>8, <1>9, <1>10
<1>12. \A i, j \in 1..n : h[i] <= h[j] + 1
  BY <1>7
<1>13. a > 0 => h[1] > 0
  <2>1. q = 0 => n * q = 0
    OBVIOUS
  <2> QED
    BY <1>2, <1>7, <2>1
<1>14. a = 0 => \A i \in 1..n : h[i] = 0
  <2> SUFFICES ASSUME a = 0, NEW i \in 1..n PROVE h[i] = 0
    OBVIOUS
  <2>1. n * q \in Nat /\ n * q = 0 /\ r = 0
    BY <1>2
  <2>2. q = 0
    BY <2>1
  <2> QED
    BY <2>1, <2>2, <1>5, <1>6, <1>4
<1> QED
  BY <1>3, <1>7, <1>11, <1>12, <1>13, <1>14
LEMMA NoShares ==
    ASSUME NEW n \in Nat, n # 0
    PROVE  \A i \in 1..n : splitEven(0, n)[i] = 0
<1>1. PICK a \in Nat : a = 0
  OBVIOUS
<1>2. \A i \in 1..n : splitEven(a, n)[i] = 0
  BY <1>1, Shares
<1> QED
  BY <1>1, <1>2

-----------------------------------------------------------------------------
(* Interpolation                                                           *)

LEMMA Begins ==
    ASSUME NEW N \in Nat, NEW s \in [1..N -> AnyStage]
    PROVE  /\ begins(s, 1) = 0
           /\ \A k \in 1..N : begins(s, k + 1) = begins(s, k) + s[k].dur
           /\ \A k \in 1..N + 1 : begins(s, k) \in Nat
<1> DEFINE d(m) == [i \in 1..m |-> s[i].dur]
<1>1. \A k \in Nat : k + 1 - 1 = k
  OBVIOUS
<1>2. \A m \in 0..N : d(m) \in [1..m -> Nat] /\ d(m) \in [1..m -> Int]
  BY DEF AnyStage
<1>3. \A m \in 0..N : begins(s, m + 1) = SumFunction(d(m))
  BY <1>1 DEF begins
<1>4. \A m \in 0..N : SumFunction(d(m)) \in Nat
  <2> SUFFICES ASSUME NEW m \in 0..N PROVE SumFunction(d(m)) \in Nat
    OBVIOUS
  <2>1. PICK S, f : S = 1..m /\ f = d(m)
    OBVIOUS
  <2>2. IsFiniteSet(S) /\ f \in [S -> Nat]
    BY <1>2, <2>1, Interval
  <2> QED
    BY <2>1, <2>2, SumNat
<1>5. SumFunction(d(0)) = 0
  <2>1. d(0) \in [{} -> Int]
    OBVIOUS
  <2> QED
    BY <2>1, SumEmpty
<1>6. ASSUME NEW k \in 1..N PROVE SumFunction(d(k)) = SumFunction(d(k - 1)) + s[k].dur
  <2>1. PICK m \in Nat : m = k - 1
    OBVIOUS
  <2>2. m + 1 = k /\ m \in 0..N /\ k \in 0..N
    BY <2>1
  <2>3. PICK f, g : f = d(m) /\ g = d(k)
    OBVIOUS
  <2>4. f \in [1..m -> Int] /\ g \in [1..m + 1 -> Int] /\ \A i \in 1..m : g[i] = f[i]
    BY <1>2, <2>2, <2>3
  <2>5. SumFunction(g) = SumFunction(f) + g[m + 1]
    BY <2>4, SumLast
  <2>6. g[m + 1] = s[k].dur
    BY <2>2, <2>3
  <2> QED
    BY <2>1, <2>3, <2>5, <2>6
<1> HIDE DEF d
<1>7. begins(s, 1) = 0
  <2>1. 0 \in 0..N /\ 0 + 1 = 1
    OBVIOUS
  <2> QED
    BY <2>1, <1>3, <1>5
<1>8. ASSUME NEW k \in 1..N PROVE begins(s, k + 1) = begins(s, k) + s[k].dur
  <2>1. PICK m \in 0..N : m = k - 1
    OBVIOUS
  <2>2. begins(s, k) = SumFunction(d(k - 1))
    BY <1>3, <2>1
  <2>3. begins(s, k + 1) = SumFunction(d(k))
    BY <1>3
  <2> QED
    BY <1>6, <2>2, <2>3
<1>9. ASSUME NEW k \in 1..N + 1 PROVE begins(s, k) \in Nat
  <2>1. PICK m \in 0..N : m = k - 1
    OBVIOUS
  <2>2. m + 1 = k
    BY <2>1
  <2>3. begins(s, m + 1) \in Nat
    BY <1>3, <1>4
  <2> QED
    BY <2>2, <2>3
<1> QED
  BY <1>7, <1>8, <1>9

\* A later stage begins later.
LEMMA BeginsGrow ==
    ASSUME NEW N \in Nat, NEW s \in [1..N -> AnyStage]
    PROVE  \A j, k \in 1..N + 1 : j <= k => begins(s, j) <= begins(s, k)
<1> SUFFICES ASSUME NEW j \in 1..N + 1
             PROVE  \A k \in 1..N + 1 : j <= k => begins(s, j) <= begins(s, k)
  OBVIOUS
<1> DEFINE G == {k \in Nat : k \in 1..N + 1 /\ j <= k => begins(s, j) <= begins(s, k)}
<1>0. \A k \in 1..N + 1 : begins(s, k) \in Nat
  BY Begins
<1>1. 0 \in G
  OBVIOUS
<1>2. ASSUME NEW k \in Nat, k \in G PROVE k + 1 \in G
  <2> SUFFICES ASSUME k + 1 \in 1..N + 1, j <= k + 1
               PROVE  begins(s, j) <= begins(s, k + 1)
    OBVIOUS
  <2>1. CASE j = k + 1
    BY <1>0, <2>1
  <2>2. CASE j <= k
    <3>1. k \in 1..N /\ k \in 1..N + 1
      BY <2>2
    <3>2. begins(s, k + 1) = begins(s, k) + s[k].dur /\ s[k].dur \in Nat
      BY <3>1, Begins DEF AnyStage
    <3>3. begins(s, j) <= begins(s, k)
      BY <1>2, <2>2, <3>1
    <3>4. begins(s, j) \in Nat /\ begins(s, k) \in Nat
      BY <1>0, <3>1
    <3> QED
      BY <3>2, <3>3, <3>4
  <2>3. j = k + 1 \/ j <= k
    OBVIOUS
  <2> QED
    BY <2>1, <2>2, <2>3
<1> HIDE DEF G
<1>3. \A k \in Nat : k \in G
  BY <1>1, <1>2, NumberInduction
<1> QED
  BY <1>3 DEF G

LEMMA Blend ==
    ASSUME NEW p \in Int, NEW d \in Int, NEW e \in Int, NEW x \in Int
    PROVE  p * d + e * (x - p) = e * x + (d - e) * p
OBVIOUS

\* The target is at any time a mean of a stage's and the one before it, in which the
\* weights are those of the durations alone.
LEMMA Weights ==
    ASSUME NEW N \in Nat, N # 0, NEW s \in [1..N -> AnyStage], NEW t \in Nat
    PROVE  \E k \in 1..N : \E a, c \in Nat :
             /\ a + c > 0
             /\ \A target \in [1..N -> Nat] :
                  interpolate(s, target, t) = [num |-> a * target[k] + c * before(target, k),
                                               den |-> a + c]
<1>0. DOMAIN s = 1..N /\ s # <<>> /\ Len(s) = N /\ N \in 1..N
  OBVIOUS
<1>1. \A target \in [1..N -> Nat] : \A k \in 1..N :
         target[k] \in Nat /\ before(target, k) \in Nat
  BY DEF before
<1>2. CASE current(s, t) = {}
  <2>1. \A target \in [1..N -> Nat] : interpolate(s, target, t) = [num |-> target[N], den |-> 1]
    BY <1>0, <1>2 DEF interpolate
  <2>2. \A target \in [1..N -> Nat] : 1 * target[N] + 0 * before(target, N) = target[N]
    BY <1>0, <1>1
  <2>3. 1 + 0 = 1 /\ 1 + 0 > 0 /\ 1 \in Nat /\ 0 \in Nat
    OBVIOUS
  <2>4. \A target \in [1..N -> Nat] :
          interpolate(s, target, t) = [num |-> 1 * target[N] + 0 * before(target, N), den |-> 1 + 0]
    BY <2>1, <2>2
  <2> QED
    BY <1>0, <2>3, <2>4
<1>3. CASE current(s, t) # {}
  <2>1. current(s, t) \subseteq 1..N /\ current(s, t) \in SUBSET Nat
    BY <1>0 DEF current
  <2>2. PICK k \in 1..N : k = Min(current(s, t)) /\ k \in current(s, t)
                            /\ \A j \in current(s, t) : k <= j
    BY <1>3, <2>1, MinOf
  <2>3. s[k].dur \in Nat
    BY DEF AnyStage
  <2>4. CASE s[k].dur = 0
    <3>1. \A target \in [1..N -> Nat] : interpolate(s, target, t) = [num |-> target[k], den |-> 1]
      BY <1>3, <2>2, <2>4 DEF interpolate
    <3>2. \A target \in [1..N -> Nat] : 1 * target[k] + 0 * before(target, k) = target[k]
      BY <1>1
    <3>3. 1 + 0 = 1 /\ 1 + 0 > 0 /\ 1 \in Nat /\ 0 \in Nat
      OBVIOUS
    <3> QED
      BY <3>1, <3>2, <3>3
  <2>5. CASE s[k].dur # 0
    <3>1. \A target \in [1..N -> Nat] : interpolate(s, target, t) =
            [num |-> before(target, k) * s[k].dur
                       + (t - begins(s, k)) * (target[k] - before(target, k)),
             den |-> s[k].dur]
      BY <1>3, <2>2, <2>5 DEF interpolate
    <3>2. t < begins(s, k + 1) /\ begins(s, k + 1) = begins(s, k) + s[k].dur
      BY <2>2, <2>5, Begins DEF current
    <3>3. begins(s, k) \in Nat
      BY Begins
    <3>4. begins(s, k) <= t
      <4>1. CASE k = 1
        BY <4>1, Begins
      <4>2. CASE k # 1
        <5>1. PICK j \in 1..N : j = k - 1
          BY <4>2
        <5>2. j + 1 = k /\ j \notin current(s, t)
          BY <2>2, <5>1
        <5>3. ~(t < begins(s, j + 1))
          BY <1>0, <5>2 DEF current
        <5> QED
          BY <3>3, <5>2, <5>3
      <4> QED
        BY <4>1, <4>2
    <3>5. PICK e, c \in Nat : e = t - begins(s, k) /\ c = s[k].dur - e /\ e + c = s[k].dur
      <4>1. t - begins(s, k) \in Nat /\ s[k].dur - (t - begins(s, k)) \in Nat
        BY <2>3, <3>2, <3>3, <3>4
      <4>2. (t - begins(s, k)) + (s[k].dur - (t - begins(s, k))) = s[k].dur
        BY <2>3, <4>1
      <4> QED
        BY <4>1, <4>2
    <3>6. ASSUME NEW target \in [1..N -> Nat]
          PROVE  interpolate(s, target, t) = [num |-> e * target[k] + c * before(target, k),
                                              den |-> e + c]
      <4>1. PICK p, x, d \in Nat : p = before(target, k) /\ x = target[k] /\ d = s[k].dur
        BY <1>1, <2>3
      <4>2. interpolate(s, target, t) = [num |-> p * d + e * (x - p), den |-> d]
        BY <3>1, <3>5, <4>1
      <4>3. p * d + e * (x - p) = e * x + c * p
        <5>1. p * d + e * (x - p) = e * x + (d - e) * p
          BY Blend
        <5> QED
          BY <3>5, <4>1, <5>1
      <4> QED
        BY <3>5, <4>1, <4>2, <4>3
    <3>7. e + c > 0
      <4>1. PICK d \in Nat : d = s[k].dur /\ d # 0
        BY <2>3, <2>5
      <4>2. e + c = d
        BY <3>5, <4>1
      <4> QED
        BY <4>1, <4>2
    <3> QED
      BY <3>6, <3>7
  <2> QED
    BY <2>4, <2>5
<1> QED
  BY <1>2, <1>3

\* Only the durations of stages tell which is current.
LEMMA SameDurations ==
    ASSUME NEW N \in Nat, NEW s \in [1..N -> AnyStage], NEW z \in [1..N -> AnyStage],
           \A k \in 1..N : z[k].dur = s[k].dur, NEW t \in Nat, NEW target
    PROVE  interpolate(z, target, t) = interpolate(s, target, t)
<1>0. DOMAIN s = 1..N /\ DOMAIN z = 1..N /\ Len(s) = N /\ Len(z) = N
      /\ (s = <<>> <=> N = 0) /\ (z = <<>> <=> N = 0)
  OBVIOUS
<1>1. \A k \in 1..N + 1 : begins(z, k) = begins(s, k)
  <2> SUFFICES ASSUME NEW k \in 1..N + 1 PROVE begins(z, k) = begins(s, k)
    OBVIOUS
  <2>1. \A i \in 1..k - 1 : z[i].dur = s[i].dur
    OBVIOUS
  <2>2. [i \in 1..k - 1 |-> z[i].dur] = [i \in 1..k - 1 |-> s[i].dur]
    BY <2>1
  <2> QED
    BY <2>2 DEF begins
<1>2. current(z, t) = current(s, t)
  <2>1. \A k \in 1..N : begins(z, k + 1) = begins(s, k + 1)
    BY <1>1
  <2> QED
    BY <1>0, <2>1 DEF current
<1>3. CASE current(s, t) = {}
  BY <1>0, <1>2, <1>3 DEF interpolate
<1>4. CASE current(s, t) # {}
  <2>1. current(s, t) \in SUBSET Nat /\ current(s, t) \subseteq 1..N
    BY <1>0 DEF current
  <2>2. PICK k \in 1..N : k = Min(current(s, t))
    BY <1>4, <2>1, MinOf
  <2>3. begins(z, k) = begins(s, k) /\ z[k].dur = s[k].dur
    BY <1>1
  <2> QED
    BY <1>2, <1>4, <2>2, <2>3 DEF interpolate
<1> QED
  BY <1>3, <1>4

\* A worker's slice has the stages of the plan with its share of the targets.
LEMMA Slices ==
    ASSUME NEW N \in Nat, NEW s \in [1..N -> AnyStage], NEW n \in Nat, n # 0, NEW i \in 1..n
    PROVE  /\ SliceRamp(s, n)[i] \in [1..N -> AnyStage]
           /\ \A k \in 1..N : /\ SliceRamp(s, n)[i][k].dur = s[k].dur
                              /\ SliceRamp(s, n)[i][k].vus = splitEven(s[k].vus, n)[i]
                              /\ SliceRamp(s, n)[i][k].rps = splitEven(s[k].rps, n)[i]
<1> DEFINE z == SliceRamp(s, n)[i]
<1>1. z = [k \in 1..N |-> [dur |-> s[k].dur, vus |-> splitEven(s[k].vus, n)[i],
                           rps |-> splitEven(s[k].rps, n)[i]]]
  BY DEF SliceRamp
<1>2. \A k \in 1..N : s[k].dur \in Nat /\ s[k].vus \in Nat /\ s[k].rps \in Nat
  BY DEF AnyStage
<1>3. \A k \in 1..N : splitEven(s[k].vus, n)[i] \in Nat /\ splitEven(s[k].rps, n)[i] \in Nat
  <2> SUFFICES ASSUME NEW x \in Nat PROVE splitEven(x, n)[i] \in Nat
    BY <1>2
  <2>1. splitEven(x, n) \in [1..n -> Nat]
    BY Shares
  <2> QED
    BY <2>1
<1> HIDE DEF z
<1>4. \A k \in 1..N : /\ z[k].dur = s[k].dur
                      /\ z[k].vus = splitEven(s[k].vus, n)[i]
                      /\ z[k].rps = splitEven(s[k].rps, n)[i]
  BY <1>1
<1>5. z \in [1..N -> AnyStage]
  BY <1>1, <1>2, <1>3 DEF AnyStage
<1> QED
  BY <1>4, <1>5 DEF z

\* U are the shares that worker i gets of V.
SharesOf(U, V, N, n, i) ==
    /\ V \in [1..N -> Nat] /\ U \in [1..N -> Nat]
    /\ \A k \in 1..N : U[k] = splitEven(V[k], n)[i]

LEMMA SharesBefore ==
    ASSUME NEW N \in Nat, NEW V, NEW n \in Nat, n # 0, NEW i \in 1..n, NEW U,
           SharesOf(U, V, N, n, i), NEW k \in 1..N
    PROVE  before(U, k) = splitEven(before(V, k), n)[i]
<1>1. CASE k = 1
  <2>1. splitEven(0, n)[i] = 0
    BY Shares
  <2> QED
    BY <1>1, <2>1 DEF before
<1>2. CASE k # 1
  <2>1. k - 1 \in 1..N
    BY <1>2
  <2> QED
    BY <1>2, <2>1 DEF before, SharesOf
<1> QED
  BY <1>1, <1>2

Vus(s) == [k \in DOMAIN s |-> s[k].vus]
Rps(s) == [k \in DOMAIN s |-> s[k].rps]

\* A profile of N stages.
IsRamp(s, N) == s \in [1..N -> AnyStage]

Mix(a, c, x, y) == [num |-> a * x + c * y, den |-> a + c]
Mixes(s, t, N, k, a, c) ==
    \A target \in [1..N -> Nat] :
        interpolate(s, target, t) = Mix(a, c, target[k], before(target, k))

\* z is the slice of worker i.
IsSlice(z, s, N, n, i) ==
    /\ IsRamp(z, N)
    /\ \A j \in 1..N : /\ z[j].dur = s[j].dur
                       /\ z[j].vus = splitEven(s[j].vus, n)[i]
                       /\ z[j].rps = splitEven(s[j].rps, n)[i]

LEMMA SliceIs ==
    ASSUME NEW N \in Nat, NEW s, IsRamp(s, N), NEW n \in Nat, n # 0, NEW i \in 1..n
    PROVE  IsSlice(SliceRamp(s, n)[i], s, N, n, i)
<1>1. s \in [1..N -> AnyStage]
  BY DEF IsRamp
<1>2. /\ SliceRamp(s, n)[i] \in [1..N -> AnyStage]
      /\ \A k \in 1..N : /\ SliceRamp(s, n)[i][k].dur = s[k].dur
                         /\ SliceRamp(s, n)[i][k].vus = splitEven(s[k].vus, n)[i]
                         /\ SliceRamp(s, n)[i][k].rps = splitEven(s[k].rps, n)[i]
  BY <1>1, Slices
<1> QED
  BY <1>2 DEF IsRamp, IsSlice

LEMMA RampMixes ==
    ASSUME NEW N \in Nat, N # 0, NEW s, IsRamp(s, N), NEW t \in Nat
    PROVE  \E k \in 1..N : \E a, c \in Nat : a + c > 0 /\ Mixes(s, t, N, k, a, c)
BY Weights DEF Mixes, Mix, IsRamp

\* At any time a worker mixes its shares of two targets as the plan mixes the two.
LEMMA SliceMixes ==
    ASSUME NEW N \in Nat, NEW s, IsRamp(s, N), NEW n \in Nat, n # 0, NEW i \in 1..n,
           NEW z, z = SliceRamp(s, n)[i], NEW t \in Nat,
           NEW k \in 1..N, NEW a \in Nat, NEW c \in Nat, Mixes(s, t, N, k, a, c)
    PROVE  /\ interpolate(z, Vus(z), t) =
                Mix(a, c, splitEven(Vus(s)[k], n)[i], splitEven(before(Vus(s), k), n)[i])
           /\ interpolate(z, Rps(z), t) =
                Mix(a, c, splitEven(Rps(s)[k], n)[i], splitEven(before(Rps(s), k), n)[i])
<1>1. /\ z \in [1..N -> AnyStage]
      /\ \A j \in 1..N : /\ z[j].dur = s[j].dur
                         /\ z[j].vus = splitEven(s[j].vus, n)[i]
                         /\ z[j].rps = splitEven(s[j].rps, n)[i]
  <2>1. IsSlice(z, s, N, n, i)
    BY SliceIs
  <2> QED
    BY <2>1 DEF IsSlice, IsRamp
<1>2. Vus(s) \in [1..N -> Nat] /\ Rps(s) \in [1..N -> Nat]
  BY DEF Vus, Rps, AnyStage, IsRamp
<1>3. Vus(z) \in [1..N -> Nat] /\ Rps(z) \in [1..N -> Nat]
  BY <1>1 DEF Vus, Rps, AnyStage
<1>4. \A j \in 1..N : Vus(z)[j] = splitEven(Vus(s)[j], n)[i]
  BY <1>1 DEF Vus, IsRamp
<1>5. \A j \in 1..N : Rps(z)[j] = splitEven(Rps(s)[j], n)[i]
  BY <1>1 DEF Rps, IsRamp
<1>6. before(Vus(z), k) = splitEven(before(Vus(s), k), n)[i]
  <2>1. SharesOf(Vus(z), Vus(s), N, n, i)
    BY <1>2, <1>3, <1>4 DEF SharesOf
  <2> QED
    BY <2>1, SharesBefore
<1>7. before(Rps(z), k) = splitEven(before(Rps(s), k), n)[i]
  <2>1. SharesOf(Rps(z), Rps(s), N, n, i)
    BY <1>2, <1>3, <1>5 DEF SharesOf
  <2> QED
    BY <2>1, SharesBefore
<1>8. /\ interpolate(s, Vus(z), t) = Mix(a, c, Vus(z)[k], before(Vus(z), k))
      /\ interpolate(s, Rps(z), t) = Mix(a, c, Rps(z)[k], before(Rps(z), k))
  BY <1>3 DEF Mixes
<1>9. \A target : interpolate(z, target, t) = interpolate(s, target, t)
  <2>1. \A j \in 1..N : z[j].dur = s[j].dur
    BY <1>1
  <2> QED
    BY <1>1, <2>1, SameDurations DEF IsRamp
<1> QED
  BY <1>4, <1>5, <1>6, <1>7, <1>8, <1>9

SliceMix(s, n, t, a, c, x, y, v, w) ==
    /\ interpolate(s, Vus(s), t) = Mix(a, c, x, y)
    /\ interpolate(s, Rps(s), t) = Mix(a, c, v, w)
    /\ \A i \in 1..n :
         LET z == SliceRamp(s, n)[i]
         IN  /\ interpolate(z, Vus(z), t) = Mix(a, c, splitEven(x, n)[i], splitEven(y, n)[i])
             /\ interpolate(z, Rps(z), t) = Mix(a, c, splitEven(v, n)[i], splitEven(w, n)[i])

LEMMA SlicesMix ==
    ASSUME NEW N \in Nat, N # 0, NEW s, IsRamp(s, N), NEW n \in Nat, n # 0,
           NEW t \in Nat
    PROVE  \E a, c, x, y, v, w \in Nat :
             a + c > 0 /\ SliceMix(s, n, t, a, c, x, y, v, w)
<1>1. PICK k \in 1..N, a \in Nat, c \in Nat : a + c > 0 /\ Mixes(s, t, N, k, a, c)
  BY RampMixes
<1>2. Vus(s) \in [1..N -> Nat] /\ Rps(s) \in [1..N -> Nat]
  BY DEF Vus, Rps, AnyStage, IsRamp
<1>3. PICK x, y, v, w \in Nat : /\ x = Vus(s)[k] /\ y = before(Vus(s), k)
                                /\ v = Rps(s)[k] /\ w = before(Rps(s), k)
  <2>1. ASSUME NEW V \in [1..N -> Nat] PROVE V[k] \in Nat /\ before(V, k) \in Nat
    <3>1. k = 1 \/ k - 1 \in 1..N
      OBVIOUS
    <3> QED
      BY <3>1 DEF before
  <2> QED
    BY <1>2, <2>1
<1>4. /\ interpolate(s, Vus(s), t) = Mix(a, c, x, y)
      /\ interpolate(s, Rps(s), t) = Mix(a, c, v, w)
  BY <1>1, <1>2, <1>3 DEF Mixes
<1>5. ASSUME NEW i \in 1..n, NEW z, z = SliceRamp(s, n)[i]
      PROVE  /\ interpolate(z, Vus(z), t) = Mix(a, c, splitEven(x, n)[i], splitEven(y, n)[i])
             /\ interpolate(z, Rps(z), t) = Mix(a, c, splitEven(v, n)[i], splitEven(w, n)[i])
  <2>1. Mixes(s, t, N, k, a, c)
    BY <1>1
  <2>2. /\ interpolate(z, Vus(z), t) =
             Mix(a, c, splitEven(Vus(s)[k], n)[i], splitEven(before(Vus(s), k), n)[i])
        /\ interpolate(z, Rps(z), t) =
             Mix(a, c, splitEven(Rps(s)[k], n)[i], splitEven(before(Rps(s), k), n)[i])
    BY <1>5, <2>1, SliceMixes
  <2> QED
    BY <1>3, <2>2
<1>6. SliceMix(s, n, t, a, c, x, y, v, w)
  BY <1>4, <1>5 DEF SliceMix
<1>7. a + c > 0
  BY <1>1
<1> QED
  BY <1>6, <1>7

\* The sum of a mix is the mix of the sums.
Mixed(h, X, Y, a, c, S) ==
    /\ h \in [S -> Int] /\ X \in [S -> Int] /\ Y \in [S -> Int]
    /\ \A i \in S : h[i] = a * X[i] + c * Y[i]

LEMMA SumMix ==
    ASSUME NEW S, IsFiniteSet(S), NEW X, NEW Y, NEW a \in Int, NEW c \in Int, NEW h,
           Mixed(h, X, Y, a, c, S)
    PROVE  SumFunction(h) = a * SumFunction(X) + c * SumFunction(Y)
<1>0. h \in [S -> Int]
  BY DEF Mixed
<1>1. X \in [S -> Int] /\ Y \in [S -> Int]
  BY DEF Mixed
<1> DEFINE f == [i \in S |-> a * X[i]]
           g == [i \in S |-> c * Y[i]]
<1>2. f \in [S -> Int] /\ g \in [S -> Int]
  BY <1>1
<1>3. \A i \in S : f[i] = a * X[i]
  OBVIOUS
<1>4. \A i \in S : g[i] = c * Y[i]
  OBVIOUS
<1> HIDE DEF f, g
<1>5. \A i \in S : h[i] = f[i] + g[i]
  BY <1>3, <1>4 DEF Mixed
<1>6. SumFunction(f) = a * SumFunction(X)
  BY <1>1, <1>2, <1>3, SumTimes
<1>7. SumFunction(g) = c * SumFunction(Y)
  BY <1>1, <1>2, <1>4, SumTimes
<1>8. SumFunction(h) = SumFunction(f) + SumFunction(g)
  BY <1>0, <1>2, <1>5, SumPlus
<1> QED
  BY <1>6, <1>7, <1>8

\* What the workers get that mix their shares of x and of y.
MixOf(n, a, c, x, y) == [i \in 1..n |-> a * splitEven(x, n)[i] + c * splitEven(y, n)[i]]
MixSums(n, a, c, x, y) ==
    /\ MixOf(n, a, c, x, y) \in [1..n -> Nat]
    /\ SumFunction(MixOf(n, a, c, x, y)) = a * x + c * y

\* Shares that are mixed alike add up to the mix of the two numbers.
LEMMA MixAddsUp ==
    ASSUME NEW n \in Nat, n # 0, NEW a \in Nat, NEW c \in Nat, NEW x \in Nat, NEW y \in Nat
    PROVE  MixSums(n, a, c, x, y)
<1>1. PICK S : S = 1..n
  OBVIOUS
<1>2. IsFiniteSet(S)
  BY <1>1, Interval
<1>3. PICK X, Y, h : X = splitEven(x, n) /\ Y = splitEven(y, n) /\ h = MixOf(n, a, c, x, y)
  OBVIOUS
<1>4. X \in [S -> Nat] /\ Y \in [S -> Nat]
  BY <1>1, <1>3, Shares
<1>5. SumFunction(X) = x /\ SumFunction(Y) = y
  BY <1>3, Shares
<1>6. h = [i \in S |-> a * X[i] + c * Y[i]]
  BY <1>1, <1>3 DEF MixOf
<1>7. \A i \in S : h[i] = a * X[i] + c * Y[i]
  BY <1>6
<1>8. h \in [S -> Nat]
  <2>1. \A i \in S : a * X[i] \in Nat /\ c * Y[i] \in Nat
    BY <1>4
  <2> QED
    BY <1>6, <2>1
<1>9. h \in [S -> Int]
  BY <1>8
<1>10. SumFunction(h) = a * SumFunction(X) + c * SumFunction(Y)
  <2>1. Mixed(h, X, Y, a, c, S)
    BY <1>4, <1>7, <1>9 DEF Mixed
  <2>2. a \in Int /\ c \in Int
    OBVIOUS
  <2> QED
    BY <1>2, <2>1, <2>2, SumMix
<1> QED
  BY <1>1, <1>3, <1>5, <1>8, <1>10 DEF MixSums

\* Every share is of one size or the next (splitEven), and the shares of a stage add
\* up to its targets.
LEMMA SlicesAdd == input \in AnyInput => SlicesAddUp
<1> SUFFICES ASSUME input \in AnyRamp PROVE SlicesAddUp
  BY Kinds DEF SlicesAddUp
<1>1. PICK s \in Seq(AnyStage), n \in Nat : s = input.stages /\ n = input.workers /\ n # 0
  BY DEF AnyRamp
<1>2. PICK N \in Nat : DOMAIN s = 1..N /\ s \in [1..N -> AnyStage]
  BY LenProperties
<1> DEFINE z == SliceRamp(s, n)
<1> SUFFICES ASSUME NEW k \in 1..N
             PROVE  /\ SumFunction([i \in 1..n |-> z[i][k].vus]) = s[k].vus
                    /\ SumFunction([i \in 1..n |-> z[i][k].rps]) = s[k].rps
                    /\ \A i, j \in 1..n : /\ z[i][k].vus <= z[j][k].vus + 1
                                          /\ z[i][k].rps <= z[j][k].rps + 1
  BY <1>1, <1>2 DEF SlicesAddUp
<1>3. \A i \in 1..n : /\ z[i][k].vus = splitEven(s[k].vus, n)[i]
                      /\ z[i][k].rps = splitEven(s[k].rps, n)[i]
  BY <1>2 DEF SliceRamp
<1> HIDE DEF z
<1>4. PICK x, y \in Nat : x = s[k].vus /\ y = s[k].rps
  BY <1>2 DEF AnyStage
<1>5. PICK X, Y : X = splitEven(x, n) /\ Y = splitEven(y, n)
  OBVIOUS
<1>6. /\ X \in [1..n -> Nat] /\ SumFunction(X) = x
      /\ \A i, j \in 1..n : X[i] <= X[j] + 1
  BY <1>1, <1>5, Shares
<1>7. /\ Y \in [1..n -> Nat] /\ SumFunction(Y) = y
      /\ \A i, j \in 1..n : Y[i] <= Y[j] + 1
  BY <1>1, <1>5, Shares
<1>8. \A i \in 1..n : z[i][k].vus = X[i] /\ z[i][k].rps = Y[i]
  BY <1>3, <1>4, <1>5
<1>9. [i \in 1..n |-> z[i][k].vus] = X /\ [i \in 1..n |-> z[i][k].rps] = Y
  BY <1>6, <1>7, <1>8
<1> QED
  BY <1>4, <1>6, <1>7, <1>8, <1>9

\* Rounding is off by half at most.
LEMMA Rounding ==
    ASSUME NEW a \in Int, NEW d \in Nat, d # 0
    PROVE  LET r == (2 * a + d) \div (2 * d)
           IN  /\ r \in Int
               /\ (2 * d) * r - 2 * a <= d /\ -d < (2 * d) * r - 2 * a
<1>1. PICK b, e, r : b = 2 * a + d /\ e = 2 * d /\ r = b \div e
  OBVIOUS
<1>2. b \in Int /\ e \in Int /\ e > 0
  BY <1>1
<1>3. r \in Int /\ e * r <= b /\ b < e * r + e
  BY <1>1, <1>2
<1>4. PICK p \in Int : p = e * r
  BY <1>2, <1>3
<1>5. p <= 2 * a + d /\ 2 * a + d < p + 2 * d
  BY <1>1, <1>3, <1>4
<1>6. p - 2 * a <= d /\ -d < p - 2 * a
  BY <1>5
<1> QED
  BY <1>1, <1>3, <1>4, <1>6

Rounds(R, num, d, S) ==
    /\ num \in [S -> Nat] /\ R \in [S -> Int]
    /\ \A i \in S : R[i] = (2 * num[i] + d) \div (2 * d)

\* Rounded numbers add up to the rounded sum, up to half for each rounding.
LEMMA RoundedSum ==
    ASSUME NEW n \in Nat, NEW d \in Nat, d # 0, NEW R, NEW num, Rounds(R, num, d, 1..n),
           NEW P, P = (2 * SumFunction(num) + d) \div (2 * d)
    PROVE  2 * (SumFunction(R) - P) <= n + 1 /\ 2 * (P - SumFunction(R)) <= n + 1
<1>1. PICK S : S = 1..n
  OBVIOUS
<1>2. IsFiniteSet(S)
  BY <1>1, Interval
<1>3. num \in [S -> Nat] /\ R \in [S -> Int]
  BY <1>1 DEF Rounds
<1>4. num \in [S -> Int]
  BY <1>3
<1>5. \A i \in S : R[i] = (2 * num[i] + d) \div (2 * d)
  BY <1>1 DEF Rounds
<1>6. PICK c \in Int : c = 2 * d
  OBVIOUS
<1> DEFINE h == [i \in S |-> c * R[i] + (-2) * num[i]]
<1>7. h \in [S -> Int] /\ \A i \in S : h[i] = c * R[i] + (-2) * num[i]
  <2>1. \A i \in S : c * R[i] \in Int /\ (-2) * num[i] \in Int
    BY <1>3, <1>4
  <2> QED
    BY <2>1
<1> HIDE DEF h
<1>8. SumFunction(h) = c * SumFunction(R) + (-2) * SumFunction(num)
  <2>1. Mixed(h, R, num, c, -2, S)
    BY <1>3, <1>4, <1>7 DEF Mixed
  <2>2. -2 \in Int
    OBVIOUS
  <2> QED
    BY <1>2, <2>1, <2>2, SumMix
<1>15. \A i \in S : -d <= h[i] /\ h[i] <= d
  <2> SUFFICES ASSUME NEW i \in S PROVE -d <= h[i] /\ h[i] <= d
    OBVIOUS
  <2>1. PICK a \in Nat, r \in Int : a = num[i] /\ r = R[i]
    BY <1>3
  <2>2. r = (2 * a + d) \div (2 * d)
    BY <1>5, <2>1
  <2>3. (2 * d) * r - 2 * a <= d /\ -d < (2 * d) * r - 2 * a
    BY <2>2, Rounding
  <2>4. PICK p \in Int : p = c * r
    OBVIOUS
  <2>5. h[i] = p + (-2) * a
    BY <1>7, <2>1, <2>4
  <2>6. p - 2 * a <= d /\ -d < p - 2 * a
    BY <1>6, <2>3, <2>4
  <2>7. p + (-2) * a = p - 2 * a
    OBVIOUS
  <2> QED
    BY <2>5, <2>6, <2>7
<1>16. n * (-d) <= SumFunction(h) /\ SumFunction(h) <= n * d
  <2>1. h \in [1..n -> Int] /\ -d \in Int /\ d \in Int
    BY <1>1, <1>7
  <2>2. \A i \in 1..n : -d <= h[i] /\ h[i] <= d
    BY <1>1, <1>15
  <2> QED
    BY <2>1, <2>2, SumBounds
<1>17. PICK A, M \in Int : A = SumFunction(R) /\ M = SumFunction(num)
  BY <1>2, <1>3, <1>4, SumInt
<1>18. P \in Int /\ (2 * d) * P - 2 * M <= d /\ -d < (2 * d) * P - 2 * M
  BY <1>17, Rounding
<1>19. SumFunction(h) = c * A + (-2) * M
  BY <1>8, <1>17
<1>20. d * (2 * (A - P)) < d * (n + 2) /\ d * (2 * (P - A)) < d * (n + 2)
  <2>1. PICK q, u, v \in Int : q = c * A /\ u = c * P /\ v = n * d
    BY <1>18
  <2>2. -v <= q - 2 * M /\ q - 2 * M <= v
    <3>1. n * (-d) = -v
      BY <2>1
    <3> QED
      BY <1>16, <1>19, <2>1, <3>1
  <2>3. u - 2 * M <= d /\ -d < u - 2 * M
    BY <1>6, <1>18, <2>1
  <2>4. q - u < v + 2 * d /\ u - q < v + 2 * d
    BY <2>2, <2>3
  <2>5. d * (2 * (A - P)) = q - u /\ d * (2 * (P - A)) = u - q /\ d * (n + 2) = v + 2 * d
    <3>1. \A b \in Int : /\ d * (2 * (A - b)) = (2 * d) * A - (2 * d) * b
                         /\ d * (2 * (b - A)) = (2 * d) * b - (2 * d) * A
      OBVIOUS
    <3>2. d * (n + 2) = n * d + 2 * d
      OBVIOUS
    <3> QED
      BY <1>6, <1>18, <2>1, <3>1, <3>2
  <2> QED
    BY <2>4, <2>5
<1>21. 2 * (A - P) < n + 2 /\ 2 * (P - A) < n + 2
  <2>1. 2 * (A - P) \in Int /\ 2 * (P - A) \in Int /\ n + 2 \in Int
    <3>1. P \in Int
      BY <1>18
    <3> QED
      BY <3>1
  <2> QED
    BY <1>20, <2>1, Cancel
<1>22. 2 * (A - P) <= n + 1 /\ 2 * (P - A) <= n + 1
  <2>1. P \in Int
    BY <1>18
  <2> QED
    BY <1>21, <2>1
<1> QED
  BY <1>17, <1>22

LEMMA NoStages ==
    ASSUME NEW z, IsRamp(z, 0), NEW t \in Nat, NEW target
    PROVE  interpolate(z, target, t) = [num |-> 0, den |-> 1]
<1>1. DOMAIN z = {} /\ z = <<>>
  BY DEF IsRamp
<1>2. current(z, t) = {}
  BY <1>1 DEF current
<1> QED
  BY <1>1, <1>2 DEF interpolate

\* The workers' fractions of VUs and of rates have the denominator of the plan's, and
\* their numerators add up to the plan's.
Totals(s, n, t, d, vus, rps) ==
    /\ vus \in [1..n -> Nat] /\ rps \in [1..n -> Nat]
    /\ interpolate(s, Vus(s), t) = [num |-> SumFunction(vus), den |-> d]
    /\ interpolate(s, Rps(s), t) = [num |-> SumFunction(rps), den |-> d]
    /\ \A i \in 1..n :
         LET z == SliceRamp(s, n)[i]
         IN  /\ interpolate(z, Vus(z), t) = [num |-> vus[i], den |-> d]
             /\ interpolate(z, Rps(z), t) = [num |-> rps[i], den |-> d]

LEMMA SlicesTotal ==
    ASSUME NEW N \in Nat, NEW s, IsRamp(s, N), NEW n \in Nat, n # 0, NEW t \in Nat
    PROVE  \E d \in Nat : d # 0 /\ \E vus, rps : Totals(s, n, t, d, vus, rps)
<1>1. CASE N = 0
  <2> DEFINE o == [i \in 1..n |-> 0]
  <2>1. SumFunction(o) = 0
    <3>1. PICK S, f : S = 1..n /\ f = o
      OBVIOUS
    <3>2. IsFiniteSet(S) /\ f = [i \in S |-> 0]
      BY <3>1, Interval
    <3> QED
      BY <3>1, <3>2, SumZero
  <2>2. \A target : interpolate(s, target, t) = [num |-> 0, den |-> 1]
    BY <1>1, NoStages
  <2>3. ASSUME NEW i \in 1..n
        PROVE  \A target : interpolate(SliceRamp(s, n)[i], target, t) = [num |-> 0, den |-> 1]
    <3>1. IsRamp(SliceRamp(s, n)[i], N)
      BY SliceIs DEF IsSlice
    <3> QED
      BY <1>1, <3>1, NoStages
  <2>4. o \in [1..n -> Nat] /\ \A i \in 1..n : o[i] = 0
    OBVIOUS
  <2> HIDE DEF o
  <2>5. Totals(s, n, t, 1, o, o)
    BY <2>1, <2>2, <2>3, <2>4 DEF Totals
  <2> QED
    BY <2>5
<1>2. CASE N # 0
  <2>1. PICK a, c, x, y, v, w \in Nat : a + c > 0 /\ SliceMix(s, n, t, a, c, x, y, v, w)
    BY <1>2, SlicesMix
  <2>2. PICK vus, rps : vus = MixOf(n, a, c, x, y) /\ rps = MixOf(n, a, c, v, w)
    OBVIOUS
  <2>3. /\ vus \in [1..n -> Nat] /\ SumFunction(vus) = a * x + c * y
        /\ rps \in [1..n -> Nat] /\ SumFunction(rps) = a * v + c * w
    <3>1. MixSums(n, a, c, x, y) /\ MixSums(n, a, c, v, w)
      BY MixAddsUp
    <3> QED
      BY <2>2, <3>1 DEF MixSums
  <2>4. \A i \in 1..n : /\ vus[i] = a * splitEven(x, n)[i] + c * splitEven(y, n)[i]
                        /\ rps[i] = a * splitEven(v, n)[i] + c * splitEven(w, n)[i]
    BY <2>2 DEF MixOf
  <2>5. PICK d \in Nat : d = a + c
    OBVIOUS
  <2>6. /\ interpolate(s, Vus(s), t) = [num |-> SumFunction(vus), den |-> d]
        /\ interpolate(s, Rps(s), t) = [num |-> SumFunction(rps), den |-> d]
    BY <2>1, <2>3, <2>5 DEF SliceMix, Mix
  <2>7. \A i \in 1..n :
          LET z == SliceRamp(s, n)[i]
          IN  /\ interpolate(z, Vus(z), t) = [num |-> vus[i], den |-> d]
              /\ interpolate(z, Rps(z), t) = [num |-> rps[i], den |-> d]
    BY <2>1, <2>4, <2>5 DEF SliceMix, Mix
  <2>8. Totals(s, n, t, d, vus, rps)
    BY <2>3, <2>6, <2>7 DEF Totals
  <2>9. d # 0
    BY <2>1, <2>5
  <2> QED
    BY <2>8, <2>9
<1> QED
  BY <1>1, <1>2

\* Workers that round on their own follow the plan.
LEMMA SlicesFollow == input \in AnyInput => SlicesFollowThePlan
<1> SUFFICES ASSUME input \in AnyRamp PROVE SlicesFollowThePlan
  BY Kinds DEF SlicesFollowThePlan
<1>0. /\ input.stages \in Seq(AnyStage) /\ input.workers \in Nat /\ input.workers # 0
      /\ input.time \in Nat
  BY DEF AnyRamp
<1>1. PICK s \in Seq(AnyStage), n \in Nat, t \in Nat :
         s = input.stages /\ n = input.workers /\ n # 0 /\ t = input.time
  BY <1>0
<1>2. PICK N \in Nat : IsRamp(s, N)
  BY <1>1, LenProperties DEF IsRamp
<1>a. PICK d \in Nat : d # 0 /\ \E vus, rps : Totals(s, n, t, d, vus, rps)
  BY <1>1, <1>2, SlicesTotal
<1>3. PICK vus, rps : Totals(s, n, t, d, vus, rps)
  BY <1>a
<1> DEFINE R == [i \in 1..n |-> TargetAt(SliceRamp(s, n)[i], t)]
<1>4. \A z : TargetAt(z, t) = (2 * interpolate(z, Vus(z), t).num + interpolate(z, Vus(z), t).den)
                                \div (2 * interpolate(z, Vus(z), t).den)
  BY DEF TargetAt, Vus
<1>5. vus \in [1..n -> Nat]
  BY <1>3 DEF Totals
<1>6. \A i \in 1..n : R[i] = (2 * vus[i] + d) \div (2 * d)
  <2> SUFFICES ASSUME NEW i \in 1..n PROVE R[i] = (2 * vus[i] + d) \div (2 * d)
    OBVIOUS
  <2>1. PICK z : z = SliceRamp(s, n)[i]
    OBVIOUS
  <2>2. interpolate(z, Vus(z), t) = [num |-> vus[i], den |-> d]
    BY <1>3, <2>1 DEF Totals
  <2>3. interpolate(z, Vus(z), t).num = vus[i] /\ interpolate(z, Vus(z), t).den = d
    BY <2>2
  <2>4. TargetAt(z, t) = (2 * vus[i] + d) \div (2 * d)
    BY <1>4, <2>3
  <2> QED
    BY <2>1, <2>4
<1>7. R \in [1..n -> Int]
  <2>1. \A i \in 1..n : (2 * vus[i] + d) \div (2 * d) \in Int
    BY <1>a, <1>5, Rounding
  <2>2. \A i \in 1..n : R[i] \in Int
    BY <1>6, <2>1
  <2> QED
    BY <2>2
<1>8. Rounds(R, vus, d, 1..n)
  <2> HIDE DEF R
  <2> QED
    BY <1>5, <1>6, <1>7 DEF Rounds
<1>9. PICK P : P = TargetAt(s, t)
  OBVIOUS
<1>10. P = (2 * SumFunction(vus) + d) \div (2 * d)
  <2>1. interpolate(s, Vus(s), t) = [num |-> SumFunction(vus), den |-> d]
    BY <1>3 DEF Totals
  <2>2. /\ interpolate(s, Vus(s), t).num = SumFunction(vus)
        /\ interpolate(s, Vus(s), t).den = d
    BY <2>1
  <2> QED
    BY <1>4, <1>9, <2>2
<1> HIDE DEF R
<1>11. 2 * (SumFunction(R) - P) <= n + 1 /\ 2 * (P - SumFunction(R)) <= n + 1
  BY <1>a, <1>8, <1>10, RoundedSum
<1> QED
  BY <1>1, <1>9, <1>11 DEF SlicesFollowThePlan, R

\* A profile of no targets is never above them.
LEMMA ZeroTargets ==
    ASSUME NEW N \in Nat, N # 0, NEW z, IsRamp(z, N), NEW t \in Nat,
           NEW target, target = [k \in 1..N |-> 0]
    PROVE  interpolate(z, target, t).num = 0
<1>2. PICK k \in 1..N, a \in Nat, c \in Nat : Mixes(z, t, N, k, a, c)
  BY RampMixes
<1>3. target \in [1..N -> Nat] /\ target[k] = 0
  OBVIOUS
<1>4. before(target, k) = 0
  <2>1. k = 1 \/ k - 1 \in 1..N
    OBVIOUS
  <2> QED
    BY <2>1 DEF before
<1>5. a * 0 + c * 0 = 0
  OBVIOUS
<1>6. interpolate(z, target, t).num = a * target[k] + c * before(target, k)
  BY <1>2, <1>3 DEF Mixes, Mix
<1> QED
  BY <1>3, <1>4, <1>5, <1>6

\* Those of the workers that run the open model make up the rate of the plan.
LEMMA OpenRates == input \in AnyInput => OpenRatesAddUp
<1> SUFFICES ASSUME input \in AnyRamp, IsArrival(input.stages) PROVE OpenRatesAddUp
  BY Kinds DEF OpenRatesAddUp
<1>0. /\ input.stages \in Seq(AnyStage) /\ input.workers \in Nat /\ input.workers # 0
      /\ input.time \in Nat
  BY DEF AnyRamp
<1>1. PICK s \in Seq(AnyStage), n \in Nat, t \in Nat :
         s = input.stages /\ n = input.workers /\ n # 0 /\ t = input.time
  BY <1>0
<1>2. PICK N \in Nat : IsRamp(s, N) /\ DOMAIN s = 1..N
  BY <1>1, LenProperties DEF IsRamp
<1>3. PICK k0 \in 1..N : s[k0].rps > 0
  BY <1>1, <1>2 DEF IsArrival
<1>4. N # 0
  BY <1>3
<1>a. PICK d \in Nat : d # 0 /\ \E vus, rps : Totals(s, n, t, d, vus, rps)
  BY <1>1, <1>2, SlicesTotal
<1>5. PICK vus, rps : Totals(s, n, t, d, vus, rps)
  BY <1>a
<1>6. rps \in [1..n -> Nat] /\ vus \in [1..n -> Nat]
  BY <1>5 DEF Totals
<1> DEFINE z(i) == SliceRamp(s, n)[i]
           rate(i) == RateAt(z(i), t)
           open == {i \in 1..n : IsArrival(z(i))}
<1>7. \A i \in 1..n : rate(i) = [num |-> rps[i], den |-> d]
  BY <1>5 DEF Totals, RateAt, Rps
<1>b. \A i \in 1..n : rate(i).num = rps[i] /\ rate(i).den = d
  <2> HIDE DEF rate
  <2> SUFFICES ASSUME NEW i \in 1..n PROVE rate(i).num = rps[i] /\ rate(i).den = d
    OBVIOUS
  <2>1. rate(i) = [num |-> rps[i], den |-> d]
    BY <1>7
  <2> QED
    BY <2>1
<1>8. RateAt(s, t) = [num |-> SumFunction(rps), den |-> d]
  BY <1>5 DEF Totals, RateAt, Rps
<1>9. \A i \in 1..n : /\ IsRamp(z(i), N) /\ DOMAIN z(i) = 1..N
                      /\ \A k \in 1..N : /\ z(i)[k].vus = splitEven(s[k].vus, n)[i]
                                         /\ z(i)[k].rps = splitEven(s[k].rps, n)[i]
                                         /\ z(i)[k].rps \in Nat
  <2> SUFFICES ASSUME NEW i \in 1..n
               PROVE  /\ IsRamp(z(i), N) /\ DOMAIN z(i) = 1..N
                      /\ \A k \in 1..N : /\ z(i)[k].vus = splitEven(s[k].vus, n)[i]
                                         /\ z(i)[k].rps = splitEven(s[k].rps, n)[i]
                                         /\ z(i)[k].rps \in Nat
    OBVIOUS
  <2>1. /\ z(i) \in [1..N -> AnyStage]
        /\ \A k \in 1..N : /\ z(i)[k].vus = splitEven(s[k].vus, n)[i]
                           /\ z(i)[k].rps = splitEven(s[k].rps, n)[i]
    <3>1. IsSlice(SliceRamp(s, n)[i], s, N, n, i)
      BY <1>1, <1>2, SliceIs
    <3> QED
      BY <3>1 DEF IsSlice, IsRamp
  <2> QED
    BY <2>1 DEF IsRamp, AnyStage
<1>10. 1 \in open
  <2>1. 1 \in 1..n
    BY <1>1
  <2>2. s[k0].rps \in Nat
    BY <1>2 DEF IsRamp, AnyStage
  <2>3. splitEven(s[k0].rps, n)[1] > 0
    BY <1>1, <1>3, <2>2, Shares
  <2>4. z(1)[k0].rps > 0 /\ DOMAIN z(1) = 1..N
    BY <1>9, <2>1, <2>3
  <2> QED
    BY <2>1, <2>4 DEF IsArrival
<1>11. ASSUME NEW i \in 1..n, i \notin open PROVE rps[i] = 0
  <2>1. IsRamp(z(i), N) /\ DOMAIN z(i) = 1..N
    BY <1>9
  <2>2. \A k \in 1..N : z(i)[k].rps = 0
    <3>1. \A k \in 1..N : ~(z(i)[k].rps > 0)
      BY <1>11, <2>1 DEF IsArrival
    <3>2. \A k \in 1..N : z(i)[k].rps \in Nat
      BY <1>9
    <3> QED
      BY <3>1, <3>2
  <2>3. PICK y : y = z(i)
    OBVIOUS
  <2>4. Rps(y) = [k \in 1..N |-> 0]
    BY <2>1, <2>2, <2>3 DEF Rps
  <2>5. interpolate(y, Rps(y), t).num = 0
    BY <1>4, <2>1, <2>3, <2>4, ZeroTargets
  <2>6. interpolate(y, Rps(y), t) = [num |-> rps[i], den |-> d]
    BY <1>5, <2>3 DEF Totals
  <2> QED
    BY <2>5, <2>6
<1>12. Min(open) \in open
  <2>1. open \in SUBSET Nat /\ open # {}
    BY <1>10
  <2> HIDE DEF open
  <2> QED
    BY <2>1, MinOf
<1>13. SumFunction([i \in open |-> rate(i).num]) = SumFunction(rps)
  <2>1. [i \in open |-> rate(i).num] = [i \in open |-> rps[i]]
    <3>1. \A i \in open : rate(i).num = rps[i]
      BY <1>b
    <3> HIDE DEF rate, open
    <3> QED
      BY <3>1
  <2>2. PICK S, T : S = 1..n /\ T = open
    OBVIOUS
  <2>3. IsFiniteSet(S) /\ rps \in [S -> Int] /\ T \in SUBSET S
    BY <1>6, <2>2, Interval
  <2>4. \A i \in S \ T : rps[i] = 0
    BY <1>11, <2>2
  <2>5. SumFunction([i \in T |-> rps[i]]) = SumFunction(rps)
    BY <2>3, <2>4, SumSupport
  <2> QED
    BY <2>1, <2>2, <2>5
<1>14. /\ SumFunction([i \in open |-> rate(i).num]) * RateAt(s, t).den
            = RateAt(s, t).num * (IF open = {} THEN 1 ELSE rate(Min(open)).den)
  <2>1. rate(Min(open)).den = d
    <3>1. \A i \in open : rate(i).den = d
      BY <1>b
    <3> HIDE DEF rate, open
    <3> QED
      BY <1>12, <3>1
  <2>2. open # {}
    BY <1>10
  <2>3. RateAt(s, t).den = d /\ RateAt(s, t).num = SumFunction(rps)
    BY <1>8
  <2> QED
    BY <1>13, <2>1, <2>2, <2>3
<1>15. ASSUME ~(\E k \in DOMAIN s : s[k].vus > 0), NEW i \in 1..n \ open
       PROVE  TargetAt(z(i), t) = 0
  <2>1. \A k \in 1..N : s[k].vus = 0
    <3>1. \A k \in 1..N : s[k].vus \in Nat
      BY <1>2 DEF IsRamp, AnyStage
    <3> QED
      BY <1>2, <1>15, <3>1
  <2>2. splitEven(0, n)[i] = 0
    <3>1. i \in 1..n /\ 0 \in Nat
      OBVIOUS
    <3>2. \A j \in 1..n : splitEven(0, n)[j] = 0
      BY <1>1, NoShares
    <3> QED
      BY <3>1, <3>2
  <2>3. PICK y : y = z(i)
    OBVIOUS
  <2>4. IsRamp(y, N) /\ DOMAIN y = 1..N /\ \A k \in 1..N : y[k].vus = 0
    BY <1>9, <2>1, <2>2, <2>3
  <2>5. Vus(y) = [k \in 1..N |-> 0]
    BY <2>4 DEF Vus
  <2>6. interpolate(y, Vus(y), t).num = 0
    BY <1>4, <2>4, <2>5, ZeroTargets
  <2>7. interpolate(y, Vus(y), t).den = d
    <3>1. i \in 1..n
      OBVIOUS
    <3>2. interpolate(y, Vus(y), t) = [num |-> vus[i], den |-> d]
      BY <1>5, <2>3, <3>1 DEF Totals
    <3> QED
      BY <3>2
  <2>8. TargetAt(y, t) = (2 * 0 + d) \div (2 * d)
    BY <2>6, <2>7 DEF TargetAt, Vus
  <2>9. (2 * 0 + d) \div (2 * d) = 0
    BY <1>a
  <2> QED
    BY <2>3, <2>8, <2>9
<1> QED
  BY <1>1, <1>14, <1>15 DEF OpenRatesAddUp

\* A fraction between two whole numbers is rounded to one between them.
LEMMA RoundedBetween ==
    ASSUME NEW num \in Int, NEW d \in Nat, d # 0, NEW lo \in Int, NEW hi \in Int,
           d * lo <= num, num <= d * hi
    PROVE  LET r == (2 * num + d) \div (2 * d)
           IN  r \in Int /\ lo <= r /\ r <= hi
<1>1. PICK r : r = (2 * num + d) \div (2 * d)
  OBVIOUS
<1>2. r \in Int /\ (2 * d) * r - 2 * num <= d /\ -d < (2 * d) * r - 2 * num
  BY <1>1, Rounding
<1>3. PICK p, u, v \in Int : p = d * r /\ u = d * lo /\ v = d * hi
  BY <1>2
<1>4. (2 * d) * r = 2 * p
  BY <1>2, <1>3
<1>5. u <= num /\ num <= v
  BY <1>3
<1>6. 2 * p - 2 * num <= d /\ -d < 2 * p - 2 * num
  BY <1>2, <1>4
<1>7. p < v + d /\ u - d < p
  BY <1>5, <1>6
<1>8. d * (hi + 1) = v + d /\ d * (lo - 1) = u - d
  BY <1>3
<1>9. d * r < d * (hi + 1) /\ d * (lo - 1) < d * r
  BY <1>3, <1>7, <1>8
<1>10. r < hi + 1 /\ lo - 1 < r
  <2>1. hi + 1 \in Int /\ lo - 1 \in Int /\ r \in Int
    BY <1>2
  <2> QED
    BY <1>9, <2>1, Cancel
<1>11. lo <= r /\ r <= hi
  <2>1. r \in Int
    BY <1>2
  <2> QED
    BY <1>10, <2>1
<1> QED
  BY <1>1, <1>2, <1>11

\* Interpolation stays between the two ends.
LEMMA Interpolated ==
    ASSUME NEW p \in Nat, NEW x \in Nat, NEW d \in Nat, NEW e \in Nat, e <= d
    PROVE  /\ p * d + e * (x - p) \in Int
           /\ p <= x => d * p <= p * d + e * (x - p) /\ p * d + e * (x - p) <= d * x
           /\ x <= p => d * x <= p * d + e * (x - p) /\ p * d + e * (x - p) <= d * p
<1>1. PICK c \in Nat : c = d - e
  OBVIOUS
<1>2. PICK m \in Int : m = p * d + e * (x - p)
  OBVIOUS
<1>3. m = e * x + (d - e) * p
  BY <1>2, Blend
<1>4. PICK A, B, C, D \in Nat : A = e * x /\ B = c * p /\ C = e * p /\ D = c * x
  OBVIOUS
<1>5. d = e + c
  BY <1>1
<1>6. d * p = C + B /\ d * x = A + D
  <2>1. (e + c) * p = e * p + c * p /\ (e + c) * x = e * x + c * x
    OBVIOUS
  <2> QED
    BY <1>4, <1>5, <2>1
<1>7. m = A + B
  BY <1>1, <1>3, <1>4
<1>8. ASSUME p <= x PROVE C <= A /\ B <= D
  <2>1. p * e <= x * e /\ p * c <= x * c
    BY <1>8, TimesGrows
  <2>2. p * e = e * p /\ x * e = e * x /\ p * c = c * p /\ x * c = c * x
    OBVIOUS
  <2> QED
    BY <1>4, <2>1, <2>2
<1>9. ASSUME x <= p PROVE A <= C /\ D <= B
  <2>1. x * e <= p * e /\ x * c <= p * c
    BY <1>9, TimesGrows
  <2>2. p * e = e * p /\ x * e = e * x /\ p * c = c * p /\ x * c = c * x
    OBVIOUS
  <2> QED
    BY <1>4, <2>1, <2>2
<1>10. p <= x => d * p <= m /\ m <= d * x
  BY <1>6, <1>7, <1>8
<1>11. x <= p => d * x <= m /\ m <= d * p
  BY <1>6, <1>7, <1>9
<1> QED
  BY <1>2, <1>10, <1>11

\* The stages before stage k have passed, and k is current.
Reached(s, N, t, k) ==
    /\ k \in 1..N
    /\ \A j \in 1..N : j < k => s[j].dur > 0
    /\ begins(s, k) <= t
    /\ t < begins(s, k + 1) \/ s[k].dur = 0

LEMMA FirstCurrent ==
    ASSUME NEW N \in Nat, NEW s \in [1..N -> AnyStage], NEW t \in Nat, NEW k \in 1..N,
           Reached(s, N, t, k)
    PROVE  current(s, t) # {} /\ Min(current(s, t)) = k
<1>1. DOMAIN s = 1..N
  OBVIOUS
<1>2. k \in current(s, t)
  BY <1>1 DEF current, Reached
<1>3. current(s, t) \in SUBSET Nat
  BY <1>1 DEF current
<1>4. ASSUME NEW j \in current(s, t) PROVE k <= j
  <2> SUFFICES ASSUME j < k PROVE FALSE
    BY <1>3
  <2>1. j \in 1..N /\ (t < begins(s, j + 1) \/ s[j].dur = 0)
    BY <1>1 DEF current
  <2>2. s[j].dur > 0
    BY <2>1 DEF Reached
  <2>3. j + 1 \in 1..N + 1 /\ k \in 1..N + 1 /\ j + 1 <= k
    BY <2>1
  <2>4. begins(s, j + 1) <= begins(s, k)
    BY <2>3, BeginsGrow
  <2>5. begins(s, j + 1) \in Nat /\ begins(s, k) \in Nat
    BY <2>3, Begins
  <2>6. begins(s, k) <= t
    BY DEF Reached
  <2>7. s[j].dur \in Nat
    BY <2>1 DEF AnyStage
  <2> QED
    BY <2>1, <2>2, <2>4, <2>5, <2>6, <2>7
<1>5. Min(current(s, t)) \in current(s, t) /\ Min(current(s, t)) <= k
  BY <1>2, <1>3, MinOf
<1>6. k <= Min(current(s, t)) /\ Min(current(s, t)) \in Nat
  BY <1>3, <1>4, <1>5
<1> QED
  BY <1>2, <1>5, <1>6

\* The target is then that of the linear course of stage k, or its own if it has no
\* duration.
LEMMA TargetReached ==
    ASSUME NEW N \in Nat, NEW s \in [1..N -> AnyStage], NEW t \in Nat, NEW k \in 1..N,
           Reached(s, N, t, k)
    PROVE  /\ s[k].dur = 0 => interpolate(s, Vus(s), t) = [num |-> s[k].vus, den |-> 1]
           /\ s[k].dur # 0 =>
                interpolate(s, Vus(s), t) =
                    [num |-> before(Vus(s), k) * s[k].dur
                               + (t - begins(s, k)) * (s[k].vus - before(Vus(s), k)),
                     den |-> s[k].dur]
<1>1. current(s, t) # {} /\ Min(current(s, t)) = k
  BY FirstCurrent
<1>2. Vus(s)[k] = s[k].vus
  BY DEF Vus
<1> QED
  BY <1>1, <1>2 DEF interpolate

LEMMA TargetIs ==
    ASSUME NEW s, NEW t, NEW num \in Int, NEW d \in Nat, d # 0,
           interpolate(s, Vus(s), t) = [num |-> num, den |-> d]
    PROVE  TargetAt(s, t) = (2 * num + d) \div (2 * d)
BY DEF TargetAt, Vus

\* A stage of no duration that is reached is followed at once.
LEMMA StageJumps ==
    ASSUME NEW N \in Nat, NEW s \in [1..N -> AnyStage], NEW t \in Nat, NEW k \in 1..N,
           Reached(s, N, t, k), s[k].dur = 0
    PROVE  TargetAt(s, t) = s[k].vus
<1>1. interpolate(s, Vus(s), t) = [num |-> s[k].vus, den |-> 1]
  BY TargetReached
<1>2. PICK x \in Int : x = s[k].vus
  BY DEF AnyStage
<1>3. TargetAt(s, t) = (2 * x + 1) \div (2 * 1)
  <2>1. interpolate(s, Vus(s), t) = [num |-> x, den |-> 1] /\ 1 \in Nat /\ 1 # 0
    BY <1>1, <1>2
  <2>2. PICK d \in Nat : d = 1 /\ d # 0
    OBVIOUS
  <2>3. interpolate(s, Vus(s), t) = [num |-> x, den |-> d]
    BY <2>1, <2>2
  <2>4. TargetAt(s, t) = (2 * x + d) \div (2 * d)
    BY <2>2, <2>3, TargetIs
  <2> QED
    BY <2>2, <2>4
<1>4. (2 * x + 1) \div (2 * 1) = x
  OBVIOUS
<1> QED
  BY <1>2, <1>3, <1>4

\* Within a stage that lasts, the target is between the one before and its own, and
\* at the start it is the one before.
LEMMA StageLeads ==
    ASSUME NEW N \in Nat, NEW s \in [1..N -> AnyStage], NEW t \in Nat, NEW k \in 1..N,
           Reached(s, N, t, k), s[k].dur # 0, NEW p \in Nat, p = before(Vus(s), k)
    PROVE  /\ TargetAt(s, t) \in Int
           /\ p <= s[k].vus => p <= TargetAt(s, t) /\ TargetAt(s, t) <= s[k].vus
           /\ s[k].vus <= p => s[k].vus <= TargetAt(s, t) /\ TargetAt(s, t) <= p
           /\ t = begins(s, k) => TargetAt(s, t) = p
<1>1. PICK x, d \in Nat : x = s[k].vus /\ d = s[k].dur /\ d # 0
  <2>1. s[k] \in AnyStage
    OBVIOUS
  <2> QED
    BY <2>1 DEF AnyStage
<1>2. begins(s, k) <= t /\ t < begins(s, k + 1)
  BY DEF Reached
<1>3. begins(s, k) \in Nat /\ begins(s, k + 1) = begins(s, k) + d
  BY <1>1, Begins
<1>4. PICK e \in Nat : e = t - begins(s, k) /\ e <= d
  BY <1>2, <1>3
<1>5. PICK m \in Int : m = p * d + e * (x - p)
  OBVIOUS
<1>6. interpolate(s, Vus(s), t) = [num |-> m, den |-> d]
  <2>1. interpolate(s, Vus(s), t) =
          [num |-> before(Vus(s), k) * s[k].dur
                     + (t - begins(s, k)) * (s[k].vus - before(Vus(s), k)),
           den |-> s[k].dur]
    BY TargetReached
  <2> QED
    BY <1>1, <1>4, <1>5, <2>1
<1>7. TargetAt(s, t) = (2 * m + d) \div (2 * d)
  BY <1>1, <1>6, TargetIs
<1>8. /\ p <= x => d * p <= m /\ m <= d * x
      /\ x <= p => d * x <= m /\ m <= d * p
  BY <1>4, <1>5, Interpolated
<1>9. PICK T : T = TargetAt(s, t)
  OBVIOUS
<1>10. ASSUME NEW lo \in Int, NEW hi \in Int, d * lo <= m, m <= d * hi
       PROVE  T \in Int /\ lo <= T /\ T <= hi
  <2>1. d # 0 /\ d * lo <= m /\ m <= d * hi
    BY <1>1, <1>10
  <2>2. LET r == (2 * m + d) \div (2 * d) IN r \in Int /\ lo <= r /\ r <= hi
    BY <2>1, RoundedBetween
  <2> QED
    BY <1>7, <1>9, <2>2
<1>11. p <= x => T \in Int /\ p <= T /\ T <= x
  BY <1>8, <1>10
<1>12. x <= p => T \in Int /\ x <= T /\ T <= p
  BY <1>8, <1>10
<1>13. ASSUME t = begins(s, k) PROVE T = p
  <2>1. e = 0
    BY <1>3, <1>4, <1>13
  <2>2. m = d * p
    BY <1>5, <2>1
  <2>3. d * p <= m /\ m <= d * p
    BY <2>2
  <2>4. T \in Int /\ p <= T /\ T <= p
    BY <1>10, <2>3
  <2> QED
    BY <2>4
<1>14. T \in Int
  BY <1>11, <1>12
<1> QED
  BY <1>1, <1>9, <1>11, <1>12, <1>13, <1>14

\* When the last stage is over its target stays.
LEMMA PlanEnds ==
    ASSUME NEW N \in Nat, NEW s \in [1..N -> AnyStage], NEW t \in Nat, N # 0,
           \A j \in 1..N : s[j].dur > 0, begins(s, N + 1) <= t
    PROVE  TargetAt(s, t) = s[N].vus
<1>1. DOMAIN s = 1..N /\ s # <<>> /\ Len(s) = N /\ N \in 1..N
  OBVIOUS
<1>2. current(s, t) = {}
  <2> SUFFICES ASSUME NEW j \in current(s, t) PROVE FALSE
    OBVIOUS
  <2>1. j \in 1..N /\ (t < begins(s, j + 1) \/ s[j].dur = 0)
    BY <1>1 DEF current
  <2>2. j + 1 \in 1..N + 1 /\ N + 1 \in 1..N + 1 /\ j + 1 <= N + 1
    BY <2>1
  <2>3. begins(s, j + 1) <= begins(s, N + 1)
    BY <2>2, BeginsGrow
  <2>4. begins(s, j + 1) \in Nat /\ begins(s, N + 1) \in Nat
    BY <2>2, Begins
  <2>5. s[j].dur > 0 /\ s[j].dur \in Nat
    BY <2>1 DEF AnyStage
  <2> QED
    BY <2>1, <2>3, <2>4, <2>5
<1>3. PICK x \in Int : x = s[N].vus
  BY <1>1 DEF AnyStage
<1>4. Vus(s)[Len(s)] = x
  BY <1>1, <1>3 DEF Vus
<1>5. interpolate(s, Vus(s), t) = [num |-> x, den |-> 1]
  BY <1>1, <1>2, <1>4 DEF interpolate
<1>6. TargetAt(s, t) = (2 * x + 1) \div (2 * 1)
  BY <1>5, TargetIs
<1>7. (2 * x + 1) \div (2 * 1) = x
  OBVIOUS
<1> QED
  BY <1>3, <1>6, <1>7

\* The profile is followed stage by stage.
LEMMA StagesFollowed == input \in AnyInput => StagesAreFollowed
<1> SUFFICES ASSUME input \in AnyRamp PROVE StagesAreFollowed
  BY Kinds DEF StagesAreFollowed
<1>0. input.stages \in Seq(AnyStage) /\ input.time \in Nat
  BY DEF AnyRamp
<1>1. PICK s \in Seq(AnyStage), t \in Nat : s = input.stages /\ t = input.time
  BY <1>0
<1>2. PICK N \in Nat : N = Len(s) /\ DOMAIN s = 1..N /\ s \in [1..N -> AnyStage]
  BY LenProperties
<1> DEFINE target == [k \in DOMAIN s |-> s[k].vus]
           lasts(k) == \A j \in 1..k : s[j].dur > 0
           from(k) == IF k = 1 THEN 0 ELSE target[k - 1]
<1>3. \A k \in 1..N : s[k].vus \in Nat /\ s[k].dur \in Nat /\ target[k] = s[k].vus
  BY <1>2 DEF AnyStage
<1>4. \A k \in 1..N : from(k) \in Nat /\ from(k) = before(Vus(s), k)
  BY <1>2, <1>3 DEF before, Vus
<1>5. \A k \in 1..N + 1 : begins(s, k) \in Nat
  BY <1>2, Begins
<1>b. \A k \in 1..N : begins(s, k + 1) = begins(s, k) + s[k].dur
  BY <1>2, Begins
<1> HIDE DEF from, target
<1>6. ASSUME NEW k \in 1..N, lasts(k), k = Len(s) \/ lasts(k + 1),
             begins(s, k) <= t, t <= begins(s, k + 1)
      PROVE  /\ TargetAt(s, t) >= Min({from(k), target[k]})
             /\ TargetAt(s, t) <= Max({from(k), target[k]})
             /\ t = begins(s, k) => TargetAt(s, t) = from(k)
             /\ t = begins(s, k + 1) => TargetAt(s, t) = target[k]
  <2>1. PICK p, x \in Nat : p = from(k) /\ x = target[k] /\ x = s[k].vus /\ p = before(Vus(s), k)
    BY <1>3, <1>4
  <2>2. /\ Min({p, x}) \in Int /\ Min({p, x}) <= p /\ Min({p, x}) <= x
        /\ Max({p, x}) \in Int /\ Max({p, x}) >= p /\ Max({p, x}) >= x
    <3>1. p \in Int /\ x \in Int
      OBVIOUS
    <3>2. Min({p, x}) \in {p, x} /\ Min({p, x}) <= p /\ Min({p, x}) <= x
      BY <3>1, MinOfTwo
    <3>3. Max({p, x}) \in {p, x} /\ Max({p, x}) >= p /\ Max({p, x}) >= x
      BY <3>1, MaxOfTwo
    <3> QED
      BY <3>1, <3>2, <3>3
  <2>3. s[k].dur > 0 /\ s[k].dur \in Nat /\ begins(s, k + 1) = begins(s, k) + s[k].dur
    BY <1>3, <1>6, <1>b
  <2>4. begins(s, k) \in Nat /\ begins(s, k + 1) \in Nat
    BY <1>5
  <2>5. \A j \in 1..N : j < k => s[j].dur > 0
    BY <1>6
  <2>6. CASE t < begins(s, k + 1)
    <3>1. Reached(s, N, t, k)
      BY <1>6, <2>5, <2>6 DEF Reached
    <3>2. /\ TargetAt(s, t) \in Int
          /\ p <= x => p <= TargetAt(s, t) /\ TargetAt(s, t) <= x
          /\ x <= p => x <= TargetAt(s, t) /\ TargetAt(s, t) <= p
          /\ t = begins(s, k) => TargetAt(s, t) = p
      <4>1. s[k].dur # 0
        BY <2>3
      <4> QED
        BY <1>2, <2>1, <3>1, <4>1, StageLeads
    <3>3. t # begins(s, k + 1)
      BY <2>4, <2>6
    <3>4. TargetAt(s, t) >= Min({p, x}) /\ TargetAt(s, t) <= Max({p, x})
      <4>1. PICK a, b, c \in Int : a = TargetAt(s, t) /\ b = Min({p, x}) /\ c = Max({p, x})
        BY <2>2, <3>2
      <4>2. /\ b <= p /\ b <= x /\ c >= p /\ c >= x
            /\ p <= x => p <= a /\ a <= x
            /\ x <= p => x <= a /\ a <= p
        BY <2>2, <3>2, <4>1
      <4>3. a >= b /\ a <= c
        BY <4>2
      <4> QED
        BY <4>1, <4>3
    <3> QED
      BY <2>1, <3>2, <3>3, <3>4, Zenon
  <2>7. CASE t = begins(s, k + 1)
    <3>1. TargetAt(s, t) = x
      <4>1. CASE k = N
        <5>1. N # 0 /\ begins(s, N + 1) <= t /\ \A j \in 1..N : s[j].dur > 0
          BY <1>6, <2>4, <2>7, <4>1
        <5>2. TargetAt(s, t) = s[N].vus
          BY <1>2, <5>1, PlanEnds
        <5> QED
          BY <2>1, <4>1, <5>2
      <4>2. CASE k # N
        <5>1. PICK m \in 1..N : m = k + 1
          BY <4>2
        <5>2. \A j \in 1..m : s[j].dur > 0
          BY <1>2, <1>6, <4>2, <5>1
        <5>3. s[m].dur > 0 /\ s[m].dur \in Nat /\ begins(s, m + 1) = begins(s, m) + s[m].dur
          BY <1>3, <5>2, <1>b
        <5>4. begins(s, m) = t
          BY <2>7, <5>1
        <5>5. t < begins(s, m + 1)
          BY <5>3, <5>4
        <5>6. \A j \in 1..N : j < m => s[j].dur > 0
          BY <5>2
        <5>7. begins(s, m) <= t
          BY <5>4
        <5>8. Reached(s, N, t, m)
          BY <5>5, <5>6, <5>7 DEF Reached
        <5>9. x = before(Vus(s), m)
          <6>1. m # 1 /\ m - 1 = k
            BY <5>1
          <6> QED
            BY <1>2, <2>1, <6>1 DEF before, Vus
        <5>10. s[m].dur # 0
          BY <5>3
        <5> QED
          BY <1>2, <5>4, <5>8, <5>9, <5>10, StageLeads
      <4> QED
        BY <4>1, <4>2
    <3>2. t # begins(s, k)
      BY <2>3, <2>4, <2>7
    <3> QED
      BY <2>1, <2>2, <3>1, <3>2
  <2> QED
    BY <1>6, <2>4, <2>6, <2>7
<1>7. ASSUME NEW k \in 1..N, lasts(k - 1), s[k].dur = 0, t >= begins(s, k)
      PROVE  TargetAt(s, t) = target[k]
  <2>1. \A j \in 1..N : j < k => s[j].dur > 0
    BY <1>7
  <2>2. begins(s, k) <= t
    BY <1>5, <1>7
  <2>3. Reached(s, N, t, k)
    BY <1>7, <2>1, <2>2 DEF Reached
  <2>4. TargetAt(s, t) = s[k].vus
    BY <1>2, <1>7, <2>3, StageJumps
  <2> QED
    BY <1>3, <2>4
<1>8. \A k \in 1..N : t \in begins(s, k)..begins(s, k + 1) =>
                          begins(s, k) <= t /\ t <= begins(s, k + 1)
  BY <1>5
<1>9. ASSUME NEW k \in 1..N
      PROVE  /\ /\ lasts(k) /\ (k = Len(s) \/ lasts(k + 1))
                /\ t \in begins(s, k)..begins(s, k + 1)
                =>     /\ TargetAt(s, t) >= Min({from(k), target[k]})
                       /\ TargetAt(s, t) <= Max({from(k), target[k]})
                       /\ t = begins(s, k) => TargetAt(s, t) = from(k)
                       /\ t = begins(s, k + 1) => TargetAt(s, t) = target[k]
             /\ lasts(k - 1) /\ s[k].dur = 0 /\ t >= begins(s, k) =>
                    TargetAt(s, t) = target[k]
  <2> HIDE DEF lasts
  <2> QED
    BY <1>6, <1>7, <1>8
<1>10. DOMAIN s = 1..N
  BY <1>2
<1> QED
  BY <1>1, <1>9, <1>10, Zenon DEF StagesAreFollowed, target, from

\* LoadFollowsThePlan, for every profile of any number of stages, any number of
\* workers and any time (SliceRamp, splitEven, TargetAt, RateAt, IsArrival).
THEOREM LoadIsThePlan == input \in AnyInput => LoadFollowsThePlan
BY SlicesAdd, SlicesFollow, OpenRates, StagesFollowed DEF LoadFollowsThePlan

-----------------------------------------------------------------------------
(* The inputs of the model                                                 *)

\* One of them, or none, as a sequence and as a set.
LEMMA OneIsASeq ==
    ASSUME NEW S, NEW s \in S
    PROVE  <<s>> \in Seq(S)
OBVIOUS

LEMMA AtMostOne ==
    ASSUME NEW S, NEW q \in {<<>>} \cup {<<s>> : s \in S}
    PROVE  q \in Seq(S)
<1>1. CASE q = <<>>
  BY <1>1
<1>2. CASE q # <<>>
  <2>1. PICK s \in S : q = <<s>>
    BY <1>2
  <2> QED
    BY <2>1, OneIsASeq
<1> QED
  BY <1>1, <1>2

LEMMA OptionalGrows ==
    ASSUME NEW S, NEW T, S \subseteq T
    PROVE  optional(S) \subseteq optional(T)
BY DEF optional

LEMMA FunctionIsASeq ==
    ASSUME NEW S, NEW n \in Nat, NEW f \in [1..n -> S]
    PROVE  f \in Seq(S) /\ Len(f) = n
<1>1. f \in Seq(S)
  BY SeqDef
<1> QED
  BY <1>1, LenProperties

LEMMA RampsCovered == RampInput \subseteq AnyRamp
<1> SUFFICES ASSUME NEW x \in RampInput PROVE x \in AnyRamp
  OBVIOUS
<1>1. Stage \subseteq AnyStage
  BY DEF Stage, AnyStage
<1>2. x.stages \in Seq(AnyStage)
  <2>1. PICK k \in 1..3 : x.stages \in [1..k -> Stage]
    BY DEF RampInput
  <2> QED
    BY <1>1, <2>1
<1> QED
  BY <1>2 DEF RampInput, AnyRamp

LEMMA ThinksCovered == ThinkInput \subseteq AnyThink
BY DEF ThinkInput, AnyThink, Distribution

LEMMA AlertsCovered == AlertInput \subseteq AnyAlert
<1> SUFFICES ASSUME NEW x \in AlertInput PROVE x \in AnyAlert
  OBVIOUS
<1> DEFINE On == [enabled : {TRUE}, pct : Nat, window : Nat, minReq : Nat]
<1> DEFINE Any == [enabled : BOOLEAN, pct : Nat, window : Nat, minReq : Nat]
<1>1. Breaker \subseteq On
  <2> SUFFICES ASSUME NEW b \in Breaker PROVE b \in On
    OBVIOUS
  <2>1. PICK pct \in {0, 40}, w \in {0, 2}, m \in {0, 10} :
            b = [enabled |-> TRUE, pct |-> pct, window |-> w, minReq |-> m]
    BY DEF Breaker
  <2>2. pct \in Nat /\ w \in Nat /\ m \in Nat
    OBVIOUS
  <2> QED
    BY <2>1, <2>2, Zenon
<1>2. On \subseteq Any
  <2> SUFFICES ASSUME NEW b \in On PROVE b \in Any
    OBVIOUS
  <2> QED
    BY Zenon
<1>3. Tick \subseteq AnyTick
  BY DEF Tick, AnyTick
<1>4. x.ticks \in Seq(AnyTick)
  <2>1. x.ticks \in [1..3 -> Tick]
    BY DEF AlertInput
  <2>2. x.ticks \in [1..3 -> AnyTick]
    BY <1>3, <2>1
  <2> QED
    BY <2>2, FunctionIsASeq
<1> HIDE DEF On, Any
<1>5. x.autoStop \in optional(Breaker) /\ x.alert \in optional(Breaker) /\ x.kind = "alert"
      /\ x = [kind |-> x.kind, autoStop |-> x.autoStop, alert |-> x.alert, ticks |-> x.ticks]
  BY DEF AlertInput, optional
<1>6. x.autoStop \in optional(Any) /\ x.alert \in optional(On)
  <2>1. Breaker \subseteq Any
    BY <1>1, <1>2
  <2>2. optional(Breaker) \subseteq optional(Any) /\ optional(Breaker) \subseteq optional(On)
    BY <1>1, <2>1, OptionalGrows
  <2> QED
    BY <1>5, <2>2
<1>7. x \in [kind : {"alert"}, autoStop : optional(Any), alert : optional(On), ticks : Seq(AnyTick)]
  BY <1>4, <1>5, <1>6
<1> QED
  BY <1>7 DEF AnyAlert, On, Any

LEMMA AddressedIsTimed == Addressed \subseteq Timed
<1> SUFFICES ASSUME NEW a \in Addressed PROVE a \in Timed
  OBVIOUS
<1> DEFINE None == {<<>>}
<1>1. a \in [address : {"good"}, timeout : TimeoutMs, body : {1}, expect : {""},
             asserts : None, method : {"m"}, maxMessages : {0}]
  BY DEF Addressed
<1>2. None \subseteq Seq(Assert)
  OBVIOUS
<1> HIDE DEF None
<1>3. a.asserts \in Seq(Assert)
  BY <1>1, <1>2
<1>4. a.address \in Name /\ a.expect \in Name /\ a.method \in Name
  BY <1>1 DEF Name
<1>5. a.timeout \in Int /\ a.body \in Nat /\ a.maxMessages \in Int
  <2>1. a.timeout \in TimeoutMs /\ a.body \in {1} /\ a.maxMessages \in {0}
    BY <1>1, Zenon
  <2> QED
    BY <2>1 DEF TimeoutMs
<1>6. a = [address |-> a.address, timeout |-> a.timeout, body |-> a.body,
           expect |-> a.expect, asserts |-> a.asserts, method |-> a.method,
           maxMessages |-> a.maxMessages]
  BY <1>1
<1> QED
  BY <1>3, <1>4, <1>5, <1>6 DEF Timed

LEMMA PlansCovered == PlanInput \subseteq AnyPlan
<1> SUFFICES ASSUME NEW x \in PlanInput PROVE x \in AnyPlan
  OBVIOUS
<1>2. Addressed \subseteq Timed
  BY AddressedIsTimed
<1>3. /\ x.http \in optional(Timed) /\ x.grpc \in optional(Timed) /\ x.sse \in optional(Timed)
  <2>1. /\ x.http \in optional(Addressed) /\ x.grpc \in optional(Addressed)
        /\ x.sse \in optional(Addressed)
    BY DEF PlanInput
  <2> QED
    BY <1>2, <2>1, OptionalGrows
<1>4. x.ws \in optional([address : Name])
  <2>1. /\ x.ws \in optional([address : {"good", "bad"}])
        /\ [address : {"good", "bad"}] \subseteq [address : Name]
    BY DEF PlanInput, Name
  <2> QED
    BY <2>1, OptionalGrows
<1>5. x.scenario \in optional([mode : Name, steps : Seq(Step)])
  <2> DEFINE Short == {<<>>} \cup {<<s>> : s \in Step}
  <2>1. x.scenario \in optional([mode : {"sequence"}, steps : Short])
    BY DEF PlanInput
  <2>2. Short \subseteq Seq(Step)
    BY AtMostOne
  <2> HIDE DEF Short
  <2>3. [mode : {"sequence"}, steps : Short] \subseteq [mode : Name, steps : Seq(Step)]
    BY <2>2 DEF Name
  <2>4. PICK S : S = [mode : {"sequence"}, steps : Short]
    OBVIOUS
  <2>5. PICK T : T = [mode : Name, steps : Seq(Step)]
    OBVIOUS
  <2>6. S \subseteq T /\ x.scenario \in optional(S)
    BY <2>1, <2>3, <2>4, <2>5
  <2>7. x.scenario \in optional(T)
    BY <2>6, OptionalGrows
  <2> QED
    BY <2>5, <2>7
<1>6. /\ x.think = {} /\ x.rendezvous = {} /\ x.autoStop = {} /\ x.alert = {}
  BY DEF PlanInput
<1>7. /\ x.think \in optional(AnyThink) /\ x.rendezvous \in optional([vus : Int, timeout : Int])
      /\ x.autoStop \in optional([enabled : BOOLEAN, pct : Int, window : Int, minReq : Int])
      /\ x.alert \in optional([enabled : BOOLEAN, pct : Int, window : Int, minReq : Int])
  BY <1>6 DEF optional
<1>8. x.protocol \in Name /\ x.script \in BOOLEAN
  <2>1. x.protocol \in Protocol /\ x.script \in BOOLEAN
    BY DEF PlanInput
  <2>2. Protocol \subseteq Name
    BY DEF Name
  <2> QED
    BY <2>1, <2>2
<1>9. x.thinkTime \in Int /\ x.maxVUs \in Int /\ x.scriptTimeout \in Int /\ x.maxBody \in Int
  <2>1. x.thinkTime \in {0} /\ x.maxVUs \in {0} /\ x.maxBody \in {0}
        /\ x.scriptTimeout \in ScriptTimeoutMs
    BY DEF PlanInput
  <2> QED
    BY <2>1 DEF ScriptTimeoutMs
<1> QED
  BY <1>3, <1>4, <1>5, <1>7, <1>8, <1>9 DEF PlanInput, AnyPlan

LEMMA HttpCovered == HttpInput \subseteq AnyHttp
<1> SUFFICES ASSUME NEW x \in HttpInput PROVE x \in AnyHttp
  OBVIOUS
<1> DEFINE V == {a \in Assert : validAssert(a)}
<1>1. x.asserts \in {<<>>} \cup {<<a>> : a \in V} /\ x.answer \in Answer /\ x.kind = "http"
      /\ x = [kind |-> x.kind, asserts |-> x.asserts, answer |-> x.answer]
  BY DEF HttpInput
<1> HIDE DEF V
<1>2. x.asserts \in Seq(V)
  BY <1>1, AtMostOne
<1> QED
  BY <1>1, <1>2 DEF AnyHttp, V

LEMMA LoginsCovered == LoginInput \subseteq AnyLogin
<1> SUFFICES ASSUME NEW x \in LoginInput PROVE x \in AnyLogin
  OBVIOUS
<1>1. /\ x.times \in [1..5 -> 0..7] /\ \A i \in 1..4 : x.times[i] <= x.times[i + 1]
      /\ x \in [kind : {"login"}, max : {1, 2}, window : {2, 3}, times : [1..5 -> 0..7]]
  BY DEF LoginInput
<1>2. PICK t \in [1..5 -> Nat] : t = x.times
  BY <1>1
<1>3. t[1] <= t[2] /\ t[2] <= t[3] /\ t[3] <= t[4] /\ t[4] <= t[5]
  BY <1>1, <1>2
<1>4. \A i, j \in 1..5 : i <= j => t[i] <= t[j]
  <2> SUFFICES ASSUME NEW i \in 1..5, NEW j \in 1..5, i <= j PROVE t[i] <= t[j]
    OBVIOUS
  <2>1. i \in {1, 2, 3, 4, 5} /\ j \in {1, 2, 3, 4, 5}
    OBVIOUS
  <2> QED
    BY <1>3, <2>1
<1>5. t \in Seq(Nat) /\ Len(t) = 5
  BY <1>2, FunctionIsASeq
<1>6. x \in [kind : {"login"}, max : Nat, window : Nat, times : Seq(Nat)]
  <2>1. x.max \in {1, 2} /\ x.window \in {2, 3} /\ x.kind = "login"
        /\ x = [kind |-> x.kind, max |-> x.max, window |-> x.window, times |-> x.times]
    BY <1>1, Zenon
  <2>2. x.max \in Nat /\ x.window \in Nat
    BY <2>1
  <2> QED
    BY <1>2, <1>5, <2>1, <2>2, Zenon
<1> QED
  BY <1>2, <1>4, <1>5, <1>6 DEF AnyLogin

\* The inputs that the run enumerates are among those the theorems speak of: profiles,
\* think times, breakers, plans, answers and login attempts of the model.
THEOREM InputsAreCovered == Inputs \cup {NoInput} \subseteq AnyInput
BY RampsCovered, ThinksCovered, AlertsCovered, PlansCovered, HttpCovered, LoginsCovered
   DEF Inputs, AnyInput
=============================================================================
