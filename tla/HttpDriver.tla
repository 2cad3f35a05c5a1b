----------------------------- MODULE HttpDriver -----------------------------
(***************************************************************************)
(* What makes a request a success (internal/worker/protocols/httpd), and   *)
(* the two implementations of the assertions of a plan: the one in Go for  *)
(* HTTP plans (assert.go) and the one in JavaScript that the compiled      *)
(* scenarios use (internal/script/scenario.go).                            *)
(*                                                                         *)
(* Texts are tokens: some numerals, a text that begins with one and a word *)
(* for infinity, of which each language takes one for a number, some words *)
(* of JSON, the empty text and a word of no meaning.  A JSON value is its  *)
(* type and its JSON text; the object and the array stand for all others.  *)
(* That a path finds the same value in both languages is assumed.          *)
(***************************************************************************)
EXTENDS Integers, Sequences, FiniteSetsExt

Text == {"", "0", "200", "404", "200ms", "inf", "true", "false", "null", "{}", "[200]",
         "word"}
numeral == [x \in {"0", "200", "404"} |->
               CASE x = "0" -> 0 [] x = "200" -> 200 [] OTHER -> 404]
isNumeral(x) == x \in DOMAIN numeral
Infinite == 1000    \* more than any numeral

\* strings.Contains and indexOf on tokens.
contains(s, x) ==
    \/ x \in {"", s}
    \/ x = "0" /\ s \in {"200", "404", "200ms", "[200]"}
    \/ x = "200" /\ s \in {"200ms", "[200]"}

ops == {"eq", "ne", "gt", "lt", "gte", "lte", "contains", "exists"}

\* HTTPAssert.Validate
validAssert(a) ==
    /\ a.source \in {"status", "body", "json"}
    /\ a.op \in ops
    /\ a.source = "status" => a.op \in {"eq", "ne", "gt", "lt", "gte", "lte"}
    /\ a.source = "json" => a.path # ""
    /\ a.op # "exists" /\ a.source # "body" => a.value # ""

\* A response: its status ("0" if the request could not be sent), its body's text,
\* and what the path of an assertion finds in it ("missing", or "invalid" for a body
\* that is not JSON).
actualOf(a, r) ==
    CASE a.source = "status" -> [type |-> "num", text |-> r.status]
      [] a.source = "body" -> [type |-> "str", text |-> r.body]
      [] OTHER -> r.found

order(op, x, y) == CASE op = "gt" -> x > y
                     [] op = "lt" -> x < y
                     [] op = "gte" -> x >= y
                     [] op = "lte" -> x <= y

-----------------------------------------------------------------------------
(* assert.go                                                               *)

\* Numbers that a text (strconv.ParseFloat) and a value are taken for, as sets of at
\* most one.
parse(x) == CASE isNumeral(x) -> {numeral[x]}
              [] x = "inf" -> {Infinite}
              [] OTHER -> {}
toFloat(v) == CASE v.type \in {"num", "str"} -> parse(v.text)
                [] v.type = "bool" -> {IF v.text = "true" THEN 1 ELSE 0}
                [] OTHER -> {}
parseBool(x) == CASE x = "true" -> {TRUE}
                  [] x \in {"false", "0"} -> {FALSE}
                  [] OTHER -> {}

looseEqual(v, x) ==
    CASE v.type = "num" -> \E n \in parse(x) : {n} = parse(v.text)
      [] v.type = "bool" -> \E b \in parseBool(x) : b = (v.text = "true")
      [] v.type = "null" -> x = "null"
      [] OTHER -> v.text = x

\* Mutant of compare: values that are no numbers are ordered as if they were 0.
compareZero(v, op, x) ==
    LET num(s) == IF s = {} THEN 0 ELSE Max(s)
    IN  CASE op = "contains" -> contains(v.text, x)
          [] op = "eq" -> looseEqual(v, x)
          [] op = "ne" -> ~looseEqual(v, x)
          [] op \in {"gt", "lt", "gte", "lte"} -> order(op, num(toFloat(v)), num(parse(x)))
          [] OTHER -> FALSE

\* exists is not an operation of compare.
compare(v, op, x) ==
    CASE op = "contains" -> contains(v.text, x)
      [] op = "eq" -> looseEqual(v, x)
      [] op = "ne" -> ~looseEqual(v, x)
      [] op \in {"gt", "lt", "gte", "lte"} ->
             \E m \in toFloat(v), n \in parse(x) : order(op, m, n)
      [] OTHER -> FALSE

\* One round of evalAsserts.
passes(a, r) ==
    LET v == actualOf(a, r)
    IN  /\ v.type \notin {"missing", "invalid"}
        /\ (a.source = "json" /\ a.op = "exists") \/ compare(v, a.op, a.value)

evalAsserts(asserts, r) == \A i \in DOMAIN asserts : passes(asserts[i], r)

-----------------------------------------------------------------------------
(* scenario.go                                                             *)

\* parseFloat reads as far as the text is a numeral.
parseFloat(x) == CASE isNumeral(x) -> {numeral[x]}
                   [] x = "200ms" -> {200}
                   [] OTHER -> {}

\* String(actual): not the JSON text for objects and arrays.
asString(v) == CASE v.type = "obj" -> "[object Object]"
                 [] v.type = "arr" -> "200"
                 [] OTHER -> v.text

\* embedSpec leaves an empty value out, and what is left out is undefined.
want(x) == IF x = "" THEN "undefined" ELSE x

jsLooseEq(v, x) ==
    CASE v.type = "num" -> \E n \in parseFloat(x) : {n} = parseFloat(v.text)
      [] v.type = "bool" -> v.text = x
      [] v.type = "null" -> x = "null"
      [] OTHER -> asString(v) = want(x)

\* _assertOne
assertOne(a, r) ==
    LET v == actualOf(a, r)
    IN  /\ v.type \notin {"missing", "invalid"}
        /\ CASE a.op = "exists" -> v.type # "null"
             [] a.op = "contains" -> contains(v.text, want(a.value))
             [] a.op = "eq" -> jsLooseEq(v, a.value)
             [] a.op = "ne" -> ~jsLooseEq(v, a.value)
             [] OTHER -> \E m \in parseFloat(asString(v)), n \in parseFloat(a.value) :
                            order(a.op, m, n)

\* _runStep: the assertions decide if there are any, else the status.
stepOk(asserts, r) ==
    IF asserts # <<>>
    THEN \A i \in DOMAIN asserts : assertOne(asserts[i], r)
    ELSE numeral[r.status] < 400 /\ ~r.error

-----------------------------------------------------------------------------
(* Exec                                                                    *)

\* The verdict on a response: each check is made only if the ones before it hold.
\* A request that cannot be built or sent has no response and has failed.
succeeds(cfg, r) ==
    /\ ~r.error
    /\ IF cfg.expect # "" THEN r.status = cfg.expect ELSE numeral[r.status] < 400
    /\ cfg.bodyContains # "" => contains(r.body, cfg.bodyContains)
    /\ evalAsserts(cfg.asserts, r)
=============================================================================
