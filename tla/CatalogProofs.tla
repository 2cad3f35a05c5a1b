---------------------------- MODULE CatalogProofs ----------------------------
(***************************************************************************)
(* Machine-checked proofs about the tables of the API server and the       *)
(* scheduler loops of its replicas: for any number of accounts, rows,      *)
(* requests in progress and replicas.                                      *)
(***************************************************************************)
EXTENDS Catalog, TLAPS

-----------------------------------------------------------------------------
(* The inductive invariant                                                 *)

Part == {"row", "base", "off"}
TestRow == [owner : User \cup {None}, by : User, part : Part, archived : BOOLEAN,
            base : Run \cup {None}]
SchedRow == [owner : User \cup {None}, by : User, part : Part, test : Test,
             on : BOOLEAN, next : Nat]
EnvRow == [owner : User \cup {None}, by : User]
RunRow == [owner : User \cup {None}, by : User \cup {None}, test : Test,
           source : Sched \cup {None}, status : {"pending", "completed"}, at : Nat]
AnyRow == TestRow \cup SchedRow \cup EnvRow \cup RunRow \cup {None, Deleted}

Writing == {"update", "archive", "delete", "enable", "disable"}
Step == Writing \cup {"unschedule", "launch"}
Handling == [step : Step, id : Id, by : User, until : Nat]
Firing == [step : {"read", "create"}, sched : Sched, test : Test, until : Nat]
Recording == [step : {"record"}, sched : Sched, until : Nat]

\* Rows are those of their tables; a test is never deleted.
Tables ==
    /\ db \in [Id -> AnyRow]
    /\ \A t \in Test : db[t] \in TestRow \cup {None}
    /\ \A s \in Sched : db[s] \in SchedRow \cup {None, Deleted}
    /\ \A e \in Env : db[e] \in EnvRow \cup {None, Deleted}
    /\ \A r \in Run : db[r] \in RunRow \cup {None, Deleted}

\* The other variables in their types.
Actors ==
    /\ now \in Nat
    /\ users \subseteq User
    /\ req \in [Req -> Handling \cup {Idle}]
    /\ rep \in [Replica -> Firing \cup Recording \cup {Idle}]
    /\ creator \in [Id -> User \cup {None}]
    /\ offSince \in [Test \cup Sched -> Nat]

\* The last write of a row is its creator's or an administrator's, but for a baseline
\* and for what the archival of a test switches off.
Rightful(x) ==
    \/ db[x].by \in Admin \cup {creator[x]}
    \/ x \in Test /\ db[x].part = "base"
    \/ /\ x \in Sched /\ db[x].part = "off" /\ ~db[x].on
       /\ db[x].by \in Admin \cup {creator[db[x].test]}

\* The owner of a row is its creator while that account exists.
Owned(x) ==
    exists(x) =>
        /\ db[x].owner \in users \cup {None}
        /\ db[x].owner # None => db[x].owner = creator[x]
        /\ x \notin Run => Rightful(x)

\* References between rows.
Linked ==
    /\ \A t \in Test : exists(t) => db[t].base = None \/ exists(db[t].base)
    /\ \A x \in Sched \cup Run : exists(x) => exists(db[x].test)

\* What is off is noted as such, and a schedule is due within its interval.
Dated ==
    /\ \A x \in Test \cup Sched : offSince[x] # NoTime => isOff(db[x])
    /\ \A s \in Sched : exists(s) => db[s].next <= now + Interval

\* A launch that was decided while x was on ends within the timeout.
Decided(x, until) == offSince[x] = NoTime \/ until <= offSince[x] + Timeout

\* A request that passed its checks.
Checked(q) ==
    req[q] # Idle =>
        /\ now <= req[q].until /\ req[q].until <= now + Timeout
        /\ db[req[q].id] # None
        /\ req[q].step = "launch" => /\ req[q].id \in Test
                                     /\ exists(req[q].id)
                                     /\ Decided(req[q].id, req[q].until)
        /\ req[q].step # "launch" => req[q].by \in Admin \cup {creator[req[q].id]}
        /\ req[q].id \in Run => req[q].step = "delete"

\* The runs that a schedule launched, and when they were created.
RunOf(r, s) == exists(r) /\ db[r].source = s

\* A scheduler loop that claimed a schedule: the next run of that schedule is an
\* interval away, and the ones before it were created an interval before.
Fires(p) == rep[p] \in Firing
Claimed(p) ==
    /\ rep[p] # Idle => now <= rep[p].until /\ rep[p].until <= now + Timeout
    /\ Fires(p) =>
         LET s == rep[p].sched
         IN  /\ exists(rep[p].test)
             /\ db[s] # None
             /\ exists(s) => rep[p].until + Interval <= db[s].next + Timeout
             /\ Decided(s, rep[p].until)
             /\ \A r \in Run : RunOf(r, s) => db[r].at + Interval <= rep[p].until
             /\ rep[p].step = "create" => Decided(rep[p].test, rep[p].until)

\* No two loops have claimed the same schedule.
OneLoop ==
    \A p, p2 \in Replica :
        Fires(p) /\ Fires(p2) /\ rep[p].sched = rep[p2].sched => p = p2

\* A run, its schedule and its test.
Launched(r) ==
    exists(r) =>
        LET s == db[r].source
        IN  /\ db[r].at <= now
            /\ s # None => /\ db[s] # None
                           /\ exists(s) => db[r].at + Interval <= db[s].next + Timeout
            /\ Decided(db[r].test, db[r].at)

CatalogInv ==
    /\ Tables
    /\ Actors
    /\ \A x \in Id : Owned(x)
    /\ Linked
    /\ Dated
    /\ \A q \in Req : Checked(q)
    /\ \A p \in Replica : Claimed(p)
    /\ OneLoop
    /\ \A r \in Run : Launched(r)
    /\ FiredOnce

-----------------------------------------------------------------------------
(* Rows                                                                    *)

\* NULL and a deleted row are no rows, and the states of an actor are told apart.
LEMMA Kinds ==
    /\ None # Deleted
    /\ None \notin TestRow /\ None \notin SchedRow /\ None \notin EnvRow /\ None \notin RunRow
    /\ Deleted \notin TestRow /\ Deleted \notin SchedRow /\ Deleted \notin EnvRow
    /\ Deleted \notin RunRow
    /\ Idle \notin Handling /\ Idle \notin Firing /\ Idle \notin Recording
    /\ \A f \in Firing : f \notin Recording
BY DEF None, Deleted, TestRow, SchedRow, EnvRow, RunRow, Idle, Handling, Firing, Recording

\* A row that exists is one of its table.
LEMMA Exists ==
    ASSUME Tables
    PROVE  /\ \A t \in Test : exists(t) <=> db[t] \in TestRow
           /\ \A s \in Sched : exists(s) <=> db[s] \in SchedRow
           /\ \A e \in Env : exists(e) <=> db[e] \in EnvRow
           /\ \A r \in Run : exists(r) <=> db[r] \in RunRow
BY Kinds DEF Tables, exists

\* A test is off when it is archived, a schedule when it is disabled or deleted.
LEMMA Off ==
    /\ ~isOff(None) /\ isOff(Deleted)
    /\ \A row \in TestRow : isOff(row) <=> row.archived
    /\ \A row \in SchedRow : isOff(row) <=> ~row.on
<1>1. ~isOff(None) /\ isOff(Deleted)
  BY DEF isOff, None, Deleted
<1>2. ASSUME NEW row \in TestRow PROVE isOff(row) <=> row.archived
  <2>1. row # Deleted
    BY Kinds
  <2>2. DOMAIN row = {"owner", "by", "part", "archived", "base"}
    BY DEF TestRow
  <2> QED
    BY <2>1, <2>2 DEF isOff
<1>3. ASSUME NEW row \in SchedRow PROVE isOff(row) <=> ~row.on
  <2>1. row # Deleted
    BY Kinds
  <2>2. DOMAIN row = {"owner", "by", "part", "test", "on", "next"}
    BY DEF SchedRow
  <2> QED
    BY <2>1, <2>2 DEF isOff
<1> QED
  BY <1>1, <1>2, <1>3

\* The tables have ids of their own.
LEMMA Ids ==
    /\ Test \subseteq Id /\ Sched \subseteq Id /\ Env \subseteq Id /\ Run \subseteq Id
    /\ \A x \in Id : x \in Test \/ x \in Sched \/ x \in Env \/ x \in Run
    /\ \A x \in Test : x \notin Sched /\ x \notin Env /\ x \notin Run
    /\ \A x \in Sched : x \notin Env /\ x \notin Run
    /\ \A x \in Env : x \notin Run
    /\ None \notin User /\ None \notin Id
    /\ None \notin Run /\ None \notin Sched
BY IdsAssumption DEF Id

-----------------------------------------------------------------------------
(* What a step leaves of the facts about actors and runs                   *)

\* Time stands still, rows that were created stay created, tests stay, schedules are
\* only moved on, and what is switched off is noted with the time.
Evolves ==
    /\ Tables /\ Tables' /\ Actors /\ Actors'
    /\ now' = now
    /\ \A x \in Id : db[x] # None => db'[x] # None /\ creator'[x] = creator[x]
    /\ \A t \in Test : exists(t) => exists(t)'
    /\ \A s \in Sched : db[s] # None /\ exists(s)' => exists(s) /\ db[s].next <= db'[s].next
    /\ \A x \in Test \cup Sched : offSince'[x] \in {NoTime, now, offSince[x]}

\* No run is created.
SameRun(r) ==
    exists(r)' => /\ exists(r)
                  /\ db'[r].source = db[r].source
                  /\ db'[r].at = db[r].at
                  /\ db'[r].test = db[r].test

\* A decision stays one.
LEMMA DecidedKept ==
    ASSUME Evolves, NEW x \in Test \cup Sched, NEW u \in Nat, u <= now + Timeout, Decided(x, u)
    PROVE  Decided(x, u)'
<1>1. offSince[x] \in Nat /\ now \in Nat /\ Timeout \in Nat
  BY TimesAssumption DEF Evolves, Actors
<1>2. offSince'[x] = 0 \/ offSince'[x] = now \/ offSince'[x] = offSince[x]
  BY DEF Evolves, NoTime
<1> QED
  BY <1>1, <1>2 DEF Decided, NoTime

\* So does a checked request,
LEMMA CheckedKept ==
    ASSUME Evolves, NEW q \in Req, Checked(q), req'[q] = req[q]
    PROVE  Checked(q)'
<1> SUFFICES ASSUME req[q] # Idle PROVE Checked(q)'
  BY DEF Checked
<1>1. PICK c \in Handling : c = req[q]
  BY DEF Evolves, Actors
<1>2. /\ c.id \in Id /\ c.until \in Nat
      /\ now <= c.until /\ c.until <= now + Timeout /\ db[c.id] # None
      /\ c.step = "launch" => c.id \in Test /\ exists(c.id) /\ Decided(c.id, c.until)
      /\ c.step # "launch" => c.by \in Admin \cup {creator[c.id]}
      /\ c.id \in Run => c.step = "delete"
  BY <1>1 DEF Checked, Handling
<1>3. c.step = "launch" => Decided(c.id, c.until)'
  BY <1>2, DecidedKept
<1>4. now' = now /\ req'[q] = c
  BY <1>1 DEF Evolves
<1>5. db'[c.id] # None /\ creator'[c.id] = creator[c.id]
  BY <1>2 DEF Evolves
<1>6. c.step = "launch" => exists(c.id)'
  BY <1>2 DEF Evolves
<1> QED
  BY <1>2, <1>3, <1>4, <1>5, <1>6 DEF Checked

\* a claim,
LEMMA ClaimedKept ==
    ASSUME Evolves, NEW p \in Replica, Claimed(p), rep'[p] = rep[p],
           Fires(p) => \A r \in Run : SameRun(r) \/ db'[r].source # rep[p].sched
    PROVE  Claimed(p)'
<1>0. now' = now /\ Timeout \in Nat /\ Interval \in Nat /\ now \in Nat
  BY TimesAssumption DEF Evolves, Actors
<1>1. rep'[p] # Idle => now' <= rep'[p].until /\ rep'[p].until <= now' + Timeout
  BY <1>0 DEF Claimed
<1>2. ASSUME Fires(p)
      PROVE  LET s == rep[p].sched
             IN  /\ exists(rep[p].test)'
                 /\ db'[s] # None
                 /\ exists(s)' => rep[p].until + Interval <= db'[s].next + Timeout
                 /\ Decided(s, rep[p].until)'
                 /\ \A r \in Run : RunOf(r, s)' => db'[r].at + Interval <= rep[p].until
                 /\ rep[p].step = "create" => Decided(rep[p].test, rep[p].until)'
  <2>1. PICK f \in Firing : f = rep[p]
    BY <1>2 DEF Fires
  <2>2. f.sched \in Sched /\ f.test \in Test /\ f.until \in Nat
    BY DEF Firing
  <2>3. /\ exists(f.test) /\ db[f.sched] # None
        /\ exists(f.sched) => f.until + Interval <= db[f.sched].next + Timeout
        /\ Decided(f.sched, f.until)
        /\ \A r \in Run : RunOf(r, f.sched) => db[r].at + Interval <= f.until
        /\ f.step = "create" => Decided(f.test, f.until)
    BY <1>2, <2>1 DEF Claimed
  <2>4. f.until <= now + Timeout
    BY <1>2, <2>1, Kinds DEF Claimed, Fires
  <2>5. exists(f.test)' /\ db'[f.sched] # None
    BY <2>2, <2>3, Ids DEF Evolves
  <2>6. ASSUME exists(f.sched)' PROVE f.until + Interval <= db'[f.sched].next + Timeout
    <3>1. exists(f.sched) /\ db[f.sched].next <= db'[f.sched].next
      BY <2>2, <2>3, <2>6 DEF Evolves
    <3>2. db[f.sched] \in SchedRow /\ db'[f.sched] \in SchedRow
      <4>1. Tables /\ Tables'
        BY DEF Evolves
      <4>2. db'[f.sched] \notin {None, Deleted}
        BY <2>6 DEF exists
      <4> QED
        BY <2>2, <3>1, <4>1, <4>2, Exists DEF Tables
    <3>3. db[f.sched].next \in Nat /\ db'[f.sched].next \in Nat
      BY <3>2 DEF SchedRow
    <3> QED
      BY <1>0, <2>2, <2>3, <3>1, <3>3
  <2>7. Decided(f.sched, f.until)' /\ (f.step = "create" => Decided(f.test, f.until)')
    BY <2>2, <2>3, <2>4, DecidedKept
  <2>8. ASSUME NEW r \in Run, RunOf(r, f.sched)' PROVE db'[r].at + Interval <= f.until
    BY <1>2, <2>1, <2>3, <2>8 DEF RunOf, SameRun
  <2> QED
    BY <2>1, <2>3, <2>5, <2>6, <2>7, <2>8
<1> QED
  BY <1>1, <1>2 DEF Claimed, Fires

\* and what is known of a run.
LEMMA LaunchedKept ==
    ASSUME Evolves, NEW r \in Run, Launched(r), SameRun(r)
    PROVE  Launched(r)'
<1> SUFFICES ASSUME exists(r)' PROVE Launched(r)'
  BY DEF Launched
<1>0. now' = now /\ Timeout \in Nat /\ Interval \in Nat /\ now \in Nat /\ Tables /\ Tables'
  BY TimesAssumption DEF Evolves, Actors
<1>1. /\ exists(r) /\ db'[r].source = db[r].source /\ db'[r].at = db[r].at
      /\ db'[r].test = db[r].test
  BY DEF SameRun
<1>2. PICK a \in RunRow : a = db[r]
  BY <1>0, <1>1, Exists
<1>3. a.at \in Nat /\ a.test \in Test /\ a.source \in Sched \cup {None}
  BY DEF RunRow
<1>4. /\ a.at <= now
      /\ a.source # None => db[a.source] # None
      /\ a.source # None /\ exists(a.source) => a.at + Interval <= db[a.source].next + Timeout
      /\ Decided(a.test, a.at)
  BY <1>1, <1>2 DEF Launched
<1>5. Decided(a.test, a.at)'
  <2>1. a.at <= now + Timeout
    BY <1>0, <1>3, <1>4
  <2> QED
    BY <1>3, <1>4, <2>1, DecidedKept
<1>6. ASSUME a.source # None
      PROVE  /\ db'[a.source] # None
             /\ exists(a.source)' => a.at + Interval <= db'[a.source].next + Timeout
  <2>1. a.source \in Sched /\ db[a.source] # None /\ db'[a.source] # None
    BY <1>3, <1>4, <1>6, Ids DEF Evolves
  <2>2. ASSUME exists(a.source)' PROVE a.at + Interval <= db'[a.source].next + Timeout
    <3>1. exists(a.source) /\ db[a.source].next <= db'[a.source].next
      BY <2>1, <2>2 DEF Evolves
    <3>2. db[a.source] \in SchedRow /\ db'[a.source] \in SchedRow
      <4>1. db'[a.source] \notin {None, Deleted}
        BY <2>2 DEF exists
      <4> QED
        BY <1>0, <2>1, <3>1, <4>1, Exists DEF Tables
    <3>3. db[a.source].next \in Nat /\ db'[a.source].next \in Nat
      BY <3>2 DEF SchedRow
    <3> QED
      BY <1>0, <1>3, <1>4, <1>6, <3>1, <3>3
  <2> QED
    BY <2>1, <2>2
<1>7. db'[r].source = a.source /\ db'[r].at = a.at /\ db'[r].test = a.test
  BY <1>1, <1>2
<1> QED
  BY <1>0, <1>4, <1>5, <1>6, <1>7 DEF Launched

\* Runs that were an interval apart still are.
LEMMA FiredOnceKept ==
    ASSUME FiredOnce, \A r \in Run : SameRun(r)
    PROVE  FiredOnce'
BY DEF FiredOnce, SameRun

-----------------------------------------------------------------------------
(* The three kinds of steps: of an actor alone, into a row, and a new row  *)

\* The facts about rows alone.
RowsInv == (\A x \in Id : Owned(x)) /\ Linked /\ Dated

\* A step that creates no run keeps the invariant when the rows are in order and the
\* actors it moves are.
LEMMA StepKeeps ==
    ASSUME CatalogInv, Evolves, \A r \in Run : SameRun(r), RowsInv', OneLoop',
           \A q \in Req : req'[q] = req[q] \/ Checked(q)',
           \A p \in Replica : rep'[p] = rep[p] \/ Claimed(p)'
    PROVE  CatalogInv'
<1>1. \A q \in Req : Checked(q)'
  BY CheckedKept DEF CatalogInv
<1>2. \A p \in Replica : Claimed(p)'
  BY ClaimedKept DEF CatalogInv
<1>3. \A r \in Run : Launched(r)'
  BY LaunchedKept DEF CatalogInv
<1>4. FiredOnce'
  BY FiredOnceKept DEF CatalogInv
<1> QED
  BY <1>1, <1>2, <1>3, <1>4 DEF CatalogInv, RowsInv, Evolves

\* Loops that go on, or stop, are still one for each schedule.
LEMMA OneLoopKept ==
    ASSUME OneLoop, \A p \in Replica : Fires(p)' => Fires(p) /\ rep'[p].sched = rep[p].sched
    PROVE  OneLoop'
BY DEF OneLoop

\* Only actors move.
LEMMA ActorStep ==
    ASSUME CatalogInv, UNCHANGED <<now, users, db, creator, offSince>>, Actors', OneLoop',
           \A q \in Req : req'[q] = req[q] \/ Checked(q)',
           \A p \in Replica : rep'[p] = rep[p] \/ Claimed(p)'
    PROVE  CatalogInv'
<1>0. Tables /\ Actors /\ RowsInv
  BY DEF CatalogInv, RowsInv
<1>1. Tables'
  BY <1>0 DEF Tables
<1>2. Evolves
  <2>1. \A s \in Sched : exists(s) => db[s].next <= db[s].next
    <3>1. \A s \in Sched : exists(s) => db[s].next \in Nat
      BY <1>0, Exists DEF SchedRow
    <3>2. \A n \in Nat : n <= n
      OBVIOUS
    <3> QED
      BY <3>1, <3>2
  <2>2. Tables /\ Tables' /\ Actors /\ Actors' /\ now' = now
    BY <1>0, <1>1
  <2>3. \A x \in Id : db[x] # None => db'[x] # None /\ creator'[x] = creator[x]
    OBVIOUS
  <2>4. \A t \in Test : exists(t) => exists(t)'
    BY DEF exists
  <2>5. \A s \in Sched : db[s] # None /\ exists(s)' => exists(s) /\ db[s].next <= db'[s].next
    BY <2>1 DEF exists
  <2>6. \A x \in Test \cup Sched : offSince'[x] \in {NoTime, now, offSince[x]}
    OBVIOUS
  <2> QED
    BY <2>2, <2>3, <2>4, <2>5, <2>6 DEF Evolves
<1>3. \A r \in Run : SameRun(r)
  BY DEF SameRun, exists
<1>4. RowsInv'
  BY <1>0 DEF RowsInv, Owned, Rightful, Linked, Dated, exists
<1> QED
  BY <1>2, <1>3, <1>4, StepKeeps

\* Rows are changed, none is created.
Descends ==
    /\ UNCHANGED <<now, creator>>
    /\ users' \subseteq users
    /\ \A x \in Id :
         /\ db[x] = None <=> db'[x] = None
         /\ exists(x)' =>
              /\ exists(x)
              /\ db'[x].owner \in {db[x].owner, None}
              /\ db'[x].owner \in users' \cup {None}
              /\ x \notin Run => Rightful(x)'
    /\ \A t \in Test :
         exists(t) => exists(t)' /\ (db'[t].base = None \/ exists(db[t].base)')
    /\ \A x \in Sched \cup Run : exists(x)' => db'[x].test = db[x].test
    /\ \A s \in Sched :
         exists(s)' => db[s].next <= db'[s].next /\ db'[s].next <= now + Interval
    /\ \A r \in Run :
         exists(r)' => db'[r].source = db[r].source /\ db'[r].at = db[r].at
    /\ \A x \in Test \cup Sched :
         /\ offSince'[x] \in {NoTime, now, offSince[x]}
         /\ offSince'[x] # NoTime => isOff(db'[x])

\* Such a step keeps the invariant when the actors it moves are in order.
LEMMA RowStep ==
    ASSUME CatalogInv, Descends, Tables', Actors', OneLoop',
           \A q \in Req : req'[q] = req[q] \/ Checked(q)',
           \A p \in Replica : rep'[p] = rep[p] \/ Claimed(p)'
    PROVE  CatalogInv'
<1>0. Tables /\ Actors /\ (\A x \in Id : Owned(x)) /\ Linked /\ Dated
  BY DEF CatalogInv
<1>1. Evolves
  <2>1. \A s \in Sched : db[s] # None /\ exists(s)' => exists(s) /\ db[s].next <= db'[s].next
    BY Ids DEF Descends
  <2>2. \A x \in Id : db[x] # None => db'[x] # None /\ creator'[x] = creator[x]
    BY DEF Descends
  <2> QED
    BY <1>0, <2>1, <2>2 DEF Evolves, Descends
<1>2. \A r \in Run : SameRun(r)
  BY Ids DEF Descends, SameRun
<1>3. \A x \in Id : Owned(x)'
  BY <1>0 DEF Owned, Descends
<1>4. Linked'
  <2>1. ASSUME NEW t \in Test, exists(t)' PROVE db'[t].base = None \/ exists(db[t].base)'
    BY <2>1, Ids DEF Descends
  <2>2. ASSUME NEW x \in Sched \cup Run, exists(x)' PROVE exists(db[x].test)'
    <3>1. exists(x) /\ db'[x].test = db[x].test
      BY <2>2, Ids DEF Descends
    <3>2. db[x].test \in Test
      BY <1>0, <3>1, Exists DEF SchedRow, RunRow
    <3>3. exists(db[x].test)
      BY <1>0, <3>1 DEF Linked
    <3>4. \A t \in Test : exists(t) => exists(t)'
      BY DEF Descends
    <3>5. PICK t \in Test : t = db[x].test
      BY <3>2
    <3>6. exists(t)'
      BY <3>3, <3>4, <3>5
    <3> QED
      BY <3>1, <3>5, <3>6 DEF exists
  <2> QED
    BY <2>1, <2>2 DEF Linked
<1>5. Dated'
  BY DEF Dated, Descends
<1> QED
  BY <1>1, <1>2, <1>3, <1>4, <1>5, StepKeeps DEF RowsInv

\* A row is created.
Fits(x, row, u) ==
    /\ x \in Test => row \in TestRow /\ row.base = None
    /\ x \in Sched => row \in SchedRow /\ exists(row.test) /\ row.next <= now + Interval
    /\ x \in Env => row \in EnvRow
    /\ x \in Run => row \in RunRow /\ exists(row.test)
    /\ row.owner \in users \cup {None}
    /\ row.owner # None => row.owner = u
    /\ x \notin Run => row.by = u

\* A new row that fits leaves the rows in order and every other run as it was.
LEMMA NewRow ==
    ASSUME CatalogInv, NEW x \in Id, NEW row, NEW u \in User \cup {None},
           insert(x, row, u), Fits(x, row, u), UNCHANGED <<now, users, offSince>>,
           req' \in [Req -> Handling \cup {Idle}],
           rep' \in [Replica -> Firing \cup Recording \cup {Idle}]
    PROVE  /\ Evolves /\ RowsInv'
           /\ \A r \in Run \ {x} : SameRun(r)
           /\ \A y \in Id : db'[y] = IF y = x THEN row ELSE db[y]
           /\ exists(x)'
<1>0. Tables /\ Actors /\ (\A y \in Id : Owned(y)) /\ Linked /\ Dated
  BY DEF CatalogInv
<1>1. /\ \A y \in Id : db'[y] = IF y = x THEN row ELSE db[y]
      /\ \A y \in Id : creator'[y] = IF y = x THEN u ELSE creator[y]
      /\ db[x] = None
  BY <1>0 DEF insert, Tables, Actors
<1>2. row \in AnyRow /\ row # None /\ row # Deleted
  BY Ids, Kinds DEF Fits, AnyRow
<1>3. Tables'
  <2>1. db' \in [Id -> AnyRow]
    BY <1>0, <1>2 DEF insert, Tables
  <2>2. /\ \A t \in Test : db'[t] \in TestRow \cup {None}
        /\ \A s \in Sched : db'[s] \in SchedRow \cup {None, Deleted}
        /\ \A e \in Env : db'[e] \in EnvRow \cup {None, Deleted}
        /\ \A r \in Run : db'[r] \in RunRow \cup {None, Deleted}
    <3>1. \A t \in Test : db'[t] \in TestRow \cup {None}
      BY <1>0, <1>1, Ids DEF Tables, Fits
    <3>2. \A s \in Sched : db'[s] \in SchedRow \cup {None, Deleted}
      BY <1>0, <1>1, Ids DEF Tables, Fits
    <3>3. \A e \in Env : db'[e] \in EnvRow \cup {None, Deleted}
      BY <1>0, <1>1, Ids DEF Tables, Fits
    <3>4. \A r \in Run : db'[r] \in RunRow \cup {None, Deleted}
      BY <1>0, <1>1, Ids DEF Tables, Fits
    <3> QED
      BY <3>1, <3>2, <3>3, <3>4
  <2> QED
    BY <2>1, <2>2 DEF Tables
<1>4. Actors'
  BY <1>0 DEF insert, Actors
<1>5. \A y \in Id : exists(y)' <=> (y = x \/ exists(y))
  BY <1>1, <1>2 DEF exists
<1>6. Evolves
  <2>1. \A s \in Sched : exists(s) => db[s].next \in Nat
    BY <1>0, Exists DEF SchedRow
  <2>2. \A y \in Id : db[y] # None => db'[y] # None /\ creator'[y] = creator[y]
    BY <1>1
  <2>3. \A t \in Test : exists(t) => exists(t)'
    BY <1>5, Ids
  <2>4. ASSUME NEW s \in Sched, db[s] # None, exists(s)'
        PROVE  exists(s) /\ db[s].next <= db'[s].next
    <3>1. s # x /\ s \in Id
      BY <1>1, <2>4, Ids
    <3>2. exists(s) /\ db'[s] = db[s]
      BY <1>1, <1>5, <2>4, <3>1
    <3>3. \A n \in Nat : n <= n
      OBVIOUS
    <3> QED
      BY <2>1, <3>2, <3>3
  <2>5. now' = now /\ \A y \in Test \cup Sched : offSince'[y] \in {NoTime, now, offSince[y]}
    OBVIOUS
  <2> QED
    BY <1>0, <1>3, <1>4, <2>2, <2>3, <2>4, <2>5 DEF Evolves
<1>7. \A r \in Run \ {x} : SameRun(r)
  BY <1>1, <1>5, Ids DEF SameRun
<1>8. \A y \in Id : Owned(y)'
  <2>1. ASSUME NEW y \in Id, y # x, y \notin Run, exists(y) PROVE Rightful(y)'
    <3>1. Rightful(y) /\ db'[y] = db[y] /\ creator'[y] = creator[y]
      BY <1>0, <1>1, <2>1 DEF Owned
    <3>2. CASE y \in Sched
      <4>1. PICK t \in Test : t = db[y].test
        BY <1>0, <2>1, <3>2, Exists DEF SchedRow
      <4>2. exists(t) /\ t \in Id
        BY <1>0, <3>2, <2>1, <4>1, Ids DEF Linked
      <4>3. creator'[t] = creator[t]
        BY <1>1, <4>2 DEF exists
      <4> QED
        BY <3>1, <4>1, <4>3 DEF Rightful
    <3>3. CASE y \notin Sched
      BY <3>1, <3>3 DEF Rightful
    <3> QED
      BY <3>2, <3>3
  <2>2. x \notin Run => Rightful(x)'
    BY <1>1 DEF Rightful, Fits
  <2> QED
    BY <1>0, <1>1, <1>5, <2>1, <2>2 DEF Owned, Fits
<1>9. Linked'
  <2>1. ASSUME NEW t \in Test, exists(t)' PROVE db'[t].base = None \/ exists(db[t].base)'
    <3>1. CASE t = x
      BY <1>1, <3>1 DEF Fits
    <3>2. CASE t # x
      <4>1. exists(t) /\ db'[t] = db[t]
        BY <1>1, <1>5, <2>1, <3>2, Ids
      <4>2. PICK b \in Run \cup {None} : b = db[t].base
        BY <1>0, <4>1, Exists DEF TestRow
      <4>3. b = None \/ exists(b)
        BY <1>0, <4>1, <4>2 DEF Linked
      <4>4. b = None \/ exists(b)'
        BY <1>5, <4>3, Ids
      <4> QED
        BY <4>1, <4>2, <4>4 DEF exists
    <3> QED
      BY <3>1, <3>2
  <2>2. ASSUME NEW y \in Sched \cup Run, exists(y)' PROVE exists(db[y].test)'
    <3>1. PICK t \in Test : t = db'[y].test
      <4>1. CASE y = x
        BY <1>1, <4>1 DEF Fits, SchedRow, RunRow
      <4>2. CASE y # x
        <5>1. exists(y) /\ db'[y] = db[y]
          BY <1>1, <1>5, <2>2, <4>2, Ids
        <5> QED
          BY <1>0, <5>1, Exists DEF SchedRow, RunRow
      <4> QED
        BY <4>1, <4>2
    <3>2. exists(t)
      <4>1. CASE y = x
        BY <1>1, <3>1, <4>1 DEF Fits
      <4>2. CASE y # x
        <5>1. exists(y) /\ db'[y] = db[y]
          BY <1>1, <1>5, <2>2, <4>2, Ids
        <5> QED
          BY <1>0, <3>1, <5>1 DEF Linked
      <4> QED
        BY <4>1, <4>2
    <3>3. exists(t)'
      BY <1>5, <3>2, Ids
    <3> QED
      BY <3>1, <3>3 DEF exists
  <2> QED
    BY <2>1, <2>2 DEF Linked
<1>10. Dated'
  <2>1. ASSUME NEW y \in Test \cup Sched, offSince'[y] # NoTime PROVE isOff(db'[y])
    <3>1. isOff(db[y])
      BY <1>0, <2>1 DEF Dated
    <3>2. y # x
      BY <1>1, <3>1, Off
    <3> QED
      BY <1>1, <3>1, <3>2, Ids
  <2>2. ASSUME NEW s \in Sched, exists(s)' PROVE db'[s].next <= now + Interval
    <3>1. CASE s = x
      BY <1>1, <3>1 DEF Fits
    <3>2. CASE s # x
      BY <1>0, <1>1, <1>5, <2>2, <3>2, Ids DEF Dated
    <3> QED
      BY <3>1, <3>2
  <2> QED
    BY <2>1, <2>2 DEF Dated
<1> QED
  BY <1>1, <1>5, <1>6, <1>7, <1>8, <1>9, <1>10 DEF RowsInv

-----------------------------------------------------------------------------
(* Each action keeps the invariant                                         *)

\* The clock passes no deadline.
LEMMA TickKeeps ==
    ASSUME CatalogInv, Tick
    PROVE  CatalogInv'
<1>0. /\ Tables /\ Actors /\ (\A x \in Id : Owned(x)) /\ Linked /\ Dated
      /\ (\A q \in Req : Checked(q)) /\ (\A p \in Replica : Claimed(p)) /\ OneLoop
      /\ (\A r \in Run : Launched(r)) /\ FiredOnce
  BY DEF CatalogInv
<1>1. /\ now' = now + 1 /\ now \in Nat /\ Timeout \in Nat /\ Interval \in Nat
      /\ UNCHANGED <<users, db, req, rep, creator, offSince>>
      /\ \A q \in Req : req[q] # Idle => now < req[q].until
      /\ \A p \in Replica : rep[p] # Idle => now < rep[p].until
  BY <1>0, TimesAssumption DEF Tick, Actors
<1>a. \A n, u, k \in Nat : u <= n + k => u <= (n + 1) + k
  OBVIOUS
<1>b. \A n, u \in Nat : (n < u => n + 1 <= u) /\ (u <= n => u <= n + 1)
  OBVIOUS
<1>c. now \in Nat /\ Timeout \in Nat /\ Interval \in Nat
  BY <1>1
<1>2. Tables' /\ Actors' /\ (\A x \in Id : Owned(x)') /\ Linked' /\ OneLoop' /\ FiredOnce'
  <2>1. Tables' /\ Actors'
    BY <1>0, <1>1 DEF Tables, Actors
  <2>2. \A x \in Id : Owned(x)'
    BY <1>0, <1>1 DEF Owned, Rightful, exists
  <2>3. Linked'
    BY <1>0, <1>1 DEF Linked, exists
  <2>4. OneLoop'
    BY <1>0, <1>1 DEF OneLoop, Fires
  <2>5. FiredOnce'
    BY <1>0, <1>1 DEF FiredOnce, exists
  <2> QED
    BY <2>1, <2>2, <2>3, <2>4, <2>5
<1>3. Dated'
  <2>1. \A s \in Sched : exists(s) => db[s].next \in Nat
    BY <1>0, Exists DEF SchedRow
  <2>2. \A s \in Sched : exists(s) => db[s].next <= (now + 1) + Interval
    <3>1. \A s \in Sched : exists(s) => db[s].next <= now + Interval
      BY <1>0 DEF Dated
    <3> QED
      BY <1>a, <1>c, <2>1, <3>1
  <2> QED
    BY <1>0, <1>1, <2>2 DEF Dated, exists
<1>4. ASSUME NEW q \in Req PROVE Checked(q)'
  <2> SUFFICES ASSUME req[q] # Idle PROVE Checked(q)'
    BY <1>1 DEF Checked
  <2>1. req[q].until \in Nat
    BY <1>0 DEF Actors, Handling
  <2>2. now + 1 <= req[q].until /\ req[q].until <= (now + 1) + Timeout
    <3>1. now < req[q].until /\ req[q].until <= now + Timeout
      BY <1>0, <1>1 DEF Checked
    <3> QED
      BY <1>a, <1>b, <1>c, <2>1, <3>1
  <2> QED
    BY <1>0, <1>1, <2>2 DEF Checked, exists, Decided
<1>5. ASSUME NEW p \in Replica PROVE Claimed(p)'
  <2>1. ASSUME rep[p] # Idle PROVE now + 1 <= rep[p].until /\ rep[p].until <= (now + 1) + Timeout
    <3>1. rep[p].until \in Nat
      BY <1>0, <2>1 DEF Actors, Firing, Recording
    <3>2. now < rep[p].until /\ rep[p].until <= now + Timeout
      BY <1>0, <1>1, <2>1 DEF Claimed
    <3> QED
      BY <1>a, <1>b, <1>c, <3>1, <3>2
  <2> QED
    BY <1>0, <1>1, <2>1 DEF Claimed, Fires, exists, Decided, RunOf
<1>6. ASSUME NEW r \in Run PROVE Launched(r)'
  <2> SUFFICES ASSUME exists(r) PROVE Launched(r)'
    BY <1>1 DEF Launched, exists
  <2>1. db[r].at \in Nat
    BY <1>0, Exists DEF RunRow
  <2>2. db[r].at <= now + 1
    <3>1. db[r].at <= now
      BY <1>0 DEF Launched
    <3> QED
      BY <1>b, <1>c, <2>1, <3>1
  <2> QED
    BY <1>0, <1>1, <2>2 DEF Launched, exists, Decided
<1> QED
  BY <1>2, <1>3, <1>4, <1>5, <1>6 DEF CatalogInv

\* A request ends, at its deadline.
LEMMA RequestEnds ==
    ASSUME CatalogInv, NEW q \in Req, req' = [req EXCEPT ![q] = Idle],
           UNCHANGED <<now, users, db, rep, creator, offSince>>
    PROVE  CatalogInv'
<1>1. Actors /\ OneLoop
  BY DEF CatalogInv
<1>2. Actors'
  BY <1>1 DEF Actors
<1>3. \A q2 \in Req : req'[q2] = req[q2] \/ Checked(q2)'
  BY <1>1 DEF Actors, Checked
<1>4. OneLoop'
  BY <1>1 DEF OneLoop, Fires
<1> QED
  BY <1>2, <1>3, <1>4, ActorStep

\* A scheduler loop stops: at its deadline, with its process, or once it is done.
LEMMA LoopEnds ==
    ASSUME CatalogInv, NEW p \in Replica, rep' = [rep EXCEPT ![p] = Idle],
           UNCHANGED <<now, users, db, req, creator, offSince>>
    PROVE  CatalogInv'
<1>1. Actors /\ OneLoop
  BY DEF CatalogInv
<1>2. Actors'
  BY <1>1 DEF Actors
<1>3. \A p2 \in Replica : rep'[p2] = IF p2 = p THEN Idle ELSE rep[p2]
  BY <1>1 DEF Actors
<1>4. \A p2 \in Replica : rep'[p2] = rep[p2] \/ Claimed(p2)'
  <2>1. Claimed(p)'
    BY <1>3, Kinds DEF Claimed, Fires
  <2> QED
    BY <1>3, <2>1
<1>5. OneLoop'
  BY <1>1, <1>3, Kinds, OneLoopKept DEF Fires
<1> QED
  BY <1>2, <1>4, <1>5, ActorStep

\* A request that read a row and was checked: the writer is an administrator or the
\* row's creator.
LEMMA ReadKeeps ==
    ASSUME CatalogInv, NEW q \in Req, NEW u \in User, NEW x \in Id, NEW op \in Writing,
           readOwned(q, u, x, op), x \in Run => op = "delete"
    PROVE  CatalogInv'
<1>0. Actors /\ OneLoop /\ Owned(x) /\ now \in Nat /\ Timeout \in Nat
  BY TimesAssumption DEF CatalogInv, Actors
<1> DEFINE c == [step |-> op, id |-> x, by |-> u, until |-> now + Timeout]
<1>1. /\ req' = [req EXCEPT ![q] = c] /\ exists(x) /\ canMutate(u, db[x].owner)
      /\ UNCHANGED <<now, users, db, rep, creator, offSince>>
  BY DEF readOwned, Clock
<1>2. u \in Admin \cup {creator[x]} /\ db[x] # None
  <2>1. u # None
    BY Ids
  <2> QED
    BY <1>0, <1>1, <2>1 DEF canMutate, Owned, exists
<1>3. /\ c \in Handling /\ c.step = op /\ c.id = x /\ c.by = u /\ c.until = now + Timeout
      /\ now <= now + Timeout /\ now + Timeout <= now + Timeout
      /\ op # "launch"
  <2>1. op \in Step /\ op # "launch"
    BY DEF Writing, Step
  <2> QED
    BY <1>0, <2>1 DEF Handling
<1> HIDE DEF c
<1>4. Actors'
  BY <1>0, <1>1, <1>3 DEF Actors
<1>5. \A q2 \in Req : req'[q2] = IF q2 = q THEN c ELSE req[q2]
  BY <1>0, <1>1 DEF Actors
<1>6. Checked(q)'
  BY <1>1, <1>2, <1>3, <1>5 DEF Checked
<1>7. OneLoop'
  BY <1>0, <1>1 DEF OneLoop, Fires
<1> QED
  BY <1>1, <1>4, <1>5, <1>6, <1>7, ActorStep

\* A launch that read a test that is not archived.
LEMMA LaunchReadKeeps ==
    ASSUME CatalogInv, NEW q \in Req, NEW u \in User, NEW t \in Test, LaunchRead(q, u, t)
    PROVE  CatalogInv'
<1>0. Tables /\ Actors /\ OneLoop /\ Dated /\ now \in Nat /\ Timeout \in Nat
  BY TimesAssumption DEF CatalogInv, Actors
<1> DEFINE c == [step |-> "launch", id |-> t, by |-> u, until |-> now + Timeout]
<1>1. /\ req' = [req EXCEPT ![q] = c] /\ exists(t) /\ ~db[t].archived
      /\ UNCHANGED <<now, users, db, rep, creator, offSince>>
  BY DEF LaunchRead, launchable, Clock
<1>2. offSince[t] = NoTime /\ db[t] # None
  BY <1>0, <1>1, Exists, Off, Kinds DEF Dated
<1>3. /\ c \in Handling /\ c.step = "launch" /\ c.id = t /\ c.by = u /\ c.until = now + Timeout
      /\ now <= now + Timeout /\ now + Timeout <= now + Timeout
  <2>1. t \in Id
    BY Ids
  <2>2. c \in Handling
    <3>1. now + Timeout \in Nat
      BY <1>0
    <3>2. "launch" \in Step
      BY DEF Step
    <3> QED
      BY <2>1, <3>1, <3>2, Zenon DEF Handling
  <2>3. c.step = "launch" /\ c.id = t /\ c.by = u /\ c.until = now + Timeout
    OBVIOUS
  <2>4. now <= now + Timeout /\ now + Timeout <= now + Timeout
    BY <1>0
  <2> QED
    BY <2>2, <2>3, <2>4
<1> HIDE DEF c
<1>4. Actors'
  BY <1>0, <1>1, <1>3 DEF Actors
<1>5. \A q2 \in Req : req'[q2] = IF q2 = q THEN c ELSE req[q2]
  BY <1>0, <1>1 DEF Actors
<1>6. Checked(q)'
  <2>1. t \notin Run
    BY Ids
  <2> QED
    BY <1>1, <1>2, <1>3, <1>5, <2>1 DEF Checked, exists, Decided
<1>7. OneLoop'
  BY <1>0, <1>1 DEF OneLoop, Fires
<1> QED
  BY <1>1, <1>4, <1>5, <1>6, <1>7, ActorStep

\* A scheduler loop reads the test of the schedule it claimed.
LEMMA FireReadKeeps ==
    ASSUME CatalogInv, NEW p \in Replica, FireRead(p)
    PROVE  CatalogInv'
<1>0. Tables /\ Actors /\ OneLoop /\ Dated /\ Claimed(p)
  BY DEF CatalogInv
<1>1. /\ rep[p].step = "read" /\ UNCHANGED <<now, users, db, req, creator, offSince>>
      /\ rep' = [rep EXCEPT ![p] = IF launchable(rep[p].test)
                                   THEN [rep[p] EXCEPT !.step = "create"] ELSE Idle]
  BY <1>0 DEF FireRead, Actors
<1>2. CASE ~launchable(rep[p].test)
  BY <1>1, <1>2, LoopEnds
<1>3. CASE launchable(rep[p].test)
  <2>1. PICK f \in Firing : f = rep[p]
    <3>1. rep[p] # Idle /\ rep[p] \notin Recording
      BY <1>1 DEF Idle, Recording
    <3> QED
      BY <1>0, <3>1 DEF Actors
  <2> DEFINE g == [f EXCEPT !.step = "create"]
  <2>2. /\ g \in Firing /\ g.step = "create" /\ g.sched = f.sched /\ g.test = f.test
        /\ g.until = f.until /\ f.test \in Test /\ f.sched \in Sched
    BY DEF Firing
  <2> HIDE DEF g
  <2>3. \A p2 \in Replica : rep'[p2] = IF p2 = p THEN g ELSE rep[p2]
    BY <1>0, <1>1, <1>3, <2>1 DEF Actors, g
  <2>4. offSince[f.test] = NoTime
    <3>1. db[f.test] \in TestRow /\ ~db[f.test].archived
      BY <1>0, <1>3, <2>1, <2>2, Exists DEF launchable
    <3> QED
      BY <1>0, <2>2, <3>1, Off DEF Dated
  <2>5. Actors'
    <3>1. rep' \in [Replica -> Firing \cup Recording \cup {Idle}]
      BY <1>0, <1>1, <1>3, <2>1, <2>2 DEF Actors, g
    <3> QED
      BY <1>0, <1>1, <3>1 DEF Actors
  <2>6. Claimed(p)'
    <3>1. Fires(p) /\ rep[p] # Idle /\ g # Idle
      BY <2>1, <2>2, Kinds DEF Fires
    <3>2. /\ now <= f.until /\ f.until <= now + Timeout /\ exists(f.test) /\ db[f.sched] # None
          /\ exists(f.sched) => f.until + Interval <= db[f.sched].next + Timeout
          /\ Decided(f.sched, f.until)
          /\ \A r \in Run : RunOf(r, f.sched) => db[r].at + Interval <= f.until
      BY <1>0, <2>1, <3>1 DEF Claimed
    <3>3. Decided(f.test, f.until)
      BY <2>4 DEF Decided
    <3> QED
      BY <1>1, <2>2, <2>3, <3>2, <3>3 DEF Claimed, exists, Decided, RunOf
  <2>7. OneLoop'
    <3>1. \A p2 \in Replica : Fires(p2)' => Fires(p2) /\ rep'[p2].sched = rep[p2].sched
      BY <2>1, <2>2, <2>3 DEF Fires
    <3> QED
      BY <1>0, <3>1, OneLoopKept
  <2>8. \A p2 \in Replica : rep'[p2] = rep[p2] \/ Claimed(p2)'
    BY <2>3, <2>6
  <2> QED
    BY <1>1, <2>5, <2>7, <2>8, ActorStep
<1> QED
  BY <1>2, <1>3

\* A test, an environment or a schedule is created.
LEMMA CreateKeeps ==
    ASSUME CatalogInv, NEW x \in Id, x \notin Run, NEW row, NEW u \in User,
           insert(x, row, u), Fits(x, row, u), UNCHANGED <<now, users, req, rep, offSince>>
    PROVE  CatalogInv'
<1>1. /\ req' \in [Req -> Handling \cup {Idle}]
      /\ rep' \in [Replica -> Firing \cup Recording \cup {Idle}]
      /\ OneLoop
  BY DEF CatalogInv, Actors
<1>2. Evolves /\ RowsInv' /\ \A r \in Run \ {x} : SameRun(r)
  BY <1>1, NewRow
<1>3. OneLoop'
  BY <1>1 DEF OneLoop, Fires
<1> QED
  BY <1>2, <1>3, StepKeeps

\* The three handlers that create one.
LEMMA CreationsKeep ==
    ASSUME CatalogInv,
           \/ \E u \in User, t \in Test : CreateTest(u, t)
           \/ \E u \in User, e \in Env : CreateEnvironment(u, e)
           \/ \E u \in User, s \in Sched, t \in Test : CreateSchedule(u, s, t)
    PROVE  CatalogInv'
<1>0. now \in Nat /\ Interval \in Nat /\ now <= now + Interval
  BY TimesAssumption DEF CatalogInv, Actors
<1>1. ASSUME NEW u \in User, NEW t \in Test, CreateTest(u, t) PROVE CatalogInv'
  <2>1. /\ testRow(u) \in TestRow /\ testRow(u).owner = u /\ testRow(u).by = u
        /\ testRow(u).base = None
    BY DEF testRow, TestRow, Part
  <2>2. Fits(t, testRow(u), u)
    BY <1>1, <2>1, Ids DEF Fits, CreateTest
  <2> QED
    BY <1>1, <2>2, Ids, CreateKeeps DEF CreateTest
<1>2. ASSUME NEW u \in User, NEW e \in Env, CreateEnvironment(u, e) PROVE CatalogInv'
  <2>1. environmentRow(u) \in EnvRow /\ environmentRow(u).owner = u /\ environmentRow(u).by = u
    BY DEF environmentRow, EnvRow
  <2>2. Fits(e, environmentRow(u), u)
    BY <1>2, <2>1, Ids DEF Fits, CreateEnvironment
  <2> QED
    BY <1>2, <2>2, Ids, CreateKeeps DEF CreateEnvironment
<1>3. ASSUME NEW u \in User, NEW s \in Sched, NEW t \in Test, CreateSchedule(u, s, t)
      PROVE CatalogInv'
  <2>1. /\ scheduleRow(u, t) \in SchedRow /\ scheduleRow(u, t).owner = u
        /\ scheduleRow(u, t).by = u /\ scheduleRow(u, t).test = t
        /\ scheduleRow(u, t).next = now
    BY <1>0 DEF scheduleRow, SchedRow, Part
  <2>2. Fits(s, scheduleRow(u, t), u)
    BY <1>0, <1>3, <2>1, Ids DEF Fits, CreateSchedule
  <2> QED
    BY <1>3, <2>2, Ids, CreateKeeps DEF CreateSchedule
<1> QED
  BY <1>1, <1>2, <1>3

\* Rows that a step leaves alone.
LEMMA Untouched ==
    ASSUME CatalogInv
    PROVE  /\ \A x \in Id : exists(x) => /\ db[x].owner \in users \cup {None}
                                         /\ x \notin Run => Rightful(x)
           /\ \A s \in Sched : exists(s) => /\ db[s].next <= db[s].next
                                            /\ db[s].next <= now + Interval
                                            /\ db[s].next \in Nat
           /\ \A t \in Test : exists(t) => db[t].base = None \/ exists(db[t].base)
           /\ \A t \in Test : exists(t) => db[t].base \in Run \cup {None}
           /\ \A x \in Test \cup Sched : offSince[x] # NoTime => isOff(db[x])
           /\ \A x \in Test \cup Sched : offSince[x] \in {NoTime, now, offSince[x]}
           /\ Tables /\ Actors /\ OneLoop
<1>1. Tables /\ Actors /\ (\A x \in Id : Owned(x)) /\ Linked /\ Dated /\ OneLoop
  BY DEF CatalogInv
<1>2. \A s \in Sched : exists(s) => db[s].next \in Nat
  BY <1>1, Exists DEF SchedRow
<1>3. \A n \in Nat : n <= n
  OBVIOUS
<1>4. \A t \in Test : exists(t) => db[t].base \in Run \cup {None}
  BY <1>1, Exists DEF TestRow
<1>5. \A s \in Sched : exists(s) => db[s].next <= db[s].next /\ db[s].next <= now + Interval
  BY <1>1, <1>2, <1>3 DEF Dated
<1>6. \A x \in Id : exists(x) => /\ db[x].owner \in users \cup {None}
                                 /\ x \notin Run => Rightful(x)
  BY <1>1 DEF Owned
<1> QED
  BY <1>1, <1>2, <1>4, <1>5, <1>6 DEF Linked, Dated

\* A write that is its creator's stays so while nobody writes the row again.
LEMMA StillRightful ==
    ASSUME CatalogInv, NEW x \in Id, x \notin Run, exists(x), creator' = creator,
           db'[x].by = db[x].by,
           x \in Test \cup Sched => db'[x].part = db[x].part,
           x \in Sched => db'[x].on = db[x].on /\ db'[x].test = db[x].test
    PROVE  Rightful(x)'
BY Untouched DEF Rightful

\* An account is deleted: its rows lose their owner.
LEMMA DeleteUserKeeps ==
    ASSUME CatalogInv, NEW u \in User, DeleteUser(u)
    PROVE  CatalogInv'
<1>1. /\ users' = users \ {u}
      /\ db' = [x \in Id |-> IF exists(x) /\ db[x].owner = u
                             THEN [db[x] EXCEPT !.owner = None] ELSE db[x]]
      /\ UNCHANGED <<now, req, rep, creator, offSince>>
  BY DEF DeleteUser
<1>2. Tables /\ Actors /\ OneLoop
  BY Untouched
<1> DEFINE orphan(x) == [db[x] EXCEPT !.owner = None]
<1>3. /\ \A t \in Test : exists(t) => orphan(t) \in TestRow
      /\ \A s \in Sched : exists(s) => orphan(s) \in SchedRow
      /\ \A e \in Env : exists(e) => orphan(e) \in EnvRow
      /\ \A r \in Run : exists(r) => orphan(r) \in RunRow
  <2>1. \A row \in TestRow : [row EXCEPT !.owner = None] \in TestRow
    BY DEF TestRow
  <2>2. \A row \in SchedRow : [row EXCEPT !.owner = None] \in SchedRow
    BY DEF SchedRow
  <2>3. \A row \in EnvRow : [row EXCEPT !.owner = None] \in EnvRow
    BY DEF EnvRow
  <2>4. \A row \in RunRow : [row EXCEPT !.owner = None] \in RunRow
    BY DEF RunRow
  <2> QED
    BY <1>2, <2>1, <2>2, <2>3, <2>4, Exists
<1>4. \A x \in Id :
        \/ db'[x] = db[x] /\ (exists(x) => db[x].owner # u)
        \/ exists(x) /\ db[x].owner = u /\ db'[x] = orphan(x)
  BY <1>1
<1>5. Tables'
  <2>1. /\ \A t \in Test : db'[t] \in TestRow \cup {None}
        /\ \A s \in Sched : db'[s] \in SchedRow \cup {None, Deleted}
        /\ \A e \in Env : db'[e] \in EnvRow \cup {None, Deleted}
        /\ \A r \in Run : db'[r] \in RunRow \cup {None, Deleted}
    <3> HIDE DEF orphan
    <3>0. /\ Test \subseteq Id /\ Sched \subseteq Id /\ Env \subseteq Id /\ Run \subseteq Id
          /\ \A x \in Id : db'[x] = db[x] \/ (exists(x) /\ db'[x] = orphan(x))
      BY <1>4, Ids
    <3>1. \A t \in Test : db'[t] \in TestRow \cup {None}
      BY <1>2, <1>3, <3>0 DEF Tables
    <3>2. \A s \in Sched : db'[s] \in SchedRow \cup {None, Deleted}
      BY <1>2, <1>3, <3>0 DEF Tables
    <3>3. \A e \in Env : db'[e] \in EnvRow \cup {None, Deleted}
      BY <1>2, <1>3, <3>0 DEF Tables
    <3>4. \A r \in Run : db'[r] \in RunRow \cup {None, Deleted}
      BY <1>2, <1>3, <3>0 DEF Tables
    <3> QED
      BY <3>1, <3>2, <3>3, <3>4
  <2>2. \A x \in Id : db'[x] \in AnyRow
    BY <2>1, Ids DEF AnyRow
  <2>3. db' \in [Id -> AnyRow]
    BY <1>1, <2>2
  <2> QED
    BY <2>1, <2>3 DEF Tables
<1>6. ASSUME NEW x \in Id, exists(x)
      PROVE  /\ db'[x].owner \in {db[x].owner, None}
             /\ db'[x].owner \in users' \cup {None}
             /\ db'[x].by = db[x].by
             /\ x \in Test \cup Sched => db'[x].part = db[x].part
             /\ x \in Test => db'[x].base = db[x].base /\ db'[x].archived = db[x].archived
             /\ x \in Sched => /\ db'[x].test = db[x].test /\ db'[x].next = db[x].next
                               /\ db'[x].on = db[x].on
             /\ x \in Run => /\ db'[x].test = db[x].test /\ db'[x].source = db[x].source
                             /\ db'[x].at = db[x].at
  <2>1. CASE db'[x] = db[x] /\ db[x].owner # u
    BY <1>1, <1>6, <2>1, Untouched
  <2>2. CASE db[x].owner = u /\ db'[x] = orphan(x)
    BY <1>2, <1>6, <2>2, Exists, Ids DEF TestRow, SchedRow, EnvRow, RunRow
  <2> QED
    BY <1>4, <1>6, <2>1, <2>2
<1>7. \A x \in Id : (exists(x)' <=> exists(x)) /\ (db[x] = None <=> db'[x] = None)
  <2>1. \A x \in Id : db'[x] = db[x] \/ (exists(x) /\ db'[x] \notin {None, Deleted})
    <3> HIDE DEF orphan
    <3> QED
      BY <1>3, <1>4, Ids, Kinds
  <2> QED
    BY <2>1 DEF exists
<1>8. ASSUME NEW x \in Test \cup Sched, offSince'[x] # NoTime PROVE isOff(db'[x])
  <2>1. isOff(db[x])
    BY <1>1, <1>8, Untouched
  <2>2. x \in Id
    BY Ids
  <2>3. CASE ~exists(x)
    BY <1>4, <2>1, <2>2, <2>3
  <2>4. CASE exists(x) /\ x \in Test
    <3>1. db[x] \in TestRow /\ db'[x] \in TestRow
      BY <1>2, <1>3, <1>4, <2>2, <2>4, Exists
    <3> QED
      BY <1>6, <2>1, <2>2, <2>4, <3>1, Off
  <2>5. CASE exists(x) /\ x \in Sched
    <3>1. db[x] \in SchedRow /\ db'[x] \in SchedRow
      BY <1>2, <1>3, <1>4, <2>2, <2>5, Exists
    <3> QED
      BY <1>6, <2>1, <2>2, <2>5, <3>1, Off
  <2> QED
    BY <2>3, <2>4, <2>5
<1>9. ASSUME NEW t \in Test, exists(t)
      PROVE  exists(t)' /\ (db'[t].base = None \/ exists(db[t].base)')
  <2>1. PICK b \in Run \cup {None} : b = db[t].base /\ (b = None \/ exists(b))
    BY <1>9, Untouched
  <2>2. b = None \/ exists(b)'
    BY <1>7, <2>1, Ids
  <2>3. db'[t].base = b
    BY <1>6, <1>9, <2>1, Ids
  <2> QED
    BY <1>7, <1>9, <2>2, <2>3, Ids DEF exists
<1>10. Descends
  <2>1. UNCHANGED <<now, creator>> /\ users' \subseteq users
    BY <1>1
  <2>2. \A x \in Id :
         /\ db[x] = None <=> db'[x] = None
         /\ exists(x)' =>
              /\ exists(x)
              /\ db'[x].owner \in {db[x].owner, None}
              /\ db'[x].owner \in users' \cup {None}
              /\ x \notin Run => Rightful(x)'
    BY <1>1, <1>6, <1>7, StillRightful
  <2>3. \A x \in Sched \cup Run : exists(x)' => db'[x].test = db[x].test
    BY <1>6, <1>7, Ids
  <2>4. \A s \in Sched :
         exists(s)' => db[s].next <= db'[s].next /\ db'[s].next <= now + Interval
    BY <1>6, <1>7, Ids, Untouched
  <2>5. \A r \in Run :
         exists(r)' => db'[r].source = db[r].source /\ db'[r].at = db[r].at
    BY <1>6, <1>7, Ids
  <2>6. \A x \in Test \cup Sched : offSince'[x] \in {NoTime, now, offSince[x]}
    BY <1>1
  <2> QED
    BY <1>8, <1>9, <2>1, <2>2, <2>3, <2>4, <2>5, <2>6 DEF Descends
<1>11. Actors' /\ OneLoop'
  BY <1>1, <1>2 DEF Actors, OneLoop, Fires
<1> QED
  BY <1>1, <1>5, <1>10, <1>11, RowStep

\* One row is changed, not in its owner, its switch or its references to others, but for
\* the baseline, which is anybody's.
Refits(x, row) ==
    /\ x \notin Env
    /\ x \in Test => /\ row \in TestRow /\ row.archived = db[x].archived
                     /\ row.base = None \/ exists(row.base)
    /\ x \in Sched => /\ row \in SchedRow /\ row.test = db[x].test /\ row.on = db[x].on
                      /\ db[x].next <= row.next /\ row.next <= now + Interval
    /\ x \in Run => /\ row \in RunRow /\ row.test = db[x].test
                    /\ row.source = db[x].source /\ row.at = db[x].at
    /\ row.owner = db[x].owner
    /\ x \notin Run => \/ x \in Test /\ row.part = "base"
                       \/ row.by = db[x].by /\ row.part = db[x].part

\* Such a change is one that creates nothing.
LEMMA OneRow ==
    ASSUME CatalogInv, NEW x \in Id, exists(x), NEW row, db' = [db EXCEPT ![x] = row],
           Refits(x, row), UNCHANGED <<now, users, creator, offSince>>
    PROVE  Descends /\ Tables'
<1>1. Tables /\ Actors
  BY Untouched
<1>2. \A y \in Id : db'[y] = IF y = x THEN row ELSE db[y]
  BY <1>1 DEF Tables
<1>3. row \in AnyRow /\ row # None /\ row # Deleted
  BY Ids, Kinds DEF Refits, AnyRow
<1>4. Tables'
  <2>1. db' \in [Id -> AnyRow]
    BY <1>1, <1>3 DEF Tables
  <2>2. /\ \A t \in Test : db'[t] \in TestRow \cup {None}
        /\ \A s \in Sched : db'[s] \in SchedRow \cup {None, Deleted}
        /\ \A e \in Env : db'[e] \in EnvRow \cup {None, Deleted}
        /\ \A r \in Run : db'[r] \in RunRow \cup {None, Deleted}
    BY <1>1, <1>2, Ids DEF Tables, Refits
  <2> QED
    BY <2>1, <2>2 DEF Tables
<1>5. \A y \in Id : (exists(y)' <=> exists(y)) /\ (db[y] = None <=> db'[y] = None)
  BY <1>2, <1>3 DEF exists
<1>6. \A y \in Id :
         /\ db[y] = None <=> db'[y] = None
         /\ exists(y)' =>
              /\ exists(y)
              /\ db'[y].owner \in {db[y].owner, None}
              /\ db'[y].owner \in users' \cup {None}
              /\ y \notin Run => Rightful(y)'
  <2>1. ASSUME NEW y \in Id, y \notin Run, exists(y) PROVE Rightful(y)'
    <3>1. CASE y = x /\ x \in Test /\ row.part = "base"
      BY <1>2, <3>1 DEF Rightful
    <3>2. CASE y # x \/ (row.by = db[x].by /\ (x \in Test \cup Sched => row.part = db[x].part))
      BY <1>2, <2>1, <3>2, StillRightful DEF Refits
    <3> QED
      BY <2>1, <3>1, <3>2 DEF Refits
  <2>2. ASSUME NEW y \in Id, exists(y) PROVE db'[y].owner = db[y].owner
    BY <1>2 DEF Refits
  <2>3. \A y \in Id : exists(y) => db[y].owner \in users \cup {None}
    BY Untouched
  <2> QED
    BY <1>5, <2>1, <2>2, <2>3
<1>7. ASSUME NEW t \in Test, exists(t)
      PROVE  exists(t)' /\ (db'[t].base = None \/ exists(db[t].base)')
  <2>1. PICK b \in Run \cup {None} : b = db'[t].base /\ (b = None \/ exists(b))
    <3>1. CASE t = x
      BY <1>2, <3>1, Ids DEF Refits, TestRow
    <3>2. CASE t # x
      <4>1. db'[t] = db[t]
        BY <1>2, <3>2, Ids
      <4>2. db[t].base \in Run \cup {None} /\ (db[t].base = None \/ exists(db[t].base))
        BY <1>7, Untouched
      <4> QED
        BY <4>1, <4>2
    <3> QED
      BY <3>1, <3>2
  <2>2. b = None \/ exists(b)'
    BY <1>5, <2>1, Ids
  <2> QED
    BY <1>5, <1>7, <2>1, <2>2, Ids DEF exists
<1>8. \A y \in Sched \cup Run : exists(y)' => db'[y].test = db[y].test
  BY <1>2, Ids DEF Refits
<1>9. ASSUME NEW s \in Sched, exists(s)'
      PROVE  db[s].next <= db'[s].next /\ db'[s].next <= now + Interval
  <2>1. CASE s = x
    BY <1>2, <2>1 DEF Refits
  <2>2. CASE s # x
    <3>1. exists(s) /\ db'[s] = db[s]
      BY <1>2, <1>5, <1>9, <2>2, Ids
    <3> QED
      BY <3>1, Untouched
  <2> QED
    BY <2>1, <2>2
<1>10. \A r \in Run : exists(r)' => db'[r].source = db[r].source /\ db'[r].at = db[r].at
  BY <1>2, Ids DEF Refits
<1>11. ASSUME NEW y \in Test \cup Sched
       PROVE  /\ offSince'[y] \in {NoTime, now, offSince[y]}
              /\ offSince'[y] # NoTime => isOff(db'[y])
  <2>1. offSince[y] # NoTime => isOff(db[y])
    BY Untouched
  <2>2. isOff(db[y]) => isOff(db'[y])
    <3>1. CASE y = x /\ y \in Test
      <4>1. db[x] \in TestRow /\ row \in TestRow /\ row.archived = db[x].archived /\ db'[x] = row
        BY <1>1, <1>2, <3>1, Exists DEF Refits
      <4> QED
        BY <3>1, <4>1, Off
    <3>2. CASE y = x /\ y \in Sched
      <4>1. db[x] \in SchedRow /\ row \in SchedRow /\ row.on = db[x].on /\ db'[x] = row
        BY <1>1, <1>2, <3>2, Exists DEF Refits
      <4> QED
        BY <3>2, <4>1, Off
    <3>3. CASE y # x
      BY <1>2, <3>3, Ids
    <3> QED
      BY <3>1, <3>2, <3>3
  <2> QED
    BY <2>1, <2>2
<1> QED
  BY <1>4, <1>6, <1>7, <1>8, <1>9, <1>10, <1>11 DEF Descends

\* A baseline is set, or a run ends.
LEMMA BaselineAndEndKeep ==
    ASSUME CatalogInv,
           \/ \E u \in User, t \in Test, r \in Run \cup {None} : SetBaseline(u, t, r)
           \/ \E r \in Run : RunEnds(r)
    PROVE  CatalogInv'
<1>0. Tables /\ Actors /\ OneLoop
  BY Untouched
<1>1. ASSUME NEW x \in Id, exists(x), NEW row, db' = [db EXCEPT ![x] = row], Refits(x, row),
             UNCHANGED <<now, users, creator, offSince, req, rep>>
      PROVE  CatalogInv'
  <2>1. Descends /\ Tables'
    BY <1>1, OneRow
  <2>2. Actors' /\ OneLoop'
    BY <1>0, <1>1 DEF Actors, OneLoop, Fires
  <2> QED
    BY <1>1, <2>1, <2>2, RowStep
<1>2. ASSUME NEW u \in User, NEW t \in Test, NEW r \in Run \cup {None}, SetBaseline(u, t, r)
      PROVE  CatalogInv'
  <2> DEFINE row == [db[t] EXCEPT !.base = r, !.by = u, !.part = "base"]
  <2>1. /\ exists(t) /\ (r # None => exists(r))
        /\ db' = [db EXCEPT ![t] = row]
        /\ UNCHANGED <<now, users, req, rep, creator, offSince>>
    BY <1>2 DEF SetBaseline
  <2>2. db[t] \in TestRow
    BY <1>0, <2>1, Exists
  <2>3. /\ row \in TestRow /\ row.archived = db[t].archived /\ row.base = r
        /\ row.owner = db[t].owner /\ row.part = "base"
    BY <2>2 DEF TestRow, Part
  <2> HIDE DEF row
  <2>4. Refits(t, row)
    BY <2>1, <2>3, Ids DEF Refits
  <2>5. db' = [db EXCEPT ![t] = row] /\ t \in Id
    BY <2>1, Ids
  <2> QED
    BY <1>1, <2>1, <2>4, <2>5
<1>3. ASSUME NEW r \in Run, RunEnds(r) PROVE CatalogInv'
  <2>1. /\ exists(r) /\ db' = [db EXCEPT ![r] = [db[r] EXCEPT !.status = "completed"]]
        /\ UNCHANGED <<now, users, req, rep, creator, offSince>>
    BY <1>3 DEF RunEnds
  <2> DEFINE row == [db[r] EXCEPT !.status = "completed"]
  <2>2. db[r] \in RunRow
    BY <1>0, <2>1, Exists
  <2>3. /\ row \in RunRow /\ row.test = db[r].test /\ row.source = db[r].source
        /\ row.at = db[r].at /\ row.owner = db[r].owner
    BY <2>2 DEF RunRow
  <2> HIDE DEF row
  <2>4. Refits(r, row)
    BY <2>1, <2>3, Ids DEF Refits
  <2>5. db' = [db EXCEPT ![r] = row] /\ r \in Id
    BY <2>1, Ids DEF row
  <2> QED
    BY <1>1, <2>1, <2>4, <2>5
<1> QED
  BY <1>2, <1>3

\* A due schedule is claimed and moved on: the replica that claims it is the only one
\* that fires it, and the runs before it were created an interval ago.
LEMMA ClaimKeeps ==
    ASSUME CatalogInv, NEW p \in Replica, NEW s \in Sched, Claim(p, s)
    PROVE  CatalogInv'
<1>0. /\ Tables /\ Actors /\ OneLoop /\ Dated /\ Linked /\ now \in Nat
      /\ Timeout \in Nat /\ Interval \in Nat /\ Timeout < Interval
      /\ (\A p2 \in Replica : Claimed(p2)) /\ (\A r \in Run : Launched(r))
  BY TimesAssumption DEF CatalogInv, Actors
<1> DEFINE row == [db[s] EXCEPT !.next = now + Interval]
<1> DEFINE f == [step |-> "read", sched |-> s, test |-> db[s].test, until |-> now + Timeout]
<1>1. /\ rep[p] = Idle /\ exists(s) /\ db[s].on /\ db[s].next <= now
      /\ db' = [db EXCEPT ![s] = row] /\ rep' = [rep EXCEPT ![p] = f]
      /\ UNCHANGED <<now, users, req, creator, offSince>>
  BY DEF Claim, due, claimed, Clock
<1>2. db[s] \in SchedRow /\ db[s].next \in Nat /\ db[s].test \in Test /\ exists(db[s].test)
  <2>1. db[s] \in SchedRow
    BY <1>0, <1>1, Exists
  <2> QED
    BY <1>0, <1>1, <2>1 DEF Linked, SchedRow
<1>3. /\ row \in SchedRow /\ row.test = db[s].test /\ row.on = db[s].on
      /\ row.next = now + Interval /\ row.owner = db[s].owner /\ row.by = db[s].by
      /\ row.part = db[s].part
  BY <1>0, <1>2 DEF SchedRow
<1>4. db[s].next <= now + Interval /\ now + Interval <= now + Interval
  BY <1>0, <1>1, <1>2
<1>5. /\ f \in Firing /\ f.step = "read" /\ f.sched = s /\ f.test = db[s].test
      /\ f.until = now + Timeout
  BY <1>0, <1>2 DEF Firing
<1> HIDE DEF row, f
<1>6. Refits(s, row)
  BY <1>3, <1>4, Ids DEF Refits
<1>7. Descends /\ Tables'
  BY <1>1, <1>6, Ids, OneRow
<1>8. \A y \in Id : db'[y] = IF y = s THEN row ELSE db[y]
  BY <1>0, <1>1 DEF Tables
<1>9. \A p2 \in Replica : rep'[p2] = IF p2 = p THEN f ELSE rep[p2]
  BY <1>0, <1>1 DEF Actors
<1>10. Actors'
  <2>1. rep' \in [Replica -> Firing \cup Recording \cup {Idle}]
    BY <1>0, <1>1, <1>5 DEF Actors
  <2> QED
    BY <1>0, <1>1, <2>1 DEF Actors
<1>11. OneLoop'
  <2>1. ASSUME NEW p2 \in Replica, Fires(p2), rep[p2].sched = s PROVE FALSE
    <3>1. rep[p2] # Idle /\ rep[p2].until \in Nat
      BY <2>1, Kinds DEF Fires, Firing
    <3>2. now <= rep[p2].until /\ rep[p2].until + Interval <= db[s].next + Timeout
      BY <1>0, <1>1, <2>1, <3>1 DEF Claimed
    <3> QED
      BY <1>0, <1>1, <1>2, <3>1, <3>2
  <2>2. \A p2 \in Replica : p2 # p => (Fires(p2)' <=> Fires(p2)) /\ rep'[p2] = rep[p2]
    BY <1>9 DEF Fires
  <2>3. rep'[p].sched = s
    BY <1>5, <1>9
  <2> QED
    BY <1>0, <2>1, <2>2, <2>3 DEF OneLoop
<1>12. Claimed(p)'
  <2>1. exists(db[s].test)' /\ db'[s] # None
    <3>1. PICK t \in Test : t = db[s].test
      BY <1>2
    <3>2. exists(t)'
      BY <1>2, <1>7, <3>1 DEF Descends
    <3>3. db'[s].test = t
      BY <1>3, <1>8, <3>1, Ids
    <3> QED
      BY <1>3, <1>8, <3>2, <3>3, Kinds, Ids DEF exists
  <2>2. now <= now + Timeout /\ now + Timeout <= now + Timeout
        /\ (now + Timeout) + Interval <= (now + Interval) + Timeout
    BY <1>0
  <2>3. offSince'[s] = NoTime
    BY <1>0, <1>1, <1>2, Off DEF Dated
  <2>4. ASSUME NEW r \in Run, RunOf(r, s)' PROVE db'[r].at + Interval <= now + Timeout
    <3>1. exists(r) /\ db'[r] = db[r] /\ db[r].source = s
      BY <1>8, <2>4, Ids DEF RunOf, exists
    <3>2. db[r].at \in Nat
      BY <1>0, <3>1, Exists DEF RunRow
    <3>3. db[r].at + Interval <= db[s].next + Timeout
      BY <1>0, <1>1, <3>1, Ids DEF Launched
    <3> QED
      BY <1>0, <1>1, <1>2, <3>1, <3>2, <3>3
  <2>5. rep'[p] = f /\ db'[s].next = now + Interval /\ db'[s].test = db[s].test
    BY <1>3, <1>8, <1>9, Ids
  <2>6. now' = now
    BY <1>1
  <2>7. exists(f.test)'
    <3>1. f.test = db'[s].test
      BY <1>5, <2>5
    <3> QED
      BY <2>1, <3>1 DEF exists, f
  <2> QED
    BY <1>5, <2>1, <2>2, <2>3, <2>4, <2>5, <2>6, <2>7 DEF Claimed, Decided
<1> QED
  BY <1>1, <1>7, <1>9, <1>10, <1>11, <1>12, RowStep

\* An edited row is one of its table, with another writer.
LEMMA Edited ==
    ASSUME NEW u \in User
    PROVE  /\ \A row \in TestRow :
                /\ edited(row, u) \in TestRow /\ edited(row, u).owner = row.owner
                /\ edited(row, u).base = row.base /\ edited(row, u).by = u
                /\ edited(row, u).archived = row.archived
           /\ \A row \in SchedRow :
                /\ edited(row, u) \in SchedRow /\ edited(row, u).owner = row.owner
                /\ edited(row, u).test = row.test /\ edited(row, u).by = u
                /\ edited(row, u).next = row.next
BY DEF edited, TestRow, SchedRow, Part

\* What a write makes of a row.
LEMMA WrittenRow ==
    ASSUME CatalogInv, NEW x \in Id, exists(x), NEW op, NEW u \in User
    PROVE  /\ x \in Test => LET w == written(db[x], op, x, u)
                            IN  /\ w \in TestRow /\ w.owner = db[x].owner /\ w.base = db[x].base
                                /\ w.by = u \/ w = db[x]
                                /\ db[x].archived => w.archived
           /\ x \in Sched => LET w == written(db[x], op, x, u)
                             IN  \/ w = Deleted
                                 \/ /\ w \in SchedRow /\ w.owner = db[x].owner
                                    /\ w.test = db[x].test /\ w.by = u
                                    /\ w.next \in {db[x].next, now + Interval}
           /\ x \in Env => LET w == written(db[x], op, x, u)
                           IN  \/ w = Deleted
                               \/ w \in EnvRow /\ w.owner = db[x].owner /\ w.by = u
           /\ x \in Run => written(db[x], op, x, u) = Deleted
<1>0. Tables /\ now \in Nat /\ Interval \in Nat
  BY TimesAssumption, Untouched DEF Actors
<1>1. ASSUME x \in Test
      PROVE  LET w == written(db[x], op, x, u)
             IN  /\ w \in TestRow /\ w.owner = db[x].owner /\ w.base = db[x].base
                 /\ (w.by = u \/ w = db[x]) /\ (db[x].archived => w.archived)
  <2>1. PICK row \in TestRow : row = db[x]
    BY <1>0, <1>1, Exists
  <2>2. written(db[x], op, x, u) = writtenTest(row, op, u)
    BY <1>1, <2>1, Ids DEF written
  <2>3. CASE op = "archive"
    <3>1. writtenTest(row, op, u) = [edited(row, u) EXCEPT !.archived = TRUE]
      BY <2>3 DEF writtenTest
    <3>2. PICK e \in TestRow : e = edited(row, u)
      BY Edited
    <3>3. LET w == [e EXCEPT !.archived = TRUE]
          IN  /\ w \in TestRow /\ w.owner = e.owner /\ w.base = e.base /\ w.by = e.by
              /\ w.archived
      BY DEF TestRow
    <3>4. e.owner = row.owner /\ e.base = row.base /\ e.by = u
      BY <3>2, Edited
    <3> QED
      BY <2>1, <2>2, <3>1, <3>2, <3>3, <3>4
  <2>4. CASE op # "archive" /\ row.archived
    <3>1. writtenTest(row, op, u) = row
      BY <2>4 DEF writtenTest
    <3> QED
      BY <2>1, <2>2, <3>1 DEF TestRow
  <2>5. CASE op # "archive" /\ ~row.archived
    <3>1. writtenTest(row, op, u) = edited(row, u)
      BY <2>5 DEF writtenTest
    <3>2. PICK e \in TestRow : e = edited(row, u)
      BY Edited
    <3> QED
      BY <2>1, <2>2, <2>5, <3>1, <3>2, Edited DEF TestRow
  <2> QED
    BY <2>3, <2>4, <2>5
<1>2. ASSUME x \in Sched
      PROVE  LET w == written(db[x], op, x, u)
             IN  \/ w = Deleted
                 \/ /\ w \in SchedRow /\ w.owner = db[x].owner
                    /\ w.test = db[x].test /\ w.by = u
                    /\ w.next \in {db[x].next, now + Interval}
  <2>1. PICK row \in SchedRow : row = db[x]
    BY <1>0, <1>2, Exists
  <2>2. written(db[x], op, x, u) = writtenSchedule(row, op, u)
    BY <1>2, <2>1, Ids DEF written
  <2>3. CASE op = "update"
    <3>1. writtenSchedule(row, op, u) = [edited(row, u) EXCEPT !.next = now + Interval]
      BY <2>3 DEF writtenSchedule
    <3>2. PICK n \in Nat : n = now + Interval
      BY <1>0
    <3>3. LET w == [edited(row, u) EXCEPT !.next = n]
          IN  /\ w \in SchedRow /\ w.owner = row.owner /\ w.test = row.test /\ w.by = u
              /\ w.next = n
      BY DEF SchedRow, edited, Part
    <3> QED
      BY <2>1, <2>2, <3>1, <3>2, <3>3
  <2>4. CASE op = "delete"
    BY <2>2, <2>4 DEF writtenSchedule
  <2>5. CASE op # "update" /\ op # "delete"
    <3>1. writtenSchedule(row, op, u) = [edited(row, u) EXCEPT !.on = (op = "enable")]
      BY <2>5 DEF writtenSchedule
    <3>2. (op = "enable") \in BOOLEAN
      OBVIOUS
    <3>3. PICK e \in SchedRow : e = edited(row, u)
      BY Edited
    <3>4. LET w == [e EXCEPT !.on = (op = "enable")]
          IN  /\ w \in SchedRow /\ w.owner = e.owner /\ w.test = e.test /\ w.by = e.by
              /\ w.next = e.next
      BY <3>2 DEF SchedRow
    <3>5. e.owner = row.owner /\ e.test = row.test /\ e.by = u /\ e.next = row.next
      BY <3>3, Edited
    <3> QED
      BY <2>1, <2>2, <3>1, <3>3, <3>4, <3>5
  <2> QED
    BY <2>3, <2>4, <2>5
<1>3. ASSUME x \in Env
      PROVE  LET w == written(db[x], op, x, u)
             IN  w = Deleted \/ (w \in EnvRow /\ w.owner = db[x].owner /\ w.by = u)
  <2>1. PICK row \in EnvRow : row = db[x]
    BY <1>0, <1>3, Exists
  <2>2. written(db[x], op, x, u) = writtenEnvironment(row, op, u)
    BY <1>3, <2>1, Ids DEF written
  <2>3. CASE op = "delete"
    BY <2>2, <2>3 DEF writtenEnvironment
  <2>4. CASE op # "delete"
    <3>1. writtenEnvironment(row, op, u) = [row EXCEPT !.by = u]
      BY <2>4 DEF writtenEnvironment
    <3> QED
      BY <2>1, <2>2, <3>1 DEF EnvRow
  <2> QED
    BY <2>3, <2>4
<1>4. ASSUME x \in Run PROVE written(db[x], op, x, u) = Deleted
  BY <1>4, Ids DEF written
<1> QED
  BY <1>1, <1>2, <1>3, <1>4

\* A write: of a row that still exists, by whoever was checked; a deleted run is taken
\* from the tests whose baseline it was.
LEMMA WriteKeeps ==
    ASSUME CatalogInv, NEW q \in Req, Write(q)
    PROVE  CatalogInv'
<1>0. /\ Tables /\ Actors /\ OneLoop /\ now \in Nat /\ Interval \in Nat /\ Checked(q)
      /\ (\A x \in Id : Owned(x)) /\ Linked /\ Dated
  BY TimesAssumption, Untouched DEF CatalogInv, Actors
<1>1. PICK c \in Handling : c = req[q]
  <2>1. req[q] # Idle
    BY DEF Write, Idle
  <2> QED
    BY <1>0, <2>1 DEF Actors
<1>2. /\ c.step \in Writing /\ c.id \in Id /\ c.by \in User /\ c.until \in Nat
      /\ req' = [req EXCEPT ![q] = IF c.step = "archive"
                                   THEN [c EXCEPT !.step = "unschedule"] ELSE Idle]
      /\ noteOff
      /\ UNCHANGED <<now, users, rep, creator>>
  BY <1>0, <1>1 DEF Write, Writing, Handling, Actors
<1> DEFINE x == c.id
<1> DEFINE op == c.step
<1> DEFINE w == written(db[x], op, x, c.by)
<1>3. /\ now <= c.until /\ c.until <= now + Timeout /\ db[x] # None
      /\ c.by \in Admin \cup {creator[x]}
      /\ x \in Run => op = "delete"
  <2>1. c.step # "launch" /\ req[q] # Idle
    BY <1>1, <1>2, Kinds DEF Writing
  <2> QED
    BY <1>0, <1>1, <2>1 DEF Checked
<1>4. db' = IF ~exists(x) THEN db
            ELSE [y \in Id |->
                    IF y = x THEN w
                    ELSE IF /\ y \in Test /\ exists(y)
                            /\ op = "delete" /\ db[y].base = x
                    THEN [db[y] EXCEPT !.base = None]
                    ELSE db[y]]
  BY <1>1 DEF Write
<1> HIDE DEF w
<1>5. \A y \in Id :
        \/ db'[y] = db[y] /\ (exists(x) => y # x)
        \/ y = x /\ exists(x) /\ db'[y] = w
        \/ y \in Test /\ exists(y) /\ db[y].base = x /\ db'[y] = [db[y] EXCEPT !.base = None]
  BY <1>4
<1>6. ASSUME exists(x)
      PROVE  /\ x \in Test => /\ w \in TestRow /\ w.owner = db[x].owner /\ w.base = db[x].base
                              /\ (w.by = c.by \/ w = db[x]) /\ (db[x].archived => w.archived)
             /\ x \in Sched => \/ w = Deleted
                               \/ /\ w \in SchedRow /\ w.owner = db[x].owner
                                  /\ w.test = db[x].test /\ w.by = c.by
                                  /\ w.next \in {db[x].next, now + Interval}
             /\ x \in Env => w = Deleted \/ (w \in EnvRow /\ w.owner = db[x].owner /\ w.by = c.by)
             /\ x \in Run => w = Deleted
  BY <1>2, <1>6, WrittenRow DEF w
<1>7. \A y \in Test : exists(y) =>
        LET v == [db[y] EXCEPT !.base = None]
        IN  /\ v \in TestRow /\ v.owner = db[y].owner /\ v.by = db[y].by
            /\ v.part = db[y].part
            /\ v.archived = db[y].archived /\ v.base = None
  <2>1. \A row \in TestRow :
          LET v == [row EXCEPT !.base = None]
          IN  /\ v \in TestRow /\ v.owner = row.owner /\ v.by = row.by
              /\ v.part = row.part
              /\ v.archived = row.archived /\ v.base = None
    BY DEF TestRow
  <2> QED
    BY <1>0, <2>1, Exists
<1>8. ASSUME NEW t \in Test
      PROVE  \/ db'[t] = None /\ db[t] = None
             \/ /\ exists(t) /\ db'[t] \in TestRow /\ db'[t].owner = db[t].owner
                /\ Rightful(t)'
                /\ db[t].archived => db'[t].archived
                /\ db'[t].base \in {None, db[t].base}
                /\ x \in Run /\ exists(x) => db'[t].base # x
  <2>0. db[t] = None \/ (exists(t) /\ db[t] \in TestRow)
    BY <1>0, Exists DEF Tables, exists
  <2>1. exists(t) /\ db'[t].by = db[t].by /\ db'[t].part = db[t].part => Rightful(t)'
    BY <1>2, Ids, StillRightful
  <2>2. CASE db'[t] = db[t] /\ (exists(x) => t # x)
    <3>1. exists(t) /\ exists(x) /\ x \in Run => db[t].base # x
      <4> SUFFICES ASSUME exists(t), exists(x), x \in Run, db[t].base = x PROVE FALSE
        OBVIOUS
      <4>1. t # x /\ op = "delete"
        BY <1>3, Ids
      <4>2. db'[t] = [db[t] EXCEPT !.base = None]
        BY <1>4, <4>1, Ids
      <4>3. db'[t].base = None
        BY <1>7, <4>2
      <4> QED
        BY <2>2, <4>3, Ids
    <3> QED
      BY <2>0, <2>1, <2>2, <3>1
  <2>3. CASE t = x /\ exists(x) /\ db'[t] = w
    <3>1. db'[t].by = c.by \/ db'[t] = db[t]
      BY <1>6, <2>3
    <3>2. Rightful(t)'
      BY <1>2, <1>3, <2>1, <2>3, <3>1 DEF Rightful
    <3> QED
      BY <1>6, <2>3, <3>2, Ids
  <2>4. CASE exists(t) /\ db[t].base = x /\ db'[t] = [db[t] EXCEPT !.base = None]
    BY <1>7, <2>1, <2>4, Ids
  <2> QED
    BY <1>5, <2>2, <2>3, <2>4, Ids
<1>9. ASSUME NEW y \in Id, y \notin Test
      PROVE  \/ db'[y] = db[y]
             \/ y = x /\ exists(x) /\ db'[y] = w
  BY <1>5, <1>9
<1>10. Tables'
  <2>1. /\ \A t \in Test : db'[t] \in TestRow \cup {None}
        /\ \A s \in Sched : db'[s] \in SchedRow \cup {None, Deleted}
        /\ \A e \in Env : db'[e] \in EnvRow \cup {None, Deleted}
        /\ \A r \in Run : db'[r] \in RunRow \cup {None, Deleted}
    <3>1. \A t \in Test : db'[t] \in TestRow \cup {None}
      BY <1>8
    <3>2. \A s \in Sched : db'[s] \in SchedRow \cup {None, Deleted}
      BY <1>0, <1>6, <1>9, Ids DEF Tables
    <3>3. \A e \in Env : db'[e] \in EnvRow \cup {None, Deleted}
      BY <1>0, <1>6, <1>9, Ids DEF Tables
    <3>4. \A r \in Run : db'[r] \in RunRow \cup {None, Deleted}
      BY <1>0, <1>6, <1>9, Ids DEF Tables
    <3> QED
      BY <3>1, <3>2, <3>3, <3>4
  <2>2. \A y \in Id : db'[y] \in AnyRow
    BY <2>1, Ids DEF AnyRow
  <2>3. db' \in [Id -> AnyRow]
    <3>1. db' = [y \in Id |-> db'[y]]
      BY <1>0, <1>4 DEF Tables
    <3> QED
      BY <2>2, <3>1
  <2> QED
    BY <2>1, <2>3 DEF Tables
<1>11. ASSUME NEW y \in Id
       PROVE  /\ db[y] = None <=> db'[y] = None
              /\ exists(y)' =>
                   /\ exists(y)
                   /\ db'[y].owner \in {db[y].owner, None}
                   /\ db'[y].owner \in users' \cup {None}
                   /\ y \notin Run => Rightful(y)'
  <2>1. CASE y \in Test
    <3>1. exists(y) => db[y].owner \in users \cup {None}
      BY Untouched
    <3> QED
      BY <1>2, <1>8, <2>1, <3>1, Kinds, Ids DEF exists
  <2>2. CASE y \notin Test /\ db'[y] = db[y]
    <3>1. exists(y) /\ y \notin Run => Rightful(y)'
      BY <1>2, <2>2, StillRightful
    <3> QED
      BY <1>2, <2>2, <3>1, Untouched DEF exists
  <2>3. CASE y \notin Test /\ y = x /\ exists(x) /\ db'[y] = w
    <3>1. db[x].owner \in users \cup {None}
      BY <2>3, Untouched
    <3>2. w = Deleted \/ (w # None /\ w # Deleted /\ w.owner = db[x].owner /\ x \notin Run /\ w.by = c.by)
      BY <1>6, <2>3, Kinds, Ids
    <3>3. w # Deleted => Rightful(y)'
      BY <1>2, <1>3, <2>3, <3>2 DEF Rightful
    <3> QED
      BY <1>2, <2>3, <3>1, <3>2, <3>3, Kinds DEF exists
  <2> QED
    BY <1>9, <2>1, <2>2, <2>3
<1>12. ASSUME NEW t \in Test, exists(t)
       PROVE  exists(t)' /\ (db'[t].base = None \/ exists(db[t].base)')
  <2>1. /\ db'[t] \in TestRow /\ db'[t].base \in {None, db[t].base}
        /\ x \in Run /\ exists(x) => db'[t].base # x
    BY <1>8, <1>12 DEF exists
  <2>2. exists(t)'
    BY <2>1, Kinds DEF exists
  <2>3. PICK b \in Run \cup {None} : b = db'[t].base
    BY <2>1 DEF TestRow
  <2>4. ASSUME b # None PROVE exists(b)'
    <3>1. b \in Run /\ b = db[t].base /\ exists(b) /\ b \in Id /\ b \notin Test
      BY <1>12, <2>1, <2>3, <2>4, Untouched, Ids
    <3>2. b # x
      BY <2>1, <2>3, <3>1
    <3> QED
      BY <1>9, <3>1, <3>2 DEF exists
  <2> QED
    BY <2>2, <2>3, <2>4 DEF exists
<1>13. ASSUME NEW s \in Sched, exists(s)'
       PROVE  /\ db'[s].test = db[s].test
              /\ db[s].next <= db'[s].next /\ db'[s].next <= now + Interval
  <2>1. CASE db'[s] = db[s]
    BY <1>13, <2>1, Untouched DEF exists
  <2>2. CASE s = x /\ exists(x) /\ db'[s] = w
    <3>1. w # Deleted
      BY <1>13, <2>2 DEF exists
    <3>2. /\ w.test = db[x].test /\ w.next \in {db[x].next, now + Interval}
      BY <1>6, <2>2, <3>1
    <3>3. db[s].next <= db[s].next /\ db[s].next <= now + Interval
      BY <2>2, Untouched
    <3>4. now + Interval <= now + Interval
      BY <1>0
    <3> QED
      BY <2>2, <3>2, <3>3, <3>4
  <2> QED
    BY <1>9, <2>1, <2>2, Ids
<1>14. ASSUME NEW r \in Run, exists(r)' PROVE db'[r] = db[r]
  BY <1>6, <1>9, <1>14, Ids DEF exists
<1>15. ASSUME NEW y \in Test \cup Sched
       PROVE  /\ offSince'[y] \in {NoTime, now, offSince[y]}
              /\ offSince'[y] # NoTime => isOff(db'[y])
  BY <1>2 DEF noteOff
<1>16. Descends
  BY <1>2, <1>11, <1>12, <1>13, <1>14, <1>15 DEF Descends
<1> DEFINE d == [c EXCEPT !.step = "unschedule"]
<1>17. /\ d \in Handling /\ d.id = c.id /\ d.by = c.by /\ d.until = c.until /\ d.step = "unschedule"
  BY DEF Handling, Step
<1> HIDE DEF d
<1>18. Actors'
  <2>1. req' \in [Req -> Handling \cup {Idle}]
    BY <1>0, <1>2, <1>17 DEF Actors, d
  <2>2. offSince' \in [Test \cup Sched -> Nat]
    BY <1>0, <1>2 DEF noteOff, Actors, NoTime
  <2> QED
    BY <1>0, <1>2, <2>1, <2>2 DEF Actors
<1>19. Checked(q)'
  <2>1. req'[q] = Idle \/ (req'[q] = d /\ c.step = "archive")
    BY <1>0, <1>2 DEF Actors, d
  <2>2. CASE req'[q] = Idle
    BY <2>2 DEF Checked
  <2>3. CASE req'[q] = d /\ c.step = "archive"
    <3>1. x \notin Run /\ db'[x] # None /\ creator' = creator /\ now' = now
      BY <1>2, <1>3, <1>11, <2>3
    <3> QED
      BY <1>3, <1>17, <2>3, <3>1 DEF Checked
  <2> QED
    BY <2>1, <2>2, <2>3
<1>20. \A q2 \in Req : req'[q2] = req[q2] \/ Checked(q2)'
  BY <1>0, <1>2, <1>19 DEF Actors
<1>21. OneLoop'
  BY <1>0, <1>2 DEF OneLoop, Fires
<1> QED
  BY <1>2, <1>10, <1>16, <1>18, <1>20, <1>21, RowStep

\* The second statement of an archival: the schedules of the test are switched off.
LEMMA UnscheduleKeeps ==
    ASSUME CatalogInv, NEW q \in Req, Unschedule(q)
    PROVE  CatalogInv'
<1>0. Tables /\ Actors /\ OneLoop
  BY Untouched
<1>1. PICK t : t = req[q].id
  OBVIOUS
<1> DEFINE u == req[q].by
<1> DEFINE off(x) == [db[x] EXCEPT !.on = FALSE, !.by = u, !.part = "off"]
<1>2. /\ db' = [x \in Id |-> IF x \in Sched /\ exists(x) /\ db[x].test = t
                             THEN off(x) ELSE db[x]]
      /\ req' = [req EXCEPT ![q] = Idle] /\ noteOff
      /\ UNCHANGED <<now, users, rep, creator>>
  BY <1>1 DEF Unschedule
<1>3. ASSUME NEW x \in Id, db'[x] # db[x]
      PROVE  /\ x \in Sched /\ exists(x) /\ db'[x] \in SchedRow
             /\ db'[x].owner = db[x].owner /\ Rightful(x)'
             /\ db'[x].test = db[x].test /\ db'[x].next = db[x].next
  <2>1. x \in Sched /\ exists(x) /\ db[x].test = t /\ db'[x] = off(x)
    BY <1>2, <1>3
  <2>2. db[x] \in SchedRow
    BY <1>0, <2>1, Exists
  <2>3. u \in User /\ u \in Admin \cup {creator[t]}
    <3>1. req[q].step = "unschedule"
      BY DEF Unschedule
    <3>2. Checked(q)
      BY DEF CatalogInv
    <3>3. req[q] # Idle
      BY <3>1 DEF Idle
    <3> QED
      BY <1>0, <1>1, <3>1, <3>2, <3>3 DEF Checked, Actors, Handling
  <2>4. /\ off(x) \in SchedRow /\ off(x).owner = db[x].owner /\ off(x).test = db[x].test
        /\ off(x).next = db[x].next /\ off(x).by = u /\ off(x).part = "off" /\ ~off(x).on
    BY <2>2, <2>3 DEF SchedRow, Part
  <2>5. Rightful(x)'
    <3> HIDE DEF off, u
    <3> QED
      BY <1>2, <2>1, <2>3, <2>4 DEF Rightful
  <2> QED
    BY <2>1, <2>4, <2>5
<1>4. Tables'
  <2>1. /\ \A t2 \in Test : db'[t2] \in TestRow \cup {None}
        /\ \A s \in Sched : db'[s] \in SchedRow \cup {None, Deleted}
        /\ \A e \in Env : db'[e] \in EnvRow \cup {None, Deleted}
        /\ \A r \in Run : db'[r] \in RunRow \cup {None, Deleted}
    BY <1>0, <1>3, Ids DEF Tables
  <2>2. \A x \in Id : db'[x] \in AnyRow
    BY <2>1, Ids DEF AnyRow
  <2>3. db' \in [Id -> AnyRow]
    <3>1. db' = [x \in Id |-> db'[x]]
      BY <1>2
    <3> QED
      BY <2>2, <3>1
  <2> QED
    BY <2>1, <2>3 DEF Tables
<1>5. \A x \in Id : (exists(x)' <=> exists(x)) /\ (db[x] = None <=> db'[x] = None)
  BY <1>3, Kinds DEF exists
<1>6. \A x \in Id :
         /\ db[x] = None <=> db'[x] = None
         /\ exists(x)' =>
              /\ exists(x)
              /\ db'[x].owner \in {db[x].owner, None}
              /\ db'[x].owner \in users' \cup {None}
              /\ x \notin Run => Rightful(x)'
  <2>1. ASSUME NEW x \in Id, exists(x), x \notin Run PROVE Rightful(x)'
    BY <1>2, <1>3, <2>1, StillRightful
  <2> QED
    BY <1>2, <1>3, <1>5, <2>1, Untouched
<1>7. ASSUME NEW t2 \in Test, exists(t2)
      PROVE  exists(t2)' /\ (db'[t2].base = None \/ exists(db[t2].base)')
  <2>1. db'[t2] = db[t2]
    BY <1>3, Ids
  <2>2. PICK b \in Run \cup {None} : b = db[t2].base /\ (b = None \/ exists(b))
    BY <1>7, Untouched
  <2>3. b = None \/ exists(b)'
    BY <1>5, <2>2, Ids
  <2> QED
    BY <1>5, <1>7, <2>1, <2>2, <2>3, Ids DEF exists
<1>8. ASSUME NEW x \in Sched \cup Run, exists(x)' PROVE db'[x].test = db[x].test
  BY <1>3, Ids
<1>9. ASSUME NEW s \in Sched, exists(s)'
      PROVE  db[s].next <= db'[s].next /\ db'[s].next <= now + Interval
  <2>1. exists(s) /\ db'[s].next = db[s].next
    BY <1>3, <1>5, <1>9, Ids
  <2> QED
    BY <2>1, Untouched
<1>10. \A r \in Run : exists(r)' => db'[r].source = db[r].source /\ db'[r].at = db[r].at
  BY <1>3, Ids
<1>11. \A x \in Test \cup Sched : /\ offSince'[x] \in {NoTime, now, offSince[x]}
                                  /\ offSince'[x] # NoTime => isOff(db'[x])
  BY <1>2 DEF noteOff
<1>12. Descends
  BY <1>2, <1>6, <1>7, <1>8, <1>9, <1>10, <1>11 DEF Descends
<1>13. Actors'
  <2>1. req' \in [Req -> Handling \cup {Idle}]
    BY <1>0, <1>2 DEF Actors
  <2>2. offSince' \in [Test \cup Sched -> Nat]
    BY <1>0, <1>2 DEF noteOff, Actors, NoTime
  <2> QED
    BY <1>0, <1>2, <2>1, <2>2 DEF Actors
<1>14. \A q2 \in Req : req'[q2] = req[q2] \/ Checked(q2)'
  BY <1>0, <1>2 DEF Actors, Checked
<1>15. OneLoop'
  BY <1>0, <1>2 DEF OneLoop, Fires
<1> QED
  BY <1>2, <1>4, <1>12, <1>13, <1>14, <1>15, RowStep

\* A run is created of a test that was launchable, and for a schedule only by the loop
\* that claimed it, which then fires it no more.
LEMMA RunCreated ==
    ASSUME CatalogInv, NEW r \in Run, NEW row \in RunRow,
           insert(r, row, row.owner), row.owner \in users \cup {None}, row.at = now,
           exists(row.test), Decided(row.test, now),
           row.source # None =>
              /\ db[row.source] # None
              /\ exists(row.source) => now + Interval <= db[row.source].next + Timeout
              /\ \A r2 \in Run : RunOf(r2, row.source) => db[r2].at + Interval <= now + Timeout,
           UNCHANGED <<now, users, offSince>>,
           req' \in [Req -> Handling \cup {Idle}],
           rep' \in [Replica -> Firing \cup Recording \cup {Idle}],
           \A q \in Req : req'[q] = req[q] \/ req'[q] = Idle,
           \A p \in Replica :
              \/ rep'[p] = rep[p] /\ (Fires(p) => rep[p].sched # row.source)
              \/ rep'[p] \in Recording /\ rep[p] # Idle /\ rep'[p].until = rep[p].until
    PROVE  CatalogInv'
<1>0. /\ Tables /\ Actors /\ OneLoop /\ FiredOnce /\ now \in Nat /\ Interval \in Nat /\ Timeout \in Nat
      /\ (\A q \in Req : Checked(q)) /\ (\A p \in Replica : Claimed(p))
      /\ (\A r2 \in Run : Launched(r2))
  BY TimesAssumption DEF CatalogInv, Actors
<1>1. /\ row.at \in Nat /\ row.test \in Test /\ row.source \in Sched \cup {None}
      /\ row.owner \in User \cup {None}
  BY DEF RunRow
<1>2. Fits(r, row, row.owner)
  BY Ids DEF Fits
<1>3. /\ Evolves /\ RowsInv'
      /\ \A r2 \in Run \ {r} : SameRun(r2)
      /\ \A y \in Id : db'[y] = IF y = r THEN row ELSE db[y]
      /\ exists(r)'
  BY <1>1, <1>2, Ids, NewRow
<1>4. r \in Id /\ db'[r] = row /\ db[r] = None /\ now' = now
  BY <1>3, Ids DEF insert
<1>5. \A q \in Req : Checked(q)'
  <2>1. \A q \in Req : req'[q] = Idle => Checked(q)'
    BY DEF Checked
  <2> QED
    BY <1>0, <1>3, <2>1, CheckedKept
<1>6. ASSUME NEW p \in Replica PROVE Claimed(p)'
  <2>1. CASE rep'[p] = rep[p] /\ (Fires(p) => rep[p].sched # row.source)
    <3>1. Fires(p) => \A r2 \in Run : SameRun(r2) \/ db'[r2].source # rep[p].sched
      BY <1>3, <1>4, <2>1
    <3> QED
      BY <1>0, <1>3, <2>1, <3>1, ClaimedKept
  <2>2. CASE rep'[p] \in Recording /\ rep[p] # Idle /\ rep'[p].until = rep[p].until
    <3>1. now <= rep[p].until /\ rep[p].until <= now + Timeout
      BY <1>0, <2>2 DEF Claimed
    <3>2. ~Fires(p)'
      BY <2>2, Kinds DEF Fires
    <3>3. now' <= rep'[p].until /\ rep'[p].until <= now' + Timeout
      BY <1>4, <2>2, <3>1
    <3> QED
      BY <3>2, <3>3 DEF Claimed
  <2> QED
    BY <2>1, <2>2
<1>7. OneLoop'
  <2>1. \A p \in Replica : Fires(p)' => Fires(p) /\ rep'[p].sched = rep[p].sched
    BY Kinds DEF Fires
  <2> QED
    BY <1>0, <2>1, OneLoopKept
<1>8. ASSUME NEW r2 \in Run PROVE Launched(r2)'
  <2>1. CASE r2 # r
    BY <1>0, <1>3, <2>1, LaunchedKept
  <2>2. CASE r2 = r
    <3>1. now <= now /\ now <= now + Timeout
      BY <1>0
    <3>2. Decided(row.test, now)'
      BY <1>0, <1>1, <1>3, <3>1, DecidedKept
    <3>3. ASSUME row.source # None
          PROVE  /\ db'[row.source] # None
                 /\ exists(row.source)' => now + Interval <= db'[row.source].next + Timeout
      <4>1. row.source \in Sched /\ row.source \in Id /\ row.source # r
        BY <1>1, <3>3, Ids
      <4>2. db'[row.source] = db[row.source]
        BY <1>3, <4>1
      <4> QED
        BY <3>3, <4>2 DEF exists
    <3> QED
      BY <1>4, <2>2, <3>1, <3>2, <3>3 DEF Launched, Decided
  <2> QED
    BY <2>1, <2>2
<1>9. FiredOnce'
  <2> DEFINE Apart(a, b) == \/ a.at + Interval <= b.at + Timeout
                            \/ b.at + Interval <= a.at + Timeout
  <2>1. ASSUME NEW r2 \in Run, r2 # r, exists(r2)', row.source # None, db'[r2].source = row.source
        PROVE  db'[r2].at + Interval <= row.at + Timeout
    <3>1. exists(r2) /\ db'[r2] = db[r2]
      BY <1>3, <2>1, Ids DEF SameRun
    <3> QED
      BY <2>1, <3>1 DEF RunOf
  <2>2. ASSUME NEW r1 \in Run, NEW r2 \in Run, r1 # r, r2 # r, r1 # r2, exists(r1)', exists(r2)',
               db'[r1].source # None, db'[r1].source = db'[r2].source
        PROVE  Apart(db'[r1], db'[r2])
    <3>1. exists(r1) /\ db'[r1] = db[r1] /\ exists(r2) /\ db'[r2] = db[r2]
      BY <1>3, <2>2, Ids DEF SameRun
    <3> QED
      BY <1>0, <2>2, <3>1 DEF FiredOnce
  <2> QED
    BY <1>4, <2>1, <2>2 DEF FiredOnce
<1> QED
  BY <1>3, <1>5, <1>6, <1>7, <1>8, <1>9 DEF CatalogInv, RowsInv, Evolves

\* A user's launch creates its run.
LEMMA LaunchCreateKeeps ==
    ASSUME CatalogInv, NEW q \in Req, NEW r \in Run, LaunchCreate(q, r)
    PROVE  CatalogInv'
<1>0. Tables /\ Actors /\ now \in Nat /\ Timeout \in Nat /\ Checked(q)
  BY TimesAssumption DEF CatalogInv, Actors
<1>1. PICK c \in Handling : c = req[q]
  <2>1. req[q] # Idle
    BY DEF LaunchCreate, Idle
  <2> QED
    BY <1>0, <2>1 DEF Actors
<1>2. /\ c.step = "launch" /\ c.by \in User /\ c.until \in Nat
      /\ createRun(r, c.id, c.by, None)
      /\ req' = [req EXCEPT ![q] = Idle]
      /\ UNCHANGED <<now, users, rep, offSince>>
  BY <1>1 DEF LaunchCreate, Handling
<1>3. c.id \in Test /\ exists(c.id) /\ Decided(c.id, c.until) /\ now <= c.until
  BY <1>0, <1>1, <1>2, Kinds DEF Checked
<1> DEFINE row == [owner |-> c.by, by |-> c.by, test |-> c.id, source |-> None,
                   status |-> "pending", at |-> now]
<1>4. /\ insert(r, row, c.by) /\ c.by \in users \cup {None}
  BY <1>2 DEF createRun
<1>5. /\ row \in RunRow /\ row.owner = c.by /\ row.test = c.id /\ row.source = None /\ row.at = now
  BY <1>0, <1>2, <1>3 DEF RunRow
<1> HIDE DEF row
<1>6. Decided(c.id, now)
  <2>1. c.id \in Test \cup Sched /\ offSince[c.id] \in Nat
    BY <1>0, <1>3 DEF Actors
  <2> QED
    BY <1>0, <1>2, <1>3, <2>1 DEF Decided
<1>7. /\ req' \in [Req -> Handling \cup {Idle}]
      /\ rep' \in [Replica -> Firing \cup Recording \cup {Idle}]
      /\ \A q2 \in Req : req'[q2] = req[q2] \/ req'[q2] = Idle
  BY <1>0, <1>2 DEF Actors
<1>8. \A p \in Replica : rep'[p] = rep[p] /\ (Fires(p) => rep[p].sched # None)
  BY <1>2, Ids DEF Fires, Firing
<1> QED
  BY <1>2, <1>3, <1>4, <1>5, <1>6, <1>7, <1>8, RunCreated

\* So does a scheduler loop, for the schedule it claimed.
LEMMA FireCreateKeeps ==
    ASSUME CatalogInv, NEW p \in Replica, NEW r \in Run, FireCreate(p, r)
    PROVE  CatalogInv'
<1>0. /\ Tables /\ Actors /\ OneLoop /\ now \in Nat /\ Timeout \in Nat /\ Interval \in Nat
      /\ Claimed(p)
  BY TimesAssumption DEF CatalogInv, Actors
<1>1. PICK f \in Firing : f = rep[p]
  <2>1. rep[p] # Idle /\ rep[p] \notin Recording
    BY DEF FireCreate, Idle, Recording
  <2> QED
    BY <1>0, <2>1 DEF Actors
<1> DEFINE g == [step |-> "record", sched |-> f.sched, until |-> f.until]
<1>2. /\ f.step = "create" /\ f.sched \in Sched /\ f.test \in Test /\ f.until \in Nat
      /\ createRun(r, f.test, None, f.sched)
      /\ rep' = [rep EXCEPT ![p] = g]
      /\ UNCHANGED <<now, users, req, offSince>>
  BY <1>0, <1>1 DEF FireCreate, Firing, Actors
<1>3. g \in Recording /\ g.until = f.until
  BY <1>2 DEF Recording
<1> HIDE DEF g
<1>4. /\ now <= f.until /\ f.until <= now + Timeout /\ exists(f.test) /\ db[f.sched] # None
      /\ exists(f.sched) => f.until + Interval <= db[f.sched].next + Timeout
      /\ \A r2 \in Run : RunOf(r2, f.sched) => db[r2].at + Interval <= f.until
      /\ Decided(f.test, f.until)
  <2>1. Fires(p) /\ rep[p] # Idle
    BY <1>1, Kinds DEF Fires
  <2> QED
    BY <1>0, <1>1, <1>2, <2>1 DEF Claimed
<1> DEFINE row == [owner |-> None, by |-> None, test |-> f.test, source |-> f.sched,
                   status |-> "pending", at |-> now]
<1>5. insert(r, row, None)
  BY <1>2 DEF createRun
<1>6. /\ row \in RunRow /\ row.owner = None /\ row.test = f.test /\ row.source = f.sched
      /\ row.at = now
  BY <1>0, <1>2 DEF RunRow
<1> HIDE DEF row
<1>7. Decided(f.test, now)
  <2>1. offSince[f.test] \in Nat
    BY <1>0, <1>2 DEF Actors
  <2> QED
    BY <1>0, <1>2, <1>4, <2>1 DEF Decided
<1>8. exists(f.sched) => now + Interval <= db[f.sched].next + Timeout
  <2>1. exists(f.sched) => db[f.sched].next \in Nat
    BY <1>2, Untouched
  <2> QED
    BY <1>0, <1>2, <1>4, <2>1
<1>9. ASSUME NEW r2 \in Run, RunOf(r2, f.sched) PROVE db[r2].at + Interval <= now + Timeout
  <2>1. db[r2].at \in Nat
    BY <1>0, <1>9, Exists DEF RunOf, RunRow
  <2> QED
    BY <1>0, <1>2, <1>4, <1>9, <2>1
<1>10. /\ req' \in [Req -> Handling \cup {Idle}]
       /\ rep' \in [Replica -> Firing \cup Recording \cup {Idle}]
       /\ \A q \in Req : req'[q] = req[q]
       /\ \A p2 \in Replica : rep'[p2] = IF p2 = p THEN g ELSE rep[p2]
  BY <1>0, <1>2, <1>3 DEF Actors
<1>11. ASSUME NEW p2 \in Replica
       PROVE  \/ rep'[p2] = rep[p2] /\ (Fires(p2) => rep[p2].sched # f.sched)
              \/ rep'[p2] \in Recording /\ rep[p2] # Idle /\ rep'[p2].until = rep[p2].until
  <2>1. CASE p2 = p
    BY <1>1, <1>3, <1>10, <2>1, Kinds
  <2>2. CASE p2 # p
    BY <1>0, <1>1, <1>10, <2>2 DEF OneLoop, Fires
  <2> QED
    BY <2>1, <2>2
<1>12. /\ insert(r, row, row.owner) /\ row.owner \in users \cup {None}
       /\ exists(row.test) /\ Decided(row.test, now)
  BY <1>4, <1>5, <1>6, <1>7
<1>13. /\ db[row.source] # None
       /\ exists(row.source) => now + Interval <= db[row.source].next + Timeout
       /\ \A r2 \in Run : RunOf(r2, row.source) => db[r2].at + Interval <= now + Timeout
  BY <1>4, <1>6, <1>8, <1>9
<1>14. \A p2 \in Replica :
         \/ rep'[p2] = rep[p2] /\ (Fires(p2) => rep[p2].sched # row.source)
         \/ rep'[p2] \in Recording /\ rep[p2] # Idle /\ rep'[p2].until = rep[p2].until
  BY <1>6, <1>11
<1> QED
  BY <1>2, <1>6, <1>10, <1>12, <1>13, <1>14, RunCreated

-----------------------------------------------------------------------------
(* The invariant holds                                                     *)

\* At the start there are no rows and nothing is in progress.
LEMMA CatalogInit ==
    ASSUME Init
    PROVE  CatalogInv
<1>0. /\ now = 1 /\ users = User /\ db = [x \in Id |-> None]
      /\ req = [q \in Req |-> Idle] /\ rep = [p \in Replica |-> Idle]
      /\ creator = [x \in Id |-> None]
      /\ offSince = [x \in Test \cup Sched |-> NoTime]
  BY DEF Init
<1>1. Tables
  BY <1>0, Ids DEF Tables, AnyRow
<1>2. Actors
  BY <1>0 DEF Actors, NoTime
<1>3. \A x \in Id : ~exists(x)
  BY <1>0 DEF exists
<1>4. (\A x \in Id : Owned(x)) /\ Linked /\ Dated
  BY <1>0, <1>3, Ids DEF Owned, Linked, Dated
<1>5. (\A q \in Req : Checked(q)) /\ (\A p \in Replica : Claimed(p)) /\ OneLoop
  BY <1>0, Kinds DEF Checked, Claimed, OneLoop, Fires
<1>6. (\A r \in Run : Launched(r)) /\ FiredOnce
  BY <1>3, Ids DEF Launched, FiredOnce
<1> QED
  BY <1>1, <1>2, <1>4, <1>5, <1>6 DEF CatalogInv

\* Every step keeps the invariant.
LEMMA CatalogStep ==
    ASSUME CatalogInv, [Next]_vars
    PROVE  CatalogInv'
<1>1. CASE Tick
  BY <1>1, TickKeeps
<1>2. CASE Expire
  BY <1>2, RequestEnds, LoopEnds DEF Expire
<1>3. CASE \E u \in User : DeleteUser(u)
  BY <1>3, DeleteUserKeeps
<1>4. CASE \/ \E u \in User, t \in Test : CreateTest(u, t)
           \/ \E u \in User, e \in Env : CreateEnvironment(u, e)
           \/ \E u \in User, s \in Sched, t \in Test : CreateSchedule(u, s, t)
  BY <1>4, CreationsKeep
<1>5. CASE \/ \E u \in User, t \in Test, r \in Run \cup {None} : SetBaseline(u, t, r)
           \/ \E r \in Run : RunEnds(r)
  BY <1>5, BaselineAndEndKeep
<1>6. ASSUME NEW q \in Req, NEW u \in User,
             \/ \E t \in Test : UpdateTest(q, u, t) \/ DeleteTest(q, u, t)
             \/ \E s \in Sched : \/ UpdateSchedule(q, u, s) \/ DeleteSchedule(q, u, s)
                                 \/ SetScheduleEnabled(q, u, s)
             \/ \E e \in Env : UpdateEnvironment(q, u, e) \/ DeleteEnvironment(q, u, e)
             \/ \E r \in Run : DeleteRun(q, u, r)
      PROVE  CatalogInv'
  <2>1. ASSUME NEW t \in Test, UpdateTest(q, u, t) \/ DeleteTest(q, u, t) PROVE CatalogInv'
    BY <2>1, Ids, ReadKeeps DEF UpdateTest, DeleteTest, Writing
  <2>2. ASSUME NEW s \in Sched, UpdateSchedule(q, u, s) \/ DeleteSchedule(q, u, s)
                                \/ SetScheduleEnabled(q, u, s)
        PROVE CatalogInv'
    BY <2>2, Ids, ReadKeeps DEF UpdateSchedule, DeleteSchedule, SetScheduleEnabled, Writing
  <2>3. ASSUME NEW e \in Env, UpdateEnvironment(q, u, e) \/ DeleteEnvironment(q, u, e)
        PROVE CatalogInv'
    BY <2>3, Ids, ReadKeeps DEF UpdateEnvironment, DeleteEnvironment, Writing
  <2>4. ASSUME NEW r \in Run, DeleteRun(q, u, r) PROVE CatalogInv'
    BY <2>4, Ids, ReadKeeps DEF DeleteRun, Writing
  <2> QED
    BY <1>6, <2>1, <2>2, <2>3, <2>4
<1>7. ASSUME NEW q \in Req, Write(q) \/ Unschedule(q) PROVE CatalogInv'
  BY <1>7, WriteKeeps, UnscheduleKeeps
<1>8. ASSUME NEW q \in Req, \/ \E u \in User, t \in Test : LaunchRead(q, u, t)
                            \/ \E r \in Run : LaunchCreate(q, r)
      PROVE CatalogInv'
  BY <1>8, LaunchReadKeeps, LaunchCreateKeeps
<1>9. ASSUME NEW p \in Replica,
             \/ \E s \in Sched : Claim(p, s)
             \/ FireRead(p) \/ FireRecord(p) \/ Crash(p)
             \/ \E r \in Run : FireCreate(p, r)
      PROVE  CatalogInv'
  <2>1. CASE FireRecord(p) \/ Crash(p)
    BY <2>1, LoopEnds DEF FireRecord, Crash
  <2> QED
    BY <1>9, <2>1, ClaimKeeps, FireReadKeeps, FireCreateKeeps
<1>10. CASE UNCHANGED vars
  <2>1. UNCHANGED <<now, users, db, req, rep, creator, offSince>>
    BY <1>10 DEF vars
  <2>2. Actors' /\ OneLoop'
    BY <2>1, Untouched DEF Actors, OneLoop, Fires
  <2> QED
    BY <2>1, <2>2, ActorStep
<1> QED
  BY <1>1, <1>2, <1>3, <1>4, <1>5, <1>6, <1>7, <1>8, <1>9, <1>10 DEF Next

\* Whatever requests, scheduler loops, deadlines and crashes come in between, the rows
\* are in order and every launch in progress was decided within its timeout.
THEOREM CatalogInvariant == Spec => []CatalogInv
<1>1. Init => CatalogInv
  BY CatalogInit
<1>2. CatalogInv /\ [Next]_vars => CatalogInv'
  BY CatalogStep
<1> QED
  BY <1>1, <1>2, PTL DEF Spec

\* No row refers to one that is gone: the baseline of a test whose run is deleted, the
\* owner whose account is, the test of a schedule and of a run.
THEOREM ReferencesHold == Spec => []References
<1>1. CatalogInv => References
  <2> SUFFICES ASSUME CatalogInv PROVE References
    OBVIOUS
  <2>0. Actors /\ Linked /\ \A q \in Req : Checked(q)
    BY DEF CatalogInv
  <2>1. \A x \in Id : exists(x) => db[x].owner \in users \cup {None}
    BY Untouched
  <2>2. \A q \in Req : req[q] # Idle => req[q].id \in Id /\ now <= req[q].until
    BY <2>0 DEF Actors, Checked, Handling
  <2>3. \A p \in Replica : rep[p] # Idle => rep[p].sched \in Sched
    BY <2>0 DEF Actors, Firing, Recording
  <2> QED
    BY <2>0, <2>1, <2>2, <2>3 DEF References, Actors, Linked
<1> QED
  BY <1>1, CatalogInvariant, PTL

\* "Shared read, owner-or-admin write", as far as the code keeps to it: though a handler
\* checks the owner in one statement and writes in another, the last write of a test, a
\* schedule or an environment is its creator's or an administrator's, unless it set a
\* baseline, or switched off a schedule of a test that its writer might archive.
THEOREM OwnersWrite == Spec => []EditedByOwner
<1>1. CatalogInv => EditedByOwner
  <2>1. ASSUME CatalogInv, NEW x \in Test \cup Sched \cup Env, exists(x)
        PROVE  Rightful(x)
    BY <2>1, Untouched, Ids
  <2> QED
    BY <2>1 DEF EditedByOwner, Rightful
<1> QED
  BY <1>1, CatalogInvariant, PTL

\* Replicas fire a schedule once for each interval, and neither an archived test nor a
\* schedule that was switched off is launched once the timeout has passed.
THEOREM LaunchesHold == Spec => []LaunchesAreDue
<1>1. CatalogInv => LaunchesAreDue
  <2> SUFFICES ASSUME CatalogInv PROVE LaunchesAreDue
    OBVIOUS
  <2>0. /\ Tables /\ Actors /\ FiredOnce /\ now \in Nat /\ Timeout \in Nat
        /\ (\A p \in Replica : Claimed(p)) /\ (\A r \in Run : Launched(r))
    BY TimesAssumption DEF CatalogInv, Actors
  <2>1. ArchivedIsNotRun
    BY <2>0 DEF ArchivedIsNotRun, Launched, Decided
  <2>2. ASSUME NEW p \in Replica, rep[p].step = "create", offSince[rep[p].sched] # NoTime
        PROVE  now <= offSince[rep[p].sched] + Timeout
    <3>1. PICK f \in Firing : f = rep[p]
      <4>1. rep[p] # Idle /\ rep[p] \notin Recording
        BY <2>2 DEF Idle, Recording
      <4> QED
        BY <2>0, <4>1 DEF Actors
    <3>2. now <= f.until /\ f.until <= offSince[f.sched] + Timeout
      <4>1. Fires(p) /\ rep[p] # Idle
        BY <3>1, Kinds DEF Fires
      <4> QED
        BY <2>0, <2>2, <3>1, <4>1 DEF Claimed, Decided
    <3>3. f.until \in Nat /\ offSince[f.sched] \in Nat
      BY <2>0 DEF Firing, Actors
    <3> QED
      BY <2>0, <3>1, <3>2, <3>3
  <2> QED
    BY <2>0, <2>1, <2>2 DEF LaunchesAreDue, OffIsNotFired
<1> QED
  BY <1>1, CatalogInvariant, PTL
=============================================================================
