------------------------------- MODULE Catalog -------------------------------
(***************************************************************************)
(* What users keep in the API server: tests, environments, schedules and   *)
(* runs, who may change them, and the scheduler that launches runs         *)
(* (internal/apisrv/handlers.go, schedules.go, environments.go, auth.go,   *)
(* internal/store/postgres).                                               *)
(*                                                                         *)
(* Handlers read a row, check its owner and write in a second statement;   *)
(* the scheduler loop of every replica claims, reads, creates and records  *)
(* in four.  All of them end at their context's timeout.  A row is its     *)
(* owner, its references and its flags: plans, variables and tags are left *)
(* out (see Plan), and what becomes of a run between its creation and its  *)
(* end is the subject of RunRecord.                                        *)
(***************************************************************************)
EXTENDS Naturals, FiniteSets

CONSTANTS
    User,       \* accounts with the operator role or more
    Admin,      \* those of them that are administrators
    Test, Sched, Env, Run,   \* row ids, never used twice
    Req,        \* requests in progress at a time
    Replica,    \* API server processes, each with a scheduler loop
    Interval,   \* interval_minutes of every schedule, in ticks
    Timeout,    \* the 15 seconds of a request's and of a launch's context
    MaxTime,    \* bound: the clock stops here
    MaxOps      \* bound: requests of users

ASSUME AdminAssumption == Admin \subseteq User
ASSUME TimesAssumption ==
    /\ Timeout \in Nat /\ Interval \in Nat /\ Timeout < Interval
    /\ MaxTime \in Nat /\ MaxOps \in Nat

VARIABLES
    now,       \* the clock
    users,     \* accounts that exist
    db,        \* [Id -> row, None or Deleted]: the tables
    req,       \* [Req -> request]
    rep,       \* [Replica -> state of its scheduler loop]
    creator,   \* history: who created a row
    offSince,  \* history: since when a test is archived or a schedule off
    served     \* requests so far

vars == <<now, users, db, req, rep, creator, offSince, served>>

Id == Test \cup Sched \cup Env \cup Run
None == [is |-> "none"]
Deleted == [is |-> "deleted"]
Idle == [step |-> "idle"]
NoTime == 0
Live == {"pending", "queued", "running"}

\* Tables have ids of their own, and NULL is none of them.
ASSUME IdsAssumption ==
    /\ None \notin User \cup Id
    /\ Test \cap (Sched \cup Env \cup Run) = {}
    /\ Sched \cap (Env \cup Run) = {}
    /\ Env \cap Run = {}

exists(x) == db[x] \notin {None, Deleted}
Clock == now + Timeout   \* when a context that starts now is cancelled

Init ==
    /\ now = 1
    /\ users = User
    /\ db = [x \in Id |-> None]
    /\ req = [q \in Req |-> Idle]
    /\ rep = [p \in Replica |-> Idle]
    /\ creator = [x \in Id |-> None]
    /\ offSince = [x \in Test \cup Sched |-> NoTime]
    /\ served = 0

\* A user's request.
Request == served < MaxOps /\ served' = served + 1

\* A context never outlives its deadline.
Tick ==
    /\ now < MaxTime
    /\ \A q \in Req : req[q] # Idle => now < req[q].until
    /\ \A p \in Replica : rep[p] # Idle => now < rep[p].until
    /\ now' = now + 1
    /\ UNCHANGED <<users, db, req, rep, creator, offSince, served>>

Expire ==
    /\ \/ \E q \in Req : /\ req[q] # Idle /\ now = req[q].until
                         /\ req' = [req EXCEPT ![q] = Idle]
                         /\ rep' = rep
       \/ \E p \in Replica : /\ rep[p] # Idle /\ now = rep[p].until
                             /\ rep' = [rep EXCEPT ![p] = Idle]
                             /\ req' = req
    /\ UNCHANGED <<now, users, db, creator, offSince, served>>

\* The scheduler loop of a replica is lost with its process.
Crash(p) ==
    /\ rep[p] # Idle
    /\ rep' = [rep EXCEPT ![p] = Idle]
    /\ UNCHANGED <<now, users, db, req, creator, offSince, served>>

-----------------------------------------------------------------------------
(* Rows                                                                    *)

insert(x, row, u) ==
    /\ db[x] = None
    /\ db' = [db EXCEPT ![x] = row]
    /\ creator' = [creator EXCEPT ![x] = u]

\* by and part: history, who wrote the row last and what of it.
testRow(u) == [owner |-> u, by |-> u, part |-> "row", archived |-> FALSE,
               base |-> None]
environmentRow(u) == [owner |-> u, by |-> u]

\* The first run is due at once.
scheduleRow(u, t) == [owner |-> u, by |-> u, part |-> "row", test |-> t, on |-> TRUE,
                      next |-> now]

\* handleCreateTest.
CreateTest(u, t) ==
    /\ Request
    /\ u \in users
    /\ insert(t, testRow(u), u)
    /\ UNCHANGED <<now, users, req, rep, offSince>>

\* handleCreateEnvironment.
CreateEnvironment(u, e) ==
    /\ Request
    /\ u \in users
    /\ insert(e, environmentRow(u), u)
    /\ UNCHANGED <<now, users, req, rep, offSince>>

\* handleCreateSchedule: the test must exist, archived or not.
CreateSchedule(u, s, t) ==
    /\ Request
    /\ u \in users
    /\ exists(t)
    /\ insert(s, scheduleRow(u, t), u)
    /\ UNCHANGED <<now, users, req, rep, offSince>>

\* handleDeleteUser (of somebody else): created_by is set NULL by the foreign
\* keys.
DeleteUser(u) ==
    /\ Request
    /\ u \in users \ Admin
    /\ users' = users \ {u}
    /\ db' = [x \in Id |-> IF exists(x) /\ db[x].owner = u
                           THEN [db[x] EXCEPT !.owner = None] ELSE db[x]]
    /\ UNCHANGED <<now, req, rep, creator, offSince>>

\* handleSetBaseline, by any operator: the owner is not compared.  The run must
\* exist, of whichever test.
SetBaseline(u, t, r) ==
    /\ Request
    /\ u \in users
    /\ exists(t)
    /\ r # None => exists(r)
    /\ db' = [db EXCEPT ![t] = [@ EXCEPT !.base = r, !.by = u, !.part = "base"]]
    /\ UNCHANGED <<now, users, req, rep, creator, offSince>>

-----------------------------------------------------------------------------
(* Handlers that read a row, check its owner and write it                  *)

\* Mutant of canMutate: every operator may.
canMutateAny(u, owner) == u \in User

\* A row that lost its owner is the administrators'.
canMutate(u, owner) == u \in Admin \/ owner = u

\* A handler up to its write: the row is read and its owner compared.
readOwned(q, u, x, op) ==
    /\ Request
    /\ req[q] = Idle
    /\ u \in users
    /\ exists(x)
    /\ canMutate(u, db[x].owner)
    /\ req' = [req EXCEPT ![q] =
                 [step |-> op, id |-> x, by |-> u, until |-> Clock]]
    /\ UNCHANGED <<now, users, db, rep, creator, offSince>>

UpdateTest(q, u, t) == readOwned(q, u, t, "update")
DeleteTest(q, u, t) == readOwned(q, u, t, "archive")
UpdateSchedule(q, u, s) == readOwned(q, u, s, "update")
DeleteSchedule(q, u, s) == readOwned(q, u, s, "delete")
SetScheduleEnabled(q, u, s) ==
    \E op \in {"enable", "disable"} : readOwned(q, u, s, op)
UpdateEnvironment(q, u, e) == readOwned(q, u, e, "update")
DeleteEnvironment(q, u, e) == readOwned(q, u, e, "delete")

\* handleDeleteRun: a run must have ended.
DeleteRun(q, u, r) == readOwned(q, u, r, "delete") /\ db[r].status \notin Live

\* The row after an operation.
edited(row, u) == [row EXCEPT !.by = u, !.part = "row"]

writtenTest(row, op, u) ==
    IF op = "archive" THEN [edited(row, u) EXCEPT !.archived = TRUE]
    ELSE IF row.archived THEN row ELSE edited(row, u)

writtenSchedule(row, op, u) ==
    CASE op = "update" -> [edited(row, u) EXCEPT !.next = now + Interval]
      [] op = "delete" -> Deleted
      [] OTHER -> [edited(row, u) EXCEPT !.on = op = "enable"]

writtenEnvironment(row, op, u) ==
    IF op = "delete" THEN Deleted ELSE [row EXCEPT !.by = u]

written(row, op, x, u) ==
    CASE x \in Test -> writtenTest(row, op, u)
      [] x \in Sched -> writtenSchedule(row, op, u)
      [] x \in Env -> writtenEnvironment(row, op, u)
      [] x \in Run -> Deleted

isOff(row) ==
    \/ row = Deleted
    \/ "on" \in DOMAIN row /\ ~row.on
    \/ "archived" \in DOMAIN row /\ row.archived

noteOff == offSince' = [x \in Test \cup Sched |->
                          IF ~isOff(db'[x]) THEN NoTime
                          ELSE IF offSince[x] = NoTime THEN now ELSE offSince[x]]

\* Mutant of Write: a deleted run stays the baseline of its test.
WriteDangling(q) ==
    /\ req[q].step \in {"update", "archive", "delete", "enable", "disable"}
    /\ LET x == req[q].id  op == req[q].step
       IN  /\ db' = IF exists(x)
                    THEN [db EXCEPT ![x] = written(@, op, x, req[q].by)] ELSE db
           /\ req' = [req EXCEPT ![q] = IF op = "archive"
                                        THEN [@ EXCEPT !.step = "unschedule"]
                                        ELSE Idle]
    /\ noteOff
    /\ UNCHANGED <<now, users, rep, creator, served>>

\* The write; one that finds no row is a 404.  Deleting a run deletes its metrics
\* and its row, and the foreign key takes it from the tests whose baseline it is.
\* Archiving goes on with a second statement.
Write(q) ==
    /\ req[q].step \in {"update", "archive", "delete", "enable", "disable"}
    /\ LET x == req[q].id  op == req[q].step
       IN  /\ db' = IF ~exists(x) THEN db
                    ELSE [y \in Id |->
                            IF y = x THEN written(db[x], op, x, req[q].by)
                            ELSE IF /\ y \in Test /\ exists(y)
                                    /\ op = "delete" /\ db[y].base = x
                            THEN [db[y] EXCEPT !.base = None]
                            ELSE db[y]]
           /\ req' = [req EXCEPT ![q] = IF op = "archive"
                                        THEN [@ EXCEPT !.step = "unschedule"]
                                        ELSE Idle]
    /\ noteOff
    /\ UNCHANGED <<now, users, rep, creator, served>>

\* ArchiveTestDefinition's second statement: the test's schedules are disabled,
\* whoever's they are.
Unschedule(q) ==
    /\ req[q].step = "unschedule"
    /\ db' = [x \in Id |->
                IF x \in Sched /\ exists(x) /\ db[x].test = req[q].id
                THEN [db[x] EXCEPT !.on = FALSE, !.by = req[q].by, !.part = "off"]
                ELSE db[x]]
    /\ req' = [req EXCEPT ![q] = Idle]
    /\ noteOff
    /\ UNCHANGED <<now, users, rep, creator, served>>

-----------------------------------------------------------------------------
(* Launching runs                                                          *)

\* launchRun up to CreateRun: the test and the environment are read, the plan is
\* parsed and the global setup of a scenario runs.
launchable(t) == exists(t) /\ ~db[t].archived

\* CreateRun: created_by must be an account, or NULL.
createRun(r, t, owner, s) ==
    /\ owner \in users \cup {None}
    /\ insert(r, [owner |-> owner, by |-> owner, test |-> t, source |-> s,
                  status |-> "pending", at |-> now], owner)

\* handleStartRun.
LaunchRead(q, u, t) ==
    /\ Request
    /\ req[q] = Idle
    /\ u \in users
    /\ launchable(t)
    /\ req' = [req EXCEPT ![q] =
                 [step |-> "launch", id |-> t, by |-> u, until |-> Clock]]
    /\ UNCHANGED <<now, users, db, rep, creator, offSince>>

LaunchCreate(q, r) ==
    /\ req[q].step = "launch"
    /\ createRun(r, req[q].id, req[q].by, None)
    /\ req' = [req EXCEPT ![q] = Idle]
    /\ UNCHANGED <<now, users, rep, offSince, served>>

\* The run goes its way and ends (RunRecord).
RunEnds(r) ==
    /\ exists(r)
    /\ db[r].status \in Live
    /\ db' = [db EXCEPT ![r].status = "completed"]
    /\ UNCHANGED <<now, users, req, rep, creator, offSince, served>>

-----------------------------------------------------------------------------
(* The scheduler: fireDueSchedules of each replica                         *)

due(s) == exists(s) /\ db[s].on /\ db[s].next <= now

\* Mutant of claimed: the next run stays due.
claimedStillDue(s) == db

\* ClaimDueSchedule: the longest due schedule, moved on by its interval in the
\* same statement.
claimed(s) == [db EXCEPT ![s].next = now + Interval]

Claim(p, s) ==
    /\ rep[p] = Idle
    /\ due(s)
    /\ \A s2 \in Sched : due(s2) => db[s].next <= db[s2].next
    /\ db' = claimed(s)
    /\ rep' = [rep EXCEPT ![p] = [step |-> "read", sched |-> s,
                                  test |-> db[s].test, until |-> Clock]]
    /\ UNCHANGED <<now, users, req, creator, offSince, served>>

\* launchRun: of an archived test nothing is launched.
FireRead(p) ==
    /\ rep[p].step = "read"
    /\ rep' = [rep EXCEPT ![p] = IF launchable(@.test)
                                 THEN [@ EXCEPT !.step = "create"] ELSE Idle]
    /\ UNCHANGED <<now, users, db, req, creator, offSince, served>>

\* ClaimDueSchedule does not return created_by: the run's owner is nil.
FireCreate(p, r) ==
    /\ rep[p].step = "create"
    /\ createRun(r, rep[p].test, None, rep[p].sched)
    /\ rep' = [rep EXCEPT ![p] = [step |-> "record", sched |-> @.sched,
                                  until |-> @.until]]
    /\ UNCHANGED <<now, users, req, offSince, served>>

\* SetScheduleLastRun, a reference for display only, and the next turn of the
\* loop.
FireRecord(p) ==
    /\ rep[p].step = "record"
    /\ rep' = [rep EXCEPT ![p] = Idle]
    /\ UNCHANGED <<now, users, db, req, creator, offSince, served>>

-----------------------------------------------------------------------------
Next ==
    \/ Tick \/ Expire
    \/ \E u \in User : DeleteUser(u)
    \/ \E u \in User, t \in Test : CreateTest(u, t)
    \/ \E u \in User, e \in Env : CreateEnvironment(u, e)
    \/ \E u \in User, s \in Sched, t \in Test : CreateSchedule(u, s, t)
    \/ \E u \in User, t \in Test, r \in Run \cup {None} : SetBaseline(u, t, r)
    \/ \E q \in Req :
          \/ \E u \in User :
                \/ \E t \in Test : UpdateTest(q, u, t) \/ DeleteTest(q, u, t)
                \/ \E s \in Sched : \/ UpdateSchedule(q, u, s) \/ DeleteSchedule(q, u, s)
                                    \/ SetScheduleEnabled(q, u, s)
                \/ \E e \in Env : UpdateEnvironment(q, u, e) \/ DeleteEnvironment(q, u, e)
                \/ \E r \in Run : DeleteRun(q, u, r)
          \/ Write(q) \/ Unschedule(q)
          \/ \E u \in User, t \in Test : LaunchRead(q, u, t)
          \/ \E r \in Run : LaunchCreate(q, r)
    \/ \E r \in Run : RunEnds(r)
    \/ \E p \in Replica :
          \/ \E s \in Sched : Claim(p, s)
          \/ FireRead(p) \/ FireRecord(p) \/ Crash(p)
          \/ \E r \in Run : FireCreate(p, r)

Spec == Init /\ [][Next]_vars

-----------------------------------------------------------------------------
(* Properties                                                              *)

\* Rows, requests and scheduler loops in their types, and every reference of a
\* row to another is to one that exists, or is NULL, in particular the baseline
\* of a test whose run is deleted and the owner whose account is.
References ==
    /\ now \in Nat
    /\ users \subseteq User
    /\ \A x \in Id : exists(x) => db[x].owner \in users \cup {None}
    /\ \A t \in Test : exists(t) => db[t].base = None \/ exists(db[t].base)
    /\ \A x \in Sched \cup Run : exists(x) => exists(db[x].test)
    /\ \A q \in Req : req[q] # Idle => req[q].id \in Id /\ now <= req[q].until
    /\ \A p \in Replica : rep[p] # Idle => rep[p].sched \in Sched

\* "Shared read, owner-or-admin write", as far as the code keeps to it: the last
\* write of a row is by an administrator or by the row's creator, though the owner
\* is read in one statement and the row written in another and owners may be
\* deleted in between.  Two writes are none of the row's creator: any operator sets
\* a test's baseline, and whoever may archive a test disables the schedules others
\* have on it (and enables none).
EditedByOwner ==
    \A x \in Test \cup Sched \cup Env :
        exists(x) =>
            \/ db[x].by \in Admin \cup {creator[x]}
            \/ x \in Test /\ db[x].part = "base"
            \/ /\ x \in Sched /\ db[x].part = "off" /\ ~db[x].on
               /\ db[x].by \in Admin \cup {creator[db[x].test]}

\* Replicas never fire a schedule twice for one interval: its runs are created
\* an interval apart, less what the launch of the first may have taken.
FiredOnce ==
    \A r, r2 \in Run :
        /\ r # r2 /\ exists(r) /\ exists(r2)
        /\ db[r].source # None /\ db[r].source = db[r2].source
        => \/ db[r].at + Interval <= db[r2].at + Timeout
           \/ db[r2].at + Interval <= db[r].at + Timeout

\* A test that was archived is not run any more: only a launch that had read the
\* test before still creates its run, within the timeout.
ArchivedIsNotRun ==
    \A r \in Run :
        exists(r) /\ offSince[db[r].test] # NoTime
            => db[r].at <= offSince[db[r].test] + Timeout

\* A schedule that was disabled or deleted fires no more, but for a launch that
\* was claimed before.
OffIsNotFired ==
    \A p \in Replica :
        rep[p].step = "create" /\ offSince[rep[p].sched] # NoTime
            => now <= offSince[rep[p].sched] + Timeout

\* A run is launched only when somebody, or a schedule that is due, asks for it.
LaunchesAreDue == FiredOnce /\ ArchivedIsNotRun /\ OffIsNotFired

\* The run of a schedule belongs to the schedule's creator, until that account is
\* deleted.
ScheduledRunsAreOwned ==
    \A r \in Run :
        exists(r) /\ db[r].source # None
            => db[r].owner = creator[db[r].source]
               \/ creator[db[r].source] \notin users
=============================================================================
