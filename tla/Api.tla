--------------------------------- MODULE Api ---------------------------------
(***************************************************************************)
(* One user of a center, a token, and a connection of the pool, through    *)
(* every route of the controllers and every background job: the gate of    *)
(* the route, the transactions of its handler statement by statement, and  *)
(* failures wherever they can happen.  Requests share a connection one     *)
(* after the other; what others commit in between is Overtake.             *)
(***************************************************************************)
EXTENDS Routes, FiniteSets, Integers

CONSTANTS
    Orgs,         \* centers
    Home,         \* the center of the user
    StaffLife,    \* units of time the access token of a member of staff is good for
    StudentLife   \* and that of a student

ASSUME HomeAssumption == Home \in Orgs
ASSUME LifeAssumption == StaffLife \in Nat /\ StudentLife \in Nat

VARIABLES
    token,    \* the user's access token, and how its role stands with the account
    conn,     \* the app.current_org of the connection: of its session, of its transaction
    req       \* the request being served

vars == <<token, conn, req>>

Nothing == "nothing"
NoToken == [role |-> Nobody, age |-> 0, held |-> FALSE, lost |-> 0]
Clean == [session |-> Nothing, local |-> Nothing]
Idle == [at |-> "idle"]

Init ==
    /\ token = NoToken
    /\ conn = Clean
    /\ req = Idle

-----------------------------------------------------------------------------
(* Where a request is: in the transaction path[tx], before its statement   *)
(* number step; step 0 is before the transaction begins.                   *)

Busy == req.at = "busy"
Tx == req.path[req.tx]
Running == Busy /\ req.step > 0
Pending == Running /\ req.step <= Len(Tx.steps)
Statement_ == Tx.steps[req.step].run

\* The setting the row policies see: the transaction's, else the session's.
CurrentOrg == IF conn.local # Nothing THEN conn.local ELSE conn.session

\* The transactions the request may come to after the one numbered i: the next one
\* its role and the data ask for and, in a loop, any of the loop's body.
Meant(t) == t.of = {} \/ req.role \in t.of
Passed(t) == t.times # "once" \/ ~Meant(t)
OneLoop(i, j) == \A k \in j..i : req.path[k].times = "each"
After(i) ==
    {j \in 1..Len(req.path) :
        /\ Meant(req.path[j])
        /\ \/ j > i /\ \A k \in (i + 1)..(j - 1) : Passed(req.path[k])
           \/ 0 < j /\ j <= i /\ OneLoop(i, j)}
MayEnd(i) == \A k \in (i + 1)..Len(req.path) : Passed(req.path[k])

\* The tables read before this transaction and not again in it.
ReadIn(t) == UNION {t.steps[n].run.reads : n \in 1..Len(t.steps)}
Known == (UNION {ReadIn(req.path[k]) : k \in 1..(req.tx - 1)}) \ ReadIn(Tx)

Answer(r, a) == [r EXCEPT !.at = "answered", !.answer = a]

\* What the handler may answer when nothing has failed: a replayed token never "ok".
Verdicts(r) == r.route.ends \ (IF r.path = <<Session_ReplaySession>> THEN {"ok"} ELSE {})

\* The request r goes on after its transaction number i, or is answered.
GoOn(r, i) ==
    \/ \E j \in After(i) : req' = [r EXCEPT !.tx = j, !.step = 0, !.dirty = {}]
    \/ MayEnd(i) /\ \E a \in Verdicts(r) : req' = Answer(r, a)

-----------------------------------------------------------------------------
(* Tokens *)

Life(role) == IF role = "student" THEN StudentLife ELSE StaffLife

\* Mutant: the expiry is not looked at.
ParseToken == token # NoToken

\* ParseAccessToken refuses a token past its time.
ParseAccessToken == token # NoToken /\ token.age <= Life(token.role)

\* The role is taken from the account, or given back: by the directors, by deleting
\* the account, by suspending the center.
ChangeAccount ==
    /\ token # NoToken
    /\ token' = [token EXCEPT !.held = ~@, !.lost = 0]
    /\ UNCHANGED <<conn, req>>

\* Requests are shorter than a unit of time.
Tick ==
    /\ req = Idle
    /\ token # NoToken
    /\ token.age <= Life(token.role)
    /\ token' = [token EXCEPT !.age = @ + 1, !.lost = IF token.held THEN 0 ELSE @ + 1]
    /\ UNCHANGED <<conn, req>>

\* The roles of the tokens a route hands out, read from the account while it ran.
Issued(route) ==
    CASE route = auth_register -> {"center_admin"}
      [] route = student_login -> {"student"}
      [] route = admin_login -> {"super_admin"}
      [] route \in {auth_login, auth_refresh} -> Roles \ {"student"}
      [] OTHER -> {}

-----------------------------------------------------------------------------
(* Requests *)

Arrive(route, role, org) ==
    /\ req = Idle
    /\ \E path \in route.paths :
          req' = [at |-> "busy", route |-> route, role |-> role, org |-> org, path |-> path,
                  tx |-> 0, step |-> 0, dirty |-> {}, wrote |-> FALSE, moved |-> {},
                  stale |-> FALSE, answer |-> Nothing]
    /\ UNCHANGED <<token, conn>>

\* RequireAuth and RequireRole: the role is the token's.
Request(route) ==
    /\ ParseAccessToken
    /\ token.role \in route.gate
    /\ Nobody \notin route.gate
    /\ Arrive(route, token.role, Home)

PublicRequest(route) ==
    /\ Nobody \in route.gate
    /\ \E org \in Orgs : Arrive(route, Nobody, org)

RunJob(route) ==
    /\ Job \in route.gate
    /\ \E org \in Orgs : Arrive(route, Job, org)

\* The handler comes to its first transaction.
Start ==
    /\ Busy /\ req.tx = 0
    /\ GoOn(req, 0)
    /\ UNCHANGED <<token, conn>>

Begin ==
    /\ Busy /\ req.tx > 0 /\ req.step = 0
    /\ \E org \in IF Tx.center = "next" THEN Orgs ELSE {req.org} :
          req' = [req EXCEPT !.step = 1, !.org = org]
    /\ UNCHANGED <<token, conn>>

RunStatement ==
    /\ Pending
    /\ conn' = CASE Statement_.sets = "transaction" -> [conn EXCEPT !.local = req.org]
                 [] Statement_.sets = "session" -> [conn EXCEPT !.session = req.org]
                 [] OTHER -> conn
    /\ \E next \in {req.step + 1} \cup IF Tx.steps[req.step].times = "each" THEN {req.step} ELSE {} :
          req' = [req EXCEPT !.step = next, !.dirty = @ \cup Statement_.writes]
    /\ UNCHANGED token

PassStatement ==
    /\ Pending /\ Tx.steps[req.step].times # "once"
    /\ req' = [req EXCEPT !.step = @ + 1]
    /\ UNCHANGED <<token, conn>>

Commit ==
    /\ Running /\ ~Pending
    /\ conn' = [conn EXCEPT !.local = Nothing]
    /\ GoOn([req EXCEPT !.wrote = @ \/ req.dirty # {},
                        !.stale = @ \/ req.dirty \cap Known \cap req.moved # {}], req.tx)
    /\ UNCHANGED token

\* A statement, or the check of what it returned, fails: the transaction is rolled
\* back, and the handler returns the error or goes on without.
StatementFails ==
    /\ Running
    /\ conn' = [conn EXCEPT !.local = Nothing]
    /\ IF Tx.must THEN req' = Answer(req, "error") ELSE GoOn(req, req.tx)
    /\ UNCHANGED token

\* The handler returns an error of its own before a transaction it cannot do without
\* (one it returns after the last of them is among its Verdicts).
Refuse ==
    /\ Busy /\ req.step = 0 /\ req.role # Job
    /\ req.tx > 0 => Tx.must
    /\ req' = Answer(req, "error")
    /\ UNCHANGED <<token, conn>>

\* The caller goes away and the context with it, or the process dies.
Crash ==
    /\ Busy
    /\ conn' = [conn EXCEPT !.local = Nothing]
    /\ req' = Answer(req, "lost")
    /\ UNCHANGED token

\* Another request commits a change to a table this one has read before.
Overtake ==
    /\ Busy /\ req.tx > 0 /\ req.moved = {}
    /\ \E table \in Known : req' = [req EXCEPT !.moved = {table}]
    /\ UNCHANGED <<token, conn>>

Return ==
    /\ req.at = "answered"
    /\ req' = Idle
    /\ \/ UNCHANGED token
       \/ /\ req.answer = "ok"
          /\ \E role \in Issued(req.route), held \in BOOLEAN :
                token' = [role |-> role, age |-> 0, held |-> held, lost |-> 0]
    /\ UNCHANGED conn

Next ==
    \/ \E route \in AllRoutes : Request(route) \/ PublicRequest(route) \/ RunJob(route)
    \/ Start \/ Begin \/ RunStatement \/ PassStatement \/ Commit
    \/ StatementFails \/ Refuse \/ Crash \/ Overtake \/ Return
    \/ ChangeAccount \/ Tick

Spec == Init /\ [][Next]_vars

-----------------------------------------------------------------------------
(* What the layer is for *)

RequestRecords ==
    [at : {"busy", "answered"}, route : AllRoutes, role : Roles \cup {Nobody, Job}, org : Orgs,
     path : UNION {route.paths : route \in AllRoutes}, tx : Nat, step : Nat,
     dirty : SUBSET Tables, wrote : BOOLEAN, moved : SUBSET Tables, stale : BOOLEAN,
     answer : {Nothing, "ok", "error", "lost"}]

Requests ==
    {r \in RequestRecords :
        /\ r.role \in r.route.gate
        /\ r.path \in r.route.paths
        /\ r.tx \in 0..Len(r.path)
        /\ r.step \in 0..(IF r.tx = 0 THEN 0 ELSE Len(r.path[r.tx].steps) + 1)}

\* The shape of the state: a request is one of a role its route admits, on a path of
\* its route, at a place of that path.
TypeOK ==
    /\ token \in [role : Roles \cup {Nobody}, age : Nat, held : BOOLEAN, lost : Nat]
    /\ conn \in [session : Orgs \cup {Nothing}, local : Orgs \cup {Nothing}]
    /\ req = Idle \/ req \in Requests

Money == {"expenses", "salary_rules", "salary_group_rules", "salary_slips"}

\* Every statement on a table with a row policy runs with the center of its request
\* set, in its transaction, and no connection goes back to the pool with a center
\* still set (postgres.go: WithTenant, SetTenant).
RlsSeesItsTenant ==
    /\ Pending /\ ~(Touches(Statement_) \subseteq Unsecured) => CurrentOrg = req.org
    /\ req = Idle => conn = Clean

\* A role reaches no further than the life of one token after the account lost it
\* (middleware.go: the role is the token's, the account is not read again).
AuthorityBounded ==
    Busy /\ req.role \in Roles => token.lost <= Life(req.role)

\* "The front-desk administrator never sees these" (server.go): no request of a
\* manager, a mentor, a teacher or a student runs a statement on the expenses or
\* the salaries.
MoneyKeptFrom ==
    Pending /\ req.role \in {"manager", "mentor", "teacher", "student"}
        => Touches(Statement_) \cap Money = {}

\* The requests that commit more than one transaction none of which they could do
\* without, the rest failing after the first has been committed, and those that refuse
\* when they have committed all.
Staged ==
    {auth_register, admin_login, auth_refresh, admin_centers_update, admin_centers_billing,
     leads_convert, groups_add_member, groups_remove_member, students_assign_group,
     salary_rule_set, maintenance_recompute}

\* A request answered with an error has left nothing behind, but for these: a center
\* whose first session failed, the session of a login that admin.go refuses, a rotated
\* session nobody was told of, a plan changed and not read back, a student made of a
\* lead that is still open, a membership without the primary group, a rule without its
\* groups (leads.go convert, group/service.go AddMember, salary/service.go SetRule).
PartialWritesExplained ==
    req.at = "answered" /\ req.answer = "error" /\ req.wrote /\ req.role # Job
        => req.route \in Staged

\* The requests that check in one transaction what they change in a later one.
CheckThenAct ==
    {auth_register, me_change_password, student_change_password,
     admin_centers_update, admin_centers_billing, admin_centers_delete, staff_update,
     staff_delete,
     groups_delete, groups_add_member, groups_remove_member, students_assign_group,
     leads_convert, lessons_create, lessons_update, lessons_session_save,
     homework_update, homework_delete, homework_grade, exam_delete,
     obstacle_options_create, RemindHomeworkAllTenants, RunDaily, RunWeekly}

\* No request changes a table by what it read of it in an earlier transaction, and
\* others have changed since, but for these (payments, purchases, slips and the risk
\* of a student read what they change in the transaction that changes it; a check-in
\* picks its week before, and reads the surveys again: Retention has that race).
StaleWritesExplained == req # Idle /\ req.stale => req.route \in CheckThenAct
=============================================================================
