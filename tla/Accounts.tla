------------------------------- MODULE Accounts -------------------------------
(***************************************************************************)
(* Centers and their back-office accounts: internal/usecase/superadmin,    *)
(* staff and teacher, and the provisioning of auth.Register and            *)
(* superadmin.CreateCenter, over their postgres repositories.              *)
(*                                                                         *)
(* A removal of a staff account first lists the staff in one transaction   *)
(* (guardLastAdmin) and then writes in another.  An edit of a center first *)
(* reads its row and then writes some of its columns: those the request    *)
(* names get the value asked for, the others the value read.  Each read is *)
(* a step and each write is a step; a single UPDATE or DELETE takes the    *)
(* rows as they are when it gets their locks.                             *)
(*                                                                         *)
(* The platform's own center is no center here: GetCenter and CreateCenter *)
(* refuse it.                                                             *)
(***************************************************************************)
EXTENDS Naturals, FiniteSets

CONSTANTS
  Centers,      \* slugs of centers
  Users,        \* ids of accounts ever created
  Handlers,     \* request handlers running at the same time
  Values,       \* valid values of a column of a center
  Default,      \* the value of a column in a new row
  Archived,     \* the status of a deleted center
  MaxRequests   \* bound: requests ever begun

ASSUME AccountsAssumption ==
  /\ Default \in Values
  /\ Archived \in Values
  /\ MaxRequests \in Nat

VARIABLES
  org,        \* per center: its row
  home,       \* per account created: its center
  role,       \* per account: its role, or that it is unborn or deleted
  req,        \* per handler: the request it is serving
  requests,   \* number of requests begun
  ordered,    \* per center: the value last asked for, per column
  crossed     \* what a request that read an outdated row or list has written

accountVars == <<home, role>>
vars == <<org, accountVars, req, requests, ordered, crossed>>

-----------------------------------------------------------------------------
StaffRoles == {"center_admin", "manager", "finance"}
Roles      == StaffRoles \cup {"teacher"}
NoRole     == {"unborn", "deleted"}

Columns == {"plan", "status", "billing_status", "trial_ends_at"}
NoRow   == [slug |-> "free"]
Rows    == [Columns -> Values]

(* The columns UpdateOrgPlanStatus and UpdateOrgBilling write.            *)
Forms       == {"center", "billing"}
Written     == [center |-> {"plan", "status"}, billing |-> {"plan", "billing_status", "trial_ends_at"}]
Edits(columns) == UNION {[named -> Values] : named \in SUBSET columns}

(* A removal is a demotion to a role, or a deletion ("deleted").          *)
RemoveReq == [op : {"remove"}, user : Users, to : (StaffRoles \ {"center_admin"}) \cup {"deleted"},
              stale : BOOLEAN]
EditReq   == [op : {"edit"}, center : Centers, form : Forms, edit : Edits(Columns),
              read : Rows, stale : BOOLEAN]
Idle      == [op |-> "idle"]

Exists(c) == org[c] # NoRow
Admins(c) == {u \in Users : role[u] = "center_admin" /\ home[u] = c}

TypeOK ==
  /\ org \in [Centers -> Rows \cup {NoRow}]
  /\ role \in [Users -> Roles \cup NoRole]
  /\ home \in [Users -> Centers \cup {"nowhere"}]
  /\ \A u \in Users : role[u] # "unborn" => home[u] \in Centers /\ Exists(home[u])
  /\ req \in [Handlers -> RemoveReq \cup EditReq \cup {Idle}]
  /\ requests \in 0..MaxRequests
  /\ ordered \in [Centers -> Rows \cup {NoRow}]
  /\ crossed \subseteq {"removal", "edit"} \X Centers

Init ==
  /\ org = [c \in Centers |-> NoRow]
  /\ role = [u \in Users |-> "unborn"]
  /\ home = [u \in Users |-> "nowhere"]
  /\ req = [h \in Handlers |-> Idle]
  /\ requests = 0
  /\ ordered = [c \in Centers |-> NoRow]
  /\ crossed = {}

Request ==
  /\ requests < MaxRequests
  /\ requests' = requests + 1

Begin(h, r) ==
  /\ Request
  /\ req[h] = Idle
  /\ req' = [req EXCEPT ![h] = r]

(* h ends; what the handlers in outdated have read is no longer so.        *)
End(h, outdated) ==
  req' = [g \in Handlers |->
            IF g = h THEN Idle
            ELSE IF g \in outdated THEN [req[g] EXCEPT !.stale = TRUE]
            ELSE req[g]]

-----------------------------------------------------------------------------
(* One transaction: the slug is free, the center and its administrator are *)
(* inserted.                                                              *)
ProvisionOrgWithAdmin(c, u, plan) ==
  /\ org' = [org EXCEPT ![c] = [[k \in Columns |-> Default] EXCEPT !["plan"] = plan]]
  /\ role' = [role EXCEPT ![u] = "center_admin"]
  /\ home' = [home EXCEPT ![u] = c]

Provision(c, u, plan) ==
  /\ Request
  /\ ~Exists(c)
  /\ role[u] = "unborn"
  /\ ProvisionOrgWithAdmin(c, u, plan)
  /\ ordered' = [ordered EXCEPT ![c] = org'[c]]
  /\ UNCHANGED <<req, crossed>>

-----------------------------------------------------------------------------
(* Staff and teachers.                                                    *)
CreateUser(c, u, r) ==
  /\ Request
  /\ Exists(c)
  /\ role[u] = "unborn"
  /\ role' = [role EXCEPT ![u] = r]
  /\ home' = [home EXCEPT ![u] = c]
  /\ UNCHANGED <<org, req, ordered, crossed>>

CreateStaff(c, u, r) == r \in StaffRoles /\ CreateUser(c, u, r)
CreateTeacher(c, u)  == CreateUser(c, u, "teacher")

DeleteTeacher(u) ==
  /\ Request
  /\ role[u] = "teacher"
  /\ role' = [role EXCEPT ![u] = "deleted"]
  /\ UNCHANGED <<org, home, req, ordered, crossed>>

(* Update with the role of an administrator needs no guard.               *)
Promote(u) ==
  /\ Request
  /\ role[u] \in StaffRoles
  /\ role' = [role EXCEPT ![u] = "center_admin"]
  /\ UNCHANGED <<org, home, req, ordered, crossed>>

(* Mutant: every staff member counts.                                     *)
NotLastStaff(u) == {v \in Users : role[v] \in StaffRoles /\ home[v] = home[u]} # {u}

(* guardLastAdmin: the account is not the only administrator listed.      *)
NotLastAdmin(u) == Admins(home[u]) # {u}

(* Update to another role, or Delete (to = "deleted").                    *)
GuardLastAdmin(h, u, to) ==
  /\ role[u] # "unborn"
  /\ NotLastAdmin(u)
  /\ Begin(h, [op |-> "remove", user |-> u, to |-> to, stale |-> FALSE])
  /\ UNCHANGED <<org, accountVars, ordered, crossed>>

OtherRemovals(c) == {g \in Handlers : req[g].op = "remove" /\ home[req[g].user] = c}

(* UpdateStaffUser and DeleteStaffUser change a row that has a staff role.  *)
Remove(h) ==
  /\ req[h].op = "remove"
  /\ LET u == req[h].user IN
       /\ role[u] \in StaffRoles
       /\ role' = [role EXCEPT ![u] = req[h].to]
       /\ IF role[u] = "center_admin"
            THEN /\ End(h, OtherRemovals(home[u]))
                 /\ crossed' = IF req[h].stale THEN crossed \cup {<<"removal", home[u]>>} ELSE crossed
            ELSE /\ End(h, {})
                 /\ UNCHANGED crossed
  /\ UNCHANGED <<org, home, requests, ordered>>

RemoveNothing(h) ==
  /\ req[h].op = "remove"
  /\ role[req[h].user] \notin StaffRoles
  /\ End(h, {})
  /\ UNCHANGED <<org, accountVars, requests, ordered, crossed>>

-----------------------------------------------------------------------------
(* UpdateCenter and SetBilling of a superadmin: the row is read ...       *)
GetCenter(h, c, form, edit) ==
  /\ Exists(c)
  /\ Begin(h, [op |-> "edit", center |-> c, form |-> form, edit |-> edit,
               read |-> org[c], stale |-> FALSE])
  /\ UNCHANGED <<org, accountVars, ordered, crossed>>

UpdateCenter(h, c) == \E edit \in Edits(Written["center"])  : GetCenter(h, c, "center", edit)
SetBilling(h, c)   == \E edit \in Edits(Written["billing"]) : GetCenter(h, c, "billing", edit)
DeleteCenter(h, c) == GetCenter(h, c, "center", [k \in {"status"} |-> Archived])

(* Mutant: a column the request does not name gets the default.           *)
MergedWithDefaults(row, r) ==
  [k \in Columns |-> IF k \in DOMAIN r.edit THEN r.edit[k]
                     ELSE IF k \in Written[r.form] THEN Default
                     ELSE row[k]]

(* ... and the columns of the form written, named or not.                 *)
Merged(row, r) ==
  [k \in Columns |-> IF k \in DOMAIN r.edit THEN r.edit[k]
                     ELSE IF k \in Written[r.form] THEN r.read[k]
                     ELSE row[k]]

OtherEdits(c) == {g \in Handlers : req[g].op = "edit" /\ req[g].center = c}

WriteCenter(h) ==
  /\ req[h].op = "edit"
  /\ LET c == req[h].center IN
       /\ org' = [org EXCEPT ![c] = Merged(org[c], req[h])]
       /\ ordered' = [ordered EXCEPT ![c] = [k \in Columns |->
                        IF k \in DOMAIN req[h].edit THEN req[h].edit[k] ELSE ordered[c][k]]]
       /\ crossed' = IF req[h].stale THEN crossed \cup {<<"edit", c>>} ELSE crossed
       /\ End(h, OtherEdits(c))
  /\ UNCHANGED <<accountVars, requests>>

(* A crash or a database error between the read and the write.            *)
Fail(h) ==
  /\ req[h] # Idle
  /\ End(h, {})
  /\ UNCHANGED <<org, accountVars, requests, ordered, crossed>>

Next ==
  \/ \E c \in Centers, u \in Users :
       \/ \E plan \in Values : Provision(c, u, plan)
       \/ \E r \in StaffRoles : CreateStaff(c, u, r)
       \/ CreateTeacher(c, u)
  \/ \E u \in Users : Promote(u) \/ DeleteTeacher(u)
  \/ \E h \in Handlers :
       \/ \E u \in Users, to \in {"manager", "finance", "deleted"} : GuardLastAdmin(h, u, to)
       \/ \E c \in Centers : UpdateCenter(h, c) \/ SetBilling(h, c) \/ DeleteCenter(h, c)
       \/ Remove(h)
       \/ RemoveNothing(h)
       \/ WriteCenter(h)
       \/ Fail(h)

Spec == Init /\ [][Next]_vars

-----------------------------------------------------------------------------
(* staff/service.go: "Removing the center's last administrator is blocked  *)
(* so the tenant can never be locked out."                                *)
CenterKeepsAdmin == \A c \in Centers : Exists(c) => Admins(c) # {}

(* A center is left without an administrator only by a removal that passed *)
(* the guard before another removal of an administrator was committed.    *)
AdminLossExplained ==
  \A c \in Centers : Exists(c) /\ Admins(c) = {} => <<"removal", c>> \in crossed

(* A column differs from what was last asked for it only after an edit     *)
(* that read the center before another edit of it was committed.          *)
DriftExplained ==
  \A c \in Centers : org[c] # ordered[c] => <<"edit", c>> \in crossed
=============================================================================
