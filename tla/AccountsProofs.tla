---------------------------- MODULE AccountsProofs ----------------------------
(***************************************************************************)
(* Type correctness of Accounts, that a lost administrator and a drifted   *)
(* center are always explained, and that one handler loses and drifts      *)
(* nothing, for any centers, accounts, handlers and values.               *)
(***************************************************************************)
EXTENDS Accounts, TLAPS

Reqs == RemoveReq \cup EditReq \cup {Idle}

LEMMA ReqType ==
  ASSUME TypeOK, NEW h \in Handlers
  PROVE  /\ req[h] \in Reqs
         /\ req[h].op = "remove" => req[h] \in RemoveReq
         /\ req[h].op = "edit" => req[h] \in EditReq
BY DEF TypeOK, Reqs, RemoveReq, EditReq, Idle

LEMMA BeginType ==
  ASSUME TypeOK, NEW h \in Handlers, NEW r \in Reqs, Begin(h, r)
  PROVE  /\ req' \in [Handlers -> Reqs]
         /\ requests' \in 0..MaxRequests
BY AccountsAssumption DEF TypeOK, Begin, Request, Reqs

LEMMA EndType ==
  ASSUME TypeOK, NEW h \in Handlers, NEW outdated,
         \A g \in outdated : g \in Handlers => req[g] # Idle, End(h, outdated)
  PROVE  req' \in [Handlers -> Reqs]
<1>1. ASSUME NEW g \in Handlers, req[g] # Idle
      PROVE  [req[g] EXCEPT !.stale = TRUE] \in Reqs
  <2>1. CASE req[g] \in RemoveReq
    BY <2>1 DEF Reqs, RemoveReq
  <2>2. CASE req[g] \in EditReq
    BY <2>2 DEF Reqs, EditReq
  <2> QED
    BY <1>1, <2>1, <2>2, ReqType DEF Reqs
<1> QED
  BY <1>1, ReqType DEF End, Reqs

LEMMA MergedType ==
  ASSUME NEW row \in Rows, NEW r \in EditReq
  PROVE  Merged(row, r) \in Rows
<1>1. PICK named \in SUBSET Columns : r.edit \in [named -> Values]
  BY DEF EditReq, Edits
<1> QED
  BY <1>1 DEF Merged, EditReq, Rows

-----------------------------------------------------------------------------
(* Type correctness.                                                      *)

LEMMA InitType == Init => TypeOK
BY AccountsAssumption DEF Init, TypeOK, NoRole

LEMMA ProvisionType ==
  ASSUME TypeOK, NEW c \in Centers, NEW u \in Users, NEW plan \in Values, Provision(c, u, plan)
  PROVE  TypeOK'
<1> DEFINE row == [[k \in Columns |-> Default] EXCEPT !["plan"] = plan]
<1>1. row \in Rows /\ row # NoRow
  BY AccountsAssumption DEF Rows, NoRow, Columns
<1>2. /\ org' = [org EXCEPT ![c] = row]
      /\ role' = [role EXCEPT ![u] = "center_admin"]
      /\ home' = [home EXCEPT ![u] = c]
      /\ ordered' = [ordered EXCEPT ![c] = org'[c]]
  BY DEF Provision, ProvisionOrgWithAdmin
<1> HIDE DEF row
<1>3. org' \in [Centers -> Rows \cup {NoRow}] /\ ordered' \in [Centers -> Rows \cup {NoRow}]
  BY <1>1, <1>2 DEF TypeOK
<1>4. role' \in [Users -> Roles \cup NoRole] /\ home' \in [Users -> Centers \cup {"nowhere"}]
  BY <1>2 DEF TypeOK, Roles, StaffRoles
<1>5. \A v \in Users : role'[v] # "unborn" => home'[v] \in Centers /\ org'[home'[v]] # NoRow
  BY <1>1, <1>2 DEF TypeOK, Exists
<1>6. requests' \in 0..MaxRequests
  BY AccountsAssumption DEF Provision, Request, TypeOK
<1> QED
  BY <1>3, <1>4, <1>5, <1>6 DEF Provision, TypeOK, Exists

LEMMA RoleType ==
  ASSUME TypeOK, NEW u \in Users, NEW r \in (Roles \cup NoRole) \ {"unborn"},
         role' = [role EXCEPT ![u] = r],
         \/ UNCHANGED home /\ role[u] # "unborn"
         \/ \E c \in Centers : Exists(c) /\ home' = [home EXCEPT ![u] = c],
         UNCHANGED org
  PROVE  /\ role' \in [Users -> Roles \cup NoRole]
         /\ home' \in [Users -> Centers \cup {"nowhere"}]
         /\ \A v \in Users : role'[v] # "unborn" => home'[v] \in Centers /\ org'[home'[v]] # NoRow
BY DEF TypeOK, Exists

LEMMA StaffType ==
  ASSUME TypeOK,
         \/ \E c \in Centers, u \in Users :
              (\E r \in StaffRoles : CreateStaff(c, u, r)) \/ CreateTeacher(c, u)
         \/ \E u \in Users : Promote(u) \/ DeleteTeacher(u)
  PROVE  TypeOK'
<1>1. ASSUME NEW c \in Centers, NEW u \in Users, NEW r \in Roles, CreateUser(c, u, r)
      PROVE  TypeOK'
  BY <1>1, RoleType, AccountsAssumption
  DEF CreateUser, Request, TypeOK, Roles, StaffRoles, Exists
<1>2. ASSUME NEW u \in Users, Promote(u) \/ DeleteTeacher(u)
      PROVE  TypeOK'
  <2>1. PICK r \in {"center_admin", "deleted"} : role' = [role EXCEPT ![u] = r]
    BY <1>2 DEF Promote, DeleteTeacher
  <2>2. r \in (Roles \cup NoRole) \ {"unborn"} /\ role[u] # "unborn"
    BY <1>2, <2>1 DEF Promote, DeleteTeacher, Roles, StaffRoles, NoRole
  <2> QED
    BY <1>2, <2>1, <2>2, RoleType, AccountsAssumption DEF Promote, DeleteTeacher, Request, TypeOK, Exists
<1> QED
  BY <1>1, <1>2 DEF CreateStaff, CreateTeacher, Roles

LEMMA GuardType ==
  ASSUME TypeOK, NEW h \in Handlers, NEW u \in Users, NEW to \in {"manager", "finance", "deleted"},
         GuardLastAdmin(h, u, to)
  PROVE  TypeOK'
<1>1. [op |-> "remove", user |-> u, to |-> to, stale |-> FALSE] \in Reqs
  BY DEF Reqs, RemoveReq, StaffRoles
<1> QED
  BY <1>1, BeginType DEF GuardLastAdmin, TypeOK, accountVars, Exists, Reqs

LEMMA GetType ==
  ASSUME TypeOK, NEW h \in Handlers, NEW c \in Centers, NEW form \in Forms,
         NEW edit \in Edits(Columns), GetCenter(h, c, form, edit)
  PROVE  TypeOK'
<1>1. org[c] \in Rows
  BY DEF TypeOK, GetCenter, Exists
<1>2. [op |-> "edit", center |-> c, form |-> form, edit |-> edit, read |-> org[c],
       stale |-> FALSE] \in Reqs
  BY <1>1 DEF Reqs, EditReq
<1> QED
  BY <1>2, BeginType DEF GetCenter, TypeOK, accountVars, Exists, Reqs

(* Whichever request reads a center, it is GetCenter.                     *)
LEMMA EditsGet ==
  ASSUME NEW h \in Handlers, NEW c \in Centers,
         UpdateCenter(h, c) \/ SetBilling(h, c) \/ DeleteCenter(h, c)
  PROVE  \E form \in Forms, edit \in Edits(Columns) : GetCenter(h, c, form, edit)
<1>1. ASSUME NEW form \in Forms
      PROVE  Edits(Written[form]) \subseteq Edits(Columns)
  BY DEF Edits, Written, Columns, Forms
<1>2. [k \in {"status"} |-> Archived] \in Edits(Columns)
  <2>1. [k \in {"status"} |-> Archived] \in [{"status"} -> Values]
    BY AccountsAssumption
  <2> QED
    BY <2>1 DEF Edits, Columns
<1> QED
  BY <1>1, <1>2 DEF UpdateCenter, SetBilling, DeleteCenter, Forms

LEMMA RemoveType ==
  ASSUME TypeOK, NEW h \in Handlers, Remove(h)
  PROVE  TypeOK'
<1> DEFINE u == req[h].user
<1>1. u \in Users /\ req[h].to \in (Roles \cup NoRole) \ {"unborn"} /\ home[u] \in Centers
  BY ReqType DEF Remove, RemoveReq, TypeOK, Roles, StaffRoles, NoRole
<1>2. role[u] \in StaffRoles /\ role' = [role EXCEPT ![u] = req[h].to]
  BY DEF Remove
<1>3. role[u] # "unborn"
  BY <1>2 DEF StaffRoles
<1>4. \E outdated : End(h, outdated) /\ \A g \in outdated : g \in Handlers => req[g] # Idle
  BY DEF Remove, OtherRemovals, Idle
<1>5. req' \in [Handlers -> Reqs]
  BY <1>4, EndType
<1>6. crossed' \subseteq {"removal", "edit"} \X Centers
  BY <1>1 DEF Remove, TypeOK
<1> QED
  BY <1>1, <1>2, <1>3, <1>5, <1>6, RoleType DEF Remove, TypeOK, Reqs, Exists

LEMMA WriteType ==
  ASSUME TypeOK, NEW h \in Handlers, WriteCenter(h), Exists(req[h].center),
         ordered[req[h].center] # NoRow
  PROVE  TypeOK'
<1> DEFINE c == req[h].center
           r == req[h]
<1>1. r \in EditReq /\ c \in Centers
  BY ReqType DEF WriteCenter, EditReq
<1>2. org[c] \in Rows /\ ordered[c] \in Rows
  BY <1>1 DEF TypeOK, Exists
<1>3. Merged(org[c], r) \in Rows /\ NoRow \notin Rows
  BY <1>1, <1>2, MergedType DEF Rows, NoRow, Columns
<1>4. org' \in [Centers -> Rows \cup {NoRow}] /\ \A d \in Centers : Exists(d) => Exists(d)'
  BY <1>1, <1>3 DEF WriteCenter, TypeOK, Exists
<1>5. [k \in Columns |-> IF k \in DOMAIN r.edit THEN r.edit[k] ELSE ordered[c][k]] \in Rows
  <2>1. PICK named \in SUBSET Columns : r.edit \in [named -> Values]
    BY <1>1 DEF EditReq, Edits
  <2> QED
    BY <1>2, <2>1 DEF Rows
<1>6. ordered' \in [Centers -> Rows \cup {NoRow}]
  BY <1>1, <1>5 DEF WriteCenter, TypeOK
<1>7. req' \in [Handlers -> Reqs]
  BY EndType DEF WriteCenter, OtherEdits, Idle
<1>8. crossed' \subseteq {"removal", "edit"} \X Centers
  BY <1>1 DEF WriteCenter, TypeOK
<1> QED
  BY <1>4, <1>6, <1>7, <1>8 DEF WriteCenter, TypeOK, accountVars, Reqs

LEMMA DropType ==
  ASSUME TypeOK, NEW h \in Handlers, RemoveNothing(h) \/ Fail(h)
  PROVE  TypeOK'
<1>1. req' \in [Handlers -> Reqs]
  BY EndType DEF RemoveNothing, Fail
<1> QED
  BY <1>1 DEF RemoveNothing, Fail, TypeOK, accountVars, Exists, Reqs

-----------------------------------------------------------------------------
(* What a pending request may rely on.  The account it removes and the     *)
(* center it edits exist; a removal whose list is not outdated leaves      *)
(* another administrator; an edit whose row is not outdated has read the   *)
(* row that is stored.                                                    *)
PendingInv ==
  /\ \A h \in Handlers : req[h].op = "remove" => role[req[h].user] # "unborn"
  /\ \A h \in Handlers : req[h].op = "edit" => Exists(req[h].center)
  /\ \A c \in Centers : Exists(c) => ordered[c] # NoRow

Spared(c, u) == <<"removal", c>> \in crossed \/ \E a \in Users \ {u} : a \in Admins(c)

GuardInv ==
  \A h \in Handlers :
    req[h].op = "remove" /\ ~req[h].stale => Spared(home[req[h].user], req[h].user)

ReadInv ==
  \A h \in Handlers :
    req[h].op = "edit" /\ ~req[h].stale => req[h].read = org[req[h].center]

IInv == TypeOK /\ PendingInv /\ GuardInv /\ ReadInv /\ AdminLossExplained /\ DriftExplained

LEMMA InitInv == Init => IInv
BY InitType
DEF Init, IInv, PendingInv, GuardInv, ReadInv, AdminLossExplained, DriftExplained, Idle, Exists

(* Creating and promoting accounts, and deleting teachers, takes no        *)
(* administrator away.                                                    *)
LEMMA AdminsKept ==
  ASSUME IInv, TypeOK', UNCHANGED <<req, org, ordered, crossed>>,
         \A u \in Users : role[u] # "unborn" => role'[u] # "unborn" /\ home'[u] = home[u],
         \A u \in Users : role[u] = "center_admin" => role'[u] = "center_admin"
  PROVE  IInv'
<1>1. \A c \in Centers : Admins(c) \subseteq Admins(c)'
  BY DEF Admins
<1>2. \A h \in Handlers : req[h].op = "remove" => req[h].user \in Users /\ role[req[h].user] # "unborn"
  BY ReqType DEF IInv, PendingInv, RemoveReq
<1>3. \A u \in Users : role[u] # "unborn" => home[u] \in Centers
  BY DEF IInv, TypeOK
<1>4. PendingInv'
  BY <1>2 DEF IInv, PendingInv, Exists
<1>5. GuardInv'
  BY <1>1, <1>2, <1>3 DEF IInv, GuardInv, Spared
<1>6. ReadInv' /\ AdminLossExplained' /\ DriftExplained'
  BY <1>1 DEF IInv, ReadInv, AdminLossExplained, DriftExplained, Exists
<1> QED
  BY <1>4, <1>5, <1>6 DEF IInv

LEMMA StaffInv ==
  ASSUME IInv,
         \/ \E c \in Centers, u \in Users :
              (\E r \in StaffRoles : CreateStaff(c, u, r)) \/ CreateTeacher(c, u)
         \/ \E u \in Users : Promote(u) \/ DeleteTeacher(u)
  PROVE  IInv'
<1>1. TypeOK'
  BY StaffType DEF IInv
<1>2. UNCHANGED <<req, org, ordered, crossed>>
  BY DEF CreateStaff, CreateTeacher, CreateUser, Promote, DeleteTeacher
<1>3. ASSUME NEW c \in Centers, NEW u \in Users, NEW r \in Roles, CreateUser(c, u, r)
      PROVE  IInv'
  <2>1. /\ \A v \in Users \ {u} : role'[v] = role[v] /\ home'[v] = home[v]
        /\ role[u] = "unborn"
    BY <1>3 DEF CreateUser, IInv, TypeOK
  <2> QED
    BY <1>1, <1>2, <2>1, AdminsKept
<1>4. ASSUME NEW u \in Users, Promote(u) \/ DeleteTeacher(u)
      PROVE  IInv'
  <2>1. /\ \A v \in Users \ {u} : role'[v] = role[v]
        /\ role'[u] \in {"center_admin", "deleted"}
        /\ role[u] = "center_admin" => role'[u] = "center_admin"
        /\ UNCHANGED home
    BY <1>4 DEF Promote, DeleteTeacher, IInv, TypeOK
  <2> QED
    BY <1>1, <1>2, <2>1, AdminsKept
<1> QED
  BY <1>3, <1>4 DEF CreateStaff, CreateTeacher, Roles

LEMMA ProvisionInv ==
  ASSUME IInv, NEW c \in Centers, NEW u \in Users, NEW plan \in Values, Provision(c, u, plan)
  PROVE  IInv'
<1>1. TypeOK'
  BY ProvisionType DEF IInv
<1> DEFINE row == [[k \in Columns |-> Default] EXCEPT !["plan"] = plan]
<1>2. row # NoRow
  BY DEF NoRow, Columns
<1>3. /\ \A d \in Centers : org'[d] = IF d = c THEN row ELSE org[d]
      /\ \A d \in Centers : ordered'[d] = IF d = c THEN row ELSE ordered[d]
      /\ \A v \in Users : role'[v] = IF v = u THEN "center_admin" ELSE role[v]
      /\ \A v \in Users : home'[v] = IF v = u THEN c ELSE home[v]
      /\ role[u] = "unborn" /\ ~Exists(c)
      /\ UNCHANGED <<req, crossed>>
  BY DEF Provision, ProvisionOrgWithAdmin, IInv, TypeOK
<1> HIDE DEF row
<1>4. /\ \A d \in Centers : Admins(d) \subseteq Admins(d)'
      /\ u \in Admins(c)'
  BY <1>3 DEF Admins
<1>5. \A h \in Handlers :
        /\ req[h].op = "remove" => /\ req[h].user \in Users \ {u}
                                   /\ role[req[h].user] # "unborn"
                                   /\ home[req[h].user] \in Centers
        /\ req[h].op = "edit" => req[h].center \in Centers \ {c}
  BY <1>3, ReqType DEF IInv, PendingInv, RemoveReq, EditReq, TypeOK
<1>6. PendingInv'
  BY <1>2, <1>3, <1>5 DEF IInv, PendingInv, Exists
<1>7. GuardInv'
  BY <1>3, <1>4, <1>5 DEF IInv, GuardInv, Spared
<1>8. ReadInv'
  BY <1>3, <1>5 DEF IInv, ReadInv
<1>9. AdminLossExplained' /\ DriftExplained'
  BY <1>3, <1>4 DEF IInv, AdminLossExplained, DriftExplained, Exists
<1> QED
  BY <1>1, <1>6, <1>7, <1>8, <1>9 DEF IInv

LEMMA BeginInv ==
  ASSUME IInv, TypeOK', UNCHANGED <<org, accountVars, ordered, crossed>>,
         NEW h \in Handlers, NEW r, req' = [req EXCEPT ![h] = r],
         r.op = "remove" => role[r.user] # "unborn" /\ Spared(home[r.user], r.user),
         r.op = "edit" => Exists(r.center) /\ r.read = org[r.center]
  PROVE  IInv'
<1>1. \A g \in Handlers : req'[g] = IF g = h THEN r ELSE req[g]
  BY DEF IInv, TypeOK
<1>2. PendingInv'
  BY <1>1 DEF IInv, PendingInv, Exists, accountVars
<1>3. GuardInv'
  BY <1>1 DEF IInv, GuardInv, Spared, Admins, accountVars
<1>4. ReadInv' /\ AdminLossExplained' /\ DriftExplained'
  BY <1>1 DEF IInv, ReadInv, AdminLossExplained, DriftExplained, Exists, Admins, accountVars
<1> QED
  BY <1>2, <1>3, <1>4 DEF IInv

LEMMA GuardLastAdminInv ==
  ASSUME IInv, NEW h \in Handlers, NEW u \in Users, NEW to \in {"manager", "finance", "deleted"},
         GuardLastAdmin(h, u, to)
  PROVE  IInv'
<1>1. TypeOK'
  BY GuardType DEF IInv
<1>2. home[u] \in Centers /\ Exists(home[u])
  BY DEF GuardLastAdmin, IInv, TypeOK
<1>3. Spared(home[u], u)
  BY <1>2 DEF GuardLastAdmin, NotLastAdmin, Spared, IInv, AdminLossExplained, Admins
<1> QED
  BY <1>1, <1>3, BeginInv DEF GuardLastAdmin, Begin

LEMMA GetCenterInv ==
  ASSUME IInv, NEW h \in Handlers, NEW c \in Centers,
         UpdateCenter(h, c) \/ SetBilling(h, c) \/ DeleteCenter(h, c)
  PROVE  IInv'
<1>1. PICK form \in Forms, edit \in Edits(Columns) : GetCenter(h, c, form, edit)
  BY EditsGet
<1>2. TypeOK'
  BY <1>1, GetType DEF IInv
<1> QED
  BY <1>1, <1>2, BeginInv DEF GetCenter, Begin

(* The end of a request that writes nothing.                              *)
LEMMA DropInv ==
  ASSUME IInv, NEW h \in Handlers, RemoveNothing(h) \/ Fail(h)
  PROVE  IInv'
<1>1. TypeOK' /\ UNCHANGED <<org, accountVars, ordered, crossed>> /\ End(h, {})
  BY DropType DEF IInv, RemoveNothing, Fail
<1>2. req' = [req EXCEPT ![h] = Idle]
  BY <1>1 DEF End, IInv, TypeOK
<1> QED
  BY <1>1, <1>2, BeginInv DEF Idle

(* What End does to the requests.                                         *)
LEMMA EndReq ==
  ASSUME TypeOK, NEW h \in Handlers, NEW outdated \in SUBSET Handlers,
         \A g \in outdated : req[g] # Idle, End(h, outdated),
         NEW g \in Handlers
  PROVE  /\ g = h => req'[g] = Idle
         /\ g # h => req'[g].op = req[g].op
         /\ g # h /\ req[g].op = "remove" =>
              /\ req'[g].user = req[g].user
              /\ ~req'[g].stale => ~req[g].stale /\ g \notin outdated
         /\ g # h /\ req[g].op = "edit" =>
              /\ req'[g].center = req[g].center
              /\ req'[g].read = req[g].read
              /\ ~req'[g].stale => ~req[g].stale /\ g \notin outdated
<1>1. req'[g] = IF g = h THEN Idle
                ELSE IF g \in outdated THEN [req[g] EXCEPT !.stale = TRUE] ELSE req[g]
  BY DEF End
<1>2. CASE req[g] \in RemoveReq
  BY <1>1, <1>2 DEF RemoveReq
<1>3. CASE req[g] \in EditReq
  BY <1>1, <1>3 DEF EditReq
<1>4. CASE req[g] = Idle
  BY <1>1, <1>4 DEF Idle
<1> QED
  BY <1>2, <1>3, <1>4, ReqType DEF Reqs

LEMMA RemoveInv ==
  ASSUME IInv, NEW h \in Handlers, Remove(h)
  PROVE  IInv'
<1> DEFINE u == req[h].user
<1>1. TypeOK' /\ u \in Users /\ role[u] \in StaffRoles /\ home[u] \in Centers
  BY RemoveType, ReqType DEF Remove, RemoveReq, IInv, TypeOK, StaffRoles
<1>2. /\ \A v \in Users : role'[v] = IF v = u THEN req[h].to ELSE role[v]
      /\ req[h].to # "unborn" /\ UNCHANGED <<org, home, ordered>>
  BY ReqType DEF Remove, RemoveReq, IInv, TypeOK, StaffRoles
<1>3. PICK outdated \in SUBSET Handlers :
        /\ End(h, outdated)
        /\ \A g \in outdated : req[g] # Idle
        /\ role[u] = "center_admin" => outdated = OtherRemovals(home[u])
  BY DEF Remove, OtherRemovals, Idle
<1>4. crossed \subseteq crossed'
      /\ (role[u] = "center_admin" /\ req[h].stale => <<"removal", home[u]>> \in crossed')
      /\ \A c \in Centers : <<"edit", c>> \in crossed => <<"edit", c>> \in crossed'
  BY DEF Remove
<1>5. req[h].op = "remove" /\ (~req[h].stale => Spared(home[u], u))
  BY DEF Remove, IInv, GuardInv
<1> HIDE DEF u
<1>6. ASSUME NEW c \in Centers, NEW a \in Admins(c),
             a # u \/ role[u] # "center_admin"
      PROVE  a \in Admins(c)'
  BY <1>2, <1>6 DEF Admins
<1>7. \A g \in Handlers : req[g].op = "remove" =>
        req[g].user \in Users /\ role[req[g].user] # "unborn" /\ home[req[g].user] \in Centers
  BY ReqType DEF IInv, PendingInv, RemoveReq, TypeOK
<1>8. PendingInv'
  <2>1. ASSUME NEW g \in Handlers, req'[g].op = "remove"
        PROVE  role'[req'[g].user] # "unborn"
    BY <1>2, <1>3, <1>7, <2>1, EndReq DEF IInv, Idle
  <2>2. ASSUME NEW g \in Handlers, req'[g].op = "edit"
        PROVE  Exists(req[g].center) /\ req'[g].center = req[g].center
    BY <1>3, <2>2, EndReq DEF IInv, PendingInv, Idle
  <2> QED
    BY <1>2, <2>1, <2>2 DEF IInv, PendingInv, Exists
<1>9. GuardInv'
  <2> SUFFICES ASSUME NEW g \in Handlers, req'[g].op = "remove", ~req'[g].stale
               PROVE  Spared(home[req[g].user], req[g].user)'
    BY <1>2 DEF GuardInv
  <2>1. /\ g # h /\ req[g].op = "remove" /\ ~req[g].stale /\ g \notin outdated
        /\ req'[g].user = req[g].user
    BY <1>3, EndReq DEF IInv, Idle
  <2>2. PICK v \in Users, c \in Centers : v = req[g].user /\ c = home[v] /\ Spared(c, v)
    BY <1>7, <2>1 DEF IInv, GuardInv
  <2>3. role[u] = "center_admin" => c # home[u]
    BY <1>3, <2>1, <2>2 DEF OtherRemovals
  <2>4. \A a \in Users : a \in Admins(c) => a \in Admins(c)'
    BY <1>6, <2>3 DEF Admins
  <2>5. Spared(c, v)'
    BY <1>4, <2>2, <2>4 DEF Spared
  <2> QED
    BY <1>2, <2>1, <2>2, <2>5 DEF Spared
<1>10. ReadInv'
  <2> SUFFICES ASSUME NEW g \in Handlers, req'[g].op = "edit", ~req'[g].stale
               PROVE  req'[g].read = org[req'[g].center]
    BY <1>2 DEF ReadInv
  <2> QED
    BY <1>3, EndReq DEF IInv, ReadInv, Idle
<1>11. AdminLossExplained'
  <2> SUFFICES ASSUME NEW c \in Centers, Exists(c), <<"removal", c>> \notin crossed'
               PROVE  Admins(c)' # {}
    BY <1>2 DEF AdminLossExplained, Exists
  <2>1. CASE role[u] = "center_admin" /\ home[u] = c
    <3>1. Spared(c, u) /\ <<"removal", c>> \notin crossed
      BY <1>4, <1>5, <2>1
    <3> QED
      BY <1>6, <3>1 DEF Spared
  <2>2. CASE role[u] # "center_admin" \/ home[u] # c
    BY <1>4, <1>6, <2>2 DEF IInv, AdminLossExplained, Admins
  <2> QED
    BY <2>1, <2>2
<1>12. DriftExplained'
  BY <1>2, <1>4 DEF IInv, DriftExplained
<1> QED
  BY <1>1, <1>8, <1>9, <1>10, <1>11, <1>12 DEF IInv

LEMMA WriteInv ==
  ASSUME IInv, NEW h \in Handlers, WriteCenter(h)
  PROVE  IInv'
<1> DEFINE c == req[h].center
           r == req[h]
<1>1. r \in EditReq /\ c \in Centers /\ Exists(c) /\ ordered[c] # NoRow
  BY ReqType DEF WriteCenter, IInv, PendingInv, EditReq
<1>2. TypeOK'
  BY <1>1, WriteType DEF IInv
<1>3. /\ \A d \in Centers : org'[d] = IF d = c THEN Merged(org[c], r) ELSE org[d]
      /\ \A d \in Centers \ {c} : ordered'[d] = ordered[d]
      /\ ordered'[c] = [k \in Columns |-> IF k \in DOMAIN r.edit THEN r.edit[k] ELSE ordered[c][k]]
      /\ UNCHANGED accountVars
  BY <1>1 DEF WriteCenter, IInv, TypeOK
<1>4. End(h, OtherEdits(c)) /\ \A g \in OtherEdits(c) : req[g] # Idle
  BY DEF WriteCenter, OtherEdits, Idle
<1>5. /\ crossed \subseteq crossed'
      /\ r.stale => <<"edit", c>> \in crossed'
      /\ \A d \in Centers : <<"removal", d>> \in crossed' => <<"removal", d>> \in crossed
  BY DEF WriteCenter
<1>6. ~r.stale => r.read = org[c]
  BY DEF WriteCenter, IInv, ReadInv
<1>7. Merged(org[c], r) # NoRow /\ ordered'[c] # NoRow
  BY <1>3 DEF Merged, NoRow, Columns
<1>8. org[c] # ordered[c] => <<"edit", c>> \in crossed
  BY <1>1 DEF IInv, DriftExplained
<1> HIDE DEF c, r
<1>9. PendingInv'
  <2>1. ASSUME NEW g \in Handlers, req'[g].op = "remove"
        PROVE  role[req[g].user] # "unborn" /\ req'[g].user = req[g].user
    BY <1>4, <2>1, EndReq DEF IInv, PendingInv, Idle, OtherEdits
  <2>2. ASSUME NEW g \in Handlers, req'[g].op = "edit"
        PROVE  Exists(req[g].center) /\ req'[g].center = req[g].center /\ req[g].center \in Centers
    BY <1>4, <2>2, EndReq, ReqType DEF IInv, PendingInv, Idle, OtherEdits, EditReq
  <2> QED
    BY <1>3, <1>7, <2>1, <2>2 DEF IInv, PendingInv, Exists, accountVars
<1>10. GuardInv'
  <2> SUFFICES ASSUME NEW g \in Handlers, req'[g].op = "remove", ~req'[g].stale
               PROVE  Spared(home[req[g].user], req[g].user)'
    BY DEF GuardInv
  <2>1. /\ req[g].op = "remove" /\ ~req[g].stale
        /\ req'[g].user = req[g].user
    BY <1>4, EndReq DEF IInv, Idle, OtherEdits
  <2>2. Spared(home[req[g].user], req[g].user)
    BY <2>1 DEF IInv, GuardInv
  <2> QED
    BY <1>3, <1>5, <2>1, <2>2 DEF Spared, Admins, accountVars
<1>11. ReadInv'
  <2> SUFFICES ASSUME NEW g \in Handlers, req'[g].op = "edit", ~req'[g].stale
               PROVE  req'[g].read = org'[req'[g].center]
    BY DEF ReadInv
  <2>1. /\ req[g].op = "edit" /\ ~req[g].stale /\ g \notin OtherEdits(c)
        /\ req'[g].read = req[g].read /\ req'[g].center = req[g].center
        /\ req[g].center \in Centers
    BY <1>4, EndReq, ReqType DEF IInv, Idle, OtherEdits, EditReq
  <2>2. req[g].center # c
    BY <2>1 DEF OtherEdits
  <2> QED
    BY <1>3, <2>1, <2>2 DEF IInv, ReadInv
<1>12. AdminLossExplained'
  BY <1>1, <1>3, <1>5, <1>7 DEF IInv, AdminLossExplained, Exists, Admins, accountVars
<1>13. DriftExplained'
  <2>1. ASSUME <<"edit", c>> \notin crossed'
        PROVE  org'[c] = ordered'[c]
    <3>1. org[c] = ordered[c] /\ r.read = org[c]
      BY <1>5, <1>6, <1>8, <2>1
    <3> QED
      BY <1>1, <1>3, <3>1 DEF Merged
  <2> QED
    BY <1>3, <1>5, <2>1 DEF IInv, DriftExplained
<1> QED
  BY <1>2, <1>9, <1>10, <1>11, <1>12, <1>13 DEF IInv

LEMMA NextInv ==
  ASSUME IInv, [Next]_vars
  PROVE  IInv'
<1>1. CASE UNCHANGED vars
  BY <1>1 DEF vars, accountVars, IInv, TypeOK, PendingInv, GuardInv, ReadInv, AdminLossExplained,
              DriftExplained, Spared, Admins, Exists
<1> QED
  BY <1>1, ProvisionInv, StaffInv, GuardLastAdminInv, GetCenterInv, RemoveInv, WriteInv, DropInv
  DEF Next

LEMMA Invariant == Spec => []IInv
BY InitInv, NextInv, PTL DEF Spec

(* Every row and request keeps its type: an account has a center, a center *)
(* valid columns.                                                         *)
THEOREM TypeCorrect == Spec => []TypeOK
BY Invariant, PTL DEF IInv

(* A center without an administrator lost the last one to a removal that   *)
(* overlapped another, for any number of handlers and administrators.     *)
THEOREM AdminLossExplainedHolds == Spec => []AdminLossExplained
BY Invariant, PTL DEF IInv

(* A column that is not what was last asked for was written by an edit     *)
(* that overlapped another.                                               *)
THEOREM DriftExplainedHolds == Spec => []DriftExplained
BY Invariant, PTL DEF IInv

-----------------------------------------------------------------------------
(* One handler.  Nothing it has read is ever outdated.                    *)
NothingStale == crossed = {} /\ \A h \in Handlers : req[h] # Idle => ~req[h].stale

(* With a single handler a center keeps an administrator: the guard of     *)
(* Update and Delete is enough when requests do not overlap.              *)
THEOREM OneHandlerKeepsAdmin ==
  ASSUME NEW CONSTANT h, Handlers = {h}
  PROVE  Spec => []CenterKeepsAdmin
<1>1. Init => NothingStale
  BY DEF Init, NothingStale
<1>2. IInv /\ NothingStale /\ [Next]_vars => NothingStale'
  <2> SUFFICES ASSUME IInv, NothingStale, [Next]_vars
               PROVE  NothingStale'
    OBVIOUS
  <2>1. ASSUME NEW outdated, End(h, outdated)
        PROVE  \A g \in Handlers : req'[g] = Idle
    BY <2>1 DEF End
  <2>2. ASSUME Remove(h) \/ RemoveNothing(h) \/ WriteCenter(h) \/ Fail(h)
        PROVE  NothingStale'
    <3>1. crossed' = {}
      BY <2>2 DEF Remove, RemoveNothing, WriteCenter, Fail, NothingStale, Idle
    <3> QED
      BY <2>1, <2>2, <3>1 DEF Remove, RemoveNothing, WriteCenter, Fail, NothingStale
  <2>3. ASSUME NEW c \in Centers, UpdateCenter(h, c) \/ SetBilling(h, c) \/ DeleteCenter(h, c)
        PROVE  NothingStale'
    <3>1. \E form \in Forms, edit \in Edits(Columns) : GetCenter(h, c, form, edit)
      BY <2>3, EditsGet
    <3> QED
      BY <3>1 DEF GetCenter, Begin, NothingStale, IInv, TypeOK
  <2>4. ASSUME NEW u \in Users, NEW to, GuardLastAdmin(h, u, to)
        PROVE  NothingStale'
    BY <2>4 DEF GuardLastAdmin, Begin, NothingStale, IInv, TypeOK
  <2>5. ASSUME UNCHANGED <<req, crossed>>
        PROVE  NothingStale'
    BY <2>5 DEF NothingStale
  <2> QED
    BY <2>2, <2>3, <2>4, <2>5
    DEF Next, vars, Provision, CreateStaff, CreateTeacher, CreateUser, Promote, DeleteTeacher
<1>3. AdminLossExplained /\ NothingStale => CenterKeepsAdmin
  BY DEF AdminLossExplained, NothingStale, CenterKeepsAdmin
<1>4. Spec => []NothingStale
  BY <1>1, <1>2, Invariant, PTL DEF Spec
<1> QED
  BY <1>3, <1>4, AdminLossExplainedHolds, PTL
=============================================================================
