-------------------------------- MODULE Payroll -------------------------------
(***************************************************************************)
(* The pay of one teacher (internal/usecase/salary, salary_repo.go): the   *)
(* default rule, its overrides per group, the salary slips, and the        *)
(* expenses that paid slips become.                                        *)
(*                                                                         *)
(* SetRule writes the rule in one transaction and replaces the overrides   *)
(* in the next; two requests and a failure come in between.  A rule is     *)
(* known by the request that asked for it: kinds, rates and what a preview *)
(* computes from them are abstracted away.                                 *)
(***************************************************************************)
EXTENDS Integers, FiniteSets

CONSTANTS
  CenterGroups,    \* groups of the center, never recreated
  Handlers,        \* requests served at the same time
  Slips,           \* ids of salary_slips, never reused
  Offers,          \* gross, bonus and deduction a slip may be asked with
  MaxRuleRequests, \* bound: SetRule requests in one behaviour
  MaxFaults        \* bound: failed statements and crashes

ASSUME PayrollAssumption ==
  /\ MaxRuleRequests \in Nat /\ MaxFaults \in Nat
  /\ \A o \in Offers : o.gross \in Nat /\ o.bonus \in Int /\ o.deduction \in Int

VARIABLES
  teacher,   \* users: whether the teacher is there
  groups,    \* groups: those that are there
  rule,      \* salary_rules: the request that wrote the default rule
  override,  \* salary_group_rules: per group, the request that wrote it
  request,   \* what each handler has still to do
  requests,  \* SetRule requests so far
  faults,    \* failed statements and crashes so far
  slip,      \* salary_slips: status and net
  expense,   \* expenses: slip and amount of the rows with category "maosh"
  asked,     \* history: rule and overrides as the last requests asked
  torn,      \* history: an override may be another than asked
  gone       \* history: slips whose expense somebody deleted, slips the
             \*   deletion of the teacher took along

payrollVars ==
  <<teacher, groups, rule, override, request, requests, faults, slip, expense, asked, torn, gone>>

ruleVars == <<rule, override, request, requests, asked, torn>>
slipVars == <<slip, expense, gone>>

-----------------------------------------------------------------------------
None  == 0
Tags  == 1..MaxRuleRequests
NoRequest  == [op |-> "idle"]
NoSlip == [status |-> "none", net |-> 0]

(* What a handler does next: DeleteTeacherGroupRules, then the INSERTs and *)
(* the commit; seen are the rows the DELETE found; overtaken, a history    *)
(* flag, that another one replaces them meanwhile.                         *)
Requests ==
  {NoRequest} \cup [op : {"replace"}, tag : Tags, groups : SUBSET CenterGroups, overtaken : BOOLEAN]
         \cup [op : {"insert"}, tag : Tags, groups : SUBSET CenterGroups,
               seen : [CenterGroups -> {None} \cup Tags], overtaken : BOOLEAN]

PayrollTypeOK ==
  /\ teacher \in BOOLEAN
  /\ groups \subseteq CenterGroups
  /\ rule \in {None} \cup Tags
  /\ override \in [CenterGroups -> {None} \cup Tags]
  /\ request \in [Handlers -> Requests]
  /\ requests \in 0..MaxRuleRequests
  /\ faults \in 0..MaxFaults
  /\ slip \in [Slips -> [status : {"none", "draft", "paid", "deleted"}, net : Nat]]
  /\ expense \in [Slips -> [rows : Nat, amount : Nat]]
  /\ asked \in [rule : {None} \cup Tags, override : [CenterGroups -> {None} \cup Tags]]
  /\ torn \in BOOLEAN
  /\ gone \subseteq ([slip : Slips, why : {"expense", "teacher"}])

PayrollInit ==
  /\ teacher = TRUE
  /\ groups = CenterGroups
  /\ rule = None
  /\ override = [g \in CenterGroups |-> None]
  /\ request = [h \in Handlers |-> NoRequest]
  /\ requests = 0
  /\ faults = 0
  /\ slip = [s \in Slips |-> NoSlip]
  /\ expense = [s \in Slips |-> [rows |-> 0, amount |-> 0]]
  /\ asked = [rule |-> None, override |-> [g \in CenterGroups |-> None]]
  /\ torn = FALSE
  /\ gone = {}

-----------------------------------------------------------------------------
(* The rule of the teacher.                                                *)
Written(gs, tag) == [g \in CenterGroups |-> IF g \in gs THEN tag ELSE None]

(* A request that replaces overrides overtakes those between their two     *)
(* transactions, when it starts and when it ends.                          *)
Overtaken(x) == IF request[x] = NoRequest THEN NoRequest ELSE [request[x] EXCEPT !.overtaken = TRUE]
Continue(h, r) == request' = [x \in Handlers |-> IF x = h THEN r ELSE Overtaken(x)]
Busy(h) == \E x \in Handlers \ {h} : request[x] # NoRequest

UpsertSalaryRule(tag) == rule' = tag

(* SetRule without overrides leaves those there are; with some, perhaps    *)
(* none, it goes on to replace them.  The foreign key refuses the rule of  *)
(* a deleted teacher.                                                      *)
SetDefault(h) ==
  /\ requests < MaxRuleRequests
  /\ request[h] = NoRequest
  /\ teacher
  /\ UpsertSalaryRule(requests + 1)
  /\ requests' = requests + 1
  /\ asked' = [asked EXCEPT !.rule = requests + 1]
  /\ UNCHANGED <<override, request, torn, teacher, groups, faults, slipVars>>

SetRule(h, gs) ==
  /\ requests < MaxRuleRequests
  /\ request[h] = NoRequest
  /\ teacher
  /\ UpsertSalaryRule(requests + 1)
  /\ Continue(h, [op |-> "replace", tag |-> requests + 1, groups |-> gs, overtaken |-> Busy(h)])
  /\ requests' = requests + 1
  /\ asked' = [rule |-> requests + 1, override |-> Written(gs \cap groups, requests + 1)]
  /\ UNCHANGED <<override, torn, teacher, groups, faults, slipVars>>

(* Mutant: rows of the groups the request does not name are kept.          *)
DeleteNamedGroupRules(h) ==
  [g \in CenterGroups |-> IF g \in request[h].groups THEN override[g] ELSE None]

DeleteTeacherGroupRules(h) == override

(* ReplaceGroupRules: the DELETE takes the rows committed by now; rows     *)
(* another replacement commits later stay.                                 *)
ReplaceGroupRules(h) ==
  /\ request[h].op = "replace"
  /\ request' = [request EXCEPT ![h] =
       [op |-> "insert", tag |-> request[h].tag, groups |-> request[h].groups,
        seen |-> DeleteTeacherGroupRules(h), overtaken |-> request[h].overtaken]]
  /\ UNCHANGED <<rule, override, requests, asked, torn, teacher, groups, faults, slipVars>>

(* A row the DELETE found may have been replaced since: then it stays, and *)
(* so does the request's own row refused by the unique index.              *)
Remaining(h) == {g \in CenterGroups : override[g] # None /\ override[g] # request[h].seen[g]}
Refused(h) ==
  \/ ~teacher
  \/ request[h].groups \cap Remaining(h) # {}
  \/ ~(request[h].groups \subseteq groups)

InsertSalaryGroupRules(h) ==
  /\ request[h].op = "insert"
  /\ ~Refused(h)
  /\ override' = [g \in CenterGroups |-> IF g \in request[h].groups THEN request[h].tag
                                   ELSE IF g \in Remaining(h) THEN override[g] ELSE None]
  /\ Continue(h, NoRequest)
  /\ torn' = request[h].overtaken
  /\ UNCHANGED <<rule, requests, asked, teacher, groups, faults, slipVars>>

(* A foreign key or the unique index refuses a row; the default rule is    *)
(* committed already.                                                      *)
ReplaceRefused(h) ==
  /\ request[h].op = "insert"
  /\ Refused(h)
  /\ request' = [request EXCEPT ![h] = NoRequest]
  /\ torn' = TRUE
  /\ UNCHANGED <<rule, override, requests, asked, teacher, groups, faults, slipVars>>

ReplaceFails(h) ==
  /\ faults < MaxFaults
  /\ request[h] # NoRequest
  /\ faults' = faults + 1
  /\ request' = [request EXCEPT ![h] = NoRequest]
  /\ torn' = TRUE
  /\ UNCHANGED <<rule, override, requests, asked, teacher, groups, slipVars>>

(* The overrides of a group go with it.                                    *)
DeleteGroup(g) ==
  /\ g \in groups
  /\ groups' = groups \ {g}
  /\ override' = [override EXCEPT ![g] = None]
  /\ asked' = [asked EXCEPT !.override[g] = None]
  /\ UNCHANGED <<teacher, rule, request, requests, faults, torn, slipVars>>

-----------------------------------------------------------------------------
(* Slips.  Every one of these is one transaction, and those on one slip    *)
(* wait for the lock of its row.                                           *)
Net(o) == LET n == o.gross + o.bonus - o.deduction IN IF n < 0 THEN 0 ELSE n

CreateSlip(s, o) ==
  /\ teacher
  /\ slip[s].status = "none"
  /\ slip' = [slip EXCEPT ![s] = [status |-> "draft", net |-> Net(o)]]
  /\ UNCHANGED <<ruleVars, teacher, groups, faults, expense, gone>>

(* Mutant: a paid slip is paid again.                                      *)
MarkSlipPaid(s) == slip[s].status \in {"draft", "paid"}

MarkSalarySlipPaid(s) == slip[s].status = "draft"

CreateExpense(s, amount) ==
  expense' = [expense EXCEPT ![s] = [rows |-> @.rows + 1, amount |-> amount]]

MarkPaid(s) ==
  /\ MarkSalarySlipPaid(s)
  /\ slip' = [slip EXCEPT ![s].status = "paid"]
  /\ CreateExpense(s, slip[s].net)
  /\ UNCHANGED <<ruleVars, teacher, groups, faults, gone>>

DeleteSalarySlip(s) == slip[s].status = "draft"

DeleteSlip(s) ==
  /\ DeleteSalarySlip(s)
  /\ slip' = [slip EXCEPT ![s].status = "deleted"]
  /\ UNCHANGED <<ruleVars, teacher, groups, faults, expense, gone>>

(* Nothing ties an expense to its slip but the note.                       *)
DeleteExpense(s) ==
  /\ expense[s].rows > 0
  /\ expense' = [expense EXCEPT ![s].rows = @ - 1]
  /\ gone' = gone \cup {[slip |-> s, why |-> "expense"]}
  /\ UNCHANGED <<ruleVars, teacher, groups, faults, slip>>

(* Rules and slips go with the teacher, paid ones too; expenses stay.      *)
DeleteTeacher ==
  /\ teacher
  /\ teacher' = FALSE
  /\ rule' = None
  /\ override' = [g \in CenterGroups |-> None]
  /\ asked' = [rule |-> None, override |-> [g \in CenterGroups |-> None]]
  /\ slip' = [s \in Slips |-> IF slip[s].status \in {"draft", "paid"}
                              THEN [slip[s] EXCEPT !.status = "deleted"] ELSE slip[s]]
  /\ gone' = gone \cup {[slip |-> s, why |-> "teacher"] : s \in {x \in Slips : slip[x].status = "paid"}}
  /\ UNCHANGED <<groups, request, requests, faults, torn, expense>>

RuleStep ==
  \/ \E h \in Handlers :
       \/ SetDefault(h) \/ ReplaceGroupRules(h) \/ InsertSalaryGroupRules(h)
       \/ ReplaceRefused(h) \/ ReplaceFails(h)
       \/ \E gs \in SUBSET CenterGroups : SetRule(h, gs)
  \/ \E g \in CenterGroups : DeleteGroup(g)

SlipStep ==
  \E s \in Slips :
    \/ \E o \in Offers : CreateSlip(s, o)
    \/ MarkPaid(s) \/ DeleteSlip(s) \/ DeleteExpense(s)

PayrollNext == RuleStep \/ SlipStep \/ DeleteTeacher

PayrollSpec == PayrollInit /\ [][PayrollNext]_payrollVars

-----------------------------------------------------------------------------
(* "SetRule sets a teacher's default rule and (when groupRules is non-nil) *)
(* replaces their per-group overrides": between requests the rules are     *)
(* what the last ones asked, unless a replacement failed or was overtaken  *)
(* by another request.                                                     *)
RulesAsAsked ==
  (\A h \in Handlers : request[h] = NoRequest) /\ ~torn
    => rule = asked.rule /\ override = asked.override

Lost(s, why) == [slip |-> s, why |-> why] \in gone

(* "a paid slip has a matching expense that would be orphaned"             *)
(* (DeleteSalarySlip): a slip is paid out once, for its net, and its       *)
(* expense and it leave the books only together, unless somebody deletes   *)
(* the expense itself or the teacher.                                      *)
PaidOnce ==
  \A s \in Slips :
    /\ expense[s].rows + (IF Lost(s, "expense") THEN 1 ELSE 0) <= 1
    /\ slip[s].status = "paid" =>
         (expense[s].rows = 1 /\ expense[s].amount = slip[s].net) \/ Lost(s, "expense")
    /\ expense[s].rows > 0 => slip[s].status = "paid" \/ Lost(s, "teacher")
=============================================================================
