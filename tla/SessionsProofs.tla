---------------------------- MODULE SessionsProofs ----------------------------
(***************************************************************************)
(* Type correctness of Sessions, that a login is continued by one session  *)
(* at a time, that a replay is always explained, and what a replay closes, *)
(* for any accounts, handlers and number of tokens.                        *)
(***************************************************************************)
EXTENDS Sessions, TLAPS

-----------------------------------------------------------------------------
(* The pc of a worker tells what it serves.                               *)
LEMMA ReqType ==
  ASSUME TypeOK, NEW w \in Workers
  PROVE  /\ req[w].pc = "user" => req[w] \in LoginReq
         /\ req[w].pc = "issue" => req[w] \in IssueReq
         /\ req[w].pc \in {"lock", "rotate"} => req[w] \in PresentReq
         /\ req[w].pc = "revokeall" => req[w] \in ReplayReq
         /\ req[w].pc \in {"load", "org"} => req[w] \in RotatedReq
BY DEF TypeOK, LoginReq, IssueReq, PresentReq, ReplayReq, RotatedReq, Idle

LEMMA TokType ==
  ASSUME TypeOK, NEW w \in Workers
  PROVE  /\ req[w].pc \in {"lock", "rotate", "revokeall", "load", "org"} => req[w].tok \in Tokens
         /\ req[w].pc \in {"load", "org"} => req[w].new \in Tokens
         /\ req[w].pc = "revokeall" => req[w].seen \subseteq Tokens
         /\ req[w].pc \in {"user", "issue"} => req[w].user \in Users
BY ReqType DEF LoginReq, IssueReq, PresentReq, ReplayReq, RotatedReq

LEMMA GotoType ==
  ASSUME TypeOK, NEW w \in Workers,
         NEW r \in LoginReq \cup IssueReq \cup PresentReq \cup ReplayReq
                     \cup RotatedReq \cup {Idle},
         Goto(w, r)
  PROVE  req' \in [Workers -> LoginReq \cup IssueReq \cup PresentReq \cup ReplayReq
                                \cup RotatedReq \cup {Idle}]
BY DEF Goto, TypeOK

LEMMA ExcuseType ==
  ASSUME TypeOK, NEW ts, NEW reason \in Reasons, Excuse(ts, reason)
  PROVE  excused' \in [Tokens -> SUBSET Reasons]
BY DEF Excuse, TypeOK

-----------------------------------------------------------------------------
(* Type correctness.                                                      *)

LEMMA InitType == Init => TypeOK
BY SessionsAssumption DEF Init, TypeOK, Statuses, States, Stored

LEMMA LoginType ==
  ASSUME TypeOK, NEW w \in Workers,
         (\E u \in Users : LoginOrg(w, u)) \/ LoginVerify(w) \/ LoginRefuse(w) \/ Issue(w)
  PROVE  TypeOK'
<1>1. ASSUME NEW u \in Users, LoginOrg(w, u)
      PROVE  TypeOK'
  <2>1. [pc |-> "user", user |-> u, status |-> status[Home[u]]] \in LoginReq
    BY SessionsAssumption DEF LoginReq, TypeOK
  <2> QED
    BY <1>1, <2>1, GotoType DEF LoginOrg, TypeOK, rowVars, pastVars, Stored
<1>2. CASE LoginVerify(w)
  <2>1. [pc |-> "issue", user |-> req[w].user] \in IssueReq
    BY <1>2, TokType DEF LoginVerify, IssueReq
  <2> QED
    BY <1>2, <2>1, GotoType DEF LoginVerify, TypeOK, rowVars, pastVars, Stored
<1>3. CASE LoginRefuse(w)
  BY <1>3, GotoType DEF LoginRefuse, TypeOK, rowVars, pastVars, Stored
<1>4. CASE Issue(w)
  <2>1. req[w].user \in Users
    BY <1>4, TokType DEF Issue
  <2>2. PICK t \in Tokens : /\ session' = [session EXCEPT ![t] = "live"]
                            /\ owner' = [owner EXCEPT ![t] = req[w].user]
                            /\ login' = [login EXCEPT ![t] = t]
                            /\ Answer(w, held \cup {t})
    BY <1>4 DEF Issue
  <2>3. held' \subseteq Tokens
    BY <2>2 DEF Answer, TypeOK
  <2>4. \A s \in Tokens : Stored(s)' => owner'[s] \in Users
    BY <2>1, <2>2 DEF Stored, TypeOK
  <2> QED
    BY <1>4, <2>1, <2>2, <2>3, <2>4, GotoType DEF Issue, Answer, TypeOK, States, pastVars
<1> QED
  BY <1>1, <1>2, <1>3, <1>4

LEMMA PresentType ==
  ASSUME TypeOK, NEW w \in Workers,
         \/ \E t \in Tokens : Refresh(w, t)
         \/ LockNothing(w) \/ LockToRotate(w) \/ LockToRevokeAll(w)
  PROVE  TypeOK'
<1>1. ASSUME NEW t \in Tokens, Refresh(w, t)
      PROVE  TypeOK'
  <2>1. [pc |-> "lock", tok |-> t] \in PresentReq
    BY DEF PresentReq
  <2>2. excused' \in [Tokens -> SUBSET Reasons]
    BY <1>1, ExcuseType DEF Refresh, Reasons, TypeOK
  <2> QED
    BY <1>1, <2>1, <2>2, GotoType DEF Refresh, TypeOK, rowVars, Stored
<1>2. CASE LockNothing(w)
  BY <1>2, GotoType DEF LockNothing, Answer, TypeOK, rowVars, pastVars, Stored
<1>3. CASE LockToRotate(w)
  <2>1. [pc |-> "rotate", tok |-> req[w].tok] \in PresentReq
    BY <1>3, TokType DEF LockToRotate, PresentReq
  <2> QED
    BY <1>3, <2>1, GotoType DEF LockToRotate, TypeOK, rowVars, pastVars, Stored
<1>4. CASE LockToRevokeAll(w)
  <2>1. LiveOf(owner[req[w].tok]) \subseteq Tokens
    BY DEF LiveOf
  <2>2. [pc |-> "revokeall", tok |-> req[w].tok, seen |-> LiveOf(owner[req[w].tok])] \in ReplayReq
    BY <1>4, <2>1, TokType DEF LockToRevokeAll, ReplayReq
  <2> QED
    BY <1>4, <2>2, GotoType DEF LockToRevokeAll, TypeOK, rowVars, pastVars, Stored
<1> QED
  BY <1>1, <1>2, <1>3, <1>4

LEMMA CommitType ==
  ASSUME TypeOK, NEW w \in Workers, RotateCommit(w) \/ RevokeAllCommit(w),
         req[w].pc = "rotate" => Live(req[w].tok) /\ login[req[w].tok] \in Tokens
  PROVE  TypeOK'
<1>1. CASE RotateCommit(w)
  <2>1. req[w].tok \in Tokens /\ owner[req[w].tok] \in Users
    BY <1>1, TokType DEF RotateCommit, TypeOK, Stored, Live
  <2>2. PICK new \in Tokens :
          /\ Rotate(req[w].tok, new)
          /\ Goto(w, [pc |-> "load", tok |-> req[w].tok, new |-> new])
    BY <1>1 DEF RotateCommit
  <2>3. [pc |-> "load", tok |-> req[w].tok, new |-> new] \in RotatedReq
    BY <2>1 DEF RotatedReq
  <2>4. \A s \in Tokens : Stored(s)' => owner'[s] \in Users
    BY <2>1, <2>2 DEF Rotate, Stored, TypeOK
  <2>5. /\ session' \in [Tokens -> States]
        /\ owner' \in [Tokens -> Users \cup {0}]
        /\ login' \in [Tokens -> Tokens \cup {0}]
    BY <2>1, <2>2 DEF Rotate, TypeOK, States
  <2>6. login[req[w].tok] \in Tokens
    BY <1>1 DEF RotateCommit
  <2>7. overtaken' \subseteq Tokens
    BY <1>1, <2>6 DEF RotateCommit, TypeOK
  <2> QED
    BY <1>1, <2>2, <2>3, <2>4, <2>5, <2>7, GotoType DEF RotateCommit, TypeOK
<1>2. CASE RevokeAllCommit(w)
  <2> DEFINE swept == {s \in req[w].seen : Live(s)}
  <2>1. Sweep(swept) /\ Excuse(swept \ {req[w].tok}, "swept")
    BY <1>2 DEF RevokeAllCommit
  <2>2. session' \in [Tokens -> States]
    BY <2>1 DEF Sweep, TypeOK, States
  <2>3. \A s \in Tokens : Stored(s)' => Stored(s)
    BY <2>1 DEF Sweep, Stored, Live
  <2>4. excused' \in [Tokens -> SUBSET Reasons]
    BY <2>1, ExcuseType DEF Reasons
  <2>5. req[w].tok \in Tokens
    BY <1>2, TokType DEF RevokeAllCommit
  <2>6. Goto(w, Idle) /\ held' \subseteq Tokens
    BY <1>2 DEF RevokeAllCommit, Answer, TypeOK
  <2> QED
    BY <1>2, <2>2, <2>3, <2>4, <2>5, <2>6, GotoType DEF RevokeAllCommit, TypeOK
<1> QED
  BY <1>1, <1>2

LEMMA AnswerType ==
  ASSUME TypeOK, NEW w \in Workers,
         \/ LoadUser(w) \/ LoadNothing(w) \/ AnswerTokens(w) \/ AnswerSuspended(w)
         \/ Fail(w)
  PROVE  TypeOK'
<1>1. CASE LoadUser(w)
  <2>1. [req[w] EXCEPT !.pc = "org"] \in RotatedReq
    BY <1>1, ReqType DEF LoadUser, RotatedReq
  <2> QED
    BY <1>1, <2>1, GotoType DEF LoadUser, TypeOK, rowVars, pastVars, Stored
<1>2. CASE LoadNothing(w)
  <2>1. excused' \in [Tokens -> SUBSET Reasons]
    BY <1>2, ExcuseType DEF LoadNothing, Reasons
  <2> QED
    BY <1>2, <2>1, GotoType DEF LoadNothing, Answer, TypeOK, rowVars, Stored
<1>3. CASE AnswerTokens(w)
  <2>1. req[w].new \in Tokens
    BY <1>3, TokType DEF AnswerTokens
  <2> QED
    BY <1>3, <2>1, GotoType DEF AnswerTokens, TypeOK, rowVars, pastVars, Stored
<1>4. CASE AnswerSuspended(w)
  <2>1. excused' \in [Tokens -> SUBSET Reasons]
    BY <1>4, ExcuseType DEF AnswerSuspended, Reasons
  <2> QED
    BY <1>4, <2>1, GotoType DEF AnswerSuspended, TypeOK, rowVars, Stored
<1>5. CASE Fail(w)
  <2>1. excused' \in [Tokens -> SUBSET Reasons]
    BY <1>5, ExcuseType DEF Fail, Reasons, TypeOK
  <2> QED
    BY <1>5, <2>1, GotoType DEF Fail, Answer, TypeOK, rowVars, Stored
<1> QED
  BY <1>1, <1>2, <1>3, <1>4, <1>5

LEMMA OtherType ==
  ASSUME TypeOK,
         \/ \E c \in Centers, s \in Statuses : SetStatus(c, s)
         \/ \E u \in Users : DeleteAccount(u)
         \/ \E t \in Tokens : Expire(t)
         \/ DeleteExpired
  PROVE  TypeOK'
<1>1. ASSUME NEW c \in Centers, NEW s \in Statuses, SetStatus(c, s)
      PROVE  TypeOK'
  BY <1>1 DEF SetStatus, TypeOK, rowVars, pastVars, Stored
<1>2. ASSUME NEW u \in Users, DeleteAccount(u)
      PROVE  TypeOK'
  <2>1. session' \in [Tokens -> States] /\ \A t \in Tokens : Stored(t)' => Stored(t)
    BY <1>2 DEF DeleteAccount, Remove, TypeOK, States, Stored
  <2> QED
    BY <1>2, <2>1 DEF DeleteAccount, TypeOK, pastVars
<1>3. ASSUME NEW t \in Tokens, Expire(t)
      PROVE  TypeOK'
  BY <1>3 DEF Expire, TypeOK, rowVars, pastVars, Stored
<1>4. CASE DeleteExpired
  <2>1. session' \in [Tokens -> States] /\ \A t \in Tokens : Stored(t)' => Stored(t)
    BY <1>4 DEF DeleteExpired, Remove, TypeOK, States, Stored
  <2> QED
    BY <1>4, <2>1 DEF DeleteExpired, TypeOK, pastVars
<1> QED
  BY <1>1, <1>2, <1>3, <1>4

-----------------------------------------------------------------------------
(* The rows.  Every token generated continues a login whose token was      *)
(* generated too, and belongs to the account of that login; and the row    *)
(* locks: whoever rotates holds a live row, whoever revokes all holds a    *)
(* revoked one, and nobody holds the row of another.                       *)
Minted(t) == session[t] # "none"

LoginInv ==
  \A t \in Tokens : Minted(t) =>
    login[t] \in Tokens /\ Minted(login[t]) /\ owner[t] = owner[login[t]]

LockInv ==
  /\ \A w \in Workers : req[w].pc = "rotate" => Live(req[w].tok)
  /\ \A w \in Workers : req[w].pc = "revokeall" => session[req[w].tok] = "revoked"
  /\ \A v, w \in Workers, t \in Tokens : Locks(v, t) /\ Locks(w, t) => v = w

RowInv == TypeOK /\ LoginInv /\ LockInv /\ OneSessionPerLogin

LEMMA InitRow == Init => RowInv
BY InitType DEF Init, RowInv, LoginInv, LockInv, OneSessionPerLogin, Minted, Live, Locks, Idle

(* What a step that leaves the rows alone and moves one worker keeps.      *)
LEMMA RowsKept ==
  ASSUME RowInv, TypeOK', UNCHANGED rowVars, NEW w \in Workers, NEW r, Goto(w, r),
         r.pc = "rotate" => Live(r.tok),
         r.pc = "revokeall" => session[r.tok] = "revoked",
         r.pc \in {"rotate", "revokeall"} =>
           r.tok \in Tokens /\ \A v \in Workers \ {w} : ~Locks(v, r.tok)
  PROVE  RowInv'
<1>1. LoginInv' /\ OneSessionPerLogin'
  BY DEF RowInv, LoginInv, OneSessionPerLogin, Minted, Live, rowVars
<1>2. \A v \in Workers : req'[v] = IF v = w THEN r ELSE req[v]
  BY DEF Goto, RowInv, TypeOK
<1>3. LockInv'
  BY <1>2 DEF RowInv, LockInv, Locks, Live, rowVars
<1> QED
  BY <1>1, <1>3 DEF RowInv

LEMMA FreshNew ==
  ASSUME RowInv, NEW t \in Tokens, Fresh(t)
  PROVE  /\ ~Minted(t)
         /\ \A s \in Tokens : Minted(s) => login[s] # t
BY DEF Fresh, Minted, RowInv, LoginInv

LEMMA IssueRow ==
  ASSUME RowInv, NEW w \in Workers, Issue(w)
  PROVE  RowInv'
<1>1. TypeOK'
  BY LoginType DEF RowInv
<1>2. PICK t \in Tokens : /\ Fresh(t)
                          /\ session' = [session EXCEPT ![t] = "live"]
                          /\ owner' = [owner EXCEPT ![t] = req[w].user]
                          /\ login' = [login EXCEPT ![t] = t]
                          /\ Goto(w, Idle)
  BY DEF Issue, Answer
<1>3. ~Minted(t) /\ \A s \in Tokens : Minted(s) => login[s] # t
  BY <1>2, FreshNew
<1>4. \A s \in Tokens \ {t} : /\ session'[s] = session[s]
                              /\ owner'[s] = owner[s]
                              /\ login'[s] = login[s]
  BY <1>2 DEF RowInv, TypeOK
<1>5. session'[t] = "live" /\ login'[t] = t
  BY <1>2 DEF RowInv, TypeOK
<1>6. LoginInv'
  BY <1>3, <1>4, <1>5 DEF RowInv, LoginInv, Minted
<1>7. OneSessionPerLogin'
  BY <1>3, <1>4, <1>5 DEF RowInv, OneSessionPerLogin, Minted, Live
<1>8. \A v \in Workers : req'[v] = IF v = w THEN Idle ELSE req[v]
  BY <1>2 DEF Goto, RowInv, TypeOK
<1>9. LockInv'
  BY <1>3, <1>4, <1>8, TokType DEF RowInv, LockInv, Locks, Live, Minted, Idle
<1> QED
  BY <1>1, <1>6, <1>7, <1>9 DEF RowInv

LEMMA RotateRow ==
  ASSUME RowInv, NEW w \in Workers, RotateCommit(w)
  PROVE  RowInv'
<1> DEFINE tok == req[w].tok
<1>1. tok \in Tokens /\ Live(tok) /\ login[tok] \in Tokens
  BY TokType DEF RotateCommit, RowInv, LockInv, LoginInv, Minted, Live
<1>2. TypeOK'
  BY <1>1, CommitType DEF RowInv
<1>3. PICK new \in Tokens :
        /\ Fresh(new)
        /\ Rotate(tok, new)
        /\ Goto(w, [pc |-> "load", tok |-> tok, new |-> new])
  BY DEF RotateCommit
<1>4. ~Minted(new) /\ \A s \in Tokens : Minted(s) => login[s] # new
  BY <1>3, FreshNew
<1>5. new # tok
  BY <1>1, <1>4 DEF Live, Minted
<1>6. \A s \in Tokens \ {tok, new} : session'[s] = session[s]
  BY <1>3 DEF Rotate, RowInv, TypeOK
<1>7. session'[tok] = "revoked" /\ session'[new] = "live"
  BY <1>1, <1>3, <1>5 DEF Rotate, RowInv, TypeOK
<1>8. \A s \in Tokens : /\ owner'[s] = IF s = new THEN owner[tok] ELSE owner[s]
                        /\ login'[s] = IF s = new THEN login[tok] ELSE login[s]
  BY <1>3 DEF Rotate, RowInv, TypeOK
<1> HIDE DEF tok
<1>9. LoginInv'
  BY <1>1, <1>4, <1>5, <1>6, <1>7, <1>8 DEF RowInv, LoginInv, Minted, Live
<1>10. OneSessionPerLogin'
  BY <1>1, <1>4, <1>5, <1>6, <1>7, <1>8 DEF RowInv, OneSessionPerLogin, Minted, Live
<1>11. /\ req'[w].pc = "load"
       /\ \A v \in Workers \ {w} : req'[v] = req[v]
  BY <1>3 DEF Goto, RowInv, TypeOK
<1>12. Locks(w, tok)
  BY DEF RotateCommit, Locks, tok
<1>13. LockInv'
  <2>1. ASSUME NEW v \in Workers, req'[v].pc = "rotate"
        PROVE  session'[req'[v].tok] = "live"
    BY <1>1, <1>4, <1>6, <1>7, <1>11, <1>12, <2>1, TokType DEF RowInv, LockInv, Locks, Live, Minted
  <2>2. ASSUME NEW v \in Workers, req'[v].pc = "revokeall"
        PROVE  session'[req'[v].tok] = "revoked"
    BY <1>1, <1>4, <1>6, <1>7, <1>11, <2>2, TokType DEF RowInv, LockInv, Minted
  <2>3. \A u, v \in Workers, t \in Tokens : Locks(u, t)' /\ Locks(v, t)' => u = v
    BY <1>11 DEF RowInv, LockInv, Locks
  <2> QED
    BY <2>1, <2>2, <2>3 DEF LockInv, Live
<1> QED
  BY <1>2, <1>9, <1>10, <1>13 DEF RowInv

(* A step that only revokes or removes live rows nobody holds keeps the    *)
(* rows' invariants, whichever workers end.                               *)
LEMMA RowsClosed ==
  ASSUME RowInv, TypeOK', UNCHANGED <<owner, login>>,
         \A t \in Tokens : Minted(t)' <=> Minted(t),
         \A t \in Tokens : Live(t)' => Live(t),
         \A v \in Workers : req'[v] = req[v] \/ req'[v] = Idle,
         \A v \in Workers : req'[v].pc \in {"rotate", "revokeall"} =>
           session'[req[v].tok] = session[req[v].tok]
  PROVE  RowInv'
<1>1. LoginInv' /\ OneSessionPerLogin'
  BY DEF RowInv, LoginInv, OneSessionPerLogin
<1>2. LockInv'
  BY DEF RowInv, LockInv, Locks, Live, Idle
<1> QED
  BY <1>1, <1>2 DEF RowInv

LEMMA SweepRow ==
  ASSUME RowInv, NEW w \in Workers, RevokeAllCommit(w)
  PROVE  RowInv'
<1> DEFINE swept == {s \in req[w].seen : Live(s)}
<1>1. TypeOK'
  BY CommitType DEF RevokeAllCommit, RowInv
<1>2. Sweep(swept) /\ Goto(w, Idle) /\ UNCHANGED <<owner, login>>
  BY DEF RevokeAllCommit, Answer
<1>3. \A t \in Tokens : session'[t] = IF t \in swept THEN "revoked" ELSE session[t]
  BY <1>2 DEF Sweep
<1>4. \A v \in Workers : req'[v] = IF v = w THEN Idle ELSE req[v]
  BY <1>2 DEF Goto, RowInv, TypeOK
<1>5. \A t \in Tokens : (Minted(t)' <=> Minted(t)) /\ (Live(t)' => Live(t))
  BY <1>3 DEF Minted, Live
<1>6. ASSUME NEW v \in Workers, req'[v].pc \in {"rotate", "revokeall"}
      PROVE  session'[req[v].tok] = session[req[v].tok]
  <2>1. v # w /\ req'[v] = req[v] /\ req[v].tok \in Tokens
    BY <1>4, <1>6, TokType DEF Idle, RowInv
  <2>2. Locks(v, req[v].tok)
    BY <1>6, <2>1 DEF Locks
  <2>3. req[v].tok \notin req[w].seen
    BY <2>1, <2>2 DEF RevokeAllCommit
  <2> QED
    BY <1>3, <2>1, <2>3
<1> QED
  BY <1>1, <1>2, <1>4, <1>5, <1>6, RowsClosed

LEMMA RemoveRow ==
  ASSUME RowInv, (\E u \in Users : DeleteAccount(u)) \/ DeleteExpired
  PROVE  RowInv'
<1>1. TypeOK'
  BY OtherType DEF RowInv
<1>2. PICK ts : Remove(ts) /\ (\A t \in ts : Stored(t)) /\ UNCHANGED <<owner, login, req>>
  BY DEF DeleteAccount, DeleteExpired, pastVars
<1>3. \A t \in Tokens : session'[t] = IF t \in ts THEN "deleted" ELSE session[t]
  BY <1>2 DEF Remove
<1>4. \A t \in Tokens : (Minted(t)' <=> Minted(t)) /\ (Live(t)' => Live(t))
  BY <1>2, <1>3 DEF Minted, Live, Stored
<1>5. ASSUME NEW v \in Workers, req'[v].pc \in {"rotate", "revokeall"}
      PROVE  session'[req[v].tok] = session[req[v].tok]
  <2>1. req[v].tok \in Tokens /\ Locked(req[v].tok)
    BY <1>2, <1>5, TokType DEF RowInv, Locked, Locks
  <2> QED
    BY <1>2, <1>3, <2>1 DEF Remove
<1> QED
  BY <1>1, <1>2, <1>4, <1>5, RowsClosed

LEMMA RowStep ==
  ASSUME RowInv, [Next]_vars
  PROVE  RowInv'
<1>1. CASE UNCHANGED vars
  BY <1>1 DEF vars, rowVars, pastVars, RowInv, TypeOK, LoginInv, LockInv, OneSessionPerLogin,
              Minted, Stored, Live, Locks
<1>2. ASSUME NEW w \in Workers, NEW u \in Users, LoginOrg(w, u)
      PROVE  RowInv'
  BY <1>2, LoginType, RowsKept DEF LoginOrg, RowInv
<1>3. ASSUME NEW w \in Workers, LoginVerify(w)
      PROVE  RowInv'
  BY <1>3, LoginType, RowsKept DEF LoginVerify, RowInv
<1>4. ASSUME NEW w \in Workers, LoginRefuse(w)
      PROVE  RowInv'
  BY <1>4, LoginType, RowsKept DEF LoginRefuse, RowInv, Idle
<1>5. ASSUME NEW w \in Workers, NEW t \in Tokens, Refresh(w, t)
      PROVE  RowInv'
  BY <1>5, PresentType, RowsKept DEF Refresh, RowInv
<1>6. ASSUME NEW w \in Workers, LockNothing(w)
      PROVE  RowInv'
  BY <1>6, PresentType, RowsKept DEF LockNothing, Answer, RowInv, Idle
<1>7. ASSUME NEW w \in Workers, LockToRotate(w)
      PROVE  RowInv'
  BY <1>7, PresentType, TokType, RowsKept DEF LockToRotate, Locked, RowInv
<1>8. ASSUME NEW w \in Workers, LockToRevokeAll(w)
      PROVE  RowInv'
  BY <1>8, PresentType, TokType, RowsKept DEF LockToRevokeAll, Locked, RowInv
<1>9. ASSUME NEW w \in Workers, LoadUser(w)
      PROVE  RowInv'
  <2>1. [req[w] EXCEPT !.pc = "org"].pc = "org"
    BY <1>9, ReqType DEF LoadUser, RowInv, RotatedReq
  <2> QED
    BY <1>9, <2>1, AnswerType, RowsKept DEF LoadUser, RowInv
<1>10. ASSUME NEW w \in Workers, LoadNothing(w)
       PROVE  RowInv'
  BY <1>10, AnswerType, RowsKept DEF LoadNothing, Answer, RowInv, Idle
<1>11. ASSUME NEW w \in Workers, AnswerTokens(w)
       PROVE  RowInv'
  BY <1>11, AnswerType, RowsKept DEF AnswerTokens, RowInv, Idle
<1>12. ASSUME NEW w \in Workers, AnswerSuspended(w)
       PROVE  RowInv'
  BY <1>12, AnswerType, RowsKept DEF AnswerSuspended, RowInv, Idle
<1>13. ASSUME NEW w \in Workers, Fail(w)
       PROVE  RowInv'
  BY <1>13, AnswerType, RowsKept DEF Fail, Answer, RowInv, Idle
<1>14. ASSUME \/ \E c \in Centers, s \in Statuses : SetStatus(c, s)
              \/ \E t \in Tokens : Expire(t)
       PROVE  RowInv'
  <2>1. TypeOK' /\ UNCHANGED <<rowVars, req>>
    BY <1>14, OtherType DEF RowInv, SetStatus, Expire
  <2> QED
    BY <2>1 DEF rowVars, RowInv, LoginInv, LockInv, OneSessionPerLogin, Minted, Live, Locks
<1> QED
  BY <1>1, <1>2, <1>3, <1>4, <1>5, <1>6, <1>7, <1>8, <1>9, <1>10, <1>11, <1>12, <1>13, <1>14,
     IssueRow, RotateRow, SweepRow, RemoveRow
  DEF Next

LEMMA RowsHold == Spec => []RowInv
BY InitRow, RowStep, PTL DEF Spec

(* Sessions keeps its type: in particular every stored session has a user. *)
THEOREM TypeCorrect == Spec => []TypeOK
BY RowsHold, PTL DEF RowInv

(* No two live sessions descend from one login, for any number of          *)
(* concurrent requests: the row lock makes rotation an exchange.           *)
THEOREM OneSessionPerLoginHolds == Spec => []OneSessionPerLogin
BY RowsHold, PTL DEF RowInv

-----------------------------------------------------------------------------
(* The refinement of LoginChain, step by step.                            *)

LEMMA ChainKept ==
  ASSUME UNCHANGED rowVars
  PROVE  UNCHANGED Chain!chainVars
BY DEF rowVars, Chain!chainVars, ValidOf, Handed, Live

LEMMA ChainCloses ==
  ASSUME RowInv, UNCHANGED login,
         \A t \in Tokens : Minted(t)' <=> Minted(t),
         \A t \in Tokens : Live(t)' => Live(t)
  PROVE  Chain!Close
<1>1. UNCHANGED Handed
  BY DEF Handed, Minted
<1>2. ValidOf' \in [Tokens -> SUBSET Tokens]
  BY DEF ValidOf
<1>3. ASSUME NEW l \in Tokens
      PROVE  ValidOf'[l] \in {ValidOf[l], {}}
  BY DEF ValidOf, RowInv, OneSessionPerLogin
<1> QED
  BY <1>1, <1>2, <1>3 DEF Chain!Close

LEMMA ChainOpens ==
  ASSUME RowInv, NEW w \in Workers, Issue(w)
  PROVE  \E l \in Tokens : Chain!Open(l)
<1>1. PICK t \in Tokens : /\ Fresh(t)
                          /\ session' = [session EXCEPT ![t] = "live"]
                          /\ login' = [login EXCEPT ![t] = t]
  BY DEF Issue
<1>2. ~Minted(t) /\ \A s \in Tokens : Minted(s) => login[s] # t
  BY <1>1, FreshNew
<1>3. \A s \in Tokens : /\ session'[s] = IF s = t THEN "live" ELSE session[s]
                        /\ login'[s] = IF s = t THEN t ELSE login[s]
  BY <1>1 DEF RowInv, TypeOK
<1>4. t \notin Handed /\ Handed' = Handed \cup {t}
  BY <1>2, <1>3 DEF Handed, Minted
<1>5. ASSUME NEW l \in Tokens
      PROVE  ValidOf'[l] = IF l = t THEN {t} ELSE ValidOf[l]
  BY <1>2, <1>3 DEF ValidOf, Live, Minted
<1>6. ValidOf' = [ValidOf EXCEPT ![t] = {t}]
  BY <1>5 DEF ValidOf
<1> QED
  BY <1>4, <1>6 DEF Chain!Open

LEMMA ChainExchanges ==
  ASSUME RowInv, NEW w \in Workers, RotateCommit(w)
  PROVE  \E l, new \in Tokens : Chain!Exchange(l, new)
<1> DEFINE tok == req[w].tok
<1>1. tok \in Tokens /\ Live(tok) /\ login[tok] \in Tokens
  BY TokType DEF RotateCommit, RowInv, LockInv, LoginInv, Minted, Live
<1>2. PICK new \in Tokens : Fresh(new) /\ Rotate(tok, new)
  BY DEF RotateCommit
<1>3. ~Minted(new) /\ new # tok
  BY <1>1, <1>2, FreshNew DEF Minted, Live
<1>4. \A s \in Tokens :
        /\ session'[s] = IF s = new THEN "live" ELSE IF s = tok THEN "revoked" ELSE session[s]
        /\ login'[s] = IF s = new THEN login[tok] ELSE login[s]
  BY <1>2, <1>3 DEF Rotate, RowInv, TypeOK
<1> HIDE DEF tok
<1>5. new \notin Handed /\ Handed' = Handed \cup {new}
  BY <1>1, <1>3, <1>4 DEF Handed, Minted, Live
<1>6. ValidOf[login[tok]] # {}
  BY <1>1 DEF ValidOf
<1>7. ASSUME NEW l \in Tokens
      PROVE  ValidOf'[l] = IF l = login[tok] THEN {new} ELSE ValidOf[l]
  BY <1>1, <1>3, <1>4 DEF ValidOf, Live, Minted, RowInv, OneSessionPerLogin
<1>8. ValidOf' = [ValidOf EXCEPT ![login[tok]] = {new}]
  BY <1>7 DEF ValidOf
<1> QED
  BY <1>1, <1>5, <1>6, <1>8 DEF Chain!Exchange

LEMMA ChainStep ==
  ASSUME RowInv, [Next]_vars
  PROVE  [Chain!Next]_Chain!chainVars
<1>1. CASE UNCHANGED rowVars
  BY <1>1, ChainKept
<1>2. ASSUME NEW w \in Workers, RevokeAllCommit(w)
      PROVE  Chain!Close
  <2>1. UNCHANGED login /\ \E ts \in SUBSET Tokens : Sweep(ts) /\ \A t \in ts : Live(t)
    BY <1>2, TokType DEF RevokeAllCommit, RowInv
  <2> QED
    BY <2>1, ChainCloses DEF Sweep, Minted, Live
<1>3. ASSUME (\E u \in Users : DeleteAccount(u)) \/ DeleteExpired
      PROVE  Chain!Close
  <2>1. PICK ts : Remove(ts) /\ (\A t \in ts : Stored(t)) /\ UNCHANGED login
    BY <1>3 DEF DeleteAccount, DeleteExpired
  <2> QED
    BY <2>1, ChainCloses DEF Remove, Minted, Live, Stored
<1>4. ASSUME ~UNCHANGED rowVars
      PROVE  \/ \E w \in Workers : Issue(w) \/ RotateCommit(w) \/ RevokeAllCommit(w)
             \/ (\E u \in Users : DeleteAccount(u)) \/ DeleteExpired
  BY <1>4 DEF Next, vars, LoginOrg, LoginVerify, LoginRefuse, Refresh, LockNothing, LockToRotate,
              LockToRevokeAll, LoadUser, LoadNothing, AnswerTokens, AnswerSuspended, Fail,
              SetStatus, Expire
<1> QED
  BY <1>1, <1>2, <1>3, <1>4, ChainOpens, ChainExchanges DEF Chain!Next

(* The sessions of each login implement the abstract chain of tokens.     *)
THEOREM ImplementsLoginChainHolds == Spec => ImplementsLoginChain
<1>1. Init => Chain!Init
  BY DEF Init, Chain!Init, ValidOf, Handed, Live
<1>2. RowInv /\ [Next]_vars => [Chain!Next]_Chain!chainVars
  BY ChainStep
<1> QED
  BY <1>1, <1>2, RowsHold, PTL DEF Spec, ImplementsLoginChain, Chain!Spec

-----------------------------------------------------------------------------
(* What a replay closes.  A revocation under way has seen every live       *)
(* session of the login it revokes, or was overtaken.                     *)
SeenInv ==
  \A w \in Workers, s \in Tokens :
    req[w].pc = "revokeall" /\ Live(s) /\ login[s] = login[req[w].tok] =>
      s \in req[w].seen \/ login[s] \in overtaken

CloseInv ==
  /\ SeenInv
  /\ \A t \in replayed : Minted(t)
  /\ ReplayClosesUnlessOvertaken

LEMMA InitClose == Init => CloseInv
BY DEF Init, CloseInv, SeenInv, ReplayClosesUnlessOvertaken, Idle

(* Steps that make no session live and start no revocation.               *)
LEMMA CloseKept ==
  ASSUME RowInv, CloseInv, UNCHANGED <<owner, login, replayed, overtaken>>,
         \A t \in Tokens : (Minted(t) => Minted(t)') /\ (Live(t)' => Live(t)),
         \A v \in Workers : req'[v] = req[v] \/ req'[v].pc # "revokeall"
  PROVE  CloseInv'
<1>1. replayed \subseteq Tokens
  BY DEF RowInv, TypeOK
<1> QED
  BY <1>1 DEF CloseInv, SeenInv, ReplayClosesUnlessOvertaken

LEMMA IssueClose ==
  ASSUME RowInv, CloseInv, NEW w \in Workers, Issue(w)
  PROVE  CloseInv'
<1>1. PICK t \in Tokens : /\ Fresh(t)
                          /\ session' = [session EXCEPT ![t] = "live"]
                          /\ login' = [login EXCEPT ![t] = t]
                          /\ Goto(w, Idle)
  BY DEF Issue, Answer
<1>2. ~Minted(t) /\ \A s \in Tokens : Minted(s) => login[s] # t
  BY <1>1, FreshNew
<1>3. \A s \in Tokens : /\ session'[s] = IF s = t THEN "live" ELSE session[s]
                        /\ login'[s] = IF s = t THEN t ELSE login[s]
  BY <1>1 DEF RowInv, TypeOK
<1>4. \A v \in Workers : req'[v] = IF v = w THEN Idle ELSE req[v]
  BY <1>1 DEF Goto, RowInv, TypeOK
<1>5. UNCHANGED <<replayed, overtaken>> /\ replayed \subseteq Tokens
  BY DEF Issue, pastVars, RowInv, TypeOK
<1>6. \A v \in Workers : req[v].pc = "revokeall" => req[v].tok \in Tokens /\ Minted(req[v].tok)
  BY TokType DEF RowInv, LockInv, Minted
<1>7. SeenInv'
  BY <1>2, <1>3, <1>4, <1>5, <1>6 DEF CloseInv, SeenInv, Live, Idle
<1>8. (\A s \in replayed : Minted(s))' /\ ReplayClosesUnlessOvertaken'
  BY <1>2, <1>3, <1>5 DEF CloseInv, ReplayClosesUnlessOvertaken, Live, Minted
<1> QED
  BY <1>7, <1>8 DEF CloseInv

LEMMA RotateClose ==
  ASSUME RowInv, CloseInv, NEW w \in Workers, RotateCommit(w)
  PROVE  CloseInv'
<1> DEFINE tok == req[w].tok
<1>1. tok \in Tokens /\ Live(tok) /\ login[tok] \in Tokens
  BY TokType DEF RotateCommit, RowInv, LockInv, LoginInv, Minted, Live
<1>2. PICK new \in Tokens :
        /\ Fresh(new)
        /\ Rotate(tok, new)
        /\ Goto(w, [pc |-> "load", tok |-> tok, new |-> new])
  BY DEF RotateCommit
<1>3. ~Minted(new) /\ \A s \in Tokens : Minted(s) => login[s] # new
  BY <1>2, FreshNew
<1>4. \A s \in Tokens :
        /\ login'[s] = IF s = new THEN login[tok] ELSE login[s]
        /\ Live(s)' => s = new \/ Live(s)
        /\ Minted(s) => Minted(s)'
  BY <1>1, <1>2 DEF Rotate, RowInv, TypeOK, Live, Minted
<1>5. req'[w].pc = "load" /\ \A v \in Workers \ {w} : req'[v] = req[v]
  BY <1>2 DEF Goto, RowInv, TypeOK
<1>6. \A v \in Workers : req[v].pc = "revokeall" => req[v].tok \in Tokens /\ Minted(req[v].tok)
  BY TokType DEF RowInv, LockInv, Minted
<1>7. \A v \in Workers : req[v].pc = "revokeall" /\ login[req[v].tok] = login[tok]
        => owner[req[v].tok] = owner[tok]
  BY <1>1, <1>6 DEF RowInv, LoginInv, Live, Minted
<1>8. /\ overtaken \subseteq overtaken'
      /\ (\E v \in Workers : req[v].pc = "revokeall" /\ owner[req[v].tok] = owner[tok])
           => login[tok] \in overtaken'
      /\ replayed' = replayed /\ replayed \subseteq Tokens
  BY DEF RotateCommit, RowInv, TypeOK
<1> HIDE DEF tok
<1>9. SeenInv'
  <2> SUFFICES ASSUME NEW v \in Workers, NEW s \in Tokens,
                      req'[v].pc = "revokeall", Live(s)', login'[s] = login'[req'[v].tok]
               PROVE  s \in req'[v].seen \/ login'[s] \in overtaken'
    BY DEF SeenInv
  <2>1. /\ req'[v] = req[v] /\ req[v].tok \in Tokens
        /\ login'[req'[v].tok] = login[req[v].tok]
    BY <1>3, <1>4, <1>5, <1>6
  <2>2. CASE s = new
    BY <1>4, <1>7, <1>8, <2>1, <2>2
  <2>3. CASE s # new
    BY <1>4, <1>8, <2>1, <2>3 DEF CloseInv, SeenInv
  <2> QED
    BY <2>2, <2>3
<1>10. ReplayClosesUnlessOvertaken'
  BY <1>1, <1>3, <1>4, <1>8 DEF CloseInv, ReplayClosesUnlessOvertaken
<1> QED
  BY <1>4, <1>8, <1>9, <1>10 DEF CloseInv

LEMMA LockClose ==
  ASSUME RowInv, CloseInv, NEW w \in Workers, LockToRevokeAll(w)
  PROVE  CloseInv'
<1> DEFINE tok == req[w].tok
<1>1. tok \in Tokens /\ Minted(tok)
  BY TokType DEF LockToRevokeAll, RowInv, Minted
<1>2. \A v \in Workers : req'[v] =
        IF v = w THEN [pc |-> "revokeall", tok |-> tok, seen |-> LiveOf(owner[tok])] ELSE req[v]
  BY DEF LockToRevokeAll, Goto, RowInv, TypeOK
<1>3. \A s \in Tokens : Live(s) /\ login[s] = login[tok] => s \in LiveOf(owner[tok])
  BY <1>1 DEF RowInv, LoginInv, Live, Minted, LiveOf
<1>4. UNCHANGED <<session, login, replayed, overtaken>>
  BY DEF LockToRevokeAll, rowVars, pastVars
<1> HIDE DEF tok
<1>5. SeenInv'
  BY <1>2, <1>3, <1>4 DEF CloseInv, SeenInv, Live
<1> QED
  BY <1>4, <1>5 DEF CloseInv, ReplayClosesUnlessOvertaken, Minted, Live

LEMMA SweepClose ==
  ASSUME RowInv, CloseInv, NEW w \in Workers, RevokeAllCommit(w)
  PROVE  CloseInv'
<1> DEFINE swept == {s \in req[w].seen : Live(s)}
           tok == req[w].tok
<1>1. tok \in Tokens /\ Minted(tok)
  BY TokType DEF RevokeAllCommit, RowInv, LockInv, Minted
<1>2. Sweep(swept) /\ Goto(w, Idle)
  BY DEF RevokeAllCommit, Answer
<1>3. \A s \in Tokens : /\ Minted(s) => Minted(s)'
                        /\ Live(s)' => Live(s) /\ s \notin req[w].seen
  BY <1>2 DEF Sweep, Minted, Live
<1>4. \A v \in Workers : req'[v] = IF v = w THEN Idle ELSE req[v]
  BY <1>2 DEF Goto, RowInv, TypeOK
<1>5. UNCHANGED <<login, overtaken>> /\ replayed' = replayed \cup {tok} /\ replayed \subseteq Tokens
  BY DEF RevokeAllCommit, RowInv, TypeOK
<1>6. \A s \in Tokens : Live(s)' /\ login[s] = login[tok] => login[s] \in overtaken
  BY <1>3 DEF CloseInv, SeenInv, RevokeAllCommit
<1> HIDE DEF tok, swept
<1>7. SeenInv'
  BY <1>3, <1>4, <1>5 DEF CloseInv, SeenInv, Idle
<1>8. ReplayClosesUnlessOvertaken'
  BY <1>3, <1>5, <1>6 DEF CloseInv, ReplayClosesUnlessOvertaken
<1> QED
  BY <1>1, <1>3, <1>5, <1>7, <1>8 DEF CloseInv

LEMMA CloseStep ==
  ASSUME RowInv, CloseInv, [Next]_vars
  PROVE  CloseInv'
<1>1. CASE UNCHANGED vars
  BY <1>1, CloseKept DEF vars, rowVars, pastVars, Minted, Live
<1>2. ASSUME NEW w \in Workers,
             \/ \E u \in Users : LoginOrg(w, u)
             \/ \E t \in Tokens : Refresh(w, t)
             \/ LoginVerify(w) \/ LoginRefuse(w) \/ LockNothing(w) \/ LockToRotate(w)
             \/ LoadUser(w) \/ LoadNothing(w) \/ AnswerTokens(w) \/ AnswerSuspended(w)
             \/ Fail(w)
      PROVE  CloseInv'
  <2>1. UNCHANGED <<rowVars, replayed, overtaken>>
    BY <1>2 DEF LoginOrg, Refresh, LoginVerify, LoginRefuse, LockNothing, LockToRotate,
                LoadUser, LoadNothing, AnswerTokens, AnswerSuspended, Fail, pastVars
  <2>2. ASSUME NEW r, Goto(w, r), r.pc # "revokeall"
        PROVE  \A v \in Workers : req'[v] = req[v] \/ req'[v].pc # "revokeall"
    BY <2>2 DEF Goto, RowInv, TypeOK
  <2>3. LoadUser(w) => [req[w] EXCEPT !.pc = "org"].pc # "revokeall"
    BY ReqType DEF LoadUser, RowInv, RotatedReq
  <2>4. ASSUME \/ \E u \in Users : LoginOrg(w, u)
               \/ \E t \in Tokens : Refresh(w, t)
               \/ LoginVerify(w) \/ LockToRotate(w) \/ LoadUser(w)
        PROVE  \A v \in Workers : req'[v] = req[v] \/ req'[v].pc # "revokeall"
    BY <2>2, <2>3, <2>4 DEF LoginOrg, Refresh, LoginVerify, LockToRotate, LoadUser
  <2>5. ASSUME \/ LoginRefuse(w) \/ LockNothing(w) \/ LoadNothing(w) \/ AnswerTokens(w)
               \/ AnswerSuspended(w) \/ Fail(w)
        PROVE  \A v \in Workers : req'[v] = req[v] \/ req'[v].pc # "revokeall"
    BY <2>2, <2>5
    DEF LoginRefuse, LockNothing, LoadNothing, AnswerTokens, AnswerSuspended, Fail, Answer, Idle
  <2> QED
    BY <1>2, <2>1, <2>4, <2>5, CloseKept DEF rowVars, Minted, Live
<1>3. ASSUME \/ \E c \in Centers, s \in Statuses : SetStatus(c, s)
             \/ \E u \in Users : DeleteAccount(u)
             \/ \E t \in Tokens : Expire(t)
             \/ DeleteExpired
      PROVE  CloseInv'
  <2>1. UNCHANGED <<owner, login, replayed, overtaken, req>>
    BY <1>3 DEF SetStatus, DeleteAccount, Expire, DeleteExpired, rowVars, pastVars
  <2>2. \A t \in Tokens : (Minted(t) => Minted(t)') /\ (Live(t)' => Live(t))
    BY <1>3 DEF SetStatus, DeleteAccount, Expire, DeleteExpired, rowVars, Remove, Minted, Live
  <2> QED
    BY <2>1, <2>2, CloseKept
<1> QED
  BY <1>1, <1>2, <1>3, IssueClose, RotateClose, LockClose, SweepClose DEF Next

(* After a replay only a rotation that overtook the revocation leaves a    *)
(* valid session of that login.                                           *)
THEOREM ReplayClosesUnlessOvertakenHolds == Spec => []ReplayClosesUnlessOvertaken
<1>1. Init => RowInv /\ CloseInv
  BY InitRow, InitClose
<1>2. RowInv /\ CloseInv /\ [Next]_vars => RowInv' /\ CloseInv'
  BY RowStep, CloseStep
<1>3. CloseInv => ReplayClosesUnlessOvertaken
  BY DEF CloseInv
<1> QED
  BY <1>1, <1>2, <1>3, PTL DEF Spec

-----------------------------------------------------------------------------
(* Why a client may hold a revoked token.  A revoked token in a client's   *)
(* hands, or presented and not yet answered, is excused or just being      *)
(* replaced; a replacement not yet answered is known to nobody.           *)
Serving(w) == req[w].pc \in {"lock", "rotate", "revokeall", "load", "org"}
Rotated(w) == req[w].pc \in {"load", "org"}
Revoked(t) == session[t] = "revoked"

HeldInv ==
  /\ \A t \in held : Minted(t)
  /\ \A t \in held : Revoked(t) =>
       excused[t] # {} \/ \E w \in Workers : Rotated(w) /\ req[w].tok = t

ServedInv ==
  /\ \A w \in Workers : Serving(w) => Minted(req[w].tok)
  /\ \A v, w \in Workers : v # w /\ Serving(v) /\ Serving(w) /\ req[v].tok = req[w].tok =>
       excused[req[w].tok] # {}
  /\ \A w \in Workers : req[w].pc \in {"lock", "revokeall"} /\ Revoked(req[w].tok) =>
       excused[req[w].tok] # {}

NewInv ==
  \A w \in Workers : Rotated(w) =>
    /\ Minted(req[w].new)
    /\ req[w].new \notin held
    /\ Revoked(req[w].new) => excused[req[w].new] # {}
    /\ \A v \in Workers : Serving(v) => req[v].tok # req[w].new
    /\ \A v \in Workers \ {w} : Rotated(v) => req[v].new # req[w].new

HandInv == HeldInv /\ ServedInv /\ NewInv /\ ReplayExplained

LEMMA InitHand == Init => HandInv
BY DEF Init, HandInv, HeldInv, ServedInv, NewInv, ReplayExplained, Serving, Rotated, Idle

LEMMA MoreExcused ==
  ASSUME TypeOK, NEW ts, NEW reason, Excuse(ts, reason), NEW t \in Tokens
  PROVE  /\ excused[t] # {} => excused'[t] # {}
         /\ t \in ts => excused'[t] # {}
BY DEF Excuse, TypeOK

(* Steps that revoke nothing, hand out nothing and start no presentation;  *)
(* a worker that ends after its rotation excuses the token or makes the    *)
(* client forget it.                                                      *)
LEMMA QuietHand ==
  ASSUME RowInv, HandInv, TypeOK', UNCHANGED replayed, held' \subseteq held,
         \A t \in Tokens : /\ Minted(t) => Minted(t)'
                           /\ Revoked(t)' => Revoked(t)
                           /\ excused[t] # {} => excused'[t] # {},
         \A v \in Workers : \/ req'[v] = req[v]
                            \/ ~Serving(v)' /\ (Rotated(v) => \/ excused'[req[v].tok] # {}
                                                              \/ req[v].tok \notin held')
  PROVE  HandInv'
<1>1. \A v \in Workers : /\ Serving(v)' => req'[v] = req[v] /\ Serving(v)
                         /\ Rotated(v) => Serving(v)
                         /\ Rotated(v)' => Serving(v)'
  BY DEF Serving, Rotated
<1>2. \A v \in Workers : /\ Serving(v) => req[v].tok \in Tokens
                         /\ Rotated(v) => req[v].new \in Tokens
  BY TokType DEF RowInv, Serving, Rotated
<1>3. held \subseteq Tokens /\ replayed \subseteq Tokens
  BY DEF RowInv, TypeOK
<1>4. HeldInv'
  BY <1>1, <1>3 DEF HandInv, HeldInv, Rotated
<1>5. ServedInv'
  BY <1>1, <1>2 DEF HandInv, ServedInv, Serving
<1>6. NewInv'
  BY <1>1, <1>2 DEF HandInv, NewInv, Rotated
<1>7. ReplayExplained'
  BY <1>3 DEF HandInv, ReplayExplained
<1> QED
  BY <1>4, <1>5, <1>6, <1>7 DEF HandInv

(* A worker goes on with the token it serves.                             *)
LEMMA MoveHand ==
  ASSUME RowInv, HandInv, TypeOK', UNCHANGED <<session, held, excused, replayed>>,
         NEW w \in Workers, NEW r, Goto(w, r), Serving(w), r.tok = req[w].tok,
         \/ req[w].pc = "lock" /\ r.pc \in {"rotate", "revokeall"}
         \/ Rotated(w) /\ r.pc = "org" /\ r.new = req[w].new
  PROVE  HandInv'
<1>1. \A v \in Workers : req'[v] = IF v = w THEN r ELSE req[v]
  BY DEF Goto, RowInv, TypeOK
<1>2. \A v \in Workers : /\ Serving(v)' <=> Serving(v)
                         /\ Rotated(v)' <=> Rotated(v)
                         /\ Serving(v) => req'[v].tok = req[v].tok
                         /\ Rotated(v) => req'[v].new = req[v].new
                         /\ req'[v].pc \in {"lock", "revokeall"} =>
                              req[v].pc \in {"lock", "revokeall"}
  BY <1>1 DEF Serving, Rotated
<1>3. \A v \in Workers : Rotated(v) => Serving(v)
  BY DEF Serving, Rotated
<1>4. \A v \in Workers : req[v].pc \in {"lock", "revokeall"} => Serving(v)
  BY DEF Serving
<1>5. HeldInv'
  BY <1>2, <1>3 DEF HandInv, HeldInv, Minted, Revoked
<1>6. ServedInv'
  BY <1>2, <1>4 DEF HandInv, ServedInv, Minted, Revoked
<1>7. NewInv'
  BY <1>2, <1>3 DEF HandInv, NewInv, Minted, Revoked
<1> QED
  BY <1>5, <1>6, <1>7 DEF HandInv, ReplayExplained

LEMMA RefreshHand ==
  ASSUME RowInv, HandInv, NEW w \in Workers, NEW t \in Tokens, Refresh(w, t)
  PROVE  HandInv'
<1>1. \A v \in Workers : req'[v] = IF v = w THEN [pc |-> "lock", tok |-> t] ELSE req[v]
  BY DEF Refresh, Goto, RowInv, TypeOK
<1>2. /\ t \in held /\ ~Serving(w) /\ ~Rotated(w)
      /\ UNCHANGED <<session, held, replayed>>
      /\ held \subseteq Tokens /\ replayed \subseteq Tokens
  BY DEF Refresh, rowVars, RowInv, TypeOK, Idle, Serving, Rotated
<1>3. \A s \in Tokens : excused[s] # {} => excused'[s] # {}
  BY MoreExcused DEF Refresh, RowInv
<1>4. \A v \in Workers : Serving(v) /\ req[v].tok = t => excused'[t] # {}
  BY MoreExcused DEF Refresh, RowInv, Presents, Serving
<1>5. \A v \in Workers : /\ Serving(v) => req[v].tok \in Tokens
                         /\ Rotated(v) => req[v].new \in Tokens /\ Serving(v)
  BY TokType DEF RowInv, Serving, Rotated
<1>6. /\ \A v \in Workers \ {w} : /\ req'[v] = req[v]
                                  /\ Serving(v)' <=> Serving(v)
                                  /\ Rotated(v)' <=> Rotated(v)
      /\ Serving(w)' /\ ~Rotated(w)' /\ req'[w].tok = t /\ req'[w].pc = "lock"
  BY <1>1 DEF Serving, Rotated
<1>7. HeldInv'
  BY <1>2, <1>3, <1>6 DEF HandInv, HeldInv, Minted, Revoked
<1>8. Revoked(t) => excused'[t] # {}
  BY <1>2, <1>3, <1>4, <1>5 DEF HandInv, HeldInv
<1>9. ServedInv'
  <2>1. Minted(t)
    BY <1>2 DEF HandInv, HeldInv
  <2>2. \A v \in Workers : Serving(v)' => (Minted(req[v].tok) /\ v # w) \/ v = w
    BY <1>6 DEF HandInv, ServedInv
  <2>3. \A v \in Workers : Serving(v)' => Minted(req[v].tok)'
    BY <1>2, <1>6, <2>1, <2>2 DEF Minted
  <2>4. \A u, v \in Workers : u # v /\ Serving(u)' /\ Serving(v)' /\ req'[u].tok = req'[v].tok
          => excused'[req'[v].tok] # {}
    BY <1>3, <1>4, <1>5, <1>6 DEF HandInv, ServedInv
  <2>5. \A v \in Workers : req'[v].pc \in {"lock", "revokeall"} /\ Revoked(req[v].tok)'
          => excused'[req'[v].tok] # {}
    <3> SUFFICES ASSUME NEW v \in Workers, req'[v].pc \in {"lock", "revokeall"},
                        Revoked(req[v].tok)'
                 PROVE  excused'[req'[v].tok] # {}
      OBVIOUS
    <3>1. CASE v = w
      BY <1>2, <1>6, <1>8, <3>1 DEF Revoked
    <3>2. CASE v # w
      BY <1>2, <1>3, <1>5, <1>6, <3>2 DEF HandInv, ServedInv, Revoked, Serving
    <3> QED
      BY <3>1, <3>2
  <2> QED
    BY <2>3, <2>4, <2>5 DEF ServedInv
<1>10. NewInv'
  BY <1>2, <1>3, <1>5, <1>6 DEF HandInv, NewInv, Minted, Revoked
<1>11. ReplayExplained'
  BY <1>2, <1>3 DEF HandInv, ReplayExplained
<1> QED
  BY <1>7, <1>9, <1>10, <1>11 DEF HandInv

LEMMA IssueHand ==
  ASSUME RowInv, HandInv, NEW w \in Workers, Issue(w)
  PROVE  HandInv'
<1>1. PICK t \in Tokens : /\ Fresh(t)
                          /\ session' = [session EXCEPT ![t] = "live"]
                          /\ held' = held \cup {t} \/ held' = held
                          /\ Goto(w, Idle)
  BY DEF Issue, Answer
<1>2. ~Minted(t)
  BY <1>1, FreshNew
<1>3. \A s \in Tokens : session'[s] = IF s = t THEN "live" ELSE session[s]
  BY <1>1 DEF RowInv, TypeOK
<1>4. \A v \in Workers : /\ req'[v] = IF v = w THEN Idle ELSE req[v]
                         /\ Serving(v)' => v # w /\ Serving(v)
                         /\ Rotated(v)' => v # w /\ Rotated(v)
                         /\ Rotated(v) => v # w /\ Rotated(v)' /\ Serving(v)
  BY <1>1 DEF Goto, RowInv, TypeOK, Idle, Serving, Rotated, Issue
<1>5. /\ \A v \in Workers : /\ Serving(v) => req[v].tok \in Tokens /\ req[v].tok # t
                            /\ Rotated(v) => req[v].new \in Tokens /\ req[v].new # t
      /\ held \subseteq Tokens /\ replayed \subseteq Tokens
  BY <1>2, <1>4, TokType DEF RowInv, TypeOK, HandInv, ServedInv, NewInv, Serving, Rotated
<1>6. UNCHANGED <<excused, replayed>>
  BY DEF Issue, pastVars
<1>7. HeldInv'
  BY <1>1, <1>3, <1>4, <1>5, <1>6 DEF HandInv, HeldInv, Minted, Revoked
<1>8. ServedInv'
  BY <1>3, <1>4, <1>5, <1>6 DEF HandInv, ServedInv, Minted, Revoked, Serving
<1>9. NewInv'
  BY <1>1, <1>3, <1>4, <1>5, <1>6 DEF HandInv, NewInv, Minted, Revoked
<1> QED
  BY <1>6, <1>7, <1>8, <1>9 DEF HandInv, ReplayExplained

LEMMA RotateHand ==
  ASSUME RowInv, HandInv, NEW w \in Workers, RotateCommit(w)
  PROVE  HandInv'
<1> DEFINE tok == req[w].tok
<1>1. tok \in Tokens /\ Live(tok) /\ Serving(w)
  BY TokType DEF RotateCommit, RowInv, LockInv, Serving
<1>2. PICK new \in Tokens :
        /\ Fresh(new)
        /\ Rotate(tok, new)
        /\ Goto(w, [pc |-> "load", tok |-> tok, new |-> new])
  BY DEF RotateCommit
<1>3. ~Minted(new)
  BY <1>2, FreshNew
<1>4. \A s \in Tokens :
        session'[s] = IF s = new THEN "live" ELSE IF s = tok THEN "revoked" ELSE session[s]
  BY <1>2 DEF Rotate, RowInv, TypeOK
<1>5. /\ \A v \in Workers \ {w} : req'[v] = req[v]
      /\ req'[w].pc = "load" /\ req'[w].tok = tok /\ req'[w].new = new
  BY <1>2 DEF Goto, RowInv, TypeOK
<1>6. /\ \A v \in Workers : /\ Serving(v)' <=> Serving(v)
                            /\ Serving(v) => req'[v].tok = req[v].tok
      /\ Rotated(w)' /\ \A v \in Workers \ {w} : Rotated(v)' <=> Rotated(v)
  BY <1>1, <1>5 DEF Serving, Rotated
<1>7. /\ \A v \in Workers : /\ Serving(v) => req[v].tok \in Tokens /\ req[v].tok # new
                            /\ Rotated(v) => req[v].new \in Tokens /\ req[v].new # new
                                             /\ Serving(v) /\ req[v].new # tok
      /\ held \subseteq Tokens /\ replayed \subseteq Tokens /\ new \notin held
  BY <1>1, <1>3, TokType DEF RowInv, TypeOK, HandInv, HeldInv, ServedInv, NewInv, Serving, Rotated
<1>8. UNCHANGED <<held, excused, replayed>>
  BY DEF RotateCommit
<1> HIDE DEF tok
<1>9. HeldInv'
  BY <1>4, <1>5, <1>6, <1>7, <1>8 DEF HandInv, HeldInv, Minted, Revoked
<1>10. \A v \in Workers : Serving(v) /\ v # w /\ req[v].tok = tok => excused[tok] # {}
  BY <1>1 DEF HandInv, ServedInv, tok
<1>11. ServedInv'
  <2>1. \A v \in Workers : Serving(v)' => Minted(req[v].tok)'
    BY <1>1, <1>4, <1>6, <1>7 DEF HandInv, ServedInv, Minted
  <2>2. \A u, v \in Workers : u # v /\ Serving(u)' /\ Serving(v)' /\ req'[u].tok = req'[v].tok
          => excused'[req'[v].tok] # {}
    BY <1>6, <1>8 DEF HandInv, ServedInv
  <2>3. ASSUME NEW v \in Workers, req'[v].pc \in {"lock", "revokeall"}, Revoked(req[v].tok)'
        PROVE  excused'[req'[v].tok] # {}
    <3>1. v # w /\ req'[v] = req[v] /\ Serving(v)
      BY <1>5, <2>3 DEF Serving
    <3> QED
      BY <1>4, <1>7, <1>8, <1>10, <2>3, <3>1 DEF HandInv, ServedInv, Revoked
  <2> QED
    BY <2>1, <2>2, <2>3 DEF ServedInv
<1>12. NewInv'
  <2> SUFFICES ASSUME NEW v \in Workers, Rotated(v)'
               PROVE  /\ session'[req'[v].new] # "none"
                      /\ req'[v].new \notin held
                      /\ session'[req'[v].new] = "revoked" => excused[req'[v].new] # {}
                      /\ \A u \in Workers : Serving(u)' => req'[u].tok # req'[v].new
                      /\ \A u \in Workers \ {v} : Rotated(u)' => req'[u].new # req'[v].new
    BY <1>8 DEF NewInv, Minted, Revoked
  <2>1. CASE v = w
    BY <1>4, <1>5, <1>6, <1>7, <2>1
  <2>2. CASE v # w
    BY <1>4, <1>5, <1>6, <1>7, <2>2 DEF HandInv, NewInv, Minted, Revoked
  <2> QED
    BY <2>1, <2>2
<1> QED
  BY <1>8, <1>9, <1>11, <1>12 DEF HandInv, ReplayExplained

LEMMA SweepHand ==
  ASSUME RowInv, HandInv, NEW w \in Workers, RevokeAllCommit(w)
  PROVE  HandInv'
<1> DEFINE swept == {s \in req[w].seen : Live(s)}
           tok == req[w].tok
<1>1. /\ tok \in Tokens /\ Revoked(tok) /\ Serving(w) /\ ~Rotated(w) /\ req[w].pc = "revokeall"
  BY TokType DEF RevokeAllCommit, RowInv, LockInv, Serving, Rotated, Revoked
<1>2. /\ Sweep(swept) /\ Excuse(swept \ {tok}, "swept") /\ Goto(w, Idle)
      /\ held' \subseteq held
      /\ replayed' = replayed \cup {tok}
  BY DEF RevokeAllCommit, Answer
<1>3. tok \notin swept
  BY <1>1 DEF Live, Revoked
<1>4. \A s \in Tokens : session'[s] = IF s \in swept THEN "revoked" ELSE session[s]
  BY <1>2 DEF Sweep
<1>5. \A s \in Tokens : /\ excused[s] # {} => excused'[s] # {}
                        /\ s \in swept => excused'[s] # {}
                        /\ Minted(s) => Minted(s)'
                        /\ Revoked(s)' => Revoked(s) \/ excused'[s] # {}
  BY <1>2, <1>3, <1>4, MoreExcused DEF RowInv, Minted, Revoked
<1>6. \A v \in Workers : /\ req'[v] = IF v = w THEN Idle ELSE req[v]
                         /\ Serving(v)' => v # w /\ Serving(v)
                         /\ Rotated(v)' => v # w /\ Rotated(v)
                         /\ Rotated(v) => v # w /\ Rotated(v)' /\ Serving(v)
  BY <1>1, <1>2 DEF Goto, RowInv, TypeOK, Idle, Serving, Rotated
<1>7. /\ \A v \in Workers : /\ Serving(v) => req[v].tok \in Tokens
                            /\ Rotated(v) => req[v].new \in Tokens
                            /\ req[v].pc \in {"lock", "revokeall"} => Serving(v)
      /\ held \subseteq Tokens /\ replayed \subseteq Tokens
  BY TokType DEF RowInv, TypeOK, Serving, Rotated
<1>8. excused[tok] # {}
  BY <1>1 DEF HandInv, ServedInv
<1> HIDE DEF tok, swept
<1>9. HeldInv'
  BY <1>2, <1>5, <1>6, <1>7 DEF HandInv, HeldInv
<1>10. ServedInv'
  BY <1>5, <1>6, <1>7 DEF HandInv, ServedInv, Idle
<1>11. NewInv'
  BY <1>2, <1>5, <1>6, <1>7 DEF HandInv, NewInv
<1>12. ReplayExplained'
  BY <1>1, <1>2, <1>5, <1>7, <1>8 DEF HandInv, ReplayExplained
<1> QED
  BY <1>9, <1>10, <1>11, <1>12 DEF HandInv

LEMMA AnswerHand ==
  ASSUME RowInv, HandInv, NEW w \in Workers, AnswerTokens(w)
  PROVE  HandInv'
<1> DEFINE tok == req[w].tok
           new == req[w].new
<1>1. tok \in Tokens /\ new \in Tokens /\ Rotated(w) /\ Serving(w)
  BY TokType DEF AnswerTokens, RowInv, Serving, Rotated
<1>2. /\ held' = (held \ {tok}) \cup {new}
      /\ UNCHANGED <<session, excused, replayed>>
  BY DEF AnswerTokens, rowVars, pastVars
<1>3. \A v \in Workers : /\ req'[v] = IF v = w THEN Idle ELSE req[v]
                         /\ Serving(v)' => v # w /\ Serving(v)
                         /\ Rotated(v)' => v # w /\ Rotated(v)
                         /\ Rotated(v) /\ v # w => Rotated(v)'
  BY DEF AnswerTokens, Goto, RowInv, TypeOK, Idle, Serving, Rotated
<1>4. Minted(new) /\ (Revoked(new) => excused[new] # {})
      /\ \A v \in Workers \ {w} : Rotated(v) => req[v].new # new
  BY <1>1 DEF HandInv, NewInv
<1> HIDE DEF tok, new
<1>5. HeldInv'
  <2>1. \A t \in held' : Minted(t)'
    BY <1>2, <1>4 DEF HandInv, HeldInv, Minted
  <2>2. ASSUME NEW t \in held', Revoked(t)
        PROVE  excused[t] # {} \/ \E v \in Workers : Rotated(v)' /\ req'[v].tok = t
    <3>1. CASE t = new
      BY <1>4, <2>2, <3>1
    <3>2. CASE t # new
      <4>1. t \in held /\ t # tok
        BY <1>2, <3>2
      <4>2. excused[t] # {} \/ \E v \in Workers \ {w} : Rotated(v) /\ req[v].tok = t
        BY <2>2, <4>1 DEF HandInv, HeldInv, tok
      <4> QED
        BY <1>3, <4>2
    <3> QED
      BY <3>1, <3>2
  <2> QED
    BY <1>2, <2>1, <2>2 DEF HeldInv, Revoked
<1>6. ServedInv'
  BY <1>2, <1>3 DEF HandInv, ServedInv, Minted, Revoked, Idle
<1>7. NewInv'
  BY <1>2, <1>3, <1>4 DEF HandInv, NewInv, Minted, Revoked
<1> QED
  BY <1>2, <1>5, <1>6, <1>7 DEF HandInv, ReplayExplained

LEMMA HandStep ==
  ASSUME RowInv, HandInv, [Next]_vars
  PROVE  HandInv'
<1>1. TypeOK' /\ TypeOK
  BY RowStep DEF RowInv
<1>2. CASE UNCHANGED vars
  BY <1>1, <1>2, QuietHand DEF vars, rowVars, pastVars, Minted, Revoked
<1>3. ASSUME NEW w \in Workers,
             \/ \E u \in Users : LoginOrg(w, u)
             \/ LoginVerify(w) \/ LoginRefuse(w) \/ LockNothing(w)
      PROVE  HandInv'
  <2>1. UNCHANGED <<session, excused, replayed>> /\ held' \subseteq held
    BY <1>3 DEF LoginOrg, LoginVerify, LoginRefuse, LockNothing, Answer, rowVars, pastVars
  <2>a. ASSUME NEW u \in Users, LoginOrg(w, u)
        PROVE  ~Rotated(w) /\ \E r : Goto(w, r) /\ r.pc \in {"user", "issue", "idle"}
    <3> DEFINE r == [pc |-> "user", user |-> u, status |-> status[Home[u]]]
    <3>1. Goto(w, r) /\ r.pc = "user" /\ ~Rotated(w)
      BY <2>a DEF LoginOrg, Rotated, Idle
    <3> QED
      BY <3>1
  <2>b. ASSUME LoginVerify(w)
        PROVE  ~Rotated(w) /\ \E r : Goto(w, r) /\ r.pc \in {"user", "issue", "idle"}
    <3> DEFINE r == [pc |-> "issue", user |-> req[w].user]
    <3>1. Goto(w, r) /\ r.pc = "issue" /\ ~Rotated(w)
      BY <2>b DEF LoginVerify, Rotated
    <3> QED
      BY <3>1
  <2>c. ASSUME LoginRefuse(w) \/ LockNothing(w)
        PROVE  ~Rotated(w) /\ \E r : Goto(w, r) /\ r.pc \in {"user", "issue", "idle"}
    <3>1. Goto(w, Idle) /\ Idle.pc = "idle" /\ ~Rotated(w)
      BY <2>c DEF LoginRefuse, LockNothing, Answer, Rotated, Idle
    <3> QED
      BY <3>1
  <2>2. PICK r : Goto(w, r) /\ r.pc \in {"user", "issue", "idle"}
    BY <1>3, <2>a, <2>b, <2>c
  <2>3. ~Rotated(w)
    BY <1>3, <2>a, <2>b, <2>c
  <2>4. \A v \in Workers : req'[v] = IF v = w THEN r ELSE req[v]
    BY <1>1, <2>2 DEF Goto, TypeOK
  <2>5. ~Serving(w)'
    BY <2>2, <2>4 DEF Serving
  <2> QED
    BY <1>1, <2>1, <2>3, <2>4, <2>5, QuietHand DEF Minted, Revoked
<1>4. ASSUME NEW w \in Workers, LoadNothing(w) \/ AnswerSuspended(w) \/ Fail(w)
      PROVE  HandInv'
  <2>1. UNCHANGED <<session, replayed>> /\ held' \subseteq held /\ Goto(w, Idle)
    BY <1>4 DEF LoadNothing, AnswerSuspended, Fail, Answer, rowVars
  <2>2. Rotated(w) => Excuse({req[w].tok}, "unanswered") /\ req[w].tok \in Tokens
    BY <1>1, <1>4, TokType DEF LoadNothing, AnswerSuspended, Fail, Rotated
  <2>3. ~Rotated(w) => UNCHANGED excused
    BY <1>4 DEF LoadNothing, AnswerSuspended, Fail, Rotated
  <2>4. /\ Rotated(w) => excused'[req[w].tok] # {}
        /\ \A t \in Tokens : excused[t] # {} => excused'[t] # {}
    BY <1>1, <2>2, <2>3, MoreExcused
  <2>5. \A v \in Workers : req'[v] = IF v = w THEN Idle ELSE req[v]
    BY <1>1, <2>1 DEF Goto, TypeOK
  <2>6. ~Serving(w)'
    BY <2>5 DEF Serving, Idle
  <2> QED
    BY <1>1, <2>1, <2>4, <2>5, <2>6, QuietHand DEF Minted, Revoked
<1>5. ASSUME \/ \E c \in Centers, s \in Statuses : SetStatus(c, s)
             \/ \E u \in Users : DeleteAccount(u)
             \/ \E t \in Tokens : Expire(t)
             \/ DeleteExpired
      PROVE  HandInv'
  <2>1. UNCHANGED <<excused, replayed, held, req>>
    BY <1>5 DEF SetStatus, DeleteAccount, Expire, DeleteExpired, rowVars, pastVars
  <2>2. \A t \in Tokens : (Minted(t) => Minted(t)') /\ (Revoked(t)' => Revoked(t))
    BY <1>5 DEF SetStatus, DeleteAccount, Expire, DeleteExpired, rowVars, Remove, Minted, Revoked
  <2> QED
    BY <1>1, <2>1, <2>2, QuietHand
<1>6. ASSUME NEW w \in Workers, LockToRotate(w)
      PROVE  HandInv'
  BY <1>1, <1>6, MoveHand DEF LockToRotate, rowVars, pastVars, Serving
<1>7. ASSUME NEW w \in Workers, LockToRevokeAll(w)
      PROVE  HandInv'
  BY <1>1, <1>7, MoveHand DEF LockToRevokeAll, rowVars, pastVars, Serving
<1>8. ASSUME NEW w \in Workers, LoadUser(w)
      PROVE  HandInv'
  <2>1. [req[w] EXCEPT !.pc = "org"] = [pc |-> "org", tok |-> req[w].tok, new |-> req[w].new]
    BY <1>1, <1>8, ReqType DEF LoadUser, RotatedReq
  <2> QED
    BY <1>1, <1>8, <2>1, MoveHand DEF LoadUser, rowVars, pastVars, Serving, Rotated
<1> QED
  BY <1>2, <1>3, <1>4, <1>5, <1>6, <1>7, <1>8, RefreshHand, IssueHand, RotateHand, SweepHand,
     AnswerHand
  DEF Next

(* Only a client that presented one token twice at once, never got the     *)
(* replacement, or lost its sessions to a replay of another, is treated as *)
(* a replay; for any number of handlers, accounts and tokens.             *)
THEOREM ReplayExplainedHolds == Spec => []ReplayExplained
<1>1. Init => RowInv /\ HandInv
  BY InitRow, InitHand
<1>2. RowInv /\ HandInv /\ [Next]_vars => RowInv' /\ HandInv'
  BY RowStep, HandStep
<1>3. HandInv => ReplayExplained
  BY DEF HandInv
<1> QED
  BY <1>1, <1>2, <1>3, PTL DEF Spec
=============================================================================
