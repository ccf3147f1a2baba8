------------------------------- MODULE Sessions -------------------------------
(***************************************************************************)
(* The refresh sessions of back-office accounts: Login, Refresh and issue  *)
(* of internal/usecase/auth over internal/repo/postgres/session_repo.go,   *)
(* with what other components do to them: a center's status changes, an    *)
(* account is deleted, the hourly reaper runs.                             *)
(*                                                                         *)
(* Rotation is one transaction that holds the row lock of the token it was *)
(* given (FOR UPDATE) from its first statement to its commit, so it is two *)
(* steps: the lock, and the writes with the commit.  A statement sees what *)
(* was committed when it started; the UPDATE that revokes every session of *)
(* a user waits for locked rows and misses rows inserted meanwhile.        *)
(*                                                                         *)
(* Clients present a token they hold, swap it for the new one when the     *)
(* answer arrives, and forget it when they are told it is invalid.         *)
(***************************************************************************)
EXTENDS Naturals

CONSTANTS
  Users,      \* back-office accounts, created before the behaviour starts
  Centers,    \* learning centers
  Home,       \* per account: its center
  Workers,    \* request handlers running at the same time
  MaxToken    \* bound: refresh tokens ever generated

ASSUME SessionsAssumption ==
  /\ Home \in [Users -> Centers]
  /\ MaxToken \in Nat

VARIABLES
  status,       \* per center: organizations.status
  accounts,     \* the accounts that exist
  session,      \* per token: the state of its row
  owner,        \* per token generated: the account it was issued to
  login,        \* per token generated: the token of the login it descends from
  expired,      \* tokens past their expiry
  held,         \* tokens in the hands of clients
  req,          \* per worker: the request it is serving
  replayed,     \* tokens whose presentation was answered as a reuse
  excused,      \* per token: why an honest client may present it revoked
  overtaken     \* logins with a rotation committed during a revocation

rowVars  == <<session, owner, login>>
pastVars == <<replayed, excused, overtaken>>
vars     == <<status, accounts, rowVars, expired, held, req, pastVars>>

-----------------------------------------------------------------------------
Tokens   == 1..MaxToken
Statuses == {"active", "suspended"}  \* an archived center is refused like a suspended one
States   == {"none", "live", "revoked", "deleted"}

(* Why a client may hold a revoked token: the answer with its replacement  *)
(* was lost or was a refusal, two requests presented it at once, or the    *)
(* sessions of the user were all revoked.                                 *)
Reasons == {"unanswered", "twice", "swept"}

(* pc: "user" has read the center; "issue" has verified the password;      *)
(* "lock" is about to lock the row; "rotate" holds it; "revokeall" holds   *)
(* it, found it revoked and sees these live sessions; "load" and "org"     *)
(* have committed the rotation to token new.                              *)
LoginReq   == [pc : {"user"}, user : Users, status : Statuses]
IssueReq   == [pc : {"issue"}, user : Users]
PresentReq == [pc : {"lock", "rotate"}, tok : Tokens]
ReplayReq  == [pc : {"revokeall"}, tok : Tokens, seen : SUBSET Tokens]
RotatedReq == [pc : {"load", "org"}, tok : Tokens, new : Tokens]
Idle       == [pc |-> "idle"]

Presents(w, t) == req[w].pc \in {"lock", "rotate", "revokeall", "load", "org"} /\ req[w].tok = t
Locks(w, t)    == req[w].pc \in {"rotate", "revokeall"} /\ req[w].tok = t
Locked(t)      == \E w \in Workers : Locks(w, t)

Stored(t) == session[t] \in {"live", "revoked"}
Live(t)   == session[t] = "live"
LiveOf(u) == {t \in Tokens : Live(t) /\ owner[t] = u}

Fresh(t) == session[t] = "none" /\ \A s \in Tokens : s < t => session[s] # "none"

-----------------------------------------------------------------------------
TypeOK ==
  /\ status \in [Centers -> Statuses]
  /\ accounts \subseteq Users
  /\ session \in [Tokens -> States]
  /\ owner \in [Tokens -> Users \cup {0}]
  /\ \A t \in Tokens : Stored(t) => owner[t] \in Users
  /\ login \in [Tokens -> Tokens \cup {0}]
  /\ expired \subseteq Tokens
  /\ held \subseteq Tokens
  /\ req \in [Workers -> LoginReq \cup IssueReq \cup PresentReq \cup ReplayReq
                           \cup RotatedReq \cup {Idle}]
  /\ replayed \subseteq Tokens
  /\ excused \in [Tokens -> SUBSET Reasons]
  /\ overtaken \subseteq Tokens

Init ==
  /\ status = [c \in Centers |-> "active"]
  /\ accounts = Users
  /\ session = [t \in Tokens |-> "none"]
  /\ owner = [t \in Tokens |-> 0]
  /\ login = [t \in Tokens |-> 0]
  /\ expired = {}
  /\ held = {}
  /\ req = [w \in Workers |-> Idle]
  /\ replayed = {}
  /\ excused = [t \in Tokens |-> {}]
  /\ overtaken = {}

Goto(w, r) == req' = [req EXCEPT ![w] = r]

Excuse(ts, reason) ==
  excused' = [t \in Tokens |-> IF t \in ts THEN excused[t] \cup {reason} ELSE excused[t]]

(* The request ends with an answer that reaches the client or does not.   *)
Answer(w, keeps) ==
  /\ Goto(w, Idle)
  /\ \/ held' = keeps
     \/ UNCHANGED held

-----------------------------------------------------------------------------
(* Login: the center, then the account and its password, then the session. *)
LoginOrg(w, u) ==
  /\ req[w] = Idle
  /\ Goto(w, [pc |-> "user", user |-> u, status |-> status[Home[u]]])
  /\ UNCHANGED <<status, accounts, rowVars, expired, held, pastVars>>

(* The password is the right one and the center was active when read.     *)
LoginVerify(w) ==
  /\ req[w].pc = "user"
  /\ req[w].user \in accounts
  /\ req[w].status = "active"
  /\ Goto(w, [pc |-> "issue", user |-> req[w].user])
  /\ UNCHANGED <<status, accounts, rowVars, expired, held, pastVars>>

(* No such account, a wrong password, or ErrSuspended.                    *)
LoginRefuse(w) ==
  /\ req[w].pc = "user"
  /\ Goto(w, Idle)
  /\ UNCHANGED <<status, accounts, rowVars, expired, held, pastVars>>

Issue(w) ==
  /\ req[w].pc = "issue"
  /\ req[w].user \in accounts
  /\ \E t \in Tokens :
       /\ Fresh(t)
       /\ session' = [session EXCEPT ![t] = "live"]
       /\ owner' = [owner EXCEPT ![t] = req[w].user]
       /\ login' = [login EXCEPT ![t] = t]
       /\ Answer(w, held \cup {t})
  /\ UNCHANGED <<status, accounts, expired, pastVars>>

-----------------------------------------------------------------------------
(* Refresh: a client presents a token it holds.                           *)
Refresh(w, t) ==
  /\ req[w] = Idle
  /\ t \in held
  /\ Goto(w, [pc |-> "lock", tok |-> t])
  /\ IF \E v \in Workers : Presents(v, t)
       THEN Excuse({t}, "twice")
       ELSE UNCHANGED excused
  /\ UNCHANGED <<status, accounts, rowVars, expired, held, replayed, overtaken>>

(* The row is gone or expired: ErrInvalidRefresh, the client forgets it.  *)
LockNothing(w) ==
  /\ req[w].pc = "lock"
  /\ ~Locked(req[w].tok)
  /\ \/ session[req[w].tok] = "deleted"
     \/ Live(req[w].tok) /\ req[w].tok \in expired
  /\ Answer(w, held \ {req[w].tok})
  /\ UNCHANGED <<status, accounts, rowVars, expired, pastVars>>

(* Mutant: a revoked session that has not expired is rotated again.       *)
LockUnexpired(w) ==
  /\ req[w].pc = "lock"
  /\ ~Locked(req[w].tok)
  /\ Stored(req[w].tok) /\ req[w].tok \notin expired
  /\ Goto(w, [pc |-> "rotate", tok |-> req[w].tok])
  /\ UNCHANGED <<status, accounts, rowVars, expired, held, pastVars>>

LockToRotate(w) ==
  /\ req[w].pc = "lock"
  /\ ~Locked(req[w].tok)
  /\ Live(req[w].tok) /\ req[w].tok \notin expired
  /\ Goto(w, [pc |-> "rotate", tok |-> req[w].tok])
  /\ UNCHANGED <<status, accounts, rowVars, expired, held, pastVars>>

(* Mutant: every session that is not Active, also an expired one, counts as *)
(* replayed.                                                              *)
LockInactive(w) ==
  /\ req[w].pc = "lock"
  /\ ~Locked(req[w].tok)
  /\ \/ session[req[w].tok] = "revoked"
     \/ Live(req[w].tok) /\ req[w].tok \in expired
  /\ Goto(w, [pc |-> "revokeall", tok |-> req[w].tok, seen |-> LiveOf(owner[req[w].tok])])
  /\ UNCHANGED <<status, accounts, rowVars, expired, held, pastVars>>

LockToRevokeAll(w) ==
  /\ req[w].pc = "lock"
  /\ ~Locked(req[w].tok)
  /\ session[req[w].tok] = "revoked"
  /\ Goto(w, [pc |-> "revokeall", tok |-> req[w].tok, seen |-> LiveOf(owner[req[w].tok])])
  /\ UNCHANGED <<status, accounts, rowVars, expired, held, pastVars>>

(* Mutant: the presented session stays valid.                             *)
RotateWithoutRevoke(tok, new) ==
  /\ session' = [session EXCEPT ![new] = "live"]
  /\ owner' = [owner EXCEPT ![new] = owner[tok]]
  /\ login' = [login EXCEPT ![new] = login[tok]]

(* The presented session is revoked and its replacement inserted.         *)
Rotate(tok, new) ==
  /\ session' = [session EXCEPT ![tok] = "revoked", ![new] = "live"]
  /\ owner' = [owner EXCEPT ![new] = owner[tok]]
  /\ login' = [login EXCEPT ![new] = login[tok]]

RotateCommit(w) ==
  /\ req[w].pc = "rotate"
  /\ \E new \in Tokens :
       /\ Fresh(new)
       /\ Rotate(req[w].tok, new)
       /\ Goto(w, [pc |-> "load", tok |-> req[w].tok, new |-> new])
  /\ overtaken' = IF \E v \in Workers : req[v].pc = "revokeall"
                                         /\ owner[req[v].tok] = owner[req[w].tok]
                    THEN overtaken \cup {login[req[w].tok]}
                    ELSE overtaken
  /\ UNCHANGED <<status, accounts, expired, held, replayed, excused>>

(* Mutant: ErrSessionReused is returned from the transaction, which rolls   *)
(* back.                                                                  *)
SweepRolledBack(ts) == session' = session

(* The revocation of the user's sessions is committed although the request *)
(* fails.                                                                 *)
Sweep(ts) == session' = [s \in Tokens |-> IF s \in ts THEN "revoked" ELSE session[s]]

RevokeAllCommit(w) ==
  /\ req[w].pc = "revokeall"
  /\ \A s \in req[w].seen, v \in Workers \ {w} : ~Locks(v, s)
  /\ LET swept == {s \in req[w].seen : Live(s)} IN
       /\ Sweep(swept)
       /\ Excuse(swept \ {req[w].tok}, "swept")
  /\ replayed' = replayed \cup {req[w].tok}
  /\ Answer(w, held \ {req[w].tok})
  /\ UNCHANGED <<status, accounts, owner, login, expired, overtaken>>

(* UserByID, after the rotation.                                          *)
LoadUser(w) ==
  /\ req[w].pc = "load"
  /\ owner[req[w].tok] \in accounts
  /\ Goto(w, [req[w] EXCEPT !.pc = "org"])
  /\ UNCHANGED <<status, accounts, rowVars, expired, held, pastVars>>

LoadNothing(w) ==
  /\ req[w].pc = "load"
  /\ owner[req[w].tok] \notin accounts
  /\ Excuse({req[w].tok}, "unanswered")
  /\ Answer(w, held \ {req[w].tok})
  /\ UNCHANGED <<status, accounts, rowVars, expired, replayed, overtaken>>

(* OrgByID, and the answer.                                               *)
AnswerTokens(w) ==
  /\ req[w].pc = "org"
  /\ status[Home[owner[req[w].tok]]] = "active"
  /\ held' = (held \ {req[w].tok}) \cup {req[w].new}
  /\ Goto(w, Idle)
  /\ UNCHANGED <<status, accounts, rowVars, expired, pastVars>>

AnswerSuspended(w) ==
  /\ req[w].pc = "org"
  /\ status[Home[owner[req[w].tok]]] # "active"
  /\ Excuse({req[w].tok}, "unanswered")
  /\ Goto(w, Idle)
  /\ UNCHANGED <<status, accounts, rowVars, expired, held, replayed, overtaken>>

(* The process stops, the connection breaks, or the transaction is chosen *)
(* to end a deadlock: what is not committed is rolled back, and the client *)
(* gets no token.  A failed rotation or user lookup is ErrInvalidRefresh,  *)
(* so a client that hears of it forgets the token it presented.           *)
Fail(w) ==
  /\ req[w] # Idle
  /\ IF req[w].pc \in {"lock", "rotate", "revokeall", "load"}
       THEN Answer(w, held \ {req[w].tok})
       ELSE Goto(w, Idle) /\ UNCHANGED held
  /\ IF req[w].pc \in {"load", "org"}
       THEN Excuse({req[w].tok}, "unanswered")
       ELSE UNCHANGED excused
  /\ UNCHANGED <<status, accounts, rowVars, expired, replayed, overtaken>>

-----------------------------------------------------------------------------
(* Other components, and time.  A deletion waits for locked rows.         *)
SetStatus(c, s) ==
  /\ status[c] # s
  /\ status' = [status EXCEPT ![c] = s]
  /\ UNCHANGED <<accounts, rowVars, expired, held, req, pastVars>>

Remove(ts) ==
  /\ \A t \in ts : ~Locked(t)
  /\ session' = [t \in Tokens |-> IF t \in ts THEN "deleted" ELSE session[t]]

DeleteAccount(u) ==
  /\ u \in accounts
  /\ accounts' = accounts \ {u}
  /\ Remove({t \in Tokens : Stored(t) /\ owner[t] = u})
  /\ UNCHANGED <<status, owner, login, expired, held, req, pastVars>>

Expire(t) ==
  /\ Stored(t) /\ t \notin expired
  /\ expired' = expired \cup {t}
  /\ UNCHANGED <<status, accounts, rowVars, held, req, pastVars>>

DeleteExpired ==
  /\ \E t \in expired : Stored(t)
  /\ Remove({t \in expired : Stored(t)})
  /\ UNCHANGED <<status, accounts, owner, login, expired, held, req, pastVars>>

Next ==
  \/ \E w \in Workers, u \in Users : LoginOrg(w, u)
  \/ \E w \in Workers, t \in Tokens : Refresh(w, t)
  \/ \E w \in Workers :
       \/ LoginVerify(w)
       \/ LoginRefuse(w)
       \/ Issue(w)
       \/ LockNothing(w)
       \/ LockToRotate(w)
       \/ LockToRevokeAll(w)
       \/ RotateCommit(w)
       \/ RevokeAllCommit(w)
       \/ LoadUser(w)
       \/ LoadNothing(w)
       \/ AnswerTokens(w)
       \/ AnswerSuspended(w)
       \/ Fail(w)
  \/ \E c \in Centers, s \in Statuses : SetStatus(c, s)
  \/ \E u \in Users : DeleteAccount(u)
  \/ \E t \in Tokens : Expire(t)
  \/ DeleteExpired

Spec == Init /\ [][Next]_vars

-----------------------------------------------------------------------------
(* A login is continued by one session at a time: no two tokens that       *)
(* descend from it can both be exchanged, however requests overlap, fail   *)
(* or are repeated.                                                       *)
OneSessionPerLogin ==
  \A s, t \in Tokens : Live(s) /\ Live(t) /\ login[s] = login[t] => s = t

ValidOf == [l \in Tokens |-> {t \in Tokens : Live(t) /\ login[t] = l}]
Handed  == {t \in Tokens : session[t] # "none"}

Chain == INSTANCE LoginChain WITH current <- ValidOf, used <- Handed

(* Each login is a chain of tokens: opened once, exchanged one for one for *)
(* a new token, and never valid again after it was closed, whichever       *)
(* rotations, replays, deletions and failures overlap.                    *)
ImplementsLoginChain == Chain!Spec

(* A client that presents only what it was given and is answered is never  *)
(* treated as a replay, unless it had two requests under way or another    *)
(* session of its user was.                                               *)
ReplayExplained == \A t \in replayed : excused[t] # {}

(* After a replay nothing that descends from the replayed token's login is *)
(* valid, unless a rotation of that login committed while the revocation  *)
(* was running: the UPDATE cannot see the session it inserted.            *)
ReplayClosesUnlessOvertaken ==
  \A t \in replayed, s \in Tokens :
    Live(s) /\ login[s] = login[t] => login[t] \in overtaken

=============================================================================
