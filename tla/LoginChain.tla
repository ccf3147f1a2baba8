------------------------------ MODULE LoginChain ------------------------------
(***************************************************************************)
(* What the refresh sessions promise of one login: it is a chain of tokens *)
(* of which the last one is valid.  It is opened once, by a password; its  *)
(* token is exchanged, one for one, for a token never used before; once    *)
(* closed, by a replay, a deletion or a lapse, it stays closed.           *)
(***************************************************************************)
CONSTANT Tokens

VARIABLES
  current,  \* per login, named by its first token: its valid token, if any
  used      \* tokens handed out so far

chainVars == <<current, used>>

Init ==
  /\ current = [l \in Tokens |-> {}]
  /\ used = {}

Open(l) ==
  /\ l \notin used
  /\ current' = [current EXCEPT ![l] = {l}]
  /\ used' = used \cup {l}

Exchange(l, new) ==
  /\ current[l] # {}
  /\ new \notin used
  /\ current' = [current EXCEPT ![l] = {new}]
  /\ used' = used \cup {new}

(* One event may close several chains.                                    *)
Close ==
  /\ UNCHANGED used
  /\ current' \in [Tokens -> SUBSET Tokens]
  /\ \A l \in Tokens : current'[l] \in {current[l], {}}

Next ==
  \/ Close
  \/ \E l \in Tokens : Open(l)
  \/ \E l, new \in Tokens : Exchange(l, new)

Spec == Init /\ [][Next]_chainVars
=============================================================================
