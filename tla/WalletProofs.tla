----------------------------- MODULE WalletProofs -----------------------------
(***************************************************************************)
(* Type correctness of Wallet (no total is ever negative), that nothing is *)
(* awarded twice, that the ledger only grows, that every purchase was paid *)
(* for, that the balance is the sum of the ledger, and that every award is *)
(* priced at the level of the rows before it, for every set of students,   *)
(* items, handlers and economies, and ledgers of any length.               *)
(***************************************************************************)
EXTENDS Wallet, TLAPS, WellFoundedInduction

-----------------------------------------------------------------------------
LEMMA FloorType ==
  ASSUME NEW n \in Int
  PROVE  Floor(n) \in Nat
BY DEF Floor

LEMMA CoinsType ==
  ASSUME NEW c \in Config, NEW amount \in Int, NEW total \in Nat
  PROVE  CoinsForAward(c, amount, total) \in Int
<1> DEFINE level == LevelForXP(c, total)
           rate  == CoinRateAtLevel(c, level)
<1>1. c.levelSize \in Nat \ {0} /\ c.coinBase \in Nat /\ c.coinStep \in Nat
  BY DEF Config
<1>2. level \in Int
  BY <1>1 DEF LevelForXP
<1> HIDE DEF level
<1>3. rate \in Int
  <2>1. (level - 1) * c.coinStep \in Int
    BY <1>1, <1>2
  <2> DEFINE extra == (level - 1) * c.coinStep
  <2> HIDE DEF extra
  <2>2. c.coinBase + extra \in Int
    BY <1>1, <2>1 DEF extra
  <2> QED
    BY <2>2, FloorType DEF CoinRateAtLevel, extra
<1> HIDE DEF rate
<1>4. amount * rate \in Int
  BY <1>3
<1> QED
  BY <1>4 DEF CoinsForAward, rate, level

(* A worker that is not idle serves an award or a purchase, and its pc     *)
(* tells which.                                                           *)
LEMMA ReqType ==
  ASSUME TypeOK, NEW w \in Workers
  PROVE  /\ req[w].pc \in {"award", "locked"} => req[w] \in AwardReq
         /\ req[w].pc \in {"buy", "reserved"} => req[w] \in BuyReq
BY DEF TypeOK, AwardReq, BuyReq, Idle

-----------------------------------------------------------------------------
(* Type correctness.                                                      *)

LEMMA InitType == Init => TypeOK
BY WalletAssumption DEF Init, TypeOK

LEMMA StaffStepType ==
  ASSUME TypeOK, StaffStep
  PROVE  TypeOK'
<1>0. Tick => clock' \in Nat
  BY DEF Tick, TypeOK
<1>1. ASSUME NEW c \in Configs, SetConfig(c)
      PROVE  TypeOK'
  BY <1>0, <1>1, WalletAssumption DEF SetConfig, TypeOK
<1>2. ASSUME NEW i \in Items, NEW price \in Prices, NEW active \in BOOLEAN,
             CreateItem(i, price, active) \/ UpdateItem(i, price, active)
      PROVE  TypeOK'
  <2>1. [status |-> "listed", price |-> price, active |-> active] \in Item
    BY WalletAssumption DEF Item
  <2>2. items' \in [Items -> Item \cup {NoItem, Deleted}]
    BY <1>2, <2>1 DEF CreateItem, UpdateItem, TypeOK
  <2>3. clock' \in Nat
    BY <1>0, <1>2 DEF CreateItem, UpdateItem, TypeOK
  <2> QED
    BY <1>2, <2>2, <2>3 DEF CreateItem, UpdateItem, TypeOK
<1>3. ASSUME NEW i \in Items, DeleteItem(i)
      PROVE  TypeOK'
  BY <1>0, <1>3 DEF DeleteItem, TypeOK
<1>4. ASSUME NEW s \in Students, DeleteStudent(s)
      PROVE  TypeOK'
  <2>1. <<>> \in Seq(Row)
    OBVIOUS
  <2> QED
    BY <1>0, <1>4, <2>1 DEF DeleteStudent, TypeOK
<1> QED
  BY <1>1, <1>2, <1>3, <1>4 DEF StaffStep

LEMMA AwardType ==
  ASSUME TypeOK, NEW w \in Workers, NEW s \in Students, NEW key \in AwardKeys,
         NEW amount \in Int, NEW c \in Config, Tick, Award(w, s, key, amount, c)
  PROVE  TypeOK'
<1>1. [pc |-> "award", student |-> s, key |-> key, xp |-> amount, config |-> c, seen |-> 0]
        \in AwardReq
  BY DEF AwardReq
<1>2. clock' \in Nat
  BY DEF Tick, TypeOK
<1> QED
  BY <1>1, <1>2 DEF Award, TypeOK

LEMMA StartAwardType ==
  ASSUME TypeOK, NEW w \in Workers, NEW s \in Students, StartAward(w, s)
  PROVE  TypeOK'
<1>1. Tick
  BY DEF StartAward
<1> SUFFICES ASSUME NEW c \in Config,
                    \/ \E ref \in Refs, status \in {"present", "late", "absent"} :
                         AwardAttendance(w, s, ref, status, c)
                    \/ \E ref \in Refs, graded \in Grades :
                         AwardHomework(w, s, ref, graded, c) \/ AwardExam(w, s, ref, graded, c)
                    \/ \E ref \in Refs : AwardCheckin(w, s, ref, c)
                    \/ \E amount \in ManualXP : AwardManual(w, s, amount, c)
             PROVE  TypeOK'
  <2>1. {config, DefaultConfig} \subseteq Config
    BY WalletAssumption DEF TypeOK
  <2> QED
    BY <2>1 DEF StartAward
<1>2. c.xpAttend \in Int /\ c.xpLate \in Int /\ c.xpHomeworkMax \in Int /\ c.xpCheckin \in Int
  BY DEF Config
<1>3. \A kind \in AwardKinds : \A ref \in Refs : [kind |-> kind, ref |-> ref] \in AwardKeys
  BY DEF AwardKeys
<1>4. ASSUME NEW ref \in Refs, NEW status \in {"present", "late", "absent"},
             AwardAttendance(w, s, ref, status, c)
      PROVE  TypeOK'
  <2> DEFINE amount == CASE status = "present" -> c.xpAttend
                         [] status \in {"late", "excused"} -> c.xpLate
                         [] OTHER -> 0
  <2>1. amount \in Int
    BY <1>2
  <2>2. [kind |-> "attendance", ref |-> ref] \in AwardKeys
    BY <1>3 DEF AwardKinds
  <2>3. Award(w, s, [kind |-> "attendance", ref |-> ref], amount, c)
    BY <1>4 DEF AwardAttendance
  <2> HIDE DEF amount
  <2> QED
    BY <1>1, <2>1, <2>2, <2>3, AwardType
<1>5. ASSUME NEW ref \in Refs, NEW graded \in Grades,
             AwardHomework(w, s, ref, graded, c) \/ AwardExam(w, s, ref, graded, c)
      PROVE  TypeOK'
  <2> DEFINE amount == IF graded > c.xpHomeworkMax THEN c.xpHomeworkMax ELSE graded
  <2>1. amount \in Int /\ graded \in Int
    BY <1>2, WalletAssumption
  <2>2. /\ [kind |-> "homework_accept", ref |-> ref] \in AwardKeys
        /\ [kind |-> "exam", ref |-> ref] \in AwardKeys
    BY <1>3 DEF AwardKinds
  <2>3. \/ Award(w, s, [kind |-> "homework_accept", ref |-> ref], amount, c)
        \/ Award(w, s, [kind |-> "exam", ref |-> ref], graded, c)
    BY <1>5 DEF AwardHomework, AwardExam
  <2> HIDE DEF amount
  <2> QED
    BY <1>1, <2>1, <2>2, <2>3, AwardType
<1>6. ASSUME NEW ref \in Refs, AwardCheckin(w, s, ref, c)
      PROVE  TypeOK'
  <2>1. [kind |-> "checkin", ref |-> ref] \in AwardKeys
    BY <1>3 DEF AwardKinds
  <2> QED
    BY <1>1, <1>2, <1>6, <2>1, AwardType DEF AwardCheckin
<1>7. ASSUME NEW amount \in ManualXP, AwardManual(w, s, amount, c)
      PROVE  TypeOK'
  <2>1. [kind |-> "manual", ref |-> clock] \in AwardKeys /\ amount \in Int
    BY WalletAssumption DEF AwardKeys, AwardKinds, TypeOK
  <2> QED
    BY <1>1, <1>7, <2>1, AwardType DEF AwardManual
<1> QED
  BY <1>4, <1>5, <1>6, <1>7

LEMMA WorkerStepType ==
  ASSUME TypeOK, NEW w \in Workers, WorkerStep(w)
  PROVE  TypeOK'
<1>1. ASSUME NEW s \in Students, StartAward(w, s)
      PROVE  TypeOK'
  BY <1>1, StartAwardType
<1>2. ASSUME NEW s \in Students, NEW i \in Items, Buy(w, s, i)
      PROVE  TypeOK'
  <2>1. items[i].price \in Nat
    <3>1. items[i] \in Item
      <4>1. items[i] \in Item \cup {NoItem, Deleted}
        BY DEF TypeOK
      <4>2. NoItem.status # "listed" /\ Deleted.status # "listed"
        BY DEF NoItem, Deleted
      <4>3. items[i].status = "listed"
        BY <1>2 DEF Buy, Listed
      <4> QED
        BY <4>1, <4>2, <4>3
    <3> QED
      BY <3>1 DEF Item
  <2>2. [pc |-> "buy", student |-> s, item |-> i, price |-> items[i].price] \in BuyReq
    BY <2>1 DEF BuyReq
  <2>3. clock' \in Nat
    BY <1>2 DEF Buy, Tick, TypeOK
  <2> QED
    BY <1>2, <2>2, <2>3 DEF Buy, TypeOK
<1>3. CASE LockStudent(w)
  <2>1. req[w] \in AwardReq /\ req[w].student \in Students
    <3>1. req[w] \in AwardReq
      BY <1>3, ReqType DEF LockStudent
    <3> QED
      BY <3>1 DEF AwardReq
  <2>2. [[req[w] EXCEPT !.pc = "locked"] EXCEPT !.seen = xp[req[w].student]] \in AwardReq
    <3>1. xp[req[w].student] \in Nat
      BY <2>1 DEF TypeOK
    <3> QED
      BY <2>1, <3>1 DEF AwardReq
  <2>3. req' \in [Workers -> AwardReq \cup BuyReq \cup {Idle}]
    BY <1>3, <2>2 DEF LockStudent, TypeOK
  <2> QED
    BY <1>3, <2>3 DEF LockStudent, TypeOK
<1>4. CASE GrantAward(w)
  <2> DEFINE s      == req[w].student
             earned == CoinsForAward(req[w].config, req[w].xp, req[w].seen)
             row    == [key |-> req[w].key, xp |-> req[w].xp, coins |-> earned,
                        config |-> req[w].config]
  <2>1. /\ s \in Students /\ req[w].key \in AwardKeys /\ req[w].xp \in Int
        /\ req[w].config \in Config /\ req[w].seen \in Nat
    <3>1. req[w] \in AwardReq
      BY <1>4, ReqType DEF GrantAward
    <3> QED
      BY <3>1 DEF AwardReq
  <2>2. earned \in Int
    BY <2>1, CoinsType
  <2>3. /\ req' \in [Workers -> AwardReq \cup BuyReq \cup {Idle}]
        /\ UNCHANGED <<config, enrolled, items, purchases, clock>>
    BY <1>4 DEF GrantAward, TypeOK
  <2>4. CASE req[w].key \in Keys(s)
    BY <1>4, <2>3, <2>4 DEF GrantAward, TypeOK
  <2>5. CASE req[w].key \notin Keys(s)
    <3>1. /\ ledger' = [ledger EXCEPT ![s] = Append(ledger[s], row)]
          /\ xp' = [xp EXCEPT ![s] = Floor(xp[s] + req[w].xp)]
          /\ coins' = [coins EXCEPT ![s] = Floor(coins[s] + earned)]
      BY <1>4, <2>5 DEF GrantAward
    <3> HIDE DEF earned
    <3>2. row \in Row
      BY <2>1, <2>2 DEF Row
    <3> HIDE DEF row
    <3>3. Append(ledger[s], row) \in Seq(Row)
      BY <2>1, <3>2 DEF TypeOK
    <3>4. Floor(xp[s] + req[w].xp) \in Nat /\ Floor(coins[s] + earned) \in Nat
      <4>1. xp[s] + req[w].xp \in Int /\ coins[s] + earned \in Int
        BY <2>1, <2>2 DEF TypeOK
      <4> QED
        BY <4>1, FloorType
    <3> QED
      BY <2>1, <2>3, <3>1, <3>3, <3>4 DEF TypeOK
  <2> QED
    BY <2>4, <2>5
<1>5. CASE InsertPurchase(w)
  <2>1. req[w] \in BuyReq
    BY <1>5, ReqType DEF InsertPurchase
  <2>2. [req[w] EXCEPT !.pc = "reserved"] \in BuyReq
    BY <2>1 DEF BuyReq
  <2>3. req' \in [Workers -> AwardReq \cup BuyReq \cup {Idle}]
    BY <1>5, <2>2 DEF InsertPurchase, TypeOK
  <2> QED
    BY <1>5, <2>3 DEF InsertPurchase, TypeOK
<1>6. CASE SpendCoins(w)
  <2> DEFINE s   == req[w].student
             key == [kind |-> "purchase", ref |-> req[w].item]
             row == [key |-> key, xp |-> 0, coins |-> -req[w].price, config |-> config]
             buy == [item |-> req[w].item, price |-> req[w].price]
  <2>1. s \in Students /\ req[w].item \in Items /\ req[w].price \in Nat
    <3>1. req[w] \in BuyReq
      BY <1>6, ReqType DEF SpendCoins
    <3> QED
      BY <3>1 DEF BuyReq
  <2>2. /\ req' \in [Workers -> AwardReq \cup BuyReq \cup {Idle}]
        /\ UNCHANGED <<config, enrolled, xp, items, clock>>
    BY <1>6 DEF SpendCoins, TypeOK
  <2>3. CASE coins[s] >= req[w].price
    <3>1. /\ purchases' = [purchases EXCEPT ![s] = purchases[s] \cup {buy}]
          /\ coins' = [coins EXCEPT ![s] = coins[s] - req[w].price]
          /\ ledger' = [ledger EXCEPT ![s] =
                          IF key \in Keys(s) THEN ledger[s] ELSE Append(ledger[s], row)]
      BY <1>6, <2>3 DEF SpendCoins
    <3>2. row \in Row
      <4>1. key \in BuyKeys /\ -req[w].price \in Int
        BY <2>1 DEF BuyKeys
      <4> QED
        BY <4>1 DEF Row, TypeOK
    <3>3. buy \in Purchase
      BY <2>1 DEF Purchase
    <3> HIDE DEF row, buy, key
    <3>4. ledger[s] \in Seq(Row) /\ Append(ledger[s], row) \in Seq(Row)
      BY <2>1, <3>2 DEF TypeOK
    <3>5. coins[s] - req[w].price \in Nat
      BY <2>1, <2>3 DEF TypeOK
    <3> QED
      BY <2>1, <2>2, <3>1, <3>3, <3>4, <3>5 DEF TypeOK
  <2>4. CASE ~(coins[s] >= req[w].price)
    BY <1>6, <2>2, <2>4 DEF SpendCoins, TypeOK
  <2> QED
    BY <2>3, <2>4
<1>7. CASE Fail(w)
  BY <1>7 DEF Fail, Tick, TypeOK
<1> QED
  BY <1>1, <1>2, <1>3, <1>4, <1>5, <1>6, <1>7 DEF WorkerStep

LEMMA TypeStep == TypeOK /\ [Next]_vars => TypeOK'
<1> SUFFICES ASSUME TypeOK, [Next]_vars PROVE TypeOK'
  OBVIOUS
<1>1. CASE UNCHANGED vars
  BY <1>1 DEF vars, TypeOK
<1>2. CASE StaffStep
  BY <1>2, StaffStepType
<1>3. ASSUME NEW w \in Workers, WorkerStep(w)
      PROVE  TypeOK'
  BY <1>3, WorkerStepType
<1> QED
  BY <1>1, <1>2, <1>3 DEF Next, Finished

(* Every variable keeps its type: in particular no balance and no total is *)
(* ever negative, whatever runs at the same time.                         *)
THEOREM TypeCorrect == Spec => []TypeOK
BY InitType, TypeStep, PTL DEF Spec

-----------------------------------------------------------------------------
(* What a step can do to the ledger of a student who is still there.      *)

LedgerMove(s) ==
  \/ ledger'[s] = ledger[s]
  \/ \E row \in Row : row.key \notin Keys(s) /\ ledger'[s] = Append(ledger[s], row)
  \/ s \notin enrolled' /\ ledger'[s] = <<>>

LEMMA LedgerMoveStep ==
  ASSUME TypeOK, [Next]_vars, NEW s \in Students
  PROVE  LedgerMove(s)
<1>1. CASE UNCHANGED vars \/ Finished
  BY <1>1 DEF vars, Finished, LedgerMove
<1>2. CASE StaffStep
  <2>1. ASSUME NEW u \in Students, DeleteStudent(u)
        PROVE  LedgerMove(s)
    <3>1. CASE u = s
      BY <2>1, <3>1 DEF DeleteStudent, LedgerMove, TypeOK
    <3>2. CASE u # s
      BY <2>1, <3>2 DEF DeleteStudent, LedgerMove, TypeOK
    <3> QED
      BY <3>1, <3>2
  <2> QED
    BY <1>2, <2>1 DEF StaffStep, SetConfig, CreateItem, UpdateItem, DeleteItem, LedgerMove
<1>3. ASSUME NEW w \in Workers, GrantAward(w)
      PROVE  LedgerMove(s)
  <2> DEFINE u      == req[w].student
             earned == CoinsForAward(req[w].config, req[w].xp, req[w].seen)
             row    == [key |-> req[w].key, xp |-> req[w].xp, coins |-> earned,
                        config |-> req[w].config]
  <2>1. /\ req[w].key \in AwardKeys /\ req[w].xp \in Int
        /\ req[w].config \in Config /\ req[w].seen \in Nat
    <3>1. req[w] \in AwardReq
      BY <1>3, ReqType DEF GrantAward
    <3> QED
      BY <3>1 DEF AwardReq
  <2>2. row \in Row /\ row.key = req[w].key
    <3>1. earned \in Int
      BY <2>1, CoinsType
    <3> QED
      BY <2>1, <3>1 DEF Row
  <2>3. CASE u # s \/ req[w].key \in Keys(u)
    BY <1>3, <2>3 DEF GrantAward, LedgerMove, TypeOK
  <2>4. CASE u = s /\ req[w].key \notin Keys(u)
    <3>1. ledger' = [ledger EXCEPT ![u] = Append(ledger[u], row)]
      BY <1>3, <2>4 DEF GrantAward
    <3> HIDE DEF row
    <3>2. ledger'[s] = Append(ledger[s], row)
      BY <2>4, <3>1 DEF TypeOK
    <3> QED
      BY <2>2, <2>4, <3>2 DEF LedgerMove
  <2> QED
    BY <2>3, <2>4
<1>4. ASSUME NEW w \in Workers, SpendCoins(w)
      PROVE  LedgerMove(s)
  <2> DEFINE u   == req[w].student
             key == [kind |-> "purchase", ref |-> req[w].item]
             row == [key |-> key, xp |-> 0, coins |-> -req[w].price, config |-> config]
  <2>1. req[w].item \in Items /\ req[w].price \in Nat
    <3>1. req[w] \in BuyReq
      BY <1>4, ReqType DEF SpendCoins
    <3> QED
      BY <3>1 DEF BuyReq
  <2>2. row \in Row /\ row.key = key
    <3>1. key \in BuyKeys /\ -req[w].price \in Int
      BY <2>1 DEF BuyKeys
    <3> QED
      BY <3>1 DEF Row, TypeOK
  <2>3. CASE ~(coins[u] >= req[w].price) \/ u # s \/ key \in Keys(u)
    BY <1>4, <2>3 DEF SpendCoins, LedgerMove, TypeOK
  <2>4. CASE coins[u] >= req[w].price /\ u = s /\ key \notin Keys(u)
    <3>1. ledger' = [ledger EXCEPT ![u] = Append(ledger[u], row)]
      BY <1>4, <2>4 DEF SpendCoins
    <3> HIDE DEF row, key
    <3>2. ledger'[s] = Append(ledger[s], row)
      BY <2>4, <3>1 DEF TypeOK
    <3> QED
      BY <2>2, <2>4, <3>2 DEF LedgerMove
  <2> QED
    BY <2>3, <2>4
<1>5. ASSUME NEW w \in Workers, WorkerStep(w), ~GrantAward(w), ~SpendCoins(w)
      PROVE  LedgerMove(s)
  BY <1>5 DEF WorkerStep, StartAward, AwardAttendance, AwardHomework, AwardExam, AwardCheckin,
              AwardManual, Award, Buy, LockStudent, InsertPurchase, Fail, LedgerMove
<1> QED
  BY <1>1, <1>2, <1>3, <1>4, <1>5 DEF Next

(* No row of a ledger is taken back or rewritten while its student exists. *)
THEOREM LedgerOnlyGrowsHolds == Spec => LedgerOnlyGrows
<1>1. TypeOK /\ [Next]_vars =>
        [\A s \in enrolled' :
           /\ Len(ledger'[s]) >= Len(ledger[s])
           /\ \A n \in DOMAIN ledger[s] : ledger'[s][n] = ledger[s][n]]_vars
  <2> SUFFICES ASSUME TypeOK, [Next]_vars, NEW s \in enrolled'
               PROVE  /\ Len(ledger'[s]) >= Len(ledger[s])
                      /\ \A n \in DOMAIN ledger[s] : ledger'[s][n] = ledger[s][n]
    OBVIOUS
  <2>1. s \in Students
    BY TypeStep DEF TypeOK
  <2>2. ledger[s] \in Seq(Row)
    BY <2>1 DEF TypeOK
  <2>3. CASE ledger'[s] = ledger[s]
    BY <2>2, <2>3
  <2>4. ASSUME NEW row \in Row, ledger'[s] = Append(ledger[s], row)
        PROVE  /\ Len(ledger'[s]) >= Len(ledger[s])
               /\ \A n \in DOMAIN ledger[s] : ledger'[s][n] = ledger[s][n]
    BY <2>2, <2>4
  <2> QED
    BY <2>1, <2>3, <2>4, LedgerMoveStep DEF LedgerMove
<1> QED
  BY <1>1, TypeCorrect, PTL DEF Spec, LedgerOnlyGrows

(* No key is in a ledger twice: whoever races, an action earns once.      *)
THEOREM AwardedOnceHolds == Spec => []AwardedOnce
<1>1. Init => AwardedOnce
  BY DEF Init, AwardedOnce
<1>2. TypeOK /\ AwardedOnce /\ [Next]_vars => AwardedOnce'
  <2> SUFFICES ASSUME TypeOK, AwardedOnce, [Next]_vars, NEW s \in Students
               PROVE  \A m, n \in DOMAIN ledger'[s] :
                        ledger'[s][m].key = ledger'[s][n].key => m = n
    BY DEF AwardedOnce
  <2>1. /\ ledger[s] \in Seq(Row)
        /\ \A m, n \in DOMAIN ledger[s] : ledger[s][m].key = ledger[s][n].key => m = n
    BY DEF TypeOK, AwardedOnce
  <2>2. CASE ledger'[s] = ledger[s] \/ ledger'[s] = <<>>
    BY <2>1, <2>2
  <2>3. ASSUME NEW row \in Row, row.key \notin Keys(s), ledger'[s] = Append(ledger[s], row)
        PROVE  \A m, n \in DOMAIN ledger'[s] :
                 ledger'[s][m].key = ledger'[s][n].key => m = n
    <3>1. \A n \in DOMAIN ledger[s] : ledger[s][n].key # row.key
      BY <2>3 DEF Keys
    <3>2. /\ DOMAIN ledger[s] = 1..Len(ledger[s])
          /\ DOMAIN ledger'[s] = 1..(Len(ledger[s]) + 1)
          /\ \A n \in 1..Len(ledger[s]) : ledger'[s][n] = ledger[s][n]
          /\ ledger'[s][Len(ledger[s]) + 1] = row
      BY <2>1, <2>3
    <3> SUFFICES ASSUME NEW m \in 1..(Len(ledger[s]) + 1), NEW n \in 1..(Len(ledger[s]) + 1),
                        ledger'[s][m].key = ledger'[s][n].key
                 PROVE  m = n
      BY <3>2
    <3>3. Len(ledger[s]) \in Nat
      BY <2>1
    <3>4. CASE m \in 1..Len(ledger[s]) /\ n \in 1..Len(ledger[s])
      BY <2>1, <3>2, <3>4
    <3>5. CASE m = Len(ledger[s]) + 1 /\ n \in 1..Len(ledger[s])
      BY <3>1, <3>2, <3>5
    <3>6. CASE m \in 1..Len(ledger[s]) /\ n = Len(ledger[s]) + 1
      BY <3>1, <3>2, <3>6
    <3> QED
      BY <3>3, <3>4, <3>5, <3>6
  <2> QED
    BY <2>2, <2>3, LedgerMoveStep DEF LedgerMove
<1> QED
  BY <1>1, <1>2, TypeCorrect, PTL DEF Spec

-----------------------------------------------------------------------------
(***************************************************************************)
(* Every purchase was paid for.  What makes it inductive: a reservation is *)
(* of an item still listed and not owned, by nobody else at the same time  *)
(* (Reserved), and a purchase row of the ledger names an item its student  *)
(* owns or one that was deleted (Sold); so the ledger row of a purchase is *)
(* always new, and its price the one paid.                                *)
(***************************************************************************)
Reserved ==
  \A w \in Workers : req[w].pc = "reserved" =>
    /\ Listed(req[w].item)
    /\ req[w].item \notin Owned(req[w].student)
    /\ \A v \in Workers : v # w /\ req[v].pc = "reserved" =>
         req[v].student # req[w].student \/ req[v].item # req[w].item

Sold ==
  \A s \in Students : \A n \in DOMAIN ledger[s] :
    ledger[s][n].key.kind = "purchase" =>
      ledger[s][n].key.ref \in Owned(s) \/ items[ledger[s][n].key.ref] = Deleted

PaidInv == TypeOK /\ Reserved /\ Sold /\ PurchasesPaid

(* Steps that make no new reservation, take no reserved item off the list  *)
(* and add no purchase.                                                   *)
LEMMA ReservedKept ==
  ASSUME Reserved,
         \A w \in Workers : req'[w].pc = "reserved" =>
           /\ req'[w] = req[w]
           /\ items'[req[w].item].status = "listed"
           /\ \A p \in purchases'[req[w].student] : p.item # req[w].item
  PROVE  Reserved'
BY DEF Reserved, Listed, Owned

LEMMA ReservedStep ==
  ASSUME TypeOK, Reserved, [Next]_vars
  PROVE  Reserved'
<1>0. \A w \in Workers : req[w].pc = "reserved" =>
        req[w].student \in Students /\ req[w].item \in Items
  BY ReqType DEF BuyReq
<1>1. CASE UNCHANGED vars \/ Finished
  BY <1>1 DEF vars, Finished, Reserved, Listed, Owned
<1>2. CASE StaffStep
  <2>1. req' = req
    BY <1>2 DEF StaffStep, SetConfig, CreateItem, UpdateItem, DeleteItem, DeleteStudent
  <2>2. ASSUME NEW w \in Workers, req[w].pc = "reserved"
        PROVE  items'[req[w].item].status = "listed"
    <3>1. items[req[w].item].status = "listed" /\ req[w].item \in Items
      BY <1>0, <2>2 DEF Reserved, Listed
    <3>2. ASSUME NEW i \in Items, NEW price \in Prices, NEW active \in BOOLEAN,
                 CreateItem(i, price, active) \/ UpdateItem(i, price, active)
          PROVE  items'[req[w].item].status = "listed"
      <4>1. items' = [items EXCEPT ![i] = [status |-> "listed", price |-> price,
                                           active |-> active]]
        BY <3>2 DEF CreateItem, UpdateItem
      <4> QED
        BY <3>1, <4>1 DEF TypeOK
    <3>3. ASSUME NEW i \in Items, DeleteItem(i)
          PROVE  items'[req[w].item].status = "listed"
      BY <2>2, <3>1, <3>3 DEF DeleteItem, TypeOK
    <3> QED
      BY <1>2, <3>1, <3>2, <3>3 DEF StaffStep, SetConfig, DeleteStudent
  <2>3. \A s \in Students : purchases'[s] \subseteq purchases[s]
    BY <1>2 DEF StaffStep, SetConfig, CreateItem, UpdateItem, DeleteItem, DeleteStudent, TypeOK
  <2>4. \A w \in Workers : req[w].pc = "reserved" =>
          \A p \in purchases'[req[w].student] : p.item # req[w].item
    BY <1>0, <2>3 DEF Reserved, Owned
  <2> QED
    BY <2>1, <2>2, <2>4, ReservedKept
<1>3. ASSUME NEW w \in Workers, WorkerStep(w), ~InsertPurchase(w), ~SpendCoins(w)
      PROVE  Reserved'
  <2>1. items' = items /\ purchases' = purchases
    BY <1>3 DEF WorkerStep, StartAward, AwardAttendance, AwardHomework, AwardExam, AwardCheckin,
                AwardManual, Award, Buy, LockStudent, GrantAward, Fail
  <2>2. req'[w].pc # "reserved" /\ \A v \in Workers : v # w => req'[v] = req[v]
    <3>1. CASE LockStudent(w)
      <4>1. \A v \in Workers : v # w => req'[v] = req[v]
        BY <3>1 DEF LockStudent, TypeOK
      <4>2. req[w] \in AwardReq
        BY <3>1, ReqType DEF LockStudent
      <4>3. \/ req'[w] = Idle
            \/ \E n : req'[w] = [[req[w] EXCEPT !.pc = "locked"] EXCEPT !.seen = n]
        BY <3>1 DEF LockStudent, TypeOK
      <4>5. ASSUME NEW n, req'[w] = [[req[w] EXCEPT !.pc = "locked"] EXCEPT !.seen = n]
            PROVE  req'[w].pc # "reserved"
        <5> DEFINE locked == [req[w] EXCEPT !.pc = "locked"]
        <5>1. locked \in AwardReq /\ req'[w] = [locked EXCEPT !.seen = n]
          BY <4>2, <4>5 DEF AwardReq
        <5> HIDE DEF locked
        <5>2. req'[w].pc = locked.pc /\ locked.pc \in {"award", "locked"}
          BY <5>1 DEF AwardReq
        <5> QED
          BY <5>2
      <4>6. req'[w] = Idle => req'[w].pc # "reserved"
        BY DEF Idle
      <4>4. req'[w].pc # "reserved"
        BY <4>3, <4>5, <4>6, Zenon
      <4> QED
        BY <4>1, <4>4
    <3>2. CASE GrantAward(w) \/ Fail(w)
      BY <3>2 DEF GrantAward, Fail, TypeOK, Idle
    <3>3. ASSUME NEW s \in Students, NEW i \in Items, Buy(w, s, i)
          PROVE  req'[w].pc # "reserved" /\ \A v \in Workers : v # w => req'[v] = req[v]
      BY <3>3 DEF Buy, TypeOK
    <3>4. ASSUME NEW s \in Students, NEW key, NEW amount, NEW c, Award(w, s, key, amount, c)
          PROVE  req'[w].pc # "reserved" /\ \A v \in Workers : v # w => req'[v] = req[v]
      BY <3>4 DEF Award, TypeOK
    <3>5. ASSUME NEW s \in Students, StartAward(w, s)
          PROVE  \E key, amount, c : Award(w, s, key, amount, c)
      BY <3>5 DEF StartAward, AwardAttendance, AwardHomework, AwardExam, AwardCheckin, AwardManual
    <3> QED
      BY <1>3, <3>1, <3>2, <3>3, <3>4, <3>5 DEF WorkerStep
  <2> QED
    BY <2>1, <2>2, ReservedKept DEF Reserved, Listed, Owned
<1>4. ASSUME NEW w \in Workers, InsertPurchase(w)
      PROVE  Reserved'
  <2> DEFINE s == req[w].student
             i == req[w].item
  <2>1. items' = items /\ purchases' = purchases
    BY <1>4 DEF InsertPurchase
  <2>2. \A v \in Workers : v # w => req'[v] = req[v]
    BY <1>4 DEF InsertPurchase, TypeOK
  <2>3. CASE s \in enrolled /\ Listed(i) /\ i \notin Owned(s)
    <3>1. req[w] \in BuyReq
      BY <1>4, ReqType DEF InsertPurchase
    <3>2. req'[w] = [req[w] EXCEPT !.pc = "reserved"]
      BY <1>4, <2>3 DEF InsertPurchase, TypeOK
    <3>3. req'[w].student = s /\ req'[w].item = i
      BY <3>1, <3>2 DEF BuyReq
    <3>4. \A v \in Workers : v # w /\ req[v].pc = "reserved" =>
            req[v].student # s \/ req[v].item # i
      BY <1>4, <2>3 DEF InsertPurchase, Reserves
    <3> QED
      BY <2>1, <2>2, <2>3, <3>3, <3>4 DEF Reserved, Listed, Owned
  <2>4. CASE ~(s \in enrolled /\ Listed(i) /\ i \notin Owned(s))
    <3>1. req'[w] = Idle
      BY <1>4, <2>4 DEF InsertPurchase, TypeOK
    <3> QED
      BY <2>1, <2>2, <3>1, ReservedKept DEF Reserved, Listed, Owned, Idle
  <2> QED
    BY <2>3, <2>4
<1>5. ASSUME NEW w \in Workers, SpendCoins(w)
      PROVE  Reserved'
  <2>1. req'[w] = Idle /\ items' = items /\ \A v \in Workers : v # w => req'[v] = req[v]
    BY <1>5 DEF SpendCoins, TypeOK
  <2>2. ASSUME NEW v \in Workers, v # w, req[v].pc = "reserved"
        PROVE  \A p \in purchases'[req[v].student] : p.item # req[v].item
    <3>1. req[v].item \notin Owned(req[v].student) /\ req[v].student \in Students
      BY <1>0, <2>2 DEF Reserved
    <3>2. req[v].student # req[w].student \/ req[v].item # req[w].item
      BY <1>5, <2>2 DEF Reserved, SpendCoins
    <3>3. \A p \in purchases'[req[v].student] :
            \/ p \in purchases[req[v].student]
            \/ /\ req[v].student = req[w].student
               /\ p = [item |-> req[w].item, price |-> req[w].price]
      <4>1. \/ purchases' = purchases
            \/ purchases' = [purchases EXCEPT ![req[w].student] =
                 purchases[req[w].student] \cup {[item |-> req[w].item, price |-> req[w].price]}]
        BY <1>5 DEF SpendCoins
      <4>2. purchases'[req[v].student] \in {purchases[req[v].student],
              purchases[req[v].student] \cup {[item |-> req[w].item, price |-> req[w].price]}}
        BY <3>1, <4>1 DEF TypeOK
      <4>3. req[v].student # req[w].student =>
              purchases'[req[v].student] = purchases[req[v].student]
        BY <3>1, <4>1 DEF TypeOK
      <4> QED
        BY <4>2, <4>3
    <3> QED
      BY <3>1, <3>2, <3>3 DEF Owned
  <2> QED
    BY <2>1, <2>2, ReservedKept DEF Reserved, Listed, Idle
<1> QED
  BY <1>1, <1>2, <1>3, <1>4, <1>5 DEF Next

(* The ledger row of a purchase is always new.                            *)
LEMMA SpendFresh ==
  ASSUME TypeOK, Reserved, Sold, NEW w \in Workers, SpendCoins(w)
  PROVE  [kind |-> "purchase", ref |-> req[w].item] \notin Keys(req[w].student)
<1> DEFINE s == req[w].student
           i == req[w].item
<1>1. req[w].pc = "reserved" /\ s \in Students
  BY ReqType DEF SpendCoins, BuyReq
<1>2. Listed(i) /\ i \notin Owned(s)
  BY <1>1 DEF Reserved
<1>3. items[i] # Deleted
  BY <1>2 DEF Listed, Deleted
<1>4. ASSUME NEW n \in DOMAIN ledger[s],
             ledger[s][n].key = [kind |-> "purchase", ref |-> i]
      PROVE  FALSE
  <2>1. ledger[s][n].key.kind = "purchase" /\ ledger[s][n].key.ref = i
    BY <1>4
  <2> QED
    BY <1>1, <1>2, <1>3, <2>1 DEF Sold
<1> QED
  BY <1>4 DEF Keys

LEMMA SpendEffect ==
  ASSUME TypeOK, Reserved, Sold, NEW w \in Workers, SpendCoins(w), NEW s \in Students
  PROVE  \/ ledger'[s] = ledger[s] /\ purchases'[s] = purchases[s]
         \/ /\ s = req[w].student
            /\ purchases'[s] = purchases[s] \cup {[item |-> req[w].item, price |-> req[w].price]}
            /\ ledger'[s] = Append(ledger[s],
                 [key |-> [kind |-> "purchase", ref |-> req[w].item], xp |-> 0,
                  coins |-> -req[w].price, config |-> config])
<1>1. [kind |-> "purchase", ref |-> req[w].item] \notin Keys(req[w].student)
  BY SpendFresh
<1>2. CASE s # req[w].student \/ ~(coins[req[w].student] >= req[w].price)
  BY <1>2 DEF SpendCoins, TypeOK
<1>3. CASE s = req[w].student /\ coins[req[w].student] >= req[w].price
  BY <1>1, <1>3 DEF SpendCoins, TypeOK
<1> QED
  BY <1>2, <1>3

(* A step other than SpendCoins adds no purchase and no purchase row, and  *)
(* takes a purchase away only with its item or its student.               *)
LEMMA OtherStep ==
  ASSUME TypeOK, [Next]_vars, \A w \in Workers : ~SpendCoins(w), NEW s \in Students
  PROVE  /\ purchases'[s] \subseteq purchases[s]
         /\ \/ ledger'[s] = ledger[s]
            \/ ledger'[s] = <<>> /\ purchases'[s] = {}
            \/ \E row \in Row : row.key.kind # "purchase" /\ ledger'[s] = Append(ledger[s], row)
         /\ \/ purchases'[s] = purchases[s]
            \/ ledger'[s] = <<>>
            \/ \E i \in Items : items'[i] = Deleted
                  /\ purchases'[s] = {p \in purchases[s] : p.item # i}
         /\ \A i \in Items : items[i] = Deleted => items'[i] = Deleted
<1> DEFINE Goal ==
         /\ purchases'[s] \subseteq purchases[s]
         /\ \/ ledger'[s] = ledger[s]
            \/ ledger'[s] = <<>> /\ purchases'[s] = {}
            \/ \E row \in Row : row.key.kind # "purchase" /\ ledger'[s] = Append(ledger[s], row)
         /\ \/ purchases'[s] = purchases[s]
            \/ ledger'[s] = <<>>
            \/ \E i \in Items : items'[i] = Deleted
                  /\ purchases'[s] = {p \in purchases[s] : p.item # i}
         /\ \A i \in Items : items[i] = Deleted => items'[i] = Deleted
<1>1. CASE UNCHANGED vars \/ Finished
  BY <1>1 DEF vars, Finished
<1>2. ASSUME NEW c \in Configs, SetConfig(c)
      PROVE  Goal
  BY <1>2 DEF SetConfig
<1>3. ASSUME NEW i \in Items, NEW price \in Prices, NEW active \in BOOLEAN,
             CreateItem(i, price, active) \/ UpdateItem(i, price, active)
      PROVE  Goal
  <2>1. purchases' = purchases /\ ledger' = ledger
    BY <1>3 DEF CreateItem, UpdateItem
  <2>2. items[i] # Deleted
    BY <1>3 DEF CreateItem, UpdateItem, Listed, NoItem, Deleted
  <2>3. \A j \in Items : j # i => items'[j] = items[j]
    BY <1>3 DEF CreateItem, UpdateItem, TypeOK
  <2> QED
    BY <2>1, <2>2, <2>3
<1>4. ASSUME NEW i \in Items, DeleteItem(i)
      PROVE  Goal
  <2>1. ledger' = ledger /\ purchases'[s] = {p \in purchases[s] : p.item # i}
    BY <1>4 DEF DeleteItem
  <2>2. items' = [items EXCEPT ![i] = Deleted]
    BY <1>4 DEF DeleteItem
  <2>3. items'[i] = Deleted /\ \A j \in Items : items[j] = Deleted => items'[j] = Deleted
    BY <2>2 DEF TypeOK
  <2> QED
    BY <2>1, <2>3
<1>5. ASSUME NEW u \in Students, DeleteStudent(u)
      PROVE  Goal
  <2>1. items' = items
    BY <1>5 DEF DeleteStudent
  <2>2. CASE u = s
    BY <1>5, <2>1, <2>2 DEF DeleteStudent, TypeOK
  <2>3. CASE u # s
    BY <1>5, <2>1, <2>3 DEF DeleteStudent, TypeOK
  <2> QED
    BY <2>2, <2>3
<1>6. ASSUME NEW w \in Workers, WorkerStep(w)
      PROVE  Goal
  <2>1. purchases' = purchases /\ items' = items
    BY <1>6 DEF WorkerStep, StartAward, AwardAttendance, AwardHomework, AwardExam, AwardCheckin,
                AwardManual, Award, Buy, LockStudent, GrantAward, InsertPurchase, Fail
  <2>2. CASE GrantAward(w)
    <3> DEFINE row == [key |-> req[w].key, xp |-> req[w].xp,
                       coins |-> CoinsForAward(req[w].config, req[w].xp, req[w].seen),
                       config |-> req[w].config]
    <3>1. req[w].key \in AwardKeys
      BY <2>2, ReqType DEF GrantAward, AwardReq
    <3>2. row.key.kind # "purchase"
      BY <3>1 DEF AwardKeys, AwardKinds
    <3>3. ledger'[s] = ledger[s] \/ ledger'[s] = Append(ledger[s], row)
      BY <2>2 DEF GrantAward, TypeOK
    <3>4. ledger'[s] \in Seq(Row)
      BY TypeStep DEF TypeOK
    <3> HIDE DEF row
    <3>5. ledger'[s] = Append(ledger[s], row) => row \in Row
      <4>1. ledger[s] \in Seq(Row)
        BY DEF TypeOK
      <4> QED
        BY <3>4, <4>1
    <3> QED
      BY <2>1, <3>2, <3>3, <3>5
  <2>3. CASE ~GrantAward(w)
    <3>1. ledger' = ledger
      BY <1>6, <2>3 DEF WorkerStep, StartAward, AwardAttendance, AwardHomework, AwardExam,
                        AwardCheckin, AwardManual, Award, Buy, LockStudent, InsertPurchase, Fail
    <3> QED
      BY <2>1, <3>1
  <2> QED
    BY <2>2, <2>3
<1> QED
  BY <1>1, <1>2, <1>3, <1>4, <1>5, <1>6 DEF Next, StaffStep

LEMMA SoldStep ==
  ASSUME TypeOK, Reserved, Sold, [Next]_vars
  PROVE  Sold'
<1> SUFFICES ASSUME NEW s \in Students, NEW n \in DOMAIN ledger'[s],
                    ledger'[s][n].key.kind = "purchase"
             PROVE  \/ \E p \in purchases'[s] : p.item = ledger'[s][n].key.ref
                    \/ items'[ledger'[s][n].key.ref] = Deleted
  BY DEF Sold, Owned
<1>0. ledger[s] \in Seq(Row) /\ ledger'[s] \in Seq(Row)
  BY TypeStep DEF TypeOK
<1>1. ASSUME NEW m \in DOMAIN ledger[s], ledger[s][m].key.kind = "purchase"
      PROVE  \/ \E p \in purchases[s] : p.item = ledger[s][m].key.ref
             \/ items[ledger[s][m].key.ref] = Deleted
  BY <1>1 DEF Sold, Owned
<1>2. ledger'[s][n].key.ref \in Items
  <2>1. ledger'[s][n].key \in AwardKeys \cup BuyKeys
    <3>1. ledger'[s][n] \in Row
      BY <1>0
    <3> QED
      BY <3>1 DEF Row
  <2>2. \A k \in AwardKeys : k.kind # "purchase"
    BY DEF AwardKeys, AwardKinds
  <2> QED
    BY <2>1, <2>2 DEF BuyKeys
<1>3. ASSUME NEW w \in Workers, SpendCoins(w)
      PROVE  \/ \E p \in purchases'[s] : p.item = ledger'[s][n].key.ref
             \/ items'[ledger'[s][n].key.ref] = Deleted
  <2> DEFINE row == [key |-> [kind |-> "purchase", ref |-> req[w].item], xp |-> 0,
                     coins |-> -req[w].price, config |-> config]
  <2>1. items' = items
    BY <1>3 DEF SpendCoins
  <2>2. CASE ledger'[s] = ledger[s] /\ purchases'[s] = purchases[s]
    BY <1>1, <2>1, <2>2
  <2>3. CASE /\ purchases'[s] = purchases[s]
                                   \cup {[item |-> req[w].item, price |-> req[w].price]}
             /\ ledger'[s] = Append(ledger[s], row)
    <3>1. CASE n \in DOMAIN ledger[s]
      <4>1. ledger'[s][n] = ledger[s][n]
        BY <1>0, <2>3, <3>1
      <4> QED
        BY <1>1, <2>1, <2>3, <3>1, <4>1
    <3>2. CASE n \notin DOMAIN ledger[s]
      <4>1. ledger'[s][n] = row
        <5> HIDE DEF row
        <5> QED
          BY <1>0, <2>3, <3>2
      <4>2. ledger'[s][n].key.ref = req[w].item
        BY <4>1
      <4>3. [item |-> req[w].item, price |-> req[w].price] \in purchases'[s]
        BY <2>3
      <4> HIDE DEF row
      <4> QED
        BY <4>2, <4>3
    <3> QED
      BY <3>1, <3>2
  <2> QED
    BY <1>3, <2>2, <2>3, SpendEffect
<1>4. CASE \A w \in Workers : ~SpendCoins(w)
  <2>1. n \in DOMAIN ledger[s] /\ ledger'[s][n] = ledger[s][n]
    <3>1. CASE ledger'[s] = ledger[s]
      BY <3>1
    <3>2. CASE ledger'[s] = <<>>
      BY <3>2
    <3>3. ASSUME NEW row \in Row, row.key.kind # "purchase", ledger'[s] = Append(ledger[s], row)
          PROVE  n \in DOMAIN ledger[s] /\ ledger'[s][n] = ledger[s][n]
      <4>1. ledger'[s][n] # row
        BY <3>3
      <4> QED
        BY <1>0, <3>3, <4>1
    <3> QED
      BY <1>4, <3>1, <3>2, <3>3, OtherStep
  <2>2. CASE items[ledger[s][n].key.ref] = Deleted
    BY <1>2, <1>4, <2>1, <2>2, OtherStep
  <2>3. ASSUME NEW p \in purchases[s], p.item = ledger[s][n].key.ref
        PROVE  \/ \E q \in purchases'[s] : q.item = ledger'[s][n].key.ref
               \/ items'[ledger'[s][n].key.ref] = Deleted
    <3>1. CASE purchases'[s] = purchases[s]
      BY <2>1, <2>3, <3>1
    <3>2. CASE ledger'[s] = <<>>
      BY <3>2
    <3>3. ASSUME NEW i \in Items, items'[i] = Deleted,
                 purchases'[s] = {q \in purchases[s] : q.item # i}
          PROVE  \/ \E q \in purchases'[s] : q.item = ledger'[s][n].key.ref
                 \/ items'[ledger'[s][n].key.ref] = Deleted
      BY <2>1, <2>3, <3>3
    <3> QED
      BY <1>4, <3>1, <3>2, <3>3, OtherStep
  <2> QED
    BY <1>1, <2>1, <2>2, <2>3
<1> QED
  BY <1>3, <1>4

(* The ledger rows that pay for a purchase.                               *)
PaysFor(row, p) ==
  row.key = [kind |-> "purchase", ref |-> p.item] /\ row.coins = -p.price

LEMMA PaidStep ==
  ASSUME TypeOK, Reserved, Sold, PurchasesPaid, [Next]_vars
  PROVE  PurchasesPaid'
<1> SUFFICES ASSUME NEW s \in Students
             PROVE  /\ \A p, q \in purchases'[s] : p.item = q.item => p = q
                    /\ \A p \in purchases'[s] :
                         \E n \in DOMAIN ledger'[s] : PaysFor(ledger'[s][n], p)
  BY DEF PurchasesPaid, PaysFor
<1>0. ledger[s] \in Seq(Row)
  BY DEF TypeOK
<1>1. /\ \A p, q \in purchases[s] : p.item = q.item => p = q
      /\ \A p \in purchases[s] : \E n \in DOMAIN ledger[s] : PaysFor(ledger[s][n], p)
  BY DEF PurchasesPaid, PaysFor
<1>2. ASSUME NEW row, ledger'[s] = Append(ledger[s], row), NEW p \in purchases[s]
      PROVE  \E n \in DOMAIN ledger'[s] : PaysFor(ledger'[s][n], p)
  <2>1. PICK n \in DOMAIN ledger[s] : PaysFor(ledger[s][n], p)
    BY <1>1
  <2>2. n \in DOMAIN ledger'[s] /\ ledger'[s][n] = ledger[s][n]
    BY <1>0, <1>2
  <2> QED
    BY <2>1, <2>2
<1>3. ASSUME NEW w \in Workers, SpendCoins(w)
      PROVE  /\ \A p, q \in purchases'[s] : p.item = q.item => p = q
             /\ \A p \in purchases'[s] :
                  \E n \in DOMAIN ledger'[s] : PaysFor(ledger'[s][n], p)
  <2> DEFINE row == [key |-> [kind |-> "purchase", ref |-> req[w].item], xp |-> 0,
                     coins |-> -req[w].price, config |-> config]
             buy == [item |-> req[w].item, price |-> req[w].price]
  <2>1. CASE ledger'[s] = ledger[s] /\ purchases'[s] = purchases[s]
    BY <1>1, <2>1
  <2>2. CASE /\ s = req[w].student /\ purchases'[s] = purchases[s] \cup {buy}
             /\ ledger'[s] = Append(ledger[s], row)
    <3>1. \A p \in purchases[s] : p.item # buy.item
      BY <1>3, <2>2 DEF SpendCoins, Reserved, Owned
    <3>2. PaysFor(row, buy)
      BY DEF PaysFor
    <3> HIDE DEF row, buy
    <3>3. Len(ledger[s]) + 1 \in DOMAIN ledger'[s] /\ ledger'[s][Len(ledger[s]) + 1] = row
      BY <1>0, <2>2
    <3>4. \A p \in purchases'[s] : p \in purchases[s] \/ p = buy
      BY <2>2
    <3>5. \A p \in purchases'[s] : \E n \in DOMAIN ledger'[s] : PaysFor(ledger'[s][n], p)
      BY <1>2, <2>2, <3>2, <3>3, <3>4
    <3> QED
      BY <1>1, <3>1, <3>4, <3>5
  <2> QED
    BY <1>3, <2>1, <2>2, SpendEffect
<1>4. CASE \A w \in Workers : ~SpendCoins(w)
  <2>1. purchases'[s] \subseteq purchases[s]
    BY <1>4, OtherStep
  <2>2. CASE ledger'[s] = ledger[s]
    BY <1>1, <2>1, <2>2
  <2>3. ASSUME NEW row \in Row, ledger'[s] = Append(ledger[s], row)
        PROVE  \A p \in purchases'[s] : \E n \in DOMAIN ledger'[s] : PaysFor(ledger'[s][n], p)
    BY <1>2, <2>1, <2>3
  <2>4. CASE ledger'[s] = <<>> /\ purchases'[s] = {}
    BY <2>4
  <2> QED
    BY <1>1, <1>4, <2>1, <2>2, <2>3, <2>4, OtherStep
<1> QED
  BY <1>3, <1>4

(* What every reservation and every purchase row rests on.                 *)
THEOREM PaidInvHolds == Spec => []PaidInv
<1>1. Init => PaidInv
  <2> SUFFICES ASSUME Init PROVE PaidInv
    OBVIOUS
  <2>1. Reserved /\ Sold /\ PurchasesPaid
    BY DEF Init, Reserved, Sold, PurchasesPaid, Idle
  <2> QED
    BY <2>1, InitType DEF PaidInv
<1>2. PaidInv /\ [Next]_vars => PaidInv'
  BY TypeStep, ReservedStep, SoldStep, PaidStep DEF PaidInv
<1> QED
  BY <1>1, <1>2, PTL DEF Spec

(* No purchase is ever without the ledger row that paid its exact price,   *)
(* and nobody owns an item twice.                                         *)
THEOREM PurchasesPaidHolds == Spec => []PurchasesPaid
<1>1. PaidInv => PurchasesPaid
  BY DEF PaidInv
<1> QED
  BY <1>1, PaidInvHolds, PTL

-----------------------------------------------------------------------------
(***************************************************************************)
(* The totals a ledger adds up to.  XpAfter and SumOfCoins are recursive   *)
(* functions over the rows: they have the values their equations say        *)
(* because a shortest ledger without them would have a shorter one.        *)
(***************************************************************************)
(* Induction over the first n natural numbers.                             *)
LEMMA CountUp ==
  ASSUME NEW n \in Nat, NEW S, 0 \in S, \A k \in 1..n : k - 1 \in S => k \in S
  PROVE  \A k \in 0..n : k \in S
<1> SUFFICES ASSUME NEW j \in 0..n, j \notin S PROVE FALSE
  OBVIOUS
<1> DEFINE T == {k \in 0..n : k \notin S}
<1>1. T \subseteq Nat /\ T # {}
  OBVIOUS
<1>2. PICK x \in T : \A y \in T : ~ (<<y, x>> \in OpToRel(<, Nat))
  BY <1>1, NatLessThanWellFounded, WFMin
<1>3. \A y \in T : ~ (y < x)
  BY <1>1, <1>2 DEF OpToRel
<1>4. x \in 0..n /\ x # 0 /\ x \notin S
  OBVIOUS
<1>6. x \in 1..n /\ x - 1 \in 0..n /\ x - 1 < x
  BY <1>4
<1>5. x - 1 \notin T
  BY <1>3, <1>6
<1> QED  BY <1>4, <1>5, <1>6

(* A total that is carried from row to row exists, ...                     *)
LEMMA Iterate ==
  ASSUME NEW n \in Nat, NEW step \in [1..n -> [Int -> Int]]
  PROVE  \E g \in [0..n -> Int] : g[0] = 0 /\ \A k \in 1..n : g[k] = step[k][g[k - 1]]
<1> DEFINE Run(m, g) == g[0] = 0 /\ \A k \in 1..m : g[k] = step[k][g[k - 1]]
           S == {m \in 0..n : \E g \in [0..m -> Int] : Run(m, g)}
<1>1. 0 \in S
  <2> DEFINE g == [k \in 0..0 |-> 0]
  <2>1. g \in [0..0 -> Int] /\ Run(0, g)
    OBVIOUS
  <2> HIDE DEF g
  <2> QED  BY <2>1
<1>2. ASSUME NEW m \in 1..n, m - 1 \in S
      PROVE  m \in S
  <2>1. PICK g \in [0..(m - 1) -> Int] : Run(m - 1, g)
    BY <1>2
  <2> DEFINE h == [k \in 0..m |-> IF k = m THEN step[m][g[m - 1]] ELSE g[k]]
  <2>2. step[m][g[m - 1]] \in Int /\ \A k \in 0..(m - 1) : g[k] \in Int
    OBVIOUS
  <2>3. h \in [0..m -> Int]
    BY <2>2
  <2>4. h[0] = 0
    BY <2>1
  <2>5. ASSUME NEW k \in 1..m PROVE h[k] = step[k][h[k - 1]]
    <3>1. CASE k = m
      BY <3>1
    <3>2. CASE k # m
      <4>1. k \in 1..(m - 1) /\ k - 1 \in 0..(m - 1) /\ k - 1 # m
        BY <3>2
      <4> QED  BY <2>1, <4>1
    <3> QED  BY <3>1, <3>2
  <2>6. Run(m, h)
    BY <2>4, <2>5
  <2> HIDE DEF h, Run
  <2> QED  BY <2>3, <2>6
<1> HIDE DEF S
<1>3. n \in 0..n /\ \A k \in 1..n : k - 1 \in S => k \in S
  BY <1>2
<1>4. n \in S
  BY <1>1, <1>3, CountUp
<1> QED  BY <1>4 DEF S

(* ... and is what its steps make of it.                                   *)
LEMMA SameRun ==
  ASSUME NEW n \in Nat, NEW f, NEW g, f[0] = g[0],
         \A k \in 1..n : f[k - 1] = g[k - 1] => f[k] = g[k]
  PROVE  f[n] = g[n]
<1> DEFINE S == {k \in 0..n : f[k] = g[k]}
<1>1. 0 \in S /\ \A k \in 1..n : k - 1 \in S => k \in S
  OBVIOUS
<1> HIDE DEF S
<1>2. n \in S
  BY <1>1, CountUp
<1> QED  BY <1>2 DEF S

IsReplay(f, rows, n) ==
  f = [k \in 0..n |-> IF k = 0 THEN 0 ELSE Floor(f[k - 1] + rows[k].xp)]

LEMMA ReplayStep ==
  ASSUME NEW rows \in Seq(Row)
  PROVE  /\ XpAfter(rows, 0) = 0
         /\ \A k \in 1..Len(rows) : /\ XpAfter(rows, k) \in Nat /\ XpAfter(rows, k - 1) \in Nat
                                    /\ XpAfter(rows, k) = Floor(XpAfter(rows, k - 1) + rows[k].xp)
<1> DEFINE n == Len(rows)
           step == [k \in 1..n |-> [x \in Int |-> Floor(x + rows[k].xp)]]
<1>0. n \in Nat /\ \A k \in 1..n : rows[k].xp \in Int
  <2>1. \A k \in 1..n : rows[k] \in Row
    OBVIOUS
  <2> QED  BY <2>1 DEF Row
<1>1. step \in [1..n -> [Int -> Int]]
  <2>1. \A k \in 1..n, x \in Int : Floor(x + rows[k].xp) \in Int
    BY <1>0 DEF Floor
  <2> HIDE DEF n
  <2> QED  BY <2>1
<1>2. PICK g \in [0..n -> Int] : g[0] = 0 /\ \A k \in 1..n : g[k] = step[k][g[k - 1]]
  <2> HIDE DEF step, n
  <2> QED  BY <1>0, <1>1, Iterate
<1>3. \A k \in 1..n : g[k - 1] \in Int /\ g[k] = Floor(g[k - 1] + rows[k].xp)
  <2> SUFFICES ASSUME NEW k \in 1..n
               PROVE  g[k - 1] \in Int /\ g[k] = Floor(g[k - 1] + rows[k].xp)
    OBVIOUS
  <2> HIDE DEF n
  <2>1. k - 1 \in 0..n /\ g[k - 1] \in Int
    BY <1>0
  <2>2. step[k] = [x \in Int |-> Floor(x + rows[k].xp)]
    OBVIOUS
  <2> HIDE DEF step
  <2> QED  BY <1>2, <2>1, <2>2
<1>4. ASSUME NEW m \in 0..n
      PROVE  XpAfter(rows, m) = g[m]
  <2> DEFINE part  == [k \in 0..m |-> g[k]]
             after == CHOOSE f : IsReplay(f, rows, m)
  <2>1. IsReplay(part, rows, m)
    <3>1. \A k \in 0..m : part[k] = IF k = 0 THEN 0 ELSE Floor(part[k - 1] + rows[k].xp)
      BY <1>0, <1>2, <1>3
    <3> QED  BY <3>1 DEF IsReplay
  <2>2. IsReplay(after, rows, m)
    BY <2>1
  <2>3. XpAfter(rows, m) = after[m]
    BY DEF XpAfter, IsReplay
  <2> HIDE DEF after
  <2>4. after[0] = 0 /\ \A k \in 1..m : after[k] = Floor(after[k - 1] + rows[k].xp)
    BY <1>0, <2>2 DEF IsReplay
  <2>5. \A k \in 1..m : g[k] = Floor(g[k - 1] + rows[k].xp)
    BY <1>0, <1>3
  <2>6. after[m] = g[m]
    <3>1. m \in Nat /\ after[0] = g[0]
      BY <1>0, <1>2, <2>4
    <3>2. \A k \in 1..m : after[k - 1] = g[k - 1] => after[k] = g[k]
      BY <2>4, <2>5
    <3> QED  BY <3>1, <3>2, SameRun
  <2> QED  BY <2>3, <2>6
<1>5. XpAfter(rows, 0) = 0
  BY <1>0, <1>2, <1>4
<1>6. ASSUME NEW k \in 1..n
      PROVE  /\ XpAfter(rows, k) \in Nat /\ XpAfter(rows, k - 1) \in Nat
             /\ XpAfter(rows, k) = Floor(XpAfter(rows, k - 1) + rows[k].xp)
  <2>1. k - 1 \in 0..n /\ k \in 0..n
    BY <1>0
  <2>2. XpAfter(rows, k) = g[k] /\ XpAfter(rows, k - 1) = g[k - 1]
    BY <1>4, <2>1
  <2>3. ASSUME NEW j \in 1..n PROVE g[j] \in Nat
    <3> HIDE DEF n
    <3>1. g[j - 1] + rows[j].xp \in Int /\ g[j] = Floor(g[j - 1] + rows[j].xp)
      BY <1>0, <1>3
    <3> QED  BY <3>1, FloorType
  <2>4. k = 1 \/ k - 1 \in 1..n
    BY <1>0
  <2>5. g[k] \in Nat /\ g[k - 1] \in Nat
    BY <1>2, <2>3, <2>4
  <2> QED  BY <1>3, <2>2, <2>5
<1> QED  BY <1>5, <1>6

LEMMA ReplayPrefix ==
  ASSUME NEW rows \in Seq(Row), NEW row \in Row, NEW n \in 0..Len(rows)
  PROVE  XpAfter(Append(rows, row), n) = XpAfter(rows, n)
<1> DEFINE more == Append(rows, row)
           f == [k \in 0..n |-> XpAfter(more, k)]
           g == [k \in 0..n |-> XpAfter(rows, k)]
<1>1. /\ more \in Seq(Row) /\ n \in Nat
      /\ \A k \in 1..n : k \in 1..Len(rows) /\ k \in 1..Len(more) /\ more[k] = rows[k]
  OBVIOUS
<1> HIDE DEF more
<1>2. f[0] = g[0]
  BY <1>1, ReplayStep
<1>3. ASSUME NEW k \in 1..n, f[k - 1] = g[k - 1]
      PROVE  f[k] = g[k]
  <2>1. XpAfter(more, k - 1) = XpAfter(rows, k - 1)
    BY <1>1, <1>3
  <2>2. XpAfter(more, k) = XpAfter(rows, k)
    BY <1>1, <2>1, ReplayStep
  <2> QED  BY <1>1, <2>2
<1>4. f[n] = g[n]
  <2> HIDE DEF f, g
  <2> QED  BY <1>1, <1>2, <1>3, SameRun
<1> QED  BY <1>1, <1>4 DEF more

IsSum(f, rows) ==
  f = [k \in 0..Len(rows) |-> IF k = 0 THEN 0 ELSE f[k - 1] + rows[k].coins]

LEMMA SumRun ==
  ASSUME NEW rows \in Seq(Row)
  PROVE  \E g \in [0..Len(rows) -> Int] :
           /\ g[0] = 0 /\ \A k \in 1..Len(rows) : g[k] = g[k - 1] + rows[k].coins
           /\ SumOfCoins(rows) = g[Len(rows)]
<1> DEFINE n == Len(rows)
           step == [k \in 1..n |-> [x \in Int |-> x + rows[k].coins]]
<1>0. n \in Nat /\ \A k \in 1..n : rows[k].coins \in Int
  <2>1. \A k \in 1..n : rows[k] \in Row
    OBVIOUS
  <2> QED  BY <2>1 DEF Row
<1>1. step \in [1..n -> [Int -> Int]]
  <2> HIDE DEF n
  <2> QED  BY <1>0
<1>2. PICK g \in [0..n -> Int] : g[0] = 0 /\ \A k \in 1..n : g[k] = step[k][g[k - 1]]
  <2> HIDE DEF step, n
  <2> QED  BY <1>0, <1>1, Iterate
<1>3. ASSUME NEW k \in 1..n
      PROVE  g[k - 1] \in Int /\ g[k] = g[k - 1] + rows[k].coins
  <2> HIDE DEF n
  <2>1. k - 1 \in 0..n /\ g[k - 1] \in Int
    BY <1>0
  <2>2. step[k] = [x \in Int |-> x + rows[k].coins]
    OBVIOUS
  <2> HIDE DEF step
  <2> QED  BY <1>2, <2>1, <2>2
<1>4. SumOfCoins(rows) = g[n]
  <2> DEFINE sum == CHOOSE f : IsSum(f, rows)
  <2>1. IsSum(g, rows)
    BY <1>0, <1>2, <1>3 DEF IsSum
  <2>2. IsSum(sum, rows)
    BY <2>1
  <2>3. SumOfCoins(rows) = sum[n]
    BY DEF SumOfCoins, IsSum
  <2> HIDE DEF sum
  <2>4. sum[0] = 0 /\ \A k \in 1..n : sum[k] = sum[k - 1] + rows[k].coins
    BY <1>0, <2>2 DEF IsSum
  <2>5. sum[n] = g[n]
    <3>1. sum[0] = g[0]
      BY <1>2, <2>4
    <3>2. \A k \in 1..n : sum[k - 1] = g[k - 1] => sum[k] = g[k]
      BY <1>3, <2>4
    <3> HIDE DEF n
    <3> QED  BY <1>0, <3>1, <3>2, SameRun
  <2> QED  BY <2>3, <2>5
<1> QED  BY <1>2, <1>3, <1>4

LEMMA SumStep ==
  ASSUME NEW rows \in Seq(Row), NEW row \in Row
  PROVE  SumOfCoins(Append(rows, row)) = SumOfCoins(rows) + row.coins
<1> DEFINE more == Append(rows, row)
           n == Len(rows)
<1>1. /\ more \in Seq(Row) /\ n \in Nat /\ Len(more) = n + 1 /\ more[n + 1] = row
      /\ \A k \in 1..n : k \in 1..Len(more) /\ more[k] = rows[k]
  OBVIOUS
<1> HIDE DEF more
<1>2. PICK f \in [0..Len(more) -> Int] :
        /\ f[0] = 0 /\ \A k \in 1..Len(more) : f[k] = f[k - 1] + more[k].coins
        /\ SumOfCoins(more) = f[Len(more)]
  BY <1>1, SumRun
<1>3. PICK g \in [0..n -> Int] :
        /\ g[0] = 0 /\ \A k \in 1..n : g[k] = g[k - 1] + rows[k].coins
        /\ SumOfCoins(rows) = g[n]
  BY SumRun
<1> HIDE DEF n
<1>4. f[n] = g[n]
  <2>1. f[0] = g[0] /\ \A k \in 1..n : f[k - 1] = g[k - 1] => f[k] = g[k]
    BY <1>1, <1>2, <1>3
  <2> QED  BY <1>1, <2>1, SameRun
<1>5. n + 1 \in 1..Len(more) /\ (n + 1) - 1 = n
  BY <1>1
<1>6. f[n + 1] = f[n] + row.coins
  BY <1>1, <1>2, <1>5
<1> QED  BY <1>1, <1>2, <1>3, <1>4, <1>6 DEF more

LEMMA SumEmpty == SumOfCoins(<<>>) = 0
<1>1. <<>> \in Seq(Row) /\ Len(<<>>) = 0
  OBVIOUS
<1> QED  BY <1>1, SumRun

-----------------------------------------------------------------------------
(* What a step does to the totals and the ledger of one student.           *)
Grows(s) ==
  \E row \in Row :
    /\ ledger'[s] = Append(ledger[s], row)
    /\ xp'[s] = Floor(xp[s] + row.xp)
    /\ coins'[s] = coins[s] + row.coins
    /\ row.key.kind # "purchase" =>
         \E w \in Workers : /\ Holds(w, s)
                            /\ row.coins = CoinsForAward(row.config, row.xp, req[w].seen)

LEMMA CoinsNat ==
  ASSUME NEW c \in Config, NEW amount \in Int, NEW total \in Nat
  PROVE  CoinsForAward(c, amount, total) \in Nat
<1> DEFINE rate == CoinRateAtLevel(c, LevelForXP(c, total))
<1>1. rate \in Nat
  <2>1. /\ c.levelSize \in Nat \ {0} /\ c.coinBase \in Nat /\ c.coinStep \in Nat
        /\ LevelForXP(c, total) \in Int
    BY DEF Config, LevelForXP
  <2>2. (LevelForXP(c, total) - 1) * c.coinStep \in Int
    BY <2>1
  <2>3. c.coinBase + (LevelForXP(c, total) - 1) * c.coinStep \in Int
    BY <2>1, <2>2
  <2> QED  BY <2>3, FloorType DEF CoinRateAtLevel
<1> HIDE DEF rate
<1>2. amount > 0 => amount * rate \in Nat
  BY <1>1
<1> QED  BY <1>2 DEF CoinsForAward, rate

LEMMA GrantEffect ==
  ASSUME TypeOK, NEW w \in Workers, GrantAward(w), NEW s \in Students
  PROVE  \/ UNCHANGED <<ledger[s], xp[s], coins[s]>>
         \/ Grows(s)
<1> DEFINE u      == req[w].student
           earned == CoinsForAward(req[w].config, req[w].xp, req[w].seen)
           row    == [key |-> req[w].key, xp |-> req[w].xp, coins |-> earned,
                      config |-> req[w].config]
<1>1. /\ req[w].pc = "locked" /\ u \in Students /\ req[w].key \in AwardKeys
      /\ req[w].xp \in Int /\ req[w].config \in Config /\ req[w].seen \in Nat
  <2>1. req[w].pc = "locked" /\ req[w] \in AwardReq
    BY ReqType DEF GrantAward
  <2> QED  BY <2>1 DEF AwardReq
<1>2. earned \in Nat
  BY <1>1, CoinsNat
<1>3. CASE u # s \/ req[w].key \in Keys(u)
  BY <1>3 DEF GrantAward, TypeOK
<1>4. CASE u = s /\ req[w].key \notin Keys(u)
  <2>1. /\ ledger' = [ledger EXCEPT ![u] = Append(@, row)]
        /\ xp' = [xp EXCEPT ![u] = Floor(@ + req[w].xp)]
        /\ coins' = [coins EXCEPT ![u] = Floor(@ + earned)]
    BY <1>4 DEF GrantAward
  <2>2. /\ row \in Row /\ row.key.kind # "purchase"
        /\ row.xp = req[w].xp /\ row.coins = earned /\ row.config = req[w].config
    BY <1>1, <1>2 DEF Row, AwardKeys, AwardKinds
  <2>3. Floor(coins[s] + earned) = coins[s] + earned
    <3>1. coins[s] \in Nat
      BY DEF TypeOK
    <3> HIDE DEF earned
    <3> QED  BY <1>2, <3>1 DEF Floor
  <2> HIDE DEF row, earned
  <2>4. /\ ledger'[s] = Append(ledger[s], row)
        /\ xp'[s] = Floor(xp[s] + row.xp)
        /\ coins'[s] = coins[s] + row.coins
    BY <1>4, <2>1, <2>2, <2>3 DEF TypeOK
  <2>5. Holds(w, s) /\ row.coins = CoinsForAward(row.config, row.xp, req[w].seen)
    BY <1>1, <1>4, <2>2 DEF Holds, earned
  <2> QED  BY <2>2, <2>4, <2>5 DEF Grows
<1> QED  BY <1>3, <1>4

LEMMA BuyEffect ==
  ASSUME TypeOK, Reserved, Sold, NEW w \in Workers, SpendCoins(w), NEW s \in Students
  PROVE  \/ UNCHANGED <<ledger[s], xp[s], coins[s]>>
         \/ Grows(s)
<1> DEFINE u   == req[w].student
           key == [kind |-> "purchase", ref |-> req[w].item]
           row == [key |-> key, xp |-> 0, coins |-> -req[w].price, config |-> config]
<1>1. u \in Students /\ req[w].item \in Items /\ req[w].price \in Nat
  <2>1. req[w] \in BuyReq
    BY ReqType DEF SpendCoins
  <2> QED  BY <2>1 DEF BuyReq
<1>2. xp' = xp
  BY DEF SpendCoins
<1>3. CASE u # s \/ ~(coins[u] >= req[w].price)
  BY <1>2, <1>3 DEF SpendCoins, TypeOK
<1>4. CASE u = s /\ coins[u] >= req[w].price
  <2>1. /\ ledger' = [ledger EXCEPT ![u] = Append(@, row)]
        /\ coins' = [coins EXCEPT ![u] = @ - req[w].price]
    BY <1>1, <1>4, SpendFresh DEF SpendCoins, TypeOK
  <2>2. /\ row \in Row /\ row.key.kind = "purchase"
        /\ row.xp = 0 /\ row.coins = -req[w].price
    <3>1. key \in BuyKeys /\ -req[w].price \in Int
      BY <1>1 DEF BuyKeys
    <3> QED  BY <3>1 DEF Row, TypeOK
  <2> HIDE DEF row, key
  <2>3. ledger'[s] = Append(ledger[s], row)
    BY <1>4, <2>1 DEF TypeOK
  <2>4. coins'[s] = coins[s] + row.coins
    BY <1>1, <1>4, <2>1, <2>2 DEF TypeOK
  <2>5. xp'[s] = Floor(xp[s] + row.xp)
    BY <1>2, <2>2 DEF TypeOK, Floor
  <2> QED  BY <2>2, <2>3, <2>4, <2>5 DEF Grows
<1> QED  BY <1>3, <1>4

LEMMA TotalsStep ==
  ASSUME TypeOK, Reserved, Sold, [Next]_vars, NEW s \in Students
  PROVE  \/ UNCHANGED <<ledger[s], xp[s], coins[s]>>
         \/ ledger'[s] = <<>> /\ xp'[s] = 0 /\ coins'[s] = 0
         \/ Grows(s)
<1>1. CASE UNCHANGED vars \/ Finished
  BY <1>1 DEF vars, Finished
<1>2. CASE StaffStep
  <2>1. ASSUME NEW u \in Students, DeleteStudent(u)
        PROVE  \/ UNCHANGED <<ledger[s], xp[s], coins[s]>>
               \/ ledger'[s] = <<>> /\ xp'[s] = 0 /\ coins'[s] = 0
    BY <2>1 DEF DeleteStudent, TypeOK
  <2> QED
    BY <1>2, <2>1 DEF StaffStep, SetConfig, CreateItem, UpdateItem, DeleteItem
<1>3. ASSUME NEW w \in Workers, WorkerStep(w), ~GrantAward(w), ~SpendCoins(w)
      PROVE  UNCHANGED <<ledger, xp, coins>>
  BY <1>3 DEF WorkerStep, StartAward, AwardAttendance, AwardHomework, AwardExam, AwardCheckin,
              AwardManual, Award, Buy, LockStudent, InsertPurchase, Fail
<1> QED
  BY <1>1, <1>2, <1>3, GrantEffect, BuyEffect DEF Next

-----------------------------------------------------------------------------
(* The balance a student spends from is the sum of the ledger, whatever     *)
(* awards, purchases, penalties and deletions overlap (GrantAward,          *)
(* AddStudentPoints, BuyItem, SpendStudentCoins): no penalty and no floor   *)
(* ever takes or makes coins that no row accounts for.                    *)
THEOREM CoinsMatchLedgerHolds == Spec => []CoinsMatchLedger
<1>1. Init => CoinsMatchLedger
  BY SumEmpty DEF Init, CoinsMatchLedger
<1>2. PaidInv /\ CoinsMatchLedger /\ [Next]_vars => CoinsMatchLedger'
  <2> SUFFICES ASSUME PaidInv, CoinsMatchLedger, [Next]_vars, NEW s \in Students
               PROVE  coins'[s] = SumOfCoins(ledger'[s])
    BY DEF CoinsMatchLedger
  <2>1. coins[s] = SumOfCoins(ledger[s]) /\ ledger[s] \in Seq(Row)
    BY DEF CoinsMatchLedger, PaidInv, TypeOK
  <2>2. CASE Grows(s)
    BY <2>1, <2>2, SumStep DEF Grows
  <2>3. CASE UNCHANGED <<ledger[s], xp[s], coins[s]>>
    BY <2>1, <2>3
  <2> QED  BY <2>2, <2>3, TotalsStep, SumEmpty DEF PaidInv
<1> QED  BY <1>1, <1>2, PaidInvHolds, PTL DEF Spec

-----------------------------------------------------------------------------
(* What makes PricedAtLevel inductive: the XP an award has read under the   *)
(* row lock is the XP of the student until it commits.                    *)
LockedXp ==
  \A w \in Workers : req[w].pc = "locked" =>
    /\ req[w].student \in enrolled
    /\ req[w].seen = xp[req[w].student]
    /\ \A v \in Workers : v # w => ~Holds(v, req[w].student)

LEMMA LockEffect ==
  ASSUME TypeOK, NEW w \in Workers, LockStudent(w)
  PROVE  \/ req'[w] = Idle
         \/ /\ req'[w].pc = "locked" /\ req'[w].student = req[w].student
            /\ req[w].student \in enrolled
            /\ req'[w].seen = xp[req[w].student]
            /\ \A v \in Workers : ~Holds(v, req[w].student)
<1>1. req[w] \in AwardReq
  BY ReqType DEF LockStudent
<1>2. CASE req[w].student \notin enrolled
  BY <1>2 DEF LockStudent, TypeOK
<1>3. CASE req[w].student \in enrolled
  <2> DEFINE locked == [req[w] EXCEPT !.pc = "locked"]
  <2>1. req'[w] = [locked EXCEPT !.seen = xp[req[w].student]]
    BY <1>3 DEF LockStudent, TypeOK
  <2>2. locked \in AwardReq /\ locked.pc = "locked" /\ locked.student = req[w].student
    BY <1>1 DEF AwardReq
  <2> HIDE DEF locked
  <2>3. /\ req'[w].pc = "locked" /\ req'[w].student = req[w].student
        /\ req'[w].seen = xp[req[w].student]
    BY <2>1, <2>2 DEF AwardReq
  <2> QED  BY <1>3, <2>3 DEF LockStudent
<1> QED  BY <1>2, <1>3

LEMMA LockedStep ==
  ASSUME TypeOK, LockedXp, [Next]_vars
  PROVE  LockedXp'
<1>0. \A w \in Workers : req[w].pc = "locked" => req[w].student \in Students
  BY ReqType DEF AwardReq
<1>1. CASE UNCHANGED vars \/ Finished
  BY <1>1 DEF vars, Finished, LockedXp, Holds
<1>2. CASE StaffStep
  <2>1. ASSUME NEW u \in Students, DeleteStudent(u)
        PROVE  LockedXp'
    <3>1. \A w \in Workers : req[w].pc = "locked" => req[w].student # u
      BY <2>1 DEF DeleteStudent, Holds
    <3> QED  BY <1>0, <2>1, <3>1 DEF DeleteStudent, LockedXp, Holds, TypeOK
  <2> QED
    BY <1>2, <2>1 DEF StaffStep, SetConfig, CreateItem, UpdateItem, DeleteItem, LockedXp, Holds
<1>3. ASSUME NEW w \in Workers, WorkerStep(w), ~LockStudent(w)
      PROVE  LockedXp'
  <2>1. enrolled' = enrolled
    BY <1>3 DEF WorkerStep, StartAward, AwardAttendance, AwardHomework, AwardExam, AwardCheckin,
                AwardManual, Award, Buy, GrantAward, InsertPurchase, SpendCoins, Fail
  <2>2. req'[w].pc # "locked" /\ \A v \in Workers : v # w => req'[v] = req[v]
    <3>1. CASE GrantAward(w) \/ SpendCoins(w) \/ Fail(w)
      BY <3>1 DEF GrantAward, SpendCoins, Fail, TypeOK, Idle
    <3>2. CASE InsertPurchase(w)
      <4>1. req[w] \in BuyReq
        BY <3>2, ReqType DEF InsertPurchase
      <4>2. req'[w] = Idle \/ req'[w] = [req[w] EXCEPT !.pc = "reserved"]
        BY <3>2 DEF InsertPurchase, TypeOK
      <4>3. req'[w].pc # "locked"
        BY <4>1, <4>2 DEF BuyReq, Idle
      <4>4. \A v \in Workers : v # w => req'[v] = req[v]
        BY <3>2 DEF InsertPurchase, TypeOK
      <4> QED  BY <4>3, <4>4
    <3>3. ASSUME NEW s \in Students, NEW i \in Items, Buy(w, s, i)
          PROVE  req'[w].pc # "locked" /\ \A v \in Workers : v # w => req'[v] = req[v]
      BY <3>3 DEF Buy, TypeOK
    <3>4. ASSUME NEW s \in Students, NEW key, NEW amount, NEW c, Award(w, s, key, amount, c)
          PROVE  req'[w].pc # "locked" /\ \A v \in Workers : v # w => req'[v] = req[v]
      BY <3>4 DEF Award, TypeOK
    <3>5. ASSUME NEW s \in Students, StartAward(w, s)
          PROVE  \E key, amount, c : Award(w, s, key, amount, c)
      BY <3>5 DEF StartAward, AwardAttendance, AwardHomework, AwardExam, AwardCheckin, AwardManual
    <3> QED  BY <1>3, <3>1, <3>2, <3>3, <3>4, <3>5 DEF WorkerStep
  <2>3. ASSUME NEW v \in Workers, v # w, req[v].pc = "locked"
        PROVE  xp'[req[v].student] = xp[req[v].student]
    <3>1. req[v].student \in Students
      BY <1>0, <2>3
    <3>2. CASE GrantAward(w)
      <4>1. req[w].student # req[v].student
        BY <2>3, <3>2 DEF GrantAward, LockedXp, Holds
      <4> QED  BY <3>1, <3>2, <4>1 DEF GrantAward, TypeOK
    <3>3. CASE ~GrantAward(w)
      BY <1>3, <3>3 DEF WorkerStep, StartAward, AwardAttendance, AwardHomework, AwardExam,
                        AwardCheckin, AwardManual, Award, Buy, InsertPurchase, SpendCoins, Fail
    <3> QED  BY <3>2, <3>3
  <2> QED  BY <2>1, <2>2, <2>3 DEF LockedXp, Holds
<1>4. ASSUME NEW w \in Workers, LockStudent(w)
      PROVE  LockedXp'
  <2>1. enrolled' = enrolled /\ xp' = xp /\ \A v \in Workers : v # w => req'[v] = req[v]
    BY <1>4 DEF LockStudent, TypeOK
  <2> QED  BY <1>4, <2>1, LockEffect DEF LockedXp, Holds, Idle
<1> QED  BY <1>1, <1>2, <1>3, <1>4 DEF Next

(* A row that goes on top of a replayed ledger.                            *)
LEMMA ReplayAppend ==
  ASSUME NEW rows \in Seq(Row), NEW row \in Row, NEW total \in Nat,
         total = XpAfter(rows, Len(rows))
  PROVE  /\ Len(Append(rows, row)) = Len(rows) + 1
         /\ XpAfter(Append(rows, row), Len(rows)) = total
         /\ XpAfter(Append(rows, row), Len(rows) + 1) = Floor(total + row.xp)
         /\ \A n \in 1..Len(rows) : /\ Append(rows, row)[n] = rows[n]
                                    /\ XpAfter(Append(rows, row), n - 1) = XpAfter(rows, n - 1)
         /\ Append(rows, row)[Len(rows) + 1] = row
<1> DEFINE more == Append(rows, row)
           n == Len(rows)
<1>1. /\ more \in Seq(Row) /\ n \in Nat /\ Len(more) = n + 1 /\ more[n + 1] = row
      /\ \A k \in 1..n : more[k] = rows[k]
      /\ n + 1 \in 1..Len(more) /\ (n + 1) - 1 = n
  OBVIOUS
<1>2. \A k \in 0..n : XpAfter(more, k) = XpAfter(rows, k)
  BY ReplayPrefix
<1>3. XpAfter(more, n) = total
  BY <1>1, <1>2
<1> HIDE DEF more
<1>4. XpAfter(more, n + 1) = Floor(XpAfter(more, (n + 1) - 1) + more[n + 1].xp)
  BY <1>1, ReplayStep
<1> QED  BY <1>1, <1>2, <1>3, <1>4 DEF more

(* "The student row is locked so concurrent awards price coins              *)
(* consistently" (Award): every award was priced at the level the rows      *)
(* before it had brought the student to, and the cached XP is the replay of *)
(* the ledger, for any number of handlers, students and economies.        *)
THEOREM PricedAtLevelHolds == Spec => []PricedAtLevel
<1>1. Init => LockedXp /\ PricedAtLevel
  <2>1. <<>> \in Seq(Row) /\ Len(<<>>) = 0 /\ DOMAIN <<>> = {}
    OBVIOUS
  <2>2. XpAfter(<<>>, 0) = 0
    BY <2>1, ReplayStep
  <2> QED  BY <2>1, <2>2 DEF Init, LockedXp, PricedAtLevel, Idle
<1>2. PaidInv /\ LockedXp /\ PricedAtLevel /\ [Next]_vars => PricedAtLevel'
  <2> SUFFICES ASSUME PaidInv, LockedXp, PricedAtLevel, [Next]_vars, NEW s \in Students
               PROVE  /\ xp'[s] = XpAfter(ledger'[s], Len(ledger'[s]))
                      /\ \A n \in DOMAIN ledger'[s] : ledger'[s][n].key.kind # "purchase" =>
                           ledger'[s][n].coins =
                             CoinsForAward(ledger'[s][n].config, ledger'[s][n].xp, XpAfter(ledger'[s], n - 1))
    BY DEF PricedAtLevel
  <2>1. /\ xp[s] = XpAfter(ledger[s], Len(ledger[s])) /\ xp[s] \in Nat
        /\ ledger[s] \in Seq(Row)
        /\ \A n \in DOMAIN ledger[s] : ledger[s][n].key.kind # "purchase" =>
             ledger[s][n].coins =
               CoinsForAward(ledger[s][n].config, ledger[s][n].xp, XpAfter(ledger[s], n - 1))
    BY DEF PricedAtLevel, PaidInv, TypeOK
  <2>2. CASE Grows(s)
    <3>1. PICK row \in Row :
            /\ ledger'[s] = Append(ledger[s], row)
            /\ xp'[s] = Floor(xp[s] + row.xp)
            /\ row.key.kind # "purchase" =>
                 \E w \in Workers : /\ Holds(w, s)
                                    /\ row.coins = CoinsForAward(row.config, row.xp, req[w].seen)
      BY <2>2 DEF Grows
    <3>2. row.key.kind # "purchase" => row.coins = CoinsForAward(row.config, row.xp, xp[s])
      BY <3>1 DEF LockedXp, Holds
    <3> DEFINE rows == ledger[s]
               more == ledger'[s]
    <3>3. /\ Len(more) = Len(rows) + 1
          /\ XpAfter(more, Len(rows)) = xp[s]
          /\ XpAfter(more, Len(rows) + 1) = Floor(xp[s] + row.xp)
          /\ \A n \in 1..Len(rows) : more[n] = rows[n] /\ XpAfter(more, n - 1) = XpAfter(rows, n - 1)
          /\ more[Len(rows) + 1] = row
      BY <2>1, <3>1, ReplayAppend
    <3>4. /\ DOMAIN more = 1..(Len(rows) + 1) /\ DOMAIN rows = 1..Len(rows) /\ Len(rows) \in Nat
      BY <2>1, <3>1
    <3> HIDE DEF rows, more
    <3>5. ASSUME NEW n \in 1..(Len(rows) + 1), more[n].key.kind # "purchase"
          PROVE  more[n].coins = CoinsForAward(more[n].config, more[n].xp, XpAfter(more, n - 1))
      <4>1. CASE n = Len(rows) + 1
        <5>1. n - 1 = Len(rows)
          BY <3>4, <4>1
        <5> QED  BY <3>2, <3>3, <3>5, <4>1, <5>1
      <4>2. CASE n # Len(rows) + 1
        <5>1. n \in 1..Len(rows)
          BY <3>4, <4>2
        <5> QED  BY <2>1, <3>3, <3>4, <3>5, <5>1 DEF rows
      <4> QED  BY <4>1, <4>2
    <3> QED  BY <3>1, <3>3, <3>4, <3>5 DEF rows, more
  <2>3. CASE UNCHANGED <<ledger[s], xp[s], coins[s]>>
    BY <2>1, <2>3
  <2>4. CASE ledger'[s] = <<>> /\ xp'[s] = 0
    <3>1. <<>> \in Seq(Row) /\ Len(<<>>) = 0 /\ DOMAIN <<>> = {}
      OBVIOUS
    <3> QED  BY <2>4, <3>1, ReplayStep
  <2> QED  BY <2>2, <2>3, <2>4, TotalsStep DEF PaidInv
<1> QED  BY <1>1, <1>2, PaidInvHolds, LockedStep, PTL DEF Spec, PaidInv
=============================================================================
