-------------------------------- MODULE Wallet --------------------------------
(***************************************************************************)
(* XP, coins and the reward shop of one learning center: the points        *)
(* usecase and repository (internal/usecase/points/service.go,             *)
(* internal/repo/postgres/points_repo.go), the shop usecase and repository *)
(* (internal/usecase/shop/service.go, internal/repo/postgres/shop_repo.go) *)
(* and the economy of internal/entity/gamification.go.                     *)
(*                                                                         *)
(* An award reads the center's config outside its transaction; the         *)
(* transaction locks the student row FOR UPDATE, then writes.  A purchase  *)
(* reads the item in one transaction and buys it in the next, where the    *)
(* purchase row (whose foreign keys lock student and item against deletion *)
(* and against FOR UPDATE) comes before the guarded UPDATE of the coins.   *)
(***************************************************************************)
EXTENDS Integers, Sequences

CONSTANTS
  Students,       \* ids a student row can have, never reused
  Items,          \* ids a shop item can have, never reused
  Workers,        \* request handlers running at the same time
  Refs,           \* what an award can be for: a lesson, a submission, an exam, a week
  Configs,        \* the economies the director may set
  DefaultConfig,  \* the economy of DefaultGamification
  Prices,         \* prices an item may be given
  Grades,         \* XP a teacher or an exam may grade
  ManualXP,       \* XP of a manual award or penalty
  MaxRequests     \* bound: requests in one behaviour

Config == [xpAttend : Nat, xpLate : Nat, xpHomeworkMax : Nat, xpCheckin : Nat,
           levelSize : Nat \ {0}, coinBase : Nat, coinStep : Nat]

ASSUME WalletAssumption ==
  /\ Configs \subseteq Config /\ DefaultConfig \in Config
  /\ Prices \subseteq Nat
  /\ Grades \subseteq Nat
  /\ ManualXP \subseteq Int
  /\ MaxRequests \in Nat

VARIABLES
  config,     \* organizations.gx_*
  enrolled,   \* the students that exist
  xp, coins,  \* per student: the cached totals of the student row
  ledger,     \* per student: its student_points rows, in insertion order
  items,      \* per shop item: its row
  purchases,  \* per student: its shop_purchases rows
  req,        \* per worker: the request it is serving
  clock       \* requests so far; makes the ref of a manual award unique

vars == <<config, enrolled, xp, coins, ledger, items, purchases, req, clock>>

-----------------------------------------------------------------------------
(* The economy.                                                           *)
Floor(n) == IF n < 0 THEN 0 ELSE n

LevelForXP(c, total) == total \div c.levelSize + 1

CoinRateAtLevel(c, level) == Floor(c.coinBase + (level - 1) * c.coinStep)

(* Mutant: a penalty takes the coins of its XP back.                      *)
CoinsBothWays(c, amount, total) == amount * CoinRateAtLevel(c, LevelForXP(c, total))

CoinsForAward(c, amount, total) ==
  IF amount <= 0 THEN 0 ELSE amount * CoinRateAtLevel(c, LevelForXP(c, total))

-----------------------------------------------------------------------------
(* Rows and requests.  A ledger row remembers the config it was priced     *)
(* with, for the properties.                                               *)
AwardKinds == {"attendance", "homework_accept", "exam", "checkin", "manual"}
AwardKeys  == [kind : AwardKinds, ref : Refs \cup Nat]
BuyKeys    == [kind : {"purchase"}, ref : Items]
Row        == [key : AwardKeys \cup BuyKeys, xp : Int, coins : Int, config : Config]
Item       == [status : {"listed"}, price : Nat, active : BOOLEAN]
NoItem     == [status |-> "unborn"]
Deleted    == [status |-> "deleted"]
Purchase   == [item : Items, price : Nat]

(* pc: "award" has read the config, "locked" holds the student row; "buy"  *)
(* has read the item, "reserved" has inserted the purchase row.            *)
AwardReq == [pc : {"award", "locked"}, student : Students, key : AwardKeys,
             xp : Int, config : Config, seen : Nat]
BuyReq   == [pc : {"buy", "reserved"}, student : Students, item : Items, price : Nat]
Idle     == [pc |-> "idle"]

Busy(w)       == req[w].pc # "idle"
Holds(w, s)   == req[w].pc = "locked" /\ req[w].student = s
Reserves(w, s) == req[w].pc = "reserved" /\ req[w].student = s

Listed(i) == items[i].status = "listed"
Keys(s)   == {ledger[s][n].key : n \in DOMAIN ledger[s]}
Owned(s)  == {p.item : p \in purchases[s]}

-----------------------------------------------------------------------------
TypeOK ==
  /\ config \in Config
  /\ enrolled \subseteq Students
  /\ xp \in [Students -> Nat]
  /\ coins \in [Students -> Nat]
  /\ ledger \in [Students -> Seq(Row)]
  /\ items \in [Items -> Item \cup {NoItem, Deleted}]
  /\ purchases \in [Students -> SUBSET Purchase]
  /\ req \in [Workers -> AwardReq \cup BuyReq \cup {Idle}]
  /\ clock \in Nat

Init ==
  /\ config = DefaultConfig
  /\ enrolled = Students
  /\ xp = [s \in Students |-> 0]
  /\ coins = [s \in Students |-> 0]
  /\ ledger = [s \in Students |-> <<>>]
  /\ items = [i \in Items |-> NoItem]
  /\ purchases = [s \in Students |-> {}]
  /\ req = [w \in Workers |-> Idle]
  /\ clock = 0

Tick == clock < MaxRequests /\ clock' = clock + 1

-----------------------------------------------------------------------------
(* The center's settings: one UPDATE each.                                *)
SetConfig(c) ==
  /\ Tick
  /\ config' = c
  /\ UNCHANGED <<enrolled, xp, coins, ledger, items, purchases, req>>

CreateItem(i, price, active) ==
  /\ items[i] = NoItem
  /\ items' = [items EXCEPT ![i] = [status |-> "listed", price |-> price, active |-> active]]
  /\ UNCHANGED <<config, enrolled, xp, coins, ledger, purchases, req, clock>>

UpdateItem(i, price, active) ==
  /\ Tick
  /\ Listed(i)
  /\ items' = [items EXCEPT ![i] = [status |-> "listed", price |-> price, active |-> active]]
  /\ UNCHANGED <<config, enrolled, xp, coins, ledger, purchases, req>>

(* Mutant: the ledger rows of the item go with it.                        *)
DeleteItemAndRows(i) ==
  /\ Tick
  /\ Listed(i)
  /\ items' = [items EXCEPT ![i] = Deleted]
  /\ purchases' = [s \in Students |-> {p \in purchases[s] : p.item # i}]
  /\ ledger' = [s \in Students |-> SelectSeq(ledger[s], LAMBDA row : row.key.ref # i)]
  /\ UNCHANGED <<config, enrolled, xp, coins, req>>

(* The delete cascades to the purchases of the item, and waits for one     *)
(* that is being made.  The ledger keeps its rows, the coins stay spent.   *)
DeleteItem(i) ==
  /\ Tick
  /\ Listed(i)
  /\ \A w \in Workers : ~(req[w].pc = "reserved" /\ req[w].item = i)
  /\ items' = [items EXCEPT ![i] = Deleted]
  /\ purchases' = [s \in Students |-> {p \in purchases[s] : p.item # i}]
  /\ UNCHANGED <<config, enrolled, xp, coins, ledger, req>>

(* The cascade of a deleted student takes the totals, the ledger and the   *)
(* purchases; it waits for the transactions that lock the row.             *)
DeleteStudent(s) ==
  /\ Tick
  /\ s \in enrolled
  /\ \A w \in Workers : ~Holds(w, s) /\ ~Reserves(w, s)
  /\ enrolled' = enrolled \ {s}
  /\ xp' = [xp EXCEPT ![s] = 0]
  /\ coins' = [coins EXCEPT ![s] = 0]
  /\ ledger' = [ledger EXCEPT ![s] = <<>>]
  /\ purchases' = [purchases EXCEPT ![s] = {}]
  /\ UNCHANGED <<config, items, req>>

-----------------------------------------------------------------------------
(***************************************************************************)
(* Awards.  Config falls back to the defaults when its query fails.        *)
(***************************************************************************)
Award(w, s, key, amount, c) ==
  /\ ~Busy(w)
  /\ amount # 0
  /\ req' = [req EXCEPT ![w] = [pc |-> "award", student |-> s, key |-> key, xp |-> amount,
                                config |-> c, seen |-> 0]]
  /\ UNCHANGED <<config, enrolled, xp, coins, ledger, items, purchases>>

(* XP by attendance status; "absent" earns nothing.                       *)
AwardAttendance(w, s, ref, status, c) ==
  Award(w, s, [kind |-> "attendance", ref |-> ref],
        CASE status = "present" -> c.xpAttend
          [] status \in {"late", "excused"} -> c.xpLate
          [] OTHER -> 0, c)

AwardHomework(w, s, ref, graded, c) ==
  Award(w, s, [kind |-> "homework_accept", ref |-> ref],
        IF graded > c.xpHomeworkMax THEN c.xpHomeworkMax ELSE graded, c)

AwardExam(w, s, ref, amount, c) == Award(w, s, [kind |-> "exam", ref |-> ref], amount, c)

AwardCheckin(w, s, ref, c) == Award(w, s, [kind |-> "checkin", ref |-> ref], c.xpCheckin, c)

AwardManual(w, s, amount, c) == Award(w, s, [kind |-> "manual", ref |-> clock], amount, c)

StartAward(w, s) ==
  /\ Tick
  /\ \E c \in {config, DefaultConfig} :
       \/ \E ref \in Refs, status \in {"present", "late", "absent"} :
            AwardAttendance(w, s, ref, status, c)
       \/ \E ref \in Refs, graded \in Grades :
            AwardHomework(w, s, ref, graded, c) \/ AwardExam(w, s, ref, graded, c)
       \/ \E ref \in Refs : AwardCheckin(w, s, ref, c)
       \/ \E amount \in ManualXP : AwardManual(w, s, amount, c)

(* Mutant: the SELECT of the XP does not lock the row.                    *)
ReadStudent(w) ==
  /\ req[w].pc = "award"
  /\ req' = IF req[w].student \in enrolled
            THEN [req EXCEPT ![w].pc = "locked", ![w].seen = xp[req[w].student]]
            ELSE [req EXCEPT ![w] = Idle]
  /\ UNCHANGED <<config, enrolled, xp, coins, ledger, items, purchases, clock>>

(* SELECT xp ... FOR UPDATE; without the row the award fails.             *)
LockStudent(w) ==
  /\ req[w].pc = "award"
  /\ LET s == req[w].student
     IN  IF s \in enrolled
         THEN /\ \A v \in Workers : ~Holds(v, s) /\ ~Reserves(v, s)
              /\ req' = [req EXCEPT ![w].pc = "locked", ![w].seen = xp[s]]
         ELSE req' = [req EXCEPT ![w] = Idle]
  /\ UNCHANGED <<config, enrolled, xp, coins, ledger, items, purchases, clock>>

(* Mutant: the insert has no conflict target.                             *)
GrantAlways(w) ==
  /\ req[w].pc = "locked"
  /\ LET s      == req[w].student
         earned == CoinsForAward(req[w].config, req[w].xp, req[w].seen)
     IN  /\ ledger' = [ledger EXCEPT ![s] =
                         Append(@, [key |-> req[w].key, xp |-> req[w].xp, coins |-> earned,
                                    config |-> req[w].config])]
         /\ xp' = [xp EXCEPT ![s] = Floor(@ + req[w].xp)]
         /\ coins' = [coins EXCEPT ![s] = Floor(@ + earned)]
  /\ req' = [req EXCEPT ![w] = Idle]
  /\ UNCHANGED <<config, enrolled, items, purchases, clock>>

(* InsertPointsIfNew, then AddStudentPoints unless the key was there, and  *)
(* the commit.                                                            *)
GrantAward(w) ==
  /\ req[w].pc = "locked"
  /\ LET s      == req[w].student
         earned == CoinsForAward(req[w].config, req[w].xp, req[w].seen)
         row    == [key |-> req[w].key, xp |-> req[w].xp, coins |-> earned,
                    config |-> req[w].config]
     IN  IF req[w].key \in Keys(s)
         THEN UNCHANGED <<xp, coins, ledger>>
         ELSE /\ ledger' = [ledger EXCEPT ![s] = Append(@, row)]
              /\ xp' = [xp EXCEPT ![s] = Floor(@ + req[w].xp)]
              /\ coins' = [coins EXCEPT ![s] = Floor(@ + earned)]
  /\ req' = [req EXCEPT ![w] = Idle]
  /\ UNCHANGED <<config, enrolled, items, purchases, clock>>

-----------------------------------------------------------------------------
(***************************************************************************)
(* Purchases.                                                              *)
(***************************************************************************)
(* Buy reads the item; only an active one is sold.                        *)
Buy(w, s, i) ==
  /\ Tick
  /\ ~Busy(w)
  /\ Listed(i) /\ items[i].active
  /\ req' = [req EXCEPT ![w] = [pc |-> "buy", student |-> s, item |-> i,
                                price |-> items[i].price]]
  /\ UNCHANGED <<config, enrolled, xp, coins, ledger, items, purchases>>

(* The insert waits for the same insert under way and for a FOR UPDATE on  *)
(* the student.  It fails without student or item, and when the item is    *)
(* owned already.                                                         *)
InsertPurchase(w) ==
  /\ req[w].pc = "buy"
  /\ LET s == req[w].student
         i == req[w].item
     IN  IF s \in enrolled /\ Listed(i) /\ i \notin Owned(s)
         THEN /\ \A v \in Workers : ~Holds(v, s) /\ ~(Reserves(v, s) /\ req[v].item = i)
              /\ req' = [req EXCEPT ![w].pc = "reserved"]
         ELSE req' = [req EXCEPT ![w] = Idle]
  /\ UNCHANGED <<config, enrolled, xp, coins, ledger, items, purchases, clock>>

(* Mutant: a balance below the price does not roll the purchase row back.  *)
SpendWithoutRow(w) ==
  /\ req[w].pc = "reserved"
  /\ LET s   == req[w].student
         row == [key |-> [kind |-> "purchase", ref |-> req[w].item], xp |-> 0,
                 coins |-> -req[w].price, config |-> config]
     IN  /\ purchases' = [purchases EXCEPT ![s] =
                            @ \cup {[item |-> req[w].item, price |-> req[w].price]}]
         /\ IF coins[s] >= req[w].price
            THEN /\ coins' = [coins EXCEPT ![s] = @ - req[w].price]
                 /\ ledger' = [ledger EXCEPT ![s] = Append(@, row)]
            ELSE UNCHANGED <<coins, ledger>>
  /\ req' = [req EXCEPT ![w] = Idle]
  /\ UNCHANGED <<config, enrolled, xp, items, clock>>

(* SpendStudentCoins, the ledger row and the commit; a balance below the   *)
(* price rolls the purchase row back.                                     *)
SpendCoins(w) ==
  /\ req[w].pc = "reserved"
  /\ LET s   == req[w].student
         key == [kind |-> "purchase", ref |-> req[w].item]
         row == [key |-> key, xp |-> 0, coins |-> -req[w].price, config |-> config]
     IN  IF coins[s] >= req[w].price
         THEN /\ purchases' = [purchases EXCEPT ![s] =
                                 @ \cup {[item |-> req[w].item, price |-> req[w].price]}]
              /\ coins' = [coins EXCEPT ![s] = @ - req[w].price]
              /\ ledger' = [ledger EXCEPT ![s] =
                              IF key \in Keys(s) THEN @ ELSE Append(@, row)]
         ELSE UNCHANGED <<purchases, coins, ledger>>
  /\ req' = [req EXCEPT ![w] = Idle]
  /\ UNCHANGED <<config, enrolled, xp, items, clock>>

(* A crash, a cancelled request or a database error rolls back.           *)
Fail(w) ==
  /\ Tick
  /\ Busy(w)
  /\ req' = [req EXCEPT ![w] = Idle]
  /\ UNCHANGED <<config, enrolled, xp, coins, ledger, items, purchases>>

(* Nothing is left to ask and everybody has been answered: the end of a    *)
(* bounded behaviour, which is no deadlock.                               *)
Finished ==
  /\ clock = MaxRequests
  /\ \A w \in Workers : ~Busy(w)
  /\ UNCHANGED vars

-----------------------------------------------------------------------------
StaffStep ==
  \/ \E c \in Configs : SetConfig(c)
  \/ \E i \in Items, price \in Prices, active \in BOOLEAN :
       CreateItem(i, price, active) \/ UpdateItem(i, price, active)
  \/ \E i \in Items : DeleteItem(i)
  \/ \E s \in Students : DeleteStudent(s)

WorkerStep(w) ==
  \/ \E s \in Students : StartAward(w, s)
  \/ \E s \in Students, i \in Items : Buy(w, s, i)
  \/ LockStudent(w) \/ GrantAward(w)
  \/ InsertPurchase(w) \/ SpendCoins(w)
  \/ Fail(w)

Next == StaffStep \/ (\E w \in Workers : WorkerStep(w)) \/ Finished

Spec == Init /\ [][Next]_vars
-----------------------------------------------------------------------------
(* The totals the first n rows of a ledger add up to, floored row by row.  *)
XpAfter(rows, n) ==
  LET after[k \in 0..n] == IF k = 0 THEN 0 ELSE Floor(after[k - 1] + rows[k].xp)
  IN  after[n]

SumOfCoins(rows) ==
  LET sum[k \in 0..Len(rows)] == IF k = 0 THEN 0 ELSE sum[k - 1] + rows[k].coins
  IN  sum[Len(rows)]

SumOfXp(rows) ==
  LET sum[k \in 0..Len(rows)] == IF k = 0 THEN 0 ELSE sum[k - 1] + rows[k].xp
  IN  sum[Len(rows)]

(* The balance a student spends from is the ledger's, through concurrent   *)
(* awards and purchases, penalties and deleted items: no coins appear or   *)
(* vanish without a row.                                                  *)
CoinsMatchLedger == \A s \in Students : coins[s] = SumOfCoins(ledger[s])

(* "The student row is locked so concurrent awards price coins             *)
(* consistently" (Award): every award is priced at the level the earlier   *)
(* rows had brought the student to, whatever ran at the same time, and the *)
(* cached XP is the replay of the ledger.                                 *)
PricedAtLevel ==
  \A s \in Students :
    /\ xp[s] = XpAfter(ledger[s], Len(ledger[s]))
    /\ \A n \in DOMAIN ledger[s] :
         LET row == ledger[s][n]
         IN  row.key.kind # "purchase" =>
               row.coins = CoinsForAward(row.config, row.xp, XpAfter(ledger[s], n - 1))

(* Nobody owns an item twice or without having paid for it: each purchase  *)
(* has its one ledger row, of exactly its price (BuyItem is all or         *)
(* nothing, with the balance short or a second Buy of the item under way). *)
PurchasesPaid ==
  \A s \in Students :
    /\ \A p, q \in purchases[s] : p.item = q.item => p = q
    /\ \A p \in purchases[s] : \E n \in DOMAIN ledger[s] :
         ledger[s][n].key = [kind |-> "purchase", ref |-> p.item]
           /\ ledger[s][n].coins = -p.price

(* One action, one award: no two rows of a ledger have the same key, so a  *)
(* lesson marked again, a re-graded exam or submission and a second        *)
(* check-in of the week earn nothing (InsertPointsIfNew).                 *)
AwardedOnce ==
  \A s \in Students : \A m, n \in DOMAIN ledger[s] :
    ledger[s][m].key = ledger[s][n].key => m = n

(* What was earned or spent stays on record: a ledger only grows while its *)
(* student exists, also when the item a row paid for is deleted.          *)
LedgerOnlyGrows ==
  [][\A s \in enrolled' :
       /\ Len(ledger'[s]) >= Len(ledger[s])
       /\ \A n \in DOMAIN ledger[s] : ledger'[s][n] = ledger[s][n]]_vars

=============================================================================
