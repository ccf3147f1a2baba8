------------------------------ MODULE RiskScore ------------------------------
(***************************************************************************)
(* The churn-risk score of one student: internal/risk/risk.go (Evaluate)   *)
(* and the part of internal/usecase/student/service.go that derives its    *)
(* inputs from the student's history (computeRisk and its helpers) and     *)
(* applies the trigger rules (evaluateWithTriggers, outcome).              *)
(*                                                                         *)
(* A history is what the four SELECTs of a recompute return: the           *)
(* attendance marks by date, the homework marks by date, the check-ins by  *)
(* week, and the confidence typed at onboarding.  Labels are abstracted to *)
(* the name of the factor they describe.                                   *)
(***************************************************************************)
EXTENDS Integers, FiniteSets

CONSTANTS
  Dates,          \* lesson dates an attendance mark can carry
  HomeworkDates,  \* dates a homework mark can carry
  MaxWeek         \* bound: the last week number a check-in can carry

ASSUME RiskAssumption ==
  /\ Dates \subseteq Int /\ IsFiniteSet(Dates)
  /\ HomeworkDates \subseteq Int /\ IsFiniteSet(HomeworkDates)
  /\ MaxWeek \in Nat

-----------------------------------------------------------------------------
(***************************************************************************)
(* Histories.  "none" is a date without a row.  An attendance row is       *)
(* reduced to is_present, which PresentFromStatus derives from the status: *)
(* only "absent" is not present.                                           *)
(***************************************************************************)
NoSurvey == [motivation |-> 0, progress |-> 0]
Surveys  == [motivation : 1..5, progress : 1..5]
Marks    == {"none", "yes", "no"}

Weeks == 1..MaxWeek

History == [att        : [Dates -> Marks],
            hw         : [HomeworkDates -> Marks],
            survey     : [Weeks -> Surveys \cup {NoSurvey}],
            confidence : 1..10]

Recorded(marks)  == {d \in DOMAIN marks : marks[d] # "none"}
Completed(marks) == {d \in DOMAIN marks : marks[d] = "yes"}

SurveyWeeks(h) == {w \in Weeks : h.survey[w] # NoSurvey}

(* Mutant: the list is taken to be in ascending order of week.            *)
OldestSurvey(h) ==
  IF SurveyWeeks(h) = {} THEN NoSurvey
  ELSE LET first == CHOOSE w \in SurveyWeeks(h) :
                      \A v \in SurveyWeeks(h) : v >= w
       IN  h.survey[first]

(* The check-in with the highest week number, if there is one.            *)
LatestSurvey(h) ==
  IF SurveyWeeks(h) = {} THEN NoSurvey
  ELSE LET last == CHOOSE w \in SurveyWeeks(h) :
                     \A v \in SurveyWeeks(h) : v <= w
       IN  h.survey[last]

(* The run of most recent absences: the absences no attended lesson       *)
(* follows.                                                               *)
ConsecutiveAbsences(h) ==
  LET attended == Completed(h.att)
  IN  Cardinality({d \in Dates : h.att[d] = "no" /\ \A e \in attended : e < d})

-----------------------------------------------------------------------------
(***************************************************************************)
(* Evaluate.  The switch statements of the source climb a ladder of        *)
(* thresholds, one fixed step of points per rung: the points are the step  *)
(* times the number of rungs the signal has fallen below.  A rate is       *)
(* compared as a fraction, done/total < pct/100; with no row it is below   *)
(* nothing, which is the neutral 100% of completionRate and the nil of     *)
(* homeworkRate.  (Equal fractions give the same float64, so the source's  *)
(* floating-point comparison agrees with this one at every threshold.)     *)
(***************************************************************************)
RungsBelow(marks, ladder) ==
  LET done  == Cardinality(Completed(marks))
      total == Cardinality(Recorded(marks))
  IN  Cardinality({pct \in ladder : 100 * done < pct * total})

RateLadder == {50, 70, 80, 90}

(* Mutant: a run of more than three absences falls through the switch.     *)
ExactStreakPoints(h) ==
  LET run == ConsecutiveAbsences(h) IN IF run = 3 THEN 30 ELSE IF run = 2 THEN 15 ELSE 0

AttendancePoints(h) == 10 * RungsBelow(h.att, RateLadder)
HomeworkPoints(h)   == 5 * RungsBelow(h.hw, RateLadder)
StreakPoints(h)     ==
  LET run == ConsecutiveAbsences(h) IN 15 * Cardinality({n \in {2, 3} : run >= n})
ConfidencePoints(h) == 5 * Cardinality({c \in {3, 6, 8} : h.confidence <= c})

MotivationPoints(h) ==
  LET m == LatestSurvey(h).motivation IN IF m = 0 THEN 0 ELSE <<25, 20, 12, 5, 0>>[m]
ProgressPoints(h) ==
  LET p == LatestSurvey(h).progress IN IF p = 0 THEN 0 ELSE <<20, 15, 10, 4, 0>>[p]

(* The neutral placeholder that stands for a missing check-in.            *)
NeutralPoints(h) == IF LatestSurvey(h) = NoSurvey THEN 10 ELSE 0

(* Points per factor.  The debt factor of Evaluate is not here: no caller *)
(* sets HasOverdueDebt.                                                   *)
Factors(h) == [attendance |-> AttendancePoints(h),
               streak     |-> StreakPoints(h),
               homework   |-> HomeworkPoints(h),
               motivation |-> MotivationPoints(h),
               progress   |-> ProgressPoints(h),
               confidence |-> ConfidencePoints(h)]
FactorNames == {"attendance", "streak", "homework", "motivation", "progress", "confidence"}

Clamp(n) == IF n > 100 THEN 100 ELSE IF n < 0 THEN 0 ELSE n

Score(h) ==
  LET f == Factors(h)
  IN  Clamp(f.attendance + f.streak + f.homework + f.motivation
              + f.progress + f.confidence + NeutralPoints(h))

ThresholdRed    == 70
ThresholdYellow == 35
Tiers == {"Green", "Yellow", "Red"}

RawTier(score) ==
  IF score >= ThresholdRed THEN "Red"
  ELSE IF score >= ThresholdYellow THEN "Yellow" ELSE "Green"

-----------------------------------------------------------------------------
(***************************************************************************)
(* The trigger rules: four absences in a row force Red whatever the score, *)
(* and a jump of 20 points over the stored score, into Yellow or Red,      *)
(* flags a task.  A stored score of 0 is not a baseline.                   *)
(***************************************************************************)
TriggerAbsences == 4
TriggerJump     == 20

Tier(h) == IF ConsecutiveAbsences(h) >= TriggerAbsences THEN "Red" ELSE RawTier(Score(h))

Jumped(stored, score) ==
  /\ stored > 0
  /\ score - stored >= TriggerJump
  /\ score >= ThresholdYellow

(* The reasons of the factors that carry points, without the placeholder. *)
FactorReasons(h) == LET points == Factors(h) IN {f \in FactorNames : points[f] > 0}

Reasons == SUBSET (FactorNames \cup {"jump", "at risk"})

(* What a task should say, {} when no task is called for.                 *)
TaskReasons(h, stored) ==
  LET jump == IF Jumped(stored, Score(h)) THEN {"jump"} ELSE {}
      all  == FactorReasons(h) \cup jump
  IN  IF Tier(h) = "Red" \/ jump # {}
      THEN (IF all = {} THEN {"at risk"} ELSE all)
      ELSE {}

(* The outcome the recompute persists, computed against the stored score. *)
Outcome(h, stored) == [score   |-> Score(h),
                       tier    |-> Tier(h),
                       reasons |-> TaskReasons(h, stored)]
Outcomes == [score : 0..100, tier : Tiers, reasons : Reasons]

(* A history with no rows at all, and what Create stores for it.          *)
EmptyHistory(confidence) ==
  [att        |-> [d \in Dates |-> "none"],
   hw         |-> [d \in HomeworkDates |-> "none"],
   survey     |-> [w \in Weeks |-> NoSurvey],
   confidence |-> confidence]
=============================================================================
