--------------------------- MODULE RetentionProofs ---------------------------
(***************************************************************************)
(* Type correctness of Retention, its invariants and its action properties, *)
(* for every set of students, handlers and lesson dates.  Before them, of   *)
(* RiskScore and RiskProfile: that no history takes the score out of its    *)
(* range, and that every edit of a history moves it the way it should.      *)
(***************************************************************************)
EXTENDS Retention, RiskProfile, TLAPS, FiniteSetTheorems, WellFoundedInduction

-----------------------------------------------------------------------------
(* What the score of RiskScore.tla returns for every history.             *)

(* The points of a rate are counted on a ladder of four rungs.            *)
LEMMA RungsType ==
  ASSUME NEW marks, NEW D, marks \in [D -> Marks], IsFiniteSet(D),
         NEW ladder, ladder \subseteq 0..100
  PROVE  /\ RungsBelow(marks, ladder) \in Nat
         /\ Cardinality(Completed(marks)) \in Nat
         /\ Cardinality(Recorded(marks)) \in Nat
         /\ Cardinality(Completed(marks)) <= Cardinality(Recorded(marks))
<1>1. /\ Completed(marks) \subseteq Recorded(marks)
      /\ Recorded(marks) \subseteq D
  BY DEF Completed, Recorded, Marks
<1>2. IsFiniteSet(Recorded(marks)) /\ IsFiniteSet(Completed(marks))
  BY <1>1, FS_Subset
<1>3. /\ Cardinality(Completed(marks)) \in Nat
      /\ Cardinality(Recorded(marks)) \in Nat
      /\ Cardinality(Completed(marks)) <= Cardinality(Recorded(marks))
  BY <1>1, <1>2, FS_Subset, FS_CardinalityType
<1>4. IsFiniteSet(0..100)
  <2>1. 0 \in Int /\ 100 \in Int
    OBVIOUS
  <2> QED
    BY <2>1, FS_Interval, Zenon
<1> DEFINE below == {pct \in ladder : 100 * Cardinality(Completed(marks))
                                        < pct * Cardinality(Recorded(marks))}
<1>5. IsFiniteSet(below)
  <2>1. below \subseteq 0..100
    OBVIOUS
  <2> QED
    BY <2>1, <1>4, FS_Subset
<1>6. Cardinality(below) \in Nat
  BY <1>5, FS_CardinalityType
<1> QED
  BY <1>3, <1>6 DEF RungsBelow

(* A finite set of natural numbers has a greatest element: the CHOOSE of   *)
(* LatestSurvey and NextWeek denotes it.                                  *)
LEMMA WeekMax ==
  ASSUME NEW S, S \subseteq Weeks, S # {}
  PROVE  \E w \in S : \A v \in S : v <= w
<1> DEFINE T == {MaxWeek - w : w \in S}
<1>1. MaxWeek \in Nat /\ S \subseteq 1..MaxWeek
  BY RiskAssumption DEF Weeks
<1>2. T \subseteq Nat /\ T # {}
  <2>1. \A w \in S : MaxWeek - w \in Nat
    BY <1>1
  <2>2. T \subseteq Nat
    BY <2>1
  <2>3. T # {}
    OBVIOUS
  <2> QED
    BY <2>2, <2>3
<1>3. PICK x \in T : \A y \in T : ~ (<<y, x>> \in OpToRel(<, Nat))
  BY <1>2, NatLessThanWellFounded, WFMin
<1>4. \A y \in T : ~ (y < x)
  BY <1>2, <1>3 DEF OpToRel
<1>5. PICK w \in S : x = MaxWeek - w
  OBVIOUS
<1>6. \A v \in S : v <= w
  <2> SUFFICES ASSUME NEW v \in S PROVE v <= w
    OBVIOUS
  <2>1. ~ (MaxWeek - v < MaxWeek - w)
    BY <1>4, <1>5
  <2>2. v \in Int /\ w \in Int /\ MaxWeek \in Int
    BY <1>1, <1>5
  <2> QED
    BY <2>1, <2>2
<1> QED
  BY <1>6

LEMMA LatestSurveyType ==
  ASSUME NEW h \in History
  PROVE  LatestSurvey(h) \in Surveys \cup {NoSurvey}
<1>1. CASE SurveyWeeks(h) = {}
  BY <1>1 DEF LatestSurvey
<1>2. CASE SurveyWeeks(h) # {}
  <2>1. SurveyWeeks(h) \subseteq Weeks
    BY DEF SurveyWeeks
  <2>2. PICK w \in SurveyWeeks(h) : \A v \in SurveyWeeks(h) : v <= w
    BY <1>2, <2>1, WeekMax
  <2> DEFINE last == CHOOSE u \in SurveyWeeks(h) : \A v \in SurveyWeeks(h) : v <= u
  <2>3. last \in SurveyWeeks(h)
    BY <2>2
  <2>4. last \in Weeks
    BY <2>1, <2>3
  <2>5. LatestSurvey(h) = h.survey[last]
    BY <1>2 DEF LatestSurvey
  <2> HIDE DEF last
  <2> QED
    BY <2>4, <2>5 DEF History
<1> QED
  BY <1>1, <1>2

LEMMA StreakType ==
  ASSUME NEW h \in History
  PROVE  ConsecutiveAbsences(h) \in Nat
<1> DEFINE run == {d \in Dates : h.att[d] = "no" /\ \A e \in Completed(h.att) : e < d}
<1>1. IsFiniteSet(run)
  BY RiskAssumption, FS_Subset
<1> QED
  BY <1>1, FS_CardinalityType DEF ConsecutiveAbsences

LEMMA SmallCardinality ==
  ASSUME NEW S, S \subseteq 0..100
  PROVE  Cardinality(S) \in Nat
<1>1. 0 \in Int /\ 100 \in Int
  OBVIOUS
<1>2. IsFiniteSet(0..100)
  BY <1>1, FS_Interval, Zenon
<1> QED
  BY <1>2, FS_Subset, FS_CardinalityType

LEMMA PointsType ==
  ASSUME NEW h \in History
  PROVE  /\ AttendancePoints(h) \in Nat /\ HomeworkPoints(h) \in Nat
         /\ StreakPoints(h) \in Nat /\ ConfidencePoints(h) \in Nat
         /\ MotivationPoints(h) \in Nat /\ ProgressPoints(h) \in Nat
         /\ NeutralPoints(h) \in Nat
<1>1. /\ RungsBelow(h.att, RateLadder) \in Nat
      /\ RungsBelow(h.hw, RateLadder) \in Nat
  <2>1. RateLadder \subseteq 0..100
    BY DEF RateLadder
  <2>2. /\ h.att \in [Dates -> Marks] /\ IsFiniteSet(Dates)
        /\ h.hw \in [HomeworkDates -> Marks] /\ IsFiniteSet(HomeworkDates)
    BY RiskAssumption DEF History
  <2> QED
    BY <2>1, <2>2, RungsType
<1>2. AttendancePoints(h) \in Nat /\ HomeworkPoints(h) \in Nat
  BY <1>1 DEF AttendancePoints, HomeworkPoints
<1>3. StreakPoints(h) \in Nat
  <2>1. Cardinality({n \in {2, 3} : ConsecutiveAbsences(h) >= n}) \in Nat
    BY SmallCardinality
  <2> QED
    BY <2>1 DEF StreakPoints
<1>4. ConfidencePoints(h) \in Nat
  <2>1. Cardinality({c \in {3, 6, 8} : h.confidence <= c}) \in Nat
    BY SmallCardinality
  <2> QED
    BY <2>1 DEF ConfidencePoints
<1>5. /\ LatestSurvey(h).motivation \in 0..5
      /\ LatestSurvey(h).progress \in 0..5
  BY LatestSurveyType DEF Surveys, NoSurvey
<1>6. MotivationPoints(h) \in Nat /\ ProgressPoints(h) \in Nat
  BY <1>5 DEF MotivationPoints, ProgressPoints
<1>7. NeutralPoints(h) \in Nat
  BY DEF NeutralPoints
<1> QED
  BY <1>2, <1>3, <1>4, <1>6, <1>7

LEMMA ScoreType ==
  ASSUME NEW h \in History
  PROVE  Score(h) \in 0..100
<1> DEFINE total == AttendancePoints(h) + StreakPoints(h) + HomeworkPoints(h)
                      + MotivationPoints(h) + ProgressPoints(h)
                      + ConfidencePoints(h) + NeutralPoints(h)
<1>1. total \in Nat
  BY PointsType
<1>2. Score(h) = Clamp(total)
  BY DEF Score, Factors
<1> HIDE DEF total
<1> QED
  BY <1>1, <1>2 DEF Clamp

LEMMA TierType ==
  ASSUME NEW h
  PROVE  Tier(h) \in Tiers
BY DEF Tier, RawTier, Tiers

LEMMA OutcomeType ==
  ASSUME NEW h \in History, NEW n
  PROVE  Outcome(h, n) \in Outcomes
<1>1. TaskReasons(h, n) \in Reasons
  BY DEF TaskReasons, FactorReasons, Reasons
<1> QED
  BY <1>1, ScoreType, TierType DEF Outcome, Outcomes

LEMMA EmptyHistoryType ==
  ASSUME NEW c \in 1..10
  PROVE  EmptyHistory(c) \in History
BY DEF EmptyHistory, History, Marks

-----------------------------------------------------------------------------
(* How the score moves when a row of the history is written.  Sets grow    *)
(* and shrink by one element, so no sum over the history is needed.       *)

LEMMA RungsMore ==
  ASSUME NEW S, NEW T, S \subseteq T, T \subseteq 0..100
  PROVE  Cardinality(S) <= Cardinality(T)
<1>1. 0 \in Int /\ 100 \in Int
  OBVIOUS
<1>2. IsFiniteSet(0..100)
  BY <1>1, FS_Interval, Zenon
<1> QED
  BY <1>2, FS_Subset

(* A mark that was not "no" and becomes "no": one is completed less, or one *)
(* more is recorded.                                                      *)
LEMMA MissedRungs ==
  ASSUME NEW D, IsFiniteSet(D), NEW marks \in [D -> Marks], NEW later \in [D -> Marks],
         NEW d \in D, later = [marks EXCEPT ![d] = "no"], marks[d] # "no"
  PROVE  RungsBelow(marks, RateLadder) <= RungsBelow(later, RateLadder)
<1> DEFINE done  == Cardinality(Completed(marks))
           total == Cardinality(Recorded(marks))
           fewer == Cardinality(Completed(later))
           all   == Cardinality(Recorded(later))
<1>1. RateLadder \subseteq 0..100
  BY DEF RateLadder
<1>2. done \in Nat /\ total \in Nat /\ fewer \in Nat /\ all \in Nat
  BY <1>1, RungsType
<1>3. Recorded(later) = Recorded(marks) \cup {d} /\ Completed(later) = Completed(marks) \ {d}
  BY DEF Recorded, Completed
<1>4. IsFiniteSet(Recorded(marks)) /\ IsFiniteSet(Completed(marks))
  BY FS_Subset DEF Recorded, Completed
<1>5. all = total \/ all = total + 1
  BY <1>3, <1>4, FS_AddElement
<1>6. fewer = done \/ fewer = done - 1
  BY <1>3, <1>4, FS_RemoveElement
<1>7. ASSUME NEW pct \in RateLadder, 100 * done < pct * total
      PROVE  100 * fewer < pct * all
  <2> HIDE DEF done, total, fewer, all
  <2> QED  BY <1>2, <1>5, <1>6, <1>7 DEF RateLadder
<1> QED
  BY <1>1, <1>7, RungsMore DEF RungsBelow

LEMMA AttendedRungs ==
  ASSUME NEW D, IsFiniteSet(D), NEW marks \in [D -> Marks], NEW later \in [D -> Marks],
         NEW d \in D, later = [marks EXCEPT ![d] = "yes"], marks[d] # "yes"
  PROVE  RungsBelow(later, RateLadder) <= RungsBelow(marks, RateLadder)
<1> DEFINE done  == Cardinality(Completed(marks))
           total == Cardinality(Recorded(marks))
           more  == Cardinality(Completed(later))
           all   == Cardinality(Recorded(later))
<1>1. RateLadder \subseteq 0..100
  BY DEF RateLadder
<1>2. done \in Nat /\ total \in Nat /\ more \in Nat /\ all \in Nat
  BY <1>1, RungsType
<1>3. Recorded(later) = Recorded(marks) \cup {d} /\ Completed(later) = Completed(marks) \cup {d}
  BY DEF Recorded, Completed
<1>4. IsFiniteSet(Recorded(marks)) /\ IsFiniteSet(Completed(marks))
  BY FS_Subset DEF Recorded, Completed
<1>5. all = total \/ all = total + 1
  BY <1>3, <1>4, FS_AddElement
<1>6. more = done + 1
  <2>1. d \notin Completed(marks)
    BY DEF Completed
  <2> QED  BY <2>1, <1>3, <1>4, FS_AddElement
<1>7. ASSUME NEW pct \in RateLadder, 100 * more < pct * all
      PROVE  100 * done < pct * total
  <2> HIDE DEF done, total, more, all
  <2> QED  BY <1>2, <1>5, <1>6, <1>7 DEF RateLadder
<1> QED
  BY <1>1, <1>7, RungsMore DEF RungsBelow

(* The trailing run of absences.                                          *)
LEMMA MissedStreak ==
  ASSUME NEW h \in History, NEW d \in Dates, h.att[d] # "no",
         NEW k \in History, k.att = [h.att EXCEPT ![d] = "no"]
  PROVE  ConsecutiveAbsences(h) <= ConsecutiveAbsences(k)
<1> DEFINE Run(g) == {c \in Dates : g.att[c] = "no" /\ \A e \in Completed(g.att) : e < c}
<1>1. h.att \in [Dates -> Marks]
  BY DEF History
<1>2. Completed(k.att) \subseteq Completed(h.att)
  BY <1>1 DEF Completed
<1>3. Run(h) \subseteq Run(k)
  BY <1>1, <1>2
<1>4. IsFiniteSet(Run(k))
  BY RiskAssumption, FS_Subset
<1> QED
  BY <1>3, <1>4, FS_Subset DEF ConsecutiveAbsences

LEMMA AttendedStreak ==
  ASSUME NEW h \in History, NEW d \in Dates, h.att[d] # "yes",
         NEW k \in History, k.att = [h.att EXCEPT ![d] = "yes"]
  PROVE  ConsecutiveAbsences(k) <= ConsecutiveAbsences(h)
<1> DEFINE Run(g) == {c \in Dates : g.att[c] = "no" /\ \A e \in Completed(g.att) : e < c}
<1>1. h.att \in [Dates -> Marks]
  BY DEF History
<1>2. Completed(h.att) \subseteq Completed(k.att)
  BY <1>1 DEF Completed
<1>3. Run(k) \subseteq Run(h)
  BY <1>1, <1>2
<1>4. IsFiniteSet(Run(h))
  BY RiskAssumption, FS_Subset
<1> QED
  BY <1>3, <1>4, FS_Subset DEF ConsecutiveAbsences

LEMMA StreakMore ==
  ASSUME NEW h \in History, NEW k \in History,
         ConsecutiveAbsences(h) <= ConsecutiveAbsences(k)
  PROVE  StreakPoints(h) <= StreakPoints(k)
<1> DEFINE Rungs(g) == {n \in {2, 3} : ConsecutiveAbsences(g) >= n}
<1>1. ConsecutiveAbsences(h) \in Nat /\ ConsecutiveAbsences(k) \in Nat
  BY StreakType
<1>2. Rungs(h) \subseteq Rungs(k)
  BY <1>1
<1>3. Cardinality(Rungs(h)) <= Cardinality(Rungs(k))
  BY <1>2, RungsMore
<1>4. Cardinality(Rungs(h)) \in Nat /\ Cardinality(Rungs(k)) \in Nat
  BY SmallCardinality
<1>5. StreakPoints(h) = 15 * Cardinality(Rungs(h)) /\ StreakPoints(k) = 15 * Cardinality(Rungs(k))
  BY DEF StreakPoints
<1> HIDE DEF Rungs
<1> QED
  BY <1>3, <1>4, <1>5

(* A longer run and no factor with fewer points: neither score nor tier    *)
(* falls.                                                                 *)
LEMMA FactorsDecide ==
  ASSUME NEW h \in History, NEW k \in History,
         ConsecutiveAbsences(h) <= ConsecutiveAbsences(k),
         AttendancePoints(h) <= AttendancePoints(k),
         HomeworkPoints(h) <= HomeworkPoints(k),
         MotivationPoints(h) <= MotivationPoints(k),
         ProgressPoints(h) <= ProgressPoints(k),
         ConfidencePoints(h) <= ConfidencePoints(k),
         NeutralPoints(h) <= NeutralPoints(k)
  PROVE  RiskRises(h, k)
<1> DEFINE Total(g) == AttendancePoints(g) + StreakPoints(g) + HomeworkPoints(g)
                         + MotivationPoints(g) + ProgressPoints(g)
                         + ConfidencePoints(g) + NeutralPoints(g)
<1>1. Total(h) \in Nat /\ Total(k) \in Nat /\ Total(h) <= Total(k)
  <2>1. StreakPoints(h) <= StreakPoints(k)
    BY StreakMore
  <2> QED  BY <2>1, PointsType
<1>2. Score(h) = Clamp(Total(h)) /\ Score(k) = Clamp(Total(k))
  BY DEF Score, Factors
<1> HIDE DEF Total
<1>3. Score(h) <= Score(k)
  BY <1>1, <1>2 DEF Clamp
<1>4. TierRank(Tier(h)) <= TierRank(Tier(k))
  <2>1. Score(h) \in Int /\ Score(k) \in Int
    BY ScoreType
  <2>2. ConsecutiveAbsences(h) \in Nat /\ ConsecutiveAbsences(k) \in Nat
    BY StreakType
  <2>3. TierRank("Green") = 0 /\ TierRank("Yellow") = 1 /\ TierRank("Red") = 2
    BY DEF TierRank
  <2>4. CASE Tier(k) = "Red"
    <3>1. Tier(h) \in {"Green", "Yellow", "Red"}
      BY TierType DEF Tiers
    <3> QED  BY <2>3, <2>4, <3>1
  <2>5. CASE Tier(k) # "Red"
    <3>1. Tier(k) = RawTier(Score(k)) /\ Tier(h) = RawTier(Score(h))
      BY <2>2, <2>5 DEF Tier, TriggerAbsences
    <3> QED  BY <1>3, <2>1, <2>3, <2>5, <3>1 DEF RawTier, ThresholdRed, ThresholdYellow
  <2> QED  BY <2>4, <2>5
<1>5. Score(h) \in Int /\ Score(k) \in Int /\ TierRank(Tier(h)) \in Int /\ TierRank(Tier(k)) \in Int
  BY ScoreType, TierType DEF TierRank, Tiers
<1> QED
  BY <1>3, <1>4, <1>5 DEF RiskRises

(* A row of attendance or homework, written over.                         *)
LEMMA AttendanceMoves ==
  ASSUME NEW h \in History, NEW k \in History, NEW d \in Dates, NEW mark \in {"yes", "no"},
         k = [h EXCEPT !.att[d] = mark], h.att[d] # mark
  PROVE  IF mark = "no" THEN RiskRises(h, k) ELSE RiskFalls(h, k)
<1>1. /\ k.att = [h.att EXCEPT ![d] = mark]
      /\ k.hw = h.hw /\ k.survey = h.survey /\ k.confidence = h.confidence
  BY DEF History
<1>2. h.att \in [Dates -> Marks] /\ k.att \in [Dates -> Marks] /\ IsFiniteSet(Dates)
  BY RiskAssumption DEF History
<1>3. /\ HomeworkPoints(k) = HomeworkPoints(h) /\ ConfidencePoints(k) = ConfidencePoints(h)
      /\ LatestSurvey(k) = LatestSurvey(h)
  BY <1>1 DEF HomeworkPoints, ConfidencePoints, LatestSurvey, SurveyWeeks
<1>4. /\ MotivationPoints(k) = MotivationPoints(h) /\ ProgressPoints(k) = ProgressPoints(h)
      /\ NeutralPoints(k) = NeutralPoints(h)
  BY <1>3 DEF MotivationPoints, ProgressPoints, NeutralPoints
<1>5. RungsBelow(h.att, RateLadder) \in Nat /\ RungsBelow(k.att, RateLadder) \in Nat
  BY <1>2, RungsType DEF RateLadder
<1>6. CASE mark = "no"
  <2>1. AttendancePoints(h) <= AttendancePoints(k)
    BY <1>1, <1>2, <1>5, <1>6, MissedRungs DEF AttendancePoints
  <2>2. ConsecutiveAbsences(h) <= ConsecutiveAbsences(k)
    BY <1>1, <1>6, MissedStreak
  <2> QED  BY <1>3, <1>4, <1>6, <2>1, <2>2, PointsType, FactorsDecide
<1>7. CASE mark = "yes"
  <2>1. AttendancePoints(k) <= AttendancePoints(h)
    BY <1>1, <1>2, <1>5, <1>7, AttendedRungs DEF AttendancePoints
  <2>2. ConsecutiveAbsences(k) <= ConsecutiveAbsences(h)
    BY <1>1, <1>7, AttendedStreak
  <2> QED  BY <1>3, <1>4, <1>7, <2>1, <2>2, PointsType, FactorsDecide DEF RiskFalls
<1> QED
  BY <1>6, <1>7

LEMMA HomeworkMoves ==
  ASSUME NEW h \in History, NEW k \in History, NEW d \in HomeworkDates,
         NEW mark \in {"yes", "no"}, k = [h EXCEPT !.hw[d] = mark], h.hw[d] # mark
  PROVE  IF mark = "no" THEN RiskRises(h, k) ELSE RiskFalls(h, k)
<1>1. /\ k.hw = [h.hw EXCEPT ![d] = mark]
      /\ k.att = h.att /\ k.survey = h.survey /\ k.confidence = h.confidence
  BY DEF History
<1>2. h.hw \in [HomeworkDates -> Marks] /\ k.hw \in [HomeworkDates -> Marks]
      /\ IsFiniteSet(HomeworkDates)
  BY RiskAssumption DEF History
<1>3. /\ AttendancePoints(k) = AttendancePoints(h) /\ ConfidencePoints(k) = ConfidencePoints(h)
      /\ LatestSurvey(k) = LatestSurvey(h) /\ ConsecutiveAbsences(k) = ConsecutiveAbsences(h)
  BY <1>1 DEF AttendancePoints, ConfidencePoints, LatestSurvey, SurveyWeeks, ConsecutiveAbsences
<1>4. /\ MotivationPoints(k) = MotivationPoints(h) /\ ProgressPoints(k) = ProgressPoints(h)
      /\ NeutralPoints(k) = NeutralPoints(h)
  BY <1>3 DEF MotivationPoints, ProgressPoints, NeutralPoints
<1>5. RungsBelow(h.hw, RateLadder) \in Nat /\ RungsBelow(k.hw, RateLadder) \in Nat
  BY <1>2, RungsType DEF RateLadder
<1>6. CASE mark = "no"
  <2>1. HomeworkPoints(h) <= HomeworkPoints(k)
    BY <1>1, <1>2, <1>5, <1>6, MissedRungs DEF HomeworkPoints
  <2> QED  BY <1>3, <1>4, <1>6, <2>1, PointsType, StreakType, FactorsDecide
<1>7. CASE mark = "yes"
  <2>1. HomeworkPoints(k) <= HomeworkPoints(h)
    BY <1>1, <1>2, <1>5, <1>7, AttendedRungs DEF HomeworkPoints
  <2> QED  BY <1>3, <1>4, <1>7, <2>1, PointsType, StreakType, FactorsDecide DEF RiskFalls
<1> QED
  BY <1>6, <1>7

(* A check-in is of the highest week, or counts for nothing.              *)
LEMMA LatestIs ==
  ASSUME NEW h \in History, NEW w \in SurveyWeeks(h), \A v \in SurveyWeeks(h) : v <= w
  PROVE  LatestSurvey(h) = h.survey[w]
<1>1. SurveyWeeks(h) # {}
  OBVIOUS
<1> DEFINE last == CHOOSE u \in SurveyWeeks(h) : \A v \in SurveyWeeks(h) : v <= u
<1>2. last \in SurveyWeeks(h) /\ \A v \in SurveyWeeks(h) : v <= last
  OBVIOUS
<1>3. last = w
  BY <1>2 DEF SurveyWeeks, Weeks
<1>4. LatestSurvey(h) = h.survey[last]
  BY <1>1 DEF LatestSurvey
<1> QED
  BY <1>3, <1>4

LEMMA AnswerPoints ==
  ASSUME NEW h \in History, NEW k \in History,
         LatestSurvey(h) # NoSurvey, LatestSurvey(k) # NoSurvey,
         LatestSurvey(k).motivation >= LatestSurvey(h).motivation,
         LatestSurvey(k).progress >= LatestSurvey(h).progress
  PROVE  /\ MotivationPoints(k) <= MotivationPoints(h)
         /\ ProgressPoints(k) <= ProgressPoints(h)
         /\ NeutralPoints(k) <= NeutralPoints(h)
<1>1. /\ LatestSurvey(h).motivation \in 1..5 /\ LatestSurvey(h).progress \in 1..5
      /\ LatestSurvey(k).motivation \in 1..5 /\ LatestSurvey(k).progress \in 1..5
  BY LatestSurveyType DEF Surveys
<1>2. NeutralPoints(k) = 0 /\ NeutralPoints(h) = 0
  BY DEF NeutralPoints
<1>3. MotivationPoints(k) <= MotivationPoints(h)
  BY <1>1 DEF MotivationPoints
<1>4. ProgressPoints(k) <= ProgressPoints(h)
  BY <1>1 DEF ProgressPoints
<1> QED
  BY <1>2, <1>3, <1>4

LEMMA CheckInMoves ==
  ASSUME NEW h \in History, NEW k \in History, NEW w \in Weeks, NEW answer \in Surveys,
         k = [h EXCEPT !.survey[w] = answer], SurveyWeeks(h) # {}
  PROVE  /\ (\E v \in SurveyWeeks(h) : v > w) => RiskRises(h, k) /\ RiskFalls(h, k)
         /\ /\ \A v \in SurveyWeeks(h) : v <= w
            /\ answer.motivation >= LatestSurvey(h).motivation
            /\ answer.progress >= LatestSurvey(h).progress
            => RiskFalls(h, k)
<1>1. /\ k.survey = [h.survey EXCEPT ![w] = answer]
      /\ k.att = h.att /\ k.hw = h.hw /\ k.confidence = h.confidence
      /\ h.survey \in [Weeks -> Surveys \cup {NoSurvey}]
  BY DEF History
<1>2. answer # NoSurvey
  BY DEF Surveys, NoSurvey
<1>3. SurveyWeeks(k) = SurveyWeeks(h) \cup {w} /\ SurveyWeeks(h) \subseteq Weeks
  BY <1>1, <1>2 DEF SurveyWeeks
<1>4. /\ AttendancePoints(k) = AttendancePoints(h) /\ ConfidencePoints(k) = ConfidencePoints(h)
      /\ HomeworkPoints(k) = HomeworkPoints(h) /\ ConsecutiveAbsences(k) = ConsecutiveAbsences(h)
  BY <1>1 DEF AttendancePoints, ConfidencePoints, HomeworkPoints, ConsecutiveAbsences
<1>5. PICK m \in SurveyWeeks(h) : \A v \in SurveyWeeks(h) : v <= m
  BY <1>3, WeekMax
<1>6. LatestSurvey(h) = h.survey[m] /\ h.survey[m] # NoSurvey
  BY <1>5, LatestIs DEF SurveyWeeks
<1>7. ASSUME NEW u \in SurveyWeeks(h), u > w
      PROVE  RiskRises(h, k) /\ RiskFalls(h, k)
  <2>1. m > w /\ m \in SurveyWeeks(k) /\ \A v \in SurveyWeeks(k) : v <= m
    BY <1>3, <1>5, <1>7 DEF Weeks
  <2>2. LatestSurvey(k) = k.survey[m]
    BY <2>1, LatestIs
  <2>3. LatestSurvey(k) = LatestSurvey(h)
    BY <1>1, <1>3, <1>6, <2>1, <2>2 DEF Weeks
  <2>4. /\ MotivationPoints(k) = MotivationPoints(h) /\ ProgressPoints(k) = ProgressPoints(h)
        /\ NeutralPoints(k) = NeutralPoints(h)
    BY <2>3 DEF MotivationPoints, ProgressPoints, NeutralPoints
  <2> QED  BY <1>4, <2>4, PointsType, StreakType, FactorsDecide DEF RiskFalls
<1>8. ASSUME \A v \in SurveyWeeks(h) : v <= w,
             answer.motivation >= LatestSurvey(h).motivation,
             answer.progress >= LatestSurvey(h).progress
      PROVE  RiskFalls(h, k)
  <2>1. w \in SurveyWeeks(k) /\ \A v \in SurveyWeeks(k) : v <= w
    BY <1>3, <1>8 DEF Weeks
  <2>2. LatestSurvey(k) = answer
    <3>1. LatestSurvey(k) = k.survey[w]
      BY <2>1, LatestIs
    <3> QED  BY <1>1, <3>1
  <2>3. /\ MotivationPoints(k) <= MotivationPoints(h)
        /\ ProgressPoints(k) <= ProgressPoints(h)
        /\ NeutralPoints(k) <= NeutralPoints(h)
    BY <1>2, <1>6, <1>8, <2>2, AnswerPoints
  <2> QED  BY <1>4, <2>3, PointsType, StreakType, FactorsDecide DEF RiskFalls
<1> QED
  BY <1>7, <1>8

LEMMA ProfileTypeInit == ProfileInit => ProfileTypeOK
<1> SUFFICES ASSUME NEW c \in Levels, NEW past \in Pasts,
                    profile = [EmptyHistory(c) EXCEPT
                                 !.att = [d \in Dates |-> IF d \in past THEN "yes" ELSE "none"]]
             PROVE  ProfileTypeOK
  BY DEF ProfileInit
<1>1. EmptyHistory(c) \in History
  BY ProfileAssumption, EmptyHistoryType
<1>2. [d \in Dates |-> IF d \in past THEN "yes" ELSE "none"] \in [Dates -> Marks]
  BY DEF Marks
<1> QED
  BY <1>1, <1>2 DEF ProfileTypeOK, History

LEMMA ProfileTypeStep ==
  ASSUME ProfileTypeOK, [ProfileNext]_profileVars
  PROVE  ProfileTypeOK'
<1>1. ASSUME NEW d \in EditedDates, NEW present \in BOOLEAN, MarkAttendance(d, present)
      PROVE  ProfileTypeOK'
  BY <1>1 DEF MarkAttendance, ProfileTypeOK, History, Marks
<1>2. ASSUME NEW d \in HomeworkDates, NEW done \in BOOLEAN, MarkHomework(d, done)
      PROVE  ProfileTypeOK'
  BY <1>2 DEF MarkHomework, ProfileTypeOK, History, Marks
<1>3. ASSUME NEW w \in Weeks, NEW answer \in SurveyAnswers, CheckIn(w, answer)
      PROVE  ProfileTypeOK'
  BY <1>3, ProfileAssumption DEF CheckIn, ProfileTypeOK, History
<1>4. ASSUME NEW c \in Levels, EditConfidence(c)
      PROVE  ProfileTypeOK'
  BY <1>4, ProfileAssumption DEF EditConfidence, ProfileTypeOK, History
<1>5. CASE UNCHANGED profileVars
  BY <1>5 DEF profileVars, ProfileTypeOK
<1> QED
  BY <1>1, <1>2, <1>3, <1>4, <1>5 DEF ProfileNext

(* The rows of a student keep their types, whatever is written over them   *)
(* (CreateAttendance, CreateHomework, CreateSurvey, UpdateStudent).       *)
THEOREM ProfileTypeCorrect == ProfileSpec => []ProfileTypeOK
BY ProfileTypeInit, ProfileTypeStep, PTL DEF ProfileSpec

(* A mark that becomes an absence, or a homework that becomes missed, never *)
(* lowers score or tier, and the opposite never raises them, for any dates  *)
(* and histories of any length (computeRisk, evaluateWithTriggers).       *)
THEOREM SignalsMonotoneHolds == ProfileSpec => SignalsMonotone
<1> DEFINE Moves ==
      /\ \A d \in Dates :
           /\ profile.att[d] # "no" /\ profile.att[d]' = "no" => RiskRises(profile, profile')
           /\ profile.att[d] # "yes" /\ profile.att[d]' = "yes" => RiskFalls(profile, profile')
      /\ \A d \in HomeworkDates :
           /\ profile.hw[d] # "no" /\ profile.hw[d]' = "no" => RiskRises(profile, profile')
           /\ profile.hw[d] # "yes" /\ profile.hw[d]' = "yes" => RiskFalls(profile, profile')
<1>1. ASSUME ProfileTypeOK, ProfileTypeOK', [ProfileNext]_profileVars
      PROVE  [Moves]_profileVars
  <2>0. profile \in History /\ profile' \in History
    BY <1>1 DEF ProfileTypeOK
  <2>1. ASSUME NEW c \in EditedDates, NEW present \in BOOLEAN, MarkAttendance(c, present)
        PROVE  Moves
    <3> DEFINE mark == IF present THEN "yes" ELSE "no"
    <3>1. profile' = [profile EXCEPT !.att[c] = mark] /\ c \in Dates /\ mark \in {"yes", "no"}
      BY <2>1 DEF MarkAttendance, EditedDates
    <3>2. /\ profile'.hw = profile.hw
          /\ profile'.att[c] = mark
          /\ \A d \in Dates : d # c => profile'.att[d] = profile.att[d]
      BY <2>0, <3>1 DEF History
    <3> HIDE DEF mark
    <3>3. profile.att[c] # mark =>
            IF mark = "no" THEN RiskRises(profile, profile') ELSE RiskFalls(profile, profile')
      BY <2>0, <3>1, AttendanceMoves
    <3> QED  BY <3>1, <3>2, <3>3
  <2>2. ASSUME NEW c \in HomeworkDates, NEW done \in BOOLEAN, MarkHomework(c, done)
        PROVE  Moves
    <3> DEFINE mark == IF done THEN "yes" ELSE "no"
    <3>1. profile' = [profile EXCEPT !.hw[c] = mark] /\ mark \in {"yes", "no"}
      BY <2>2 DEF MarkHomework
    <3>2. /\ profile'.att = profile.att
          /\ profile'.hw[c] = mark
          /\ \A d \in HomeworkDates : d # c => profile'.hw[d] = profile.hw[d]
      BY <2>0, <3>1 DEF History
    <3> HIDE DEF mark
    <3>3. profile.hw[c] # mark =>
            IF mark = "no" THEN RiskRises(profile, profile') ELSE RiskFalls(profile, profile')
      BY <2>0, <3>1, HomeworkMoves
    <3> QED  BY <3>1, <3>2, <3>3
  <2>3. ASSUME NEW w \in Weeks, NEW answer \in SurveyAnswers, CheckIn(w, answer)
        PROVE  Moves
    <3>1. profile'.att = profile.att /\ profile'.hw = profile.hw
      BY <2>0, <2>3 DEF CheckIn, History
    <3> QED  BY <3>1
  <2>4. ASSUME NEW c \in Levels, EditConfidence(c)
        PROVE  Moves
    <3>1. profile'.att = profile.att /\ profile'.hw = profile.hw
      BY <2>0, <2>4 DEF EditConfidence, History
    <3> QED  BY <3>1
  <2> QED  BY <1>1, <2>1, <2>2, <2>3, <2>4 DEF ProfileNext
<1> QED
  BY <1>1, ProfileTypeCorrect, PTL DEF ProfileSpec, SignalsMonotone

(* Only the check-in of the highest week counts, for any number of weeks   *)
(* and any answers (latestSurvey).                                        *)
THEOREM LatestCheckinDecidesHolds == ProfileSpec => LatestCheckinDecides
<1> DEFINE Decides(w) ==
      LET before == SurveyWeeks(profile)
          older  == \E v \in before : v > w
          newest == before # {} /\ \A v \in before : v <= w
          was    == LatestSurvey(profile)
          new    == profile.survey[w]'
      IN  profile.survey[w] # new =>
            /\ older => RiskRises(profile, profile') /\ RiskFalls(profile, profile')
            /\ newest /\ new.motivation >= was.motivation /\ new.progress >= was.progress
                 => RiskFalls(profile, profile')
<1>1. ASSUME ProfileTypeOK, ProfileTypeOK', [ProfileNext]_profileVars
      PROVE  [\A w \in Weeks : Decides(w)]_profileVars
  <2>0. profile \in History /\ profile' \in History
    BY <1>1 DEF ProfileTypeOK
  <2>1. ASSUME NEW w \in Weeks, profile'.survey[w] = profile.survey[w]
        PROVE  Decides(w)
    BY <2>1
  <2>2. ASSUME NEW d \in EditedDates, NEW present \in BOOLEAN, MarkAttendance(d, present)
        PROVE  profile'.survey = profile.survey
    BY <2>0, <2>2 DEF MarkAttendance, History
  <2>3. ASSUME NEW d \in HomeworkDates, NEW done \in BOOLEAN, MarkHomework(d, done)
        PROVE  profile'.survey = profile.survey
    BY <2>0, <2>3 DEF MarkHomework, History
  <2>4. ASSUME NEW c \in Levels, EditConfidence(c)
        PROVE  profile'.survey = profile.survey
    BY <2>0, <2>4 DEF EditConfidence, History
  <2>5. ASSUME NEW w \in Weeks, NEW answer \in SurveyAnswers, CheckIn(w, answer)
        PROVE  \A u \in Weeks : Decides(u)
    <3>1. profile' = [profile EXCEPT !.survey[w] = answer] /\ answer \in Surveys
      BY <2>5, ProfileAssumption DEF CheckIn
    <3>2. /\ profile'.survey[w] = answer
          /\ \A u \in Weeks : u # w => profile'.survey[u] = profile.survey[u]
      BY <2>0, <3>1 DEF History
    <3>3. SurveyWeeks(profile) # {} =>
            /\ (\E v \in SurveyWeeks(profile) : v > w) =>
                  RiskRises(profile, profile') /\ RiskFalls(profile, profile')
            /\ /\ \A v \in SurveyWeeks(profile) : v <= w
               /\ answer.motivation >= LatestSurvey(profile).motivation
               /\ answer.progress >= LatestSurvey(profile).progress
               => RiskFalls(profile, profile')
      BY <2>0, <3>1, CheckInMoves
    <3>4. Decides(w)
      BY <3>2, <3>3
    <3> QED  BY <2>1, <3>2, <3>4
  <2> QED  BY <1>1, <2>1, <2>2, <2>3, <2>4, <2>5 DEF ProfileNext
<1> QED
  BY <1>1, ProfileTypeCorrect, PTL DEF ProfileSpec, LatestCheckinDecides

-----------------------------------------------------------------------------
(* Lemmas on the operators the actions are built from.                    *)

LEMMA ApplyType ==
  ASSUME NEW h \in History, NEW write \in Write \cup {NoWrite}
  PROVE  Apply(h, write) \in History
<1>1. CASE write \in [kind : {"att"}, key : Dates, value : Marks \ {"none"}]
  BY <1>1 DEF Apply, History
<1>2. CASE write \in [kind : {"hw"}, key : HomeworkDates, value : Marks \ {"none"}]
  BY <1>2 DEF Apply, History
<1>3. CASE write \in [kind : {"survey"}, key : Weeks, value : Surveys]
  BY <1>3 DEF Apply, History
<1>4. CASE write = NoWrite
  BY <1>4 DEF Apply, NoWrite
<1> QED
  BY <1>1, <1>2, <1>3, <1>4 DEF Write

LEMMA ApplyNoWrite ==
  ASSUME NEW h
  PROVE  Apply(h, NoWrite) = h
BY DEF Apply, NoWrite

LEMMA OpenedType ==
  ASSUME NEW ts \in Seq(Task), NEW reasons \in Reasons
  PROVE  Opened(ts, reasons) \in Seq(Task)
<1>1. [status |-> "Open", reasons |-> reasons] \in Task
  BY DEF Task, Statuses
<1> QED
  BY <1>1 DEF Opened

LEMMA RefreshedType ==
  ASSUME NEW ts \in Seq(Task), NEW reasons \in Reasons
  PROVE  Refreshed(ts, reasons) \in Seq(Task)
<1>1. DOMAIN ts = 1..Len(ts) /\ Len(ts) \in Nat
  OBVIOUS
<1>2. ASSUME NEW i \in 1..Len(ts)
      PROVE  ts[i] \in Task /\ [ts[i] EXCEPT !.reasons = reasons] \in Task
  <2>1. ts[i] \in Task
    OBVIOUS
  <2> QED
    BY <2>1 DEF Task
<1>3. Refreshed(ts, reasons) \in [1..Len(ts) -> Task]
  BY <1>1, <1>2 DEF Refreshed
<1> QED
  BY <1>1, <1>3

(* A new task is the only unresolved one when no other was in its way.     *)
LEMMA OpenedOne ==
  ASSUME NEW ts \in Seq(Task), NEW reasons \in Reasons,
         \A i, j \in Unresolved(ts) : i = j, reasons = {} \/ ~InTheWay(ts)
  PROVE  \A i, j \in Unresolved(Opened(ts, reasons)) : i = j
<1> DEFINE opened == Append(ts, [status |-> "Open", reasons |-> reasons])
<1>1. CASE reasons = {}
  BY <1>1 DEF Opened
<1>2. CASE reasons # {} /\ Unresolved(ts) = {}
  <2>1. Opened(ts, reasons) = opened
    BY <1>2 DEF Opened
  <2>2. /\ DOMAIN opened = 1..Len(ts) + 1
        /\ \A i \in 1..Len(ts) : opened[i] = ts[i]
    OBVIOUS
  <2>3. \A i \in Unresolved(opened) : i = Len(ts) + 1
    BY <1>2, <2>2 DEF Unresolved
  <2> QED
    BY <2>1, <2>3
<1> QED
  BY <1>1, <1>2 DEF InTheWay

(* A refresh rewrites reasons and leaves every status as it is.            *)
LEMMA RefreshedStatus ==
  ASSUME NEW ts \in Seq(Task), NEW reasons \in Reasons
  PROVE  /\ DOMAIN Refreshed(ts, reasons) = DOMAIN ts
         /\ Unresolved(Refreshed(ts, reasons)) = Unresolved(ts)
         /\ \A i \in Unresolved(ts) : Refreshed(ts, reasons)[i].reasons = reasons
<1>1. DOMAIN Refreshed(ts, reasons) = DOMAIN ts
  BY DEF Refreshed
<1>2. ASSUME NEW i \in DOMAIN ts
      PROVE  /\ Refreshed(ts, reasons)[i].status = ts[i].status
             /\ i \in Unresolved(ts) => Refreshed(ts, reasons)[i].reasons = reasons
  <2>1. ts[i] \in Task
    OBVIOUS
  <2> QED
    BY <2>1 DEF Refreshed, Task
<1> QED
  BY <1>1, <1>2 DEF Unresolved

LEMMA BeginType ==
  ASSUME NEW s \in Students, NEW write \in Write \cup {NoWrite},
         NEW pc \in {"picked", "read"}
  PROVE  Begin(s, write, pc) \in Tx
BY DEF Begin, Tx, Outcomes, NoOutcome, Tiers, Reasons

LEMMA OvertakeType ==
  ASSUME NEW t \in [Procs -> Tx \cup {Idle}], NEW s
  PROVE  Overtake(t, s) \in [Procs -> Tx \cup {Idle}]
<1>1. \A p \in Procs : (IF /\ t[p].pc = "persist" /\ t[p].student = s
                        THEN [t[p] EXCEPT !.overtaken = TRUE] ELSE t[p]) \in Tx \cup {Idle}
  BY DEF Tx, Idle
<1> QED
  BY <1>1 DEF Overtake

LEMMA InitiallyType ==
  ASSUME NEW c \in 1..10
  PROVE  Initially(c) \in Risk
BY EmptyHistoryType, ScoreType, TierType DEF Initially, Risk

(* A process that is not idle is in a transaction.                        *)
LEMMA BusyType ==
  ASSUME TypeOK, NEW p \in Procs, tx[p].pc # "idle"
  PROVE  tx[p] \in Tx
BY DEF TypeOK, Idle

-----------------------------------------------------------------------------
(* Type correctness.                                                      *)

LEMMA InitType == Init => TypeOK
<1> SUFFICES ASSUME Init PROVE TypeOK
  OBVIOUS
<1>1. EmptyHistory(1) \in History /\ Initially(1) \in Risk
  BY EmptyHistoryType, InitiallyType
<1>2. <<>> \in Seq(Task)
  OBVIOUS
<1> QED
  BY <1>1, <1>2, RetentionAssumption DEF Init, TypeOK

(* A request that begins with a well-formed row keeps the types.          *)
LEMMA RequestType ==
  ASSUME TypeOK, NEW w \in Workers, NEW s \in Students, NEW write \in Write,
         Request(w, s, write)
  PROVE  TypeOK'
<1>1. Begin(s, write, "read") \in Tx
  BY BeginType
<1>2. tx' \in [Procs -> Tx \cup {Idle}]
  BY <1>1 DEF TypeOK, Request, Procs
<1>3. budget' \in Nat
  BY DEF TypeOK, Request
<1> QED
  BY <1>2, <1>3 DEF TypeOK, Request

LEMMA ClientStepType ==
  ASSUME TypeOK, NEW w \in Workers, NEW s \in Students, ClientStep(w, s)
  PROVE  TypeOK'
<1>1. ASSUME NEW c \in Confidences, UpdateStudent(w, s, c)
      PROVE  TypeOK'
  <2>1. [history[s] EXCEPT !.confidence = c] \in History
    <3>1. c \in 1..10 /\ history[s] \in History
      BY RetentionAssumption DEF TypeOK
    <3> QED
      BY <3>1 DEF History
  <2>2. history' \in [Students -> History]
    BY <1>1, <2>1 DEF UpdateStudent, TypeOK
  <2>3. tx' \in [Procs -> Tx \cup {Idle}]
    <3>1. Overtake(tx, s) \in [Procs -> Tx \cup {Idle}]
      BY OvertakeType DEF TypeOK
    <3>2. Begin(s, NoWrite, "read") \in Tx
      BY BeginType
    <3> QED
      BY <1>1, <3>1, <3>2 DEF UpdateStudent
  <2>4. stale' \in [Students -> BOOLEAN] /\ budget' \in Nat
    BY <1>1 DEF UpdateStudent, TypeOK
  <2> QED
    BY <1>1, <2>2, <2>3, <2>4 DEF UpdateStudent, TypeOK
<1>2. ASSUME NEW d \in Dates, NEW present \in BOOLEAN, RecordAttendance(w, s, d, present)
      PROVE  TypeOK'
  <2>1. [kind |-> "att", key |-> d, value |-> IF present THEN "yes" ELSE "no"] \in Write
    BY DEF Write, Marks
  <2> QED
    BY <1>2, <2>1, RequestType DEF RecordAttendance
<1>3. ASSUME NEW d \in HomeworkDates, NEW done \in BOOLEAN, RecordHomework(w, s, d, done)
      PROVE  TypeOK'
  <2>1. [kind |-> "hw", key |-> d, value |-> IF done THEN "yes" ELSE "no"] \in Write
    BY DEF Write, Marks
  <2> QED
    BY <1>3, <2>1, RequestType DEF RecordHomework
<1>4. ASSUME NEW week \in Weeks, NEW answer \in Answers, SubmitSurvey(w, s, week, answer)
      PROVE  TypeOK'
  <2>1. [kind |-> "survey", key |-> week, value |-> answer] \in Write
    BY RetentionAssumption DEF Write
  <2> QED
    BY <1>4, <2>1, RequestType DEF SubmitSurvey
<1>5. ASSUME NEW answer \in Answers, PickWeek(w, s, answer)
      PROVE  TypeOK'
  <2> DEFINE week == NextWeek(history[s])
  <2>1. [kind |-> "survey", key |-> week, value |-> answer] \in Write
    BY <1>5, RetentionAssumption DEF Write, PickWeek
  <2> HIDE DEF week
  <2>2. Begin(s, [kind |-> "survey", key |-> week, value |-> answer], "picked") \in Tx
    BY <2>1, BeginType
  <2>3. tx' \in [Procs -> Tx \cup {Idle}]
    BY <1>5, <2>2 DEF PickWeek, TypeOK, week
  <2>4. budget' \in Nat
    BY <1>5 DEF PickWeek, TypeOK
  <2> QED
    BY <1>5, <2>3, <2>4 DEF PickWeek, TypeOK
<1> QED
  BY <1>1, <1>2, <1>3, <1>4, <1>5 DEF ClientStep

LEMMA StaffStepType ==
  ASSUME TypeOK, NEW s \in Students, StaffStep(s)
  PROVE  TypeOK'
<1>1. ASSUME NEW c \in Confidences, CreateStudent(s, c)
      PROVE  TypeOK'
  <2>1. EmptyHistory(c) \in History /\ Initially(c) \in Risk
    BY RetentionAssumption, EmptyHistoryType, InitiallyType
  <2> QED
    BY <1>1, <2>1 DEF CreateStudent, TypeOK
<1>2. CASE DeleteStudent(s)
  <2>1. EmptyHistory(1) \in History /\ Initially(1) \in Risk /\ <<>> \in Seq(Task)
    BY EmptyHistoryType, InitiallyType
  <2>2. budget' \in Nat
    BY <1>2 DEF DeleteStudent, TypeOK
  <2> QED
    BY <1>2, <2>1, <2>2 DEF DeleteStudent, TypeOK
<1>3. ASSUME NEW i \in DOMAIN tasks[s], NEW status \in Statuses,
             tasks' = [tasks EXCEPT ![s][i].status = status]
      PROVE  tasks' \in [Students -> Seq(Task)]
  <2>1. tasks[s] \in Seq(Task) /\ tasks[s][i] \in Task
    BY DEF TypeOK
  <2>2. [tasks[s][i] EXCEPT !.status = status] \in Task
    BY <2>1 DEF Task
  <2>3. [tasks[s] EXCEPT ![i] = [tasks[s][i] EXCEPT !.status = status]] \in Seq(Task)
    BY <2>1, <2>2
  <2> QED
    BY <1>3, <2>3 DEF TypeOK
<1>4. ASSUME NEW i \in DOMAIN tasks[s], StartTask(s, i) \/ ResolveTask(s, i)
      PROVE  TypeOK'
  <2>1. tasks' \in [Students -> Seq(Task)]
    BY <1>3, <1>4 DEF StartTask, ResolveTask, Statuses
  <2>2. CASE StartTask(s, i)
    BY <2>1, <2>2 DEF StartTask, TypeOK
  <2>3. CASE ResolveTask(s, i)
    <3>1. \A p \in Procs : (IF tx[p].pc = "refresh" /\ tx[p].student = s
                            THEN [tx[p] EXCEPT !.resolved = TRUE] ELSE tx[p]) \in Tx \cup {Idle}
      <4> SUFFICES ASSUME NEW p \in Procs, tx[p].pc = "refresh"
                   PROVE  [tx[p] EXCEPT !.resolved = TRUE] \in Tx
        BY DEF TypeOK
      <4>1. tx[p] \in Tx
        BY BusyType
      <4> QED
        BY <4>1 DEF Tx
    <3>2. tx' \in [Procs -> Tx \cup {Idle}]
      BY <2>3, <3>1 DEF ResolveTask
    <3> QED
      BY <2>1, <2>3, <3>2 DEF ResolveTask, TypeOK
  <2> QED
    BY <1>4, <2>2, <2>3
<1> QED
  BY <1>1, <1>2, <1>4 DEF StaffStep

(* What a transaction in the middle has about it.                          *)
LEMMA TxFields ==
  ASSUME TypeOK, NEW p \in Procs, tx[p].pc # "idle"
  PROVE  /\ tx[p] \in Tx /\ tx[p].student \in Students
         /\ tx[p].write \in Write \cup {NoWrite}
         /\ tx[p].outcome \in Outcomes /\ tx[p].outcome.reasons \in Reasons
         /\ tx[p].overtaken \in BOOLEAN
<1>1. tx[p] \in Tx
  BY BusyType
<1> QED
  BY <1>1 DEF Tx, Outcomes

LEMMA CommitType ==
  ASSUME TypeOK, NEW p \in Procs, tx[p].pc # "idle", NEW ts \in Seq(Task),
         Commit(p, tx[p].student, ts)
  PROVE  TypeOK'
<1> DEFINE t == tx[p]
           s == tx[p].student
<1>0. t \in Tx /\ s \in Students
  BY TxFields
<1>1. Apply(history[s], t.write) \in History
  <2>1. history[s] \in History /\ t.write \in Write \cup {NoWrite}
    BY TxFields DEF TypeOK
  <2> QED
    BY <2>1, ApplyType
<1>2. [score |-> t.outcome.score, tier |-> t.outcome.tier] \in Risk
  BY TxFields DEF Outcomes, Risk
<1>3. tx' \in [Procs -> Tx \cup {Idle}]
  <2>1. Overtake(tx, s) \in [Procs -> Tx \cup {Idle}]
    BY OvertakeType DEF TypeOK
  <2> QED
    BY <2>1 DEF Commit, TypeOK
<1>4. history' \in [Students -> History]
  BY <1>0, <1>1 DEF Commit, TypeOK
<1>5. stored' \in [Students -> Risk]
  BY <1>0, <1>2 DEF Commit, TypeOK
<1>6. tasks' \in [Students -> Seq(Task)]
  BY <1>0 DEF Commit, TypeOK
<1>7. stale' \in [Students -> BOOLEAN]
  BY <1>0, TxFields DEF Commit, TypeOK
<1> QED
  BY <1>3, <1>4, <1>5, <1>6, <1>7 DEF Commit, TypeOK

LEMMA PersistType ==
  ASSUME TypeOK, NEW p \in Procs, Persist(p) \/ RefreshReasons(p)
  PROVE  TypeOK'
<1>1. CASE PersistRisk(p)
  <2>1. Opened(tasks[tx[p].student], tx[p].outcome.reasons) \in Seq(Task)
    BY <1>1, TxFields, OpenedType DEF PersistRisk, TypeOK
  <2> QED
    BY <1>1, <2>1, CommitType DEF PersistRisk
<1>2. CASE FindTask(p)
  <2>1. [tx[p] EXCEPT !.pc = "refresh"] \in Tx
    BY <1>2, BusyType DEF FindTask, Tx
  <2>2. tx' \in [Procs -> Tx \cup {Idle}]
    BY <1>2, <2>1 DEF FindTask, TypeOK
  <2> QED
    BY <1>2, <2>2 DEF FindTask, TypeOK
<1>3. CASE MissStudent(p)
  <2>1. job' \subseteq Students
    BY <1>3 DEF MissStudent, JobAfterError, TypeOK
  <2>2. tx' \in [Procs -> Tx \cup {Idle}]
    BY <1>3 DEF MissStudent, TypeOK
  <2> QED
    BY <1>3, <2>1, <2>2 DEF MissStudent, TypeOK
<1>4. CASE RefreshReasons(p)
  <2>1. Refreshed(tasks[tx[p].student], tx[p].outcome.reasons) \in Seq(Task)
    BY <1>4, TxFields, RefreshedType DEF RefreshReasons, TypeOK
  <2> QED
    BY <1>4, <2>1, CommitType DEF RefreshReasons
<1> QED
  BY <1>1, <1>2, <1>3, <1>4 DEF Persist

LEMMA TransactionType ==
  ASSUME TypeOK, NEW p \in Procs,
         SubmitPicked(p) \/ ReadSignals(p) \/ Persist(p) \/ RefreshReasons(p) \/ Fail(p)
  PROVE  TypeOK'
<1> DEFINE t == tx[p]
           s == tx[p].student
<1>0. \A u \in Tx \cup {Idle} : [tx EXCEPT ![p] = u] \in [Procs -> Tx \cup {Idle}]
  BY DEF TypeOK
<1>1. CASE SubmitPicked(p)
  <2>1. tx[p] \in Tx
    BY <1>1, BusyType DEF SubmitPicked
  <2>2. [tx[p] EXCEPT !.pc = "read"] \in Tx
    BY <2>1 DEF Tx
  <2>3. tx' \in [Procs -> Tx \cup {Idle}]
    BY <1>1, <2>2 DEF SubmitPicked, TypeOK
  <2> QED
    BY <1>1, <2>3 DEF SubmitPicked, TypeOK
<1>2. CASE ReadSignals(p)
  <2>1. tx[p] \in Tx /\ s \in Students
    <3>1. tx[p] \in Tx
      BY <1>2, BusyType DEF ReadSignals
    <3> QED
      BY <3>1 DEF Tx
  <2>2. CASE s \in Enrolled
    <3> DEFINE seen    == Apply(history[s], tx[p].write)
               outcome == Outcome(seen, stored[s].score)
    <3>1. seen \in History
      <4>1. history[s] \in History /\ tx[p].write \in Write \cup {NoWrite}
        BY <2>1 DEF TypeOK, Tx
      <4> QED
        BY <4>1, ApplyType
    <3>2. outcome \in Outcomes
      <4>1. stored[s].score \in Int
        <5>1. stored[s] \in Risk
          BY <2>1 DEF TypeOK
        <5>2. \A risk \in Risk : risk.score \in 0..100
          BY DEF Risk
        <5> QED
          BY <5>1, <5>2
      <4> QED
        BY <3>1, <4>1, OutcomeType
    <3> HIDE DEF outcome
    <3>3. [[tx[p] EXCEPT !.pc = "persist"] EXCEPT !.outcome = outcome] \in Tx
      BY <2>1, <3>2 DEF Tx
    <3>4. tx' = [tx EXCEPT ![p].pc = "persist", ![p].outcome = outcome] /\ job' = job
      BY <1>2, <2>2 DEF ReadSignals, outcome
    <3>5. tx' \in [Procs -> Tx \cup {Idle}]
      BY <3>3, <3>4 DEF TypeOK
    <3> QED
      BY <1>2, <3>4, <3>5 DEF ReadSignals, TypeOK
  <2>3. CASE s \notin Enrolled
    <3>1. job' \subseteq Students
      BY <1>2, <2>3 DEF ReadSignals, JobAfterError, TypeOK
    <3> QED
      BY <1>2, <2>3, <3>1, <1>0 DEF ReadSignals, TypeOK
  <2> QED
    BY <2>2, <2>3
<1>3. CASE Persist(p) \/ RefreshReasons(p)
  BY <1>3, PersistType
<1>4. CASE Fail(p)
  <2>1. job' \subseteq Students /\ budget' \in Nat
    BY <1>4 DEF Fail, JobAfterError, TypeOK
  <2> QED
    BY <1>4, <2>1, <1>0 DEF Fail, TypeOK
<1> QED
  BY <1>1, <1>2, <1>3, <1>4

LEMMA JobStepType ==
  ASSUME TypeOK, JobStep
  PROVE  TypeOK'
<1>1. CASE ListForRecompute
  BY <1>1 DEF ListForRecompute, Enrolled, TypeOK
<1>2. ASSUME NEW s \in Students, RecomputeNext(s)
      PROVE  TypeOK'
  <2>1. Begin(s, NoWrite, "read") \in Tx
    BY BeginType
  <2>2. tx' \in [Procs -> Tx \cup {Idle}]
    BY <1>2, <2>1 DEF RecomputeNext, TypeOK
  <2> QED
    BY <1>2, <2>2 DEF RecomputeNext, TypeOK
<1> QED
  BY <1>1, <1>2 DEF JobStep

LEMMA TypeStep == TypeOK /\ [Next]_vars => TypeOK'
<1> SUFFICES ASSUME TypeOK, [Next]_vars PROVE TypeOK'
  OBVIOUS
<1>1. CASE UNCHANGED vars
  BY <1>1 DEF vars, TypeOK
<1>2. ASSUME NEW w \in Workers, NEW s \in Students, ClientStep(w, s)
      PROVE  TypeOK'
  BY <1>2, ClientStepType
<1>3. ASSUME NEW s \in Students, StaffStep(s)
      PROVE  TypeOK'
  BY <1>3, StaffStepType
<1>4. ASSUME NEW w \in Workers, SubmitPicked(w)
      PROVE  TypeOK'
  BY <1>4, TransactionType DEF Procs
<1>5. ASSUME NEW p \in Procs,
             ReadSignals(p) \/ Persist(p) \/ RefreshReasons(p) \/ Fail(p)
      PROVE  TypeOK'
  BY <1>5, TransactionType
<1>6. CASE JobStep
  BY <1>6, JobStepType
<1> QED
  BY <1>1, <1>2, <1>3, <1>4, <1>5, <1>6 DEF Next

(* Every variable keeps its type: in particular no stored score leaves     *)
(* 0..100, whatever history it is computed from.                           *)
THEOREM TypeCorrect == Spec => []TypeOK
BY InitType, TypeStep, PTL DEF Spec

-----------------------------------------------------------------------------
(* One unresolved task per student.                                       *)

(* What a step can do to the tasks of one student.                        *)
TasksMove(s) ==
  \/ tasks'[s] = tasks[s]
  \/ roster'[s] = "deleted" /\ tasks'[s] = <<>>
  \/ \E i \in DOMAIN tasks[s], status \in Statuses :
       /\ tasks[s][i].status # "Resolved"
       /\ tasks'[s] = [tasks[s] EXCEPT ![i].status = status]
  \/ \E reasons \in Reasons :
       /\ reasons = {} \/ ~InTheWay(tasks[s])
       /\ tasks'[s] = Opened(tasks[s], reasons)
  \/ \E reasons \in Reasons : tasks'[s] = Refreshed(tasks[s], reasons)

LEMMA TasksMoveStep ==
  ASSUME TypeOK, [Next]_vars, NEW s \in Students
  PROVE  TasksMove(s)
<1>1. CASE UNCHANGED vars
  BY <1>1 DEF vars, TasksMove
<1>2. ASSUME NEW w \in Workers, NEW u \in Students, ClientStep(w, u)
      PROVE  TasksMove(s)
  BY <1>2 DEF ClientStep, UpdateStudent, RecordAttendance, RecordHomework, SubmitSurvey,
              Request, PickWeek, TasksMove
<1>3. ASSUME NEW u \in Students, StaffStep(u)
      PROVE  TasksMove(s)
  <2>1. ASSUME NEW c \in Confidences, CreateStudent(u, c)
        PROVE  TasksMove(s)
    BY <2>1 DEF CreateStudent, TasksMove
  <2>2. CASE DeleteStudent(u)
    <3>1. roster'[u] = "deleted" /\ tasks'[u] = <<>>
      BY <2>2 DEF DeleteStudent, TypeOK
    <3>2. s # u => tasks'[s] = tasks[s]
      BY <2>2 DEF DeleteStudent, TypeOK
    <3> QED
      BY <3>1, <3>2 DEF TasksMove
  <2>3. ASSUME NEW i \in DOMAIN tasks[u], StartTask(u, i) \/ ResolveTask(u, i)
        PROVE  TasksMove(s)
    <3>1. PICK status \in Statuses : tasks' = [tasks EXCEPT ![u][i].status = status]
      BY <2>3 DEF StartTask, ResolveTask, Statuses
    <3>2. tasks[u][i].status # "Resolved"
      BY <2>3 DEF StartTask, ResolveTask, Unresolved
    <3>3. s # u => tasks'[s] = tasks[s]
      BY <3>1 DEF TypeOK
    <3>4. tasks'[u] = [tasks[u] EXCEPT ![i].status = status]
      BY <3>1 DEF TypeOK
    <3> QED
      BY <3>2, <3>3, <3>4 DEF TasksMove
  <2> QED
    BY <1>3, <2>1, <2>2, <2>3 DEF StaffStep
<1>4. ASSUME NEW w \in Workers, SubmitPicked(w)
      PROVE  TasksMove(s)
  BY <1>4 DEF SubmitPicked, TasksMove
<1>5. ASSUME NEW p \in Procs, ReadSignals(p)
      PROVE  TasksMove(s)
  BY <1>5 DEF ReadSignals, TasksMove
<1>6. ASSUME NEW p \in Procs, Persist(p) \/ RefreshReasons(p)
      PROVE  TasksMove(s)
  <2> DEFINE u == tx[p].student
             r == tx[p].outcome.reasons
  <2>0. u \in Students /\ r \in Reasons
    BY <1>6, TxFields DEF Persist, PersistRisk, FindTask, MissStudent, RefreshReasons
  <2>1. CASE PersistRisk(p)
    <3>1. tasks' = [tasks EXCEPT ![u] = Opened(tasks[u], r)] /\ (r = {} \/ ~InTheWay(tasks[u]))
      BY <2>1 DEF PersistRisk, Commit
    <3> HIDE DEF u, r
    <3> QED
      BY <2>0, <3>1 DEF TypeOK, TasksMove
  <2>2. CASE FindTask(p) \/ MissStudent(p)
    BY <2>2 DEF FindTask, MissStudent, TasksMove
  <2>3. CASE RefreshReasons(p)
    <3>1. tasks' = [tasks EXCEPT ![u] = Refreshed(tasks[u], r)]
      BY <2>3 DEF RefreshReasons, Commit
    <3> HIDE DEF u, r
    <3> QED
      BY <2>0, <3>1 DEF TypeOK, TasksMove
  <2> QED
    BY <1>6, <2>1, <2>2, <2>3 DEF Persist
<1>7. ASSUME NEW p \in Procs, Fail(p)
      PROVE  TasksMove(s)
  BY <1>7 DEF Fail, TasksMove
<1>8. CASE JobStep
  BY <1>8 DEF JobStep, ListForRecompute, RecomputeNext, TasksMove
<1> QED
  BY <1>1, <1>2, <1>3, <1>4, <1>5, <1>6, <1>7, <1>8 DEF Next

(* The one-open-per-student index and the ON CONFLICT of the auto-open     *)
(* keep at most one unresolved task through every interleaving.            *)
THEOREM OneOpenTaskHolds == Spec => []OneOpenTask
<1>1. Init => OneOpenTask
  BY DEF Init, OneOpenTask, Unresolved
<1>2. TypeOK /\ OneOpenTask /\ [Next]_vars => OneOpenTask'
  <2> SUFFICES ASSUME TypeOK, OneOpenTask, [Next]_vars, NEW s \in Students
               PROVE  \A i, j \in Unresolved(tasks'[s]) : i = j
    BY DEF OneOpenTask, Unresolved
  <2>1. tasks[s] \in Seq(Task) /\ \A i, j \in Unresolved(tasks[s]) : i = j
    BY DEF TypeOK, OneOpenTask
  <2>2. CASE tasks'[s] = tasks[s] \/ tasks'[s] = <<>>
    BY <2>1, <2>2 DEF Unresolved
  <2>3. ASSUME NEW k \in DOMAIN tasks[s], NEW status \in Statuses,
               tasks[s][k].status # "Resolved",
               tasks'[s] = [tasks[s] EXCEPT ![k].status = status]
        PROVE  \A i, j \in Unresolved(tasks'[s]) : i = j
    <3>1. \A i \in Unresolved(tasks'[s]) : i \in Unresolved(tasks[s])
      BY <2>3 DEF Unresolved
    <3> QED
      BY <2>1, <3>1
  <2>4. ASSUME NEW reasons \in Reasons, reasons = {} \/ ~InTheWay(tasks[s]),
               tasks'[s] = Opened(tasks[s], reasons)
        PROVE  \A i, j \in Unresolved(tasks'[s]) : i = j
    BY <2>1, <2>4, OpenedOne
  <2>5. ASSUME NEW reasons \in Reasons, tasks'[s] = Refreshed(tasks[s], reasons)
        PROVE  \A i, j \in Unresolved(tasks'[s]) : i = j
    BY <2>1, <2>5, RefreshedStatus
  <2> QED
    BY <2>2, <2>3, <2>4, <2>5, TasksMoveStep DEF TasksMove
<1> QED
  BY <1>1, <1>2, TypeCorrect, PTL DEF Spec

(* No step reopens or rewrites a resolved task of a student who is there:  *)
(* Start and Resolve skip it, the refresh passes over it.                  *)
THEOREM ResolvedIsFinalHolds == Spec => ResolvedIsFinal
<1>1. TypeOK /\ [Next]_vars =>
        [\A s \in Students : roster'[s] = "enrolled" =>
           \A i \in DOMAIN tasks[s] \ Unresolved(tasks[s]) :
             i \in DOMAIN tasks'[s] /\ tasks'[s][i] = tasks[s][i]]_vars
  <2> SUFFICES ASSUME TypeOK, [Next]_vars, NEW s \in Students, roster'[s] = "enrolled",
                      NEW i \in DOMAIN tasks[s] \ Unresolved(tasks[s])
               PROVE  i \in DOMAIN tasks'[s] /\ tasks'[s][i] = tasks[s][i]
    OBVIOUS
  <2>1. tasks[s] \in Seq(Task) /\ tasks[s][i].status = "Resolved"
    BY DEF TypeOK, Unresolved
  <2>2. CASE tasks'[s] = tasks[s]
    BY <2>2
  <2>3. ASSUME NEW k \in DOMAIN tasks[s], NEW status \in Statuses,
               tasks[s][k].status # "Resolved",
               tasks'[s] = [tasks[s] EXCEPT ![k].status = status]
        PROVE  i \in DOMAIN tasks'[s] /\ tasks'[s][i] = tasks[s][i]
    BY <2>1, <2>3
  <2>4. ASSUME NEW reasons \in Reasons,
               \/ tasks'[s] = Opened(tasks[s], reasons)
               \/ tasks'[s] = Refreshed(tasks[s], reasons)
        PROVE  i \in DOMAIN tasks'[s] /\ tasks'[s][i] = tasks[s][i]
    <3>1. i \in DOMAIN tasks[s] /\ i \notin Unresolved(tasks[s])
      OBVIOUS
    <3>2. CASE tasks'[s] = Opened(tasks[s], reasons)
      BY <2>1, <3>1, <3>2 DEF Opened
    <3>3. CASE tasks'[s] = Refreshed(tasks[s], reasons)
      BY <2>1, <3>1, <3>3 DEF Refreshed
    <3> QED
      BY <2>4, <3>2, <3>3
  <2> QED
    BY <2>2, <2>3, <2>4, TasksMoveStep DEF TasksMove
<1> QED
  BY <1>1, TypeCorrect, PTL DEF Spec, ResolvedIsFinal

-----------------------------------------------------------------------------
(***************************************************************************)
(* Transactions in the middle: what one step makes of them (TxMove), and   *)
(* that a transaction about to refresh a task holds the row of a student   *)
(* who is there, alone, and still has a task to refresh unless staff       *)
(* resolved it (RowsHeld).                                                 *)
(***************************************************************************)
TxMove(q) ==
  \/ tx'[q] = tx[q]
  \/ tx'[q] = Idle
  \/ \E s \in Students, pc \in {"picked", "read"} : \E write :
       (roster[s] = "enrolled" \/ s \in job) /\ tx'[q] = Begin(s, write, pc)
  \/ tx[q].pc = "picked" /\ tx'[q] = [tx[q] EXCEPT !.pc = "read"]
  \/ /\ tx[q].pc = "read" /\ history' = history
     /\ tx'[q] = [[tx[q] EXCEPT !.pc = "persist"] EXCEPT !.outcome =
                    Outcome(Apply(history[tx[q].student], tx[q].write),
                            stored[tx[q].student].score)]
  \/ FindTask(q) /\ tx'[q] = [tx[q] EXCEPT !.pc = "refresh"]
  \/ tx[q].pc = "persist" /\ tx'[q] = [tx[q] EXCEPT !.overtaken = TRUE]
  \/ tx[q].pc = "refresh" /\ tx'[q] = [tx[q] EXCEPT !.resolved = TRUE]

LEMMA OvertakeMove ==
  ASSUME NEW q \in Procs, NEW s
  PROVE  \/ Overtake(tx, s)[q] = tx[q] /\ (tx[q].pc # "persist" \/ tx[q].student # s)
         \/ /\ tx[q].pc = "persist" /\ tx[q].student = s
            /\ Overtake(tx, s)[q] = [tx[q] EXCEPT !.overtaken = TRUE]
BY DEF Overtake

LEMMA BeginMove ==
  ASSUME TypeOK, NEW q \in Procs, NEW w \in Procs, NEW s \in Students, NEW write,
         NEW pc \in {"picked", "read"}, roster[s] = "enrolled" \/ s \in job,
         NEW t \in {tx, Overtake(tx, s)}, tx' = [t EXCEPT ![w] = Begin(s, write, pc)]
  PROVE  TxMove(q)
<1>1. q \in DOMAIN t
  BY DEF TypeOK, Overtake
<1>2. CASE q = w
  <2>1. tx'[q] = Begin(s, write, pc)
    BY <1>1, <1>2
  <2>2. \E u \in Students, c \in {"picked", "read"} : \E v :
          (roster[u] = "enrolled" \/ u \in job) /\ tx'[q] = Begin(u, v, c)
    BY <2>1, Zenon
  <2> QED
    BY <2>2, Zenon DEF TxMove
<1>3. CASE q # w
  <2>1. tx'[q] = t[q]
    BY <1>1, <1>3
  <2> QED
    BY <2>1, OvertakeMove DEF TxMove
<1> QED
  BY <1>2, <1>3

LEMMA CommitMove ==
  ASSUME TypeOK, NEW p \in Procs, NEW q \in Procs, NEW s, NEW ts, Commit(p, s, ts)
  PROVE  /\ q = p => tx'[q] = Idle
         /\ q # p =>
              \/ /\ tx'[q] = tx[q]
                 /\ tx[q].pc # "persist" \/ tx[q].student # s \/ tx[p].write = NoWrite
              \/ /\ tx[q].pc = "persist" /\ tx[q].student = s
                 /\ tx'[q] = [tx[q] EXCEPT !.overtaken = TRUE]
<1> DEFINE t == IF tx[p].write = NoWrite THEN tx ELSE Overtake(tx, s)
<1>1. tx' = [t EXCEPT ![p] = Idle]
  BY DEF Commit
<1>2. DOMAIN t = Procs
  BY DEF TypeOK, Overtake
<1>3. (t[q] = tx[q] /\ tx[p].write = NoWrite) \/ t[q] = Overtake(tx, s)[q]
  OBVIOUS
<1> HIDE DEF t
<1> QED
  BY <1>1, <1>2, <1>3, OvertakeMove

LEMMA TxMoveStep ==
  ASSUME TypeOK, [Next]_vars, NEW q \in Procs
  PROVE  TxMove(q)
<1>1. CASE UNCHANGED vars
  BY <1>1 DEF vars, TxMove
<1>2. ASSUME NEW w \in Workers, NEW s \in Students, ClientStep(w, s)
      PROVE  TxMove(q)
  <2>1. ASSUME NEW c \in Confidences, UpdateStudent(w, s, c)
        PROVE  TxMove(q)
    BY <2>1, BeginMove DEF UpdateStudent, Procs
  <2>2. ASSUME NEW write, Request(w, s, write)
        PROVE  TxMove(q)
    BY <2>2, BeginMove DEF Request, Procs
  <2>3. ASSUME NEW answer \in Answers, PickWeek(w, s, answer)
        PROVE  TxMove(q)
    BY <2>3, BeginMove DEF PickWeek, Procs
  <2> QED
    BY <1>2, <2>1, <2>2, <2>3 DEF ClientStep, RecordAttendance, RecordHomework, SubmitSurvey
<1>3. ASSUME NEW s \in Students, StaffStep(s)
      PROVE  TxMove(q)
  <2>1. ASSUME NEW i \in DOMAIN tasks[s], ResolveTask(s, i)
        PROVE  TxMove(q)
    <3>1. tx'[q] = IF tx[q].pc = "refresh" /\ tx[q].student = s
                   THEN [tx[q] EXCEPT !.resolved = TRUE] ELSE tx[q]
      BY <2>1 DEF ResolveTask
    <3> QED
      BY <3>1 DEF TxMove
  <2>2. CASE UNCHANGED tx
    BY <2>2 DEF TxMove
  <2> QED
    BY <1>3, <2>1, <2>2 DEF StaffStep, CreateStudent, DeleteStudent, StartTask
<1>4. ASSUME NEW w \in Workers, SubmitPicked(w)
      PROVE  TxMove(q)
  <2>1. CASE q # w
    BY <1>4, <2>1 DEF SubmitPicked, TypeOK, TxMove
  <2>2. CASE q = w
    <3>1. tx'[q] = Idle \/ tx'[q] = [tx[q] EXCEPT !.pc = "read"]
      BY <1>4, <2>2 DEF SubmitPicked, TypeOK
    <3>2. tx[q].pc = "picked"
      BY <1>4, <2>2 DEF SubmitPicked
    <3> QED
      BY <3>1, <3>2 DEF TxMove
  <2> QED
    BY <2>1, <2>2
<1>5. ASSUME NEW p \in Procs, ReadSignals(p)
      PROVE  TxMove(q)
  <2>1. CASE q # p
    BY <1>5, <2>1 DEF ReadSignals, TypeOK, TxMove
  <2>2. CASE q = p
    <3> DEFINE o == Outcome(Apply(history[tx[q].student], tx[q].write),
                            stored[tx[q].student].score)
    <3>1. \/ tx' = [tx EXCEPT ![q] = Idle]
          \/ tx' = [tx EXCEPT ![q].pc = "persist", ![q].outcome = o]
      BY <1>5, <2>2 DEF ReadSignals
    <3>2. tx[q].pc = "read" /\ history' = history
      BY <1>5, <2>2 DEF ReadSignals
    <3> HIDE DEF o
    <3>3. \/ tx'[q] = Idle
          \/ tx'[q] = [[tx[q] EXCEPT !.pc = "persist"] EXCEPT !.outcome = o]
      BY <3>1 DEF TypeOK
    <3> QED
      BY <3>2, <3>3 DEF TxMove, o
  <2> QED
    BY <2>1, <2>2
<1>6. ASSUME NEW p \in Procs, Persist(p) \/ RefreshReasons(p)
      PROVE  TxMove(q)
  <2>1. ASSUME NEW s, NEW ts, Commit(p, s, ts)
        PROVE  TxMove(q)
    <3>1. \/ tx'[q] = Idle \/ tx'[q] = tx[q]
          \/ tx[q].pc = "persist" /\ tx'[q] = [tx[q] EXCEPT !.overtaken = TRUE]
      BY <2>1, CommitMove
    <3> QED
      BY <3>1 DEF TxMove
  <2>2. CASE FindTask(p)
    <3>1. tx'[q] = IF q = p THEN [tx[q] EXCEPT !.pc = "refresh"] ELSE tx[q]
      BY <2>2 DEF FindTask, TypeOK
    <3> QED
      BY <2>2, <3>1 DEF TxMove
  <2>3. CASE MissStudent(p)
    BY <2>3 DEF MissStudent, TypeOK, TxMove
  <2> QED
    BY <1>6, <2>1, <2>2, <2>3 DEF Persist, PersistRisk, RefreshReasons
<1>7. ASSUME NEW p \in Procs, Fail(p)
      PROVE  TxMove(q)
  BY <1>7 DEF Fail, TypeOK, TxMove
<1>8. CASE ListForRecompute
  BY <1>8 DEF ListForRecompute, TxMove
<1>9. ASSUME NEW s \in Students, RecomputeNext(s)
      PROVE  TxMove(q)
  BY <1>9, BeginMove DEF RecomputeNext, Procs
<1> QED
  BY <1>1, <1>2, <1>3, <1>4, <1>5, <1>6, <1>7, <1>8, <1>9 DEF Next, JobStep

RowsHeld ==
  /\ \A p \in Procs : tx[p].pc = "refresh" =>
       /\ roster[tx[p].student] = "enrolled"
       /\ tx[p].resolved \/ Unresolved(tasks[tx[p].student]) # {}
  /\ \A p, q \in Procs :
       tx[p].pc = "refresh" /\ tx[q].pc = "refresh" /\ tx[p].student = tx[q].student => p = q

(* A transaction that holds the row after a step has just taken it or held *)
(* it before.                                                              *)
LEMMA HolderMove ==
  ASSUME TypeOK, [Next]_vars, NEW q \in Procs, tx'[q].pc = "refresh"
  PROVE  /\ tx[q].student \in Students /\ tx'[q].student = tx[q].student
         /\ \/ FindTask(q)
            \/ /\ tx[q].pc = "refresh"
               /\ tx'[q] = tx[q] \/ tx'[q] = [tx[q] EXCEPT !.resolved = TRUE]
<1>1. tx'[q] # Idle
  BY DEF Idle
<1>2. ASSUME NEW s, NEW write, NEW pc \in {"picked", "read"}, tx'[q] = Begin(s, write, pc)
      PROVE  FALSE
  BY <1>2 DEF Begin
<1>3. ~ (tx[q].pc = "picked" /\ tx'[q] = [tx[q] EXCEPT !.pc = "read"])
  BY TxFields DEF Tx
<1>4. ASSUME NEW o, tx[q].pc = "read",
             tx'[q] = [[tx[q] EXCEPT !.pc = "persist"] EXCEPT !.outcome = o]
      PROVE  FALSE
  BY <1>4, TxFields DEF Tx
<1>5. ~ (tx[q].pc = "persist" /\ tx'[q] = [tx[q] EXCEPT !.overtaken = TRUE])
  BY TxFields DEF Tx
<1>6. \/ tx'[q] = tx[q] /\ tx[q].pc = "refresh"
      \/ FindTask(q) /\ tx'[q] = [tx[q] EXCEPT !.pc = "refresh"]
      \/ tx[q].pc = "refresh" /\ tx'[q] = [tx[q] EXCEPT !.resolved = TRUE]
  <2>1. TxMove(q)
    BY TxMoveStep
  <2>2. tx'[q] = tx[q] => tx[q].pc = "refresh"
    OBVIOUS
  <2> QED
    BY <1>1, <1>2, <1>3, <1>4, <1>5, <2>1, <2>2 DEF TxMove
<1>7. tx[q].pc # "idle"
  BY <1>6 DEF FindTask
<1>8. tx[q] \in Tx /\ tx[q].student \in Students
  BY <1>7, TxFields
<1> QED
  BY <1>6, <1>8 DEF Tx

(* What the row lock keeps others from.                                    *)
LEMMA HeldStep ==
  ASSUME TypeOK, RowsHeld, [Next]_vars, NEW q \in Procs,
         tx[q].pc = "refresh", tx'[q].pc = "refresh"
  PROVE  LET s == tx[q].student
         IN  /\ roster'[s] = "enrolled"
             /\ tx[q].resolved \/ tx'[q].resolved \/ Unresolved(tasks'[s]) # {}
<1> DEFINE s == tx[q].student
           Good == /\ roster'[s] = "enrolled"
                   /\ tx[q].resolved \/ tx'[q].resolved \/ Unresolved(tasks'[s]) # {}
<1>0. /\ tx[q] \in Tx /\ s \in Students /\ roster[s] = "enrolled"
      /\ tx[q].resolved \/ Unresolved(tasks[s]) # {}
  BY TxFields DEF RowsHeld
<1>1. ASSUME roster'[s] = roster[s], tasks'[s] = tasks[s] PROVE Good
  BY <1>0, <1>1
<1>2. ~RowFree(s)
  BY DEF RowFree, On, Busy
<1>3. ASSUME NEW u \in Students, StaffStep(u) PROVE Good
  <2>1. ASSUME NEW c \in Confidences, CreateStudent(u, c) PROVE Good
    <3>1. u # s
      BY <1>0, <2>1 DEF CreateStudent
    <3> QED
      BY <1>0, <1>1, <2>1, <3>1 DEF CreateStudent, TypeOK
  <2>2. CASE DeleteStudent(u)
    <3>1. u # s
      BY <1>2, <2>2 DEF DeleteStudent
    <3> QED
      BY <1>0, <1>1, <2>2, <3>1 DEF DeleteStudent, TypeOK
  <2>3. ASSUME NEW i \in DOMAIN tasks[u], StartTask(u, i) PROVE Good
    <3>1. roster' = roster /\ tasks' = [tasks EXCEPT ![u][i].status = "In Progress"]
      BY <2>3 DEF StartTask
    <3>2. CASE u # s
      BY <1>0, <1>1, <3>1, <3>2 DEF TypeOK
    <3>3. CASE u = s
      <4>1. tasks[s] \in Seq(Task) /\ tasks[s][i] \in Task
        BY <1>0, <2>3, <3>3 DEF TypeOK
      <4>2. tasks'[s] = [tasks[s] EXCEPT ![i] = [tasks[s][i] EXCEPT !.status = "In Progress"]]
        BY <1>0, <3>1, <3>3 DEF TypeOK
      <4>3. i \in DOMAIN tasks'[s] /\ tasks'[s][i].status = "In Progress"
        BY <2>3, <3>3, <4>1, <4>2 DEF Task
      <4>4. i \in Unresolved(tasks'[s])
        BY <4>3 DEF Unresolved
      <4> QED
        BY <1>0, <3>1, <4>4
    <3> QED
      BY <3>2, <3>3
  <2>4. ASSUME NEW i \in DOMAIN tasks[u], ResolveTask(u, i) PROVE Good
    <3>1. roster' = roster /\ tasks' = [tasks EXCEPT ![u][i].status = "Resolved"]
      BY <2>4 DEF ResolveTask
    <3>2. CASE u # s
      BY <1>0, <1>1, <3>1, <3>2 DEF TypeOK
    <3>3. CASE u = s
      <4>1. tx'[q] = [tx[q] EXCEPT !.resolved = TRUE]
        BY <2>4, <3>3 DEF ResolveTask
      <4>2. tx'[q].resolved
        BY <1>0, <4>1 DEF Tx
      <4> QED
        BY <1>0, <3>1, <4>2
    <3> QED
      BY <3>2, <3>3
  <2> QED
    BY <1>3, <2>1, <2>2, <2>3, <2>4 DEF StaffStep
<1>4. ASSUME NEW p \in Procs, Persist(p) \/ RefreshReasons(p) PROVE Good
  <2>1. ASSUME NEW ts, Commit(p, tx[p].student, ts), tx[p].student # s PROVE Good
    BY <1>0, <1>1, <2>1 DEF Commit, TypeOK
  <2>2. CASE PersistRisk(p)
    <3>1. tx[p].student # s
      BY <1>2, <2>2 DEF PersistRisk
    <3> QED
      BY <2>1, <2>2, <3>1 DEF PersistRisk
  <2>3. CASE FindTask(p) \/ MissStudent(p)
    BY <1>1, <2>3 DEF FindTask, MissStudent
  <2>4. CASE RefreshReasons(p)
    <3>1. tx[p].student # s
      <4>1. p # q
        <5>1. Commit(p, tx[p].student, Refreshed(tasks[tx[p].student], tx[p].outcome.reasons))
          BY <2>4 DEF RefreshReasons
        <5>2. q = p => tx'[q] = Idle
          BY <5>1, CommitMove
        <5> QED
          BY <5>2 DEF Idle
      <4> QED
        BY <2>4, <4>1 DEF RefreshReasons, RowsHeld
    <3> QED
      BY <2>1, <2>4, <3>1 DEF RefreshReasons
  <2> QED
    BY <1>4, <2>2, <2>3, <2>4 DEF Persist
<1>5. ASSUME roster' = roster, tasks' = tasks PROVE Good
  BY <1>1, <1>5
<1> HIDE DEF Good
<1>6. ASSUME NEW w \in Workers, NEW u \in Students, ClientStep(w, u) PROVE Good
  BY <1>5, <1>6 DEF ClientStep, UpdateStudent, RecordAttendance, RecordHomework,
                    SubmitSurvey, Request, PickWeek
<1>7. ASSUME NEW p \in Procs, SubmitPicked(p) \/ ReadSignals(p) \/ Fail(p) PROVE Good
  BY <1>5, <1>7 DEF SubmitPicked, ReadSignals, Fail
<1>8. ASSUME JobStep PROVE Good
  BY <1>5, <1>8 DEF JobStep, ListForRecompute, RecomputeNext
<1>9. ASSUME UNCHANGED vars PROVE Good
  BY <1>5, <1>9 DEF vars
<1>10. Good
  BY <1>3, <1>4, <1>6, <1>7, <1>8, <1>9 DEF Next, Procs
<1> QED
  BY <1>10 DEF Good

LEMMA RowsHeldStep ==
  ASSUME TypeOK, RowsHeld, [Next]_vars
  PROVE  RowsHeld'
<1>1. ASSUME NEW q \in Procs, tx'[q].pc = "refresh"
      PROVE  /\ roster'[tx'[q].student] = "enrolled"
             /\ tx'[q].resolved \/ Unresolved(tasks'[tx'[q].student]) # {}
  <2>1. tx[q].student \in Students /\ tx'[q].student = tx[q].student
    BY <1>1, HolderMove
  <2>2. CASE FindTask(q)
    BY <2>1, <2>2 DEF FindTask, Enrolled, InTheWay
  <2>3. CASE /\ tx[q].pc = "refresh"
             /\ tx'[q] = tx[q] \/ tx'[q] = [tx[q] EXCEPT !.resolved = TRUE]
    <3>1. tx[q] \in Tx
      BY <2>3, TxFields
    <3>2. tx[q].resolved => tx'[q].resolved
      BY <2>3, <3>1 DEF Tx
    <3> QED
      BY <1>1, <2>1, <2>3, <3>2, HeldStep
  <2> QED
    BY <1>1, <2>2, <2>3, HolderMove
<1>2. ASSUME NEW p \in Procs, NEW q \in Procs, p # q,
             tx'[p].pc = "refresh", tx'[q].pc = "refresh", tx'[p].student = tx'[q].student
      PROVE  FALSE
  <2>1. tx[p].student = tx[q].student
    BY <1>2, HolderMove
  <2>2. ASSUME NEW a \in Procs, NEW b \in Procs, FindTask(a), tx[b].pc = "refresh",
               tx[a].student = tx[b].student
        PROVE  FALSE
    BY <2>2 DEF FindTask, RowFree, On, Busy
  <2>3. ASSUME FindTask(p), FindTask(q) PROVE FALSE
    BY <1>2, <2>3 DEF FindTask, TypeOK
  <2> QED
    BY <1>2, <2>1, <2>2, <2>3, HolderMove DEF RowsHeld
<1> QED
  BY <1>1, <1>2 DEF RowsHeld, Unresolved

LEMMA RowsHeldHolds == Spec => []RowsHeld
<1>1. Init => RowsHeld
  BY DEF Init, RowsHeld, Idle
<1>2. TypeOK /\ RowsHeld /\ [Next]_vars => RowsHeld'
  BY RowsHeldStep
<1> QED
  BY <1>1, <1>2, TypeCorrect, PTL DEF Spec

-----------------------------------------------------------------------------
(* Nothing is left of, or comes back to, a student who is not enrolled.   *)

(* What a step can do to the rows of a student who is not enrolled after  *)
(* it: nothing, or delete them.                                           *)
RowsGone(s) ==
  \/ roster[s] # "enrolled" /\ tasks'[s] = tasks[s] /\ history'[s] = history[s]
  \/ tasks'[s] = <<>> /\ history'[s] = EmptyHistory(1)

LEMMA RowsGoneStep ==
  ASSUME TypeOK, RowsHeld, DeletedLeavesNothing, [Next]_vars,
         NEW s \in Students, roster'[s] # "enrolled"
  PROVE  RowsGone(s)
<1>1. CASE UNCHANGED vars
  BY <1>1 DEF vars, RowsGone
<1>2. ASSUME NEW w \in Workers, NEW u \in Students, ClientStep(w, u)
      PROVE  RowsGone(s)
  <2>1. ASSUME NEW c \in Confidences, UpdateStudent(w, u, c)
        PROVE  RowsGone(s)
    BY <2>1 DEF UpdateStudent, RowsGone, TypeOK
  <2> QED
    BY <1>2, <2>1 DEF ClientStep, RecordAttendance, RecordHomework, SubmitSurvey,
                      Request, PickWeek, RowsGone
<1>3. ASSUME NEW u \in Students, StaffStep(u)
      PROVE  RowsGone(s)
  <2>1. ASSUME NEW c \in Confidences, CreateStudent(u, c)
        PROVE  RowsGone(s)
    BY <2>1 DEF CreateStudent, RowsGone, TypeOK
  <2>2. CASE DeleteStudent(u)
    BY <2>2 DEF DeleteStudent, RowsGone, TypeOK
  <2>3. ASSUME NEW i \in DOMAIN tasks[u], StartTask(u, i) \/ ResolveTask(u, i)
        PROVE  RowsGone(s)
    <3>1. roster[u] = "enrolled"
      BY DEF DeletedLeavesNothing
    <3>2. roster' = roster /\ history' = history
      BY <2>3 DEF StartTask, ResolveTask
    <3>3. s # u => tasks'[s] = tasks[s]
      BY <2>3 DEF StartTask, ResolveTask, TypeOK
    <3> QED
      BY <3>1, <3>2, <3>3 DEF RowsGone
  <2> QED
    BY <1>3, <2>1, <2>2, <2>3 DEF StaffStep
<1>4. ASSUME NEW w \in Workers, SubmitPicked(w)
      PROVE  RowsGone(s)
  BY <1>4 DEF SubmitPicked, RowsGone
<1>5. ASSUME NEW p \in Procs, ReadSignals(p) \/ Fail(p)
      PROVE  RowsGone(s)
  BY <1>5 DEF ReadSignals, Fail, RowsGone
<1>6. ASSUME NEW p \in Procs, Persist(p) \/ RefreshReasons(p)
      PROVE  RowsGone(s)
  <2>1. ASSUME NEW ts, Commit(p, tx[p].student, ts), roster[tx[p].student] = "enrolled"
        PROVE  RowsGone(s)
    <3>1. roster' = roster /\ tx[p].student # s
      BY <2>1 DEF Commit
    <3>2. tasks'[s] = tasks[s] /\ history'[s] = history[s]
      BY <2>1, <3>1 DEF Commit, TypeOK
    <3> QED
      BY <3>1, <3>2 DEF RowsGone
  <2>2. CASE PersistRisk(p)
    BY <2>1, <2>2 DEF PersistRisk, Enrolled
  <2>3. CASE FindTask(p) \/ MissStudent(p)
    BY <2>3 DEF FindTask, MissStudent, RowsGone
  <2>4. CASE RefreshReasons(p)
    BY <2>1, <2>4 DEF RefreshReasons, RowsHeld
  <2> QED
    BY <1>6, <2>2, <2>3, <2>4 DEF Persist
<1>7. CASE JobStep
  BY <1>7 DEF JobStep, ListForRecompute, RecomputeNext, RowsGone
<1> QED
  BY <1>1, <1>2, <1>3, <1>4, <1>5, <1>6, <1>7 DEF Next

LEMMA EmptyHistoryHasNoRow ==
  ASSUME NEW c
  PROVE  LET h == EmptyHistory(c)
         IN  SurveyWeeks(h) = {} /\ Recorded(h.att) = {} /\ Recorded(h.hw) = {}
BY DEF EmptyHistory, SurveyWeeks, Recorded

(* Whatever was under way when a student was deleted, the student keeps no *)
(* row and gets none back.                                                *)
THEOREM DeletedLeavesNothingHolds == Spec => []DeletedLeavesNothing
<1>1. Init => DeletedLeavesNothing
  BY EmptyHistoryHasNoRow DEF Init, DeletedLeavesNothing
<1>2. TypeOK /\ RowsHeld /\ DeletedLeavesNothing /\ [Next]_vars => DeletedLeavesNothing'
  <2> SUFFICES ASSUME TypeOK, RowsHeld, DeletedLeavesNothing, [Next]_vars,
                      NEW s \in Students, roster'[s] # "enrolled"
               PROVE  /\ tasks'[s] = <<>> /\ SurveyWeeks(history'[s]) = {}
                      /\ Recorded(history'[s].att) = {} /\ Recorded(history'[s].hw) = {}
    BY DEF DeletedLeavesNothing, SurveyWeeks, Recorded
  <2>1. CASE roster[s] # "enrolled" /\ tasks'[s] = tasks[s] /\ history'[s] = history[s]
    BY <2>1 DEF DeletedLeavesNothing
  <2>2. CASE tasks'[s] = <<>> /\ history'[s] = EmptyHistory(1)
    BY <2>2, EmptyHistoryHasNoRow
  <2> QED
    BY <2>1, <2>2, RowsGoneStep DEF RowsGone
<1> QED
  BY <1>1, <1>2, TypeCorrect, RowsHeldHolds, PTL DEF Spec

-----------------------------------------------------------------------------
(***************************************************************************)
(* The stored risk is exact.  StoredRiskExact is not inductive: it says    *)
(* nothing of what a transaction in the middle is about to store.  Such a  *)
(* transaction is on a student who exists (NoEarlyTx), and unless it has   *)
(* been overtaken its outcome is the evaluation of the committed history   *)
(* with its own row in it (ReadView).                                      *)
(***************************************************************************)
NoEarlyTx ==
  /\ \A p \in Procs : Busy(p) => roster[tx[p].student] # "unborn"
  /\ \A s \in job : roster[s] # "unborn"

Evaluated(t, h) ==
  /\ t.outcome.score = Score(Apply(h, t.write))
  /\ t.outcome.tier = Tier(Apply(h, t.write))

ReadView ==
  \A p \in {q \in Procs : tx[q].pc \in {"persist", "refresh"}} :
    ~tx[p].overtaken /\ roster[tx[p].student] = "enrolled" =>
      Evaluated(tx[p], history[tx[p].student])

ExactInv == TypeOK /\ RowsHeld /\ NoEarlyTx /\ ReadView /\ StoredRiskExact

(* Nobody becomes unborn again, and the job lists only who is there.       *)
LEMMA RosterMove ==
  ASSUME TypeOK, [Next]_vars
  PROVE  /\ \A u \in Students : roster[u] # "unborn" =>
              roster'[u] # "unborn" /\ (roster'[u] = "enrolled" => roster[u] = "enrolled")
         /\ \A u \in job' : u \in Students /\ (u \in job \/ roster[u] = "enrolled")
<1> DEFINE Same == roster' = roster /\ job' \subseteq job
<1>1. CASE Same
  BY <1>1 DEF TypeOK
<1> HIDE DEF Same
<1>2. ASSUME NEW w \in Workers, NEW s \in Students, ClientStep(w, s) PROVE Same
  BY <1>2 DEF ClientStep, UpdateStudent, RecordAttendance, RecordHomework, SubmitSurvey,
              Request, PickWeek, Same
<1>3. ASSUME NEW s \in Students, StaffStep(s)
      PROVE  /\ \A u \in Students : roster[u] # "unborn" =>
                   roster'[u] # "unborn" /\ (roster'[u] = "enrolled" => roster[u] = "enrolled")
             /\ job' = job
  BY <1>3 DEF StaffStep, CreateStudent, DeleteStudent, StartTask, ResolveTask, TypeOK
<1>4. ASSUME NEW p \in Procs, SubmitPicked(p) \/ ReadSignals(p) \/ Fail(p) PROVE Same
  BY <1>4 DEF SubmitPicked, ReadSignals, Fail, JobAfterError, Same
<1>5. ASSUME NEW p \in Procs, Persist(p) \/ RefreshReasons(p) PROVE Same
  BY <1>5 DEF Persist, PersistRisk, FindTask, MissStudent, RefreshReasons, Commit,
              JobAfterError, Same
<1>6. CASE ListForRecompute
  BY <1>6 DEF ListForRecompute, Enrolled
<1>7. ASSUME NEW s \in Students, RecomputeNext(s) PROVE Same
  BY <1>7 DEF RecomputeNext, Same
<1>8. CASE UNCHANGED vars
  BY <1>1, <1>8 DEF vars, Same
<1> QED
  BY <1>1, <1>2, <1>3, <1>4, <1>5, <1>6, <1>7, <1>8 DEF Next, JobStep, Procs, TypeOK

LEMMA NoEarlyTxStep ==
  ASSUME TypeOK, NoEarlyTx, [Next]_vars
  PROVE  NoEarlyTx'
<1>1. ASSUME NEW q \in Procs, tx'[q].pc # "idle"
      PROVE  roster'[tx'[q].student] # "unborn"
  <2>1. ASSUME tx[q].pc # "idle", tx'[q].student = tx[q].student
        PROVE  roster'[tx'[q].student] # "unborn"
    BY <2>1, TxFields, RosterMove DEF NoEarlyTx, Busy
  <2>2. ASSUME NEW s \in Students, NEW pc, NEW write, tx'[q] = Begin(s, write, pc),
               roster[s] = "enrolled" \/ s \in job
        PROVE  roster'[tx'[q].student] # "unborn"
    <3>1. roster[s] # "unborn"
      BY <2>2 DEF NoEarlyTx
    <3>2. tx'[q].student = s
      BY <2>2 DEF Begin
    <3> QED
      BY <3>1, <3>2, RosterMove
  <2>3. tx'[q] # Idle
    BY <1>1 DEF Idle
  <2>4. CASE tx'[q] = tx[q]
    BY <1>1, <2>1, <2>4
  <2>5. ASSUME tx[q].pc # "idle",
               \/ tx'[q] = [tx[q] EXCEPT !.pc = "read"]
               \/ \E o : tx'[q] = [[tx[q] EXCEPT !.pc = "persist"] EXCEPT !.outcome = o]
               \/ tx'[q] = [tx[q] EXCEPT !.pc = "refresh"]
               \/ tx'[q] = [tx[q] EXCEPT !.overtaken = TRUE]
               \/ tx'[q] = [tx[q] EXCEPT !.resolved = TRUE]
        PROVE  roster'[tx'[q].student] # "unborn"
    <3>1. tx'[q].student = tx[q].student
      BY <2>5, TxFields DEF Tx
    <3> QED
      BY <2>1, <2>5, <3>1
  <2>6. TxMove(q)
    BY TxMoveStep
  <2> QED
    BY <2>2, <2>3, <2>4, <2>5, <2>6 DEF TxMove, FindTask
<1>2. \A s \in job' : roster'[s] # "unborn"
  BY RosterMove DEF NoEarlyTx
<1> QED
  BY <1>1, <1>2 DEF NoEarlyTx, Busy

(* A step that changes the history of a student overtakes the transactions *)
(* that have read it, or commits the one that holds the row.               *)
LEMMA HistoryMove ==
  ASSUME TypeOK, RowsHeld, [Next]_vars, NEW q \in Procs,
         tx[q].pc \in {"persist", "refresh"}, tx'[q].pc # "idle",
         roster[tx[q].student] # "unborn", roster'[tx[q].student] = "enrolled"
  PROVE  \/ history'[tx[q].student] = history[tx[q].student]
         \/ tx[q].pc = "persist" /\ tx'[q] = [tx[q] EXCEPT !.overtaken = TRUE]
<1> DEFINE s == tx[q].student
           Good == \/ history'[s] = history[s]
                   \/ tx[q].pc = "persist" /\ tx'[q] = [tx[q] EXCEPT !.overtaken = TRUE]
<1>0. s \in Students
  BY TxFields
<1>1. ASSUME history' = history PROVE Good
  BY <1>1
<1>2. tx[q].pc = "refresh" => ~RowFree(s)
  BY DEF RowFree, On, Busy
<1>3. ASSUME NEW w \in Workers, NEW u \in Students, NEW c \in Confidences,
             UpdateStudent(w, u, c)
      PROVE  Good
  <2>1. CASE u # s
    BY <1>0, <1>3, <2>1 DEF UpdateStudent, TypeOK
  <2>2. CASE u = s
    <3>1. tx[q].pc = "persist" /\ q # w
      BY <1>2, <1>3, <2>2 DEF UpdateStudent, Busy
    <3>2. tx'[q] = Overtake(tx, s)[q]
      BY <1>3, <2>2, <3>1 DEF UpdateStudent, Overtake
    <3> QED
      BY <3>1, <3>2 DEF Overtake
  <2> QED
    BY <2>1, <2>2
<1>4. ASSUME NEW u \in Students, StaffStep(u) PROVE Good
  <2>1. ASSUME NEW c \in Confidences, CreateStudent(u, c) PROVE Good
    <3>1. u # s
      BY <2>1 DEF CreateStudent
    <3> QED
      BY <1>0, <2>1, <3>1 DEF CreateStudent, TypeOK
  <2>2. CASE DeleteStudent(u)
    <3>1. u # s
      BY <1>0, <2>2 DEF DeleteStudent, TypeOK
    <3> QED
      BY <1>0, <2>2, <3>1 DEF DeleteStudent, TypeOK
  <2>3. ASSUME NEW i \in DOMAIN tasks[u], StartTask(u, i) \/ ResolveTask(u, i) PROVE Good
    BY <1>1, <2>3 DEF StartTask, ResolveTask
  <2> QED
    BY <1>4, <2>1, <2>2, <2>3 DEF StaffStep
<1>5. ASSUME NEW p \in Procs, NEW ts, Commit(p, tx[p].student, ts), tx[p].pc # "idle",
             tx[q].pc = "refresh" => tx[p].student # s
      PROVE  Good
  <2>0. tx[p].student \in Students
    BY <1>5, TxFields
  <2>1. CASE tx[p].student # s
    BY <1>0, <1>5, <2>0, <2>1 DEF Commit, TypeOK
  <2>2. CASE tx[p].student = s /\ tx[p].write = NoWrite
    BY <1>0, <1>5, <2>2, ApplyNoWrite DEF Commit, TypeOK
  <2>3. CASE tx[p].student = s /\ tx[p].write # NoWrite
    <3>1. tx[q].pc = "persist"
      BY <1>5, <2>3
    <3>2. q # p
      <4>1. q = p => tx'[q] = Idle
        BY <1>5, CommitMove
      <4> QED
        BY <4>1 DEF Idle
    <3>3. \/ tx[q].pc # "persist" \/ tx[q].student # tx[p].student \/ tx[p].write = NoWrite
          \/ tx'[q] = [tx[q] EXCEPT !.overtaken = TRUE]
      BY <1>5, <3>2, CommitMove
    <3> QED
      BY <2>3, <3>1, <3>3
  <2> QED
    BY <2>1, <2>2, <2>3
<1>6. ASSUME NEW p \in Procs, Persist(p) \/ RefreshReasons(p) PROVE Good
  <2>1. CASE PersistRisk(p)
    BY <1>2, <1>5, <2>1 DEF PersistRisk
  <2>2. CASE FindTask(p) \/ MissStudent(p)
    BY <1>1, <2>2 DEF FindTask, MissStudent
  <2>3. CASE RefreshReasons(p)
    <3>1. Commit(p, tx[p].student, Refreshed(tasks[tx[p].student], tx[p].outcome.reasons))
      BY <2>3 DEF RefreshReasons
    <3>2. p # q
      <4>1. q = p => tx'[q] = Idle
        BY <3>1, CommitMove
      <4> QED
        BY <4>1 DEF Idle
    <3>3. tx[q].pc = "refresh" => tx[p].student # s
      BY <2>3, <3>2 DEF RefreshReasons, RowsHeld
    <3> QED
      BY <1>5, <2>3, <3>1, <3>3 DEF RefreshReasons
  <2> QED
    BY <1>6, <2>1, <2>2, <2>3 DEF Persist
<1> HIDE DEF Good
<1>7. ASSUME NEW w \in Workers, NEW u \in Students, ClientStep(w, u) PROVE Good
  BY <1>1, <1>3, <1>7 DEF ClientStep, RecordAttendance, RecordHomework, SubmitSurvey,
                          Request, PickWeek
<1>8. ASSUME NEW p \in Procs, SubmitPicked(p) \/ ReadSignals(p) \/ Fail(p) PROVE Good
  BY <1>1, <1>8 DEF SubmitPicked, ReadSignals, Fail
<1>9. ASSUME JobStep PROVE Good
  BY <1>1, <1>9 DEF JobStep, ListForRecompute, RecomputeNext
<1>10. ASSUME UNCHANGED vars PROVE Good
  BY <1>1, <1>10 DEF vars
<1>11. Good
  BY <1>4, <1>6, <1>7, <1>8, <1>9, <1>10 DEF Next, Procs
<1> QED
  BY <1>11 DEF Good

(* A transaction between its read and its commit after a step has just     *)
(* read, or was there before with what it has read.                        *)
LEMMA ReaderMove ==
  ASSUME TypeOK, [Next]_vars, NEW q \in Procs, tx'[q].pc \in {"persist", "refresh"}
  PROVE  /\ tx[q].student \in Students /\ tx[q].pc # "idle"
         /\ tx'[q].student = tx[q].student /\ tx'[q].write = tx[q].write
         /\ \/ /\ tx[q].pc \in {"persist", "refresh"}
               /\ tx'[q].outcome = tx[q].outcome
               /\ tx'[q].overtaken = tx[q].overtaken \/ tx'[q].overtaken
            \/ /\ history' = history
               /\ tx'[q].outcome = Outcome(Apply(history[tx[q].student], tx[q].write),
                                           stored[tx[q].student].score)
<1> DEFINE o == Outcome(Apply(history[tx[q].student], tx[q].write),
                        stored[tx[q].student].score)
<1> HIDE DEF o
<1>1. tx'[q] # Idle
  BY DEF Idle
<1>2. ASSUME NEW s, NEW write, NEW pc \in {"picked", "read"}, tx'[q] = Begin(s, write, pc)
      PROVE  FALSE
  BY <1>2 DEF Begin
<1>3. ~ (tx[q].pc = "picked" /\ tx'[q] = [tx[q] EXCEPT !.pc = "read"])
  BY TxFields DEF Tx
<1>4. \/ tx'[q] = tx[q] /\ tx[q].pc \in {"persist", "refresh"}
      \/ /\ tx[q].pc = "read" /\ history' = history
         /\ tx'[q] = [[tx[q] EXCEPT !.pc = "persist"] EXCEPT !.outcome = o]
      \/ tx[q].pc = "persist" /\ tx'[q] = [tx[q] EXCEPT !.pc = "refresh"]
      \/ tx[q].pc = "persist" /\ tx'[q] = [tx[q] EXCEPT !.overtaken = TRUE]
      \/ tx[q].pc = "refresh" /\ tx'[q] = [tx[q] EXCEPT !.resolved = TRUE]
  <2>1. TxMove(q)
    BY TxMoveStep
  <2>2. tx'[q] = tx[q] => tx[q].pc \in {"persist", "refresh"}
    OBVIOUS
  <2> QED
    BY <1>1, <1>2, <1>3, <2>1, <2>2 DEF TxMove, FindTask, o
<1>5. tx[q].pc # "idle"
  BY <1>4
<1>6. tx[q] \in Tx /\ tx[q].student \in Students
  BY <1>5, TxFields
<1>7. /\ tx'[q].student = tx[q].student /\ tx'[q].write = tx[q].write
      /\ \/ /\ tx[q].pc \in {"persist", "refresh"}
            /\ tx'[q].outcome = tx[q].outcome
            /\ tx'[q].overtaken = tx[q].overtaken \/ tx'[q].overtaken
         \/ history' = history /\ tx'[q].outcome = o
  BY <1>4, <1>6 DEF Tx
<1> QED
  BY <1>5, <1>6, <1>7 DEF o

LEMMA ReadViewStep ==
  ASSUME TypeOK, RowsHeld, NoEarlyTx, ReadView, [Next]_vars
  PROVE  ReadView'
<1> SUFFICES ASSUME NEW q \in Procs, tx'[q].pc \in {"persist", "refresh"}, ~tx'[q].overtaken,
                    roster'[tx'[q].student] = "enrolled"
             PROVE  Evaluated(tx'[q], history'[tx'[q].student])
  BY DEF ReadView, Evaluated
<1> DEFINE s == tx[q].student
<1>1. /\ s \in Students /\ tx[q].pc # "idle"
      /\ tx'[q].student = s /\ tx'[q].write = tx[q].write
  BY ReaderMove
<1>2. roster[s] = "enrolled"
  BY <1>1, RosterMove DEF NoEarlyTx, Busy
<1>3. CASE /\ tx[q].pc \in {"persist", "refresh"}
           /\ tx'[q].outcome = tx[q].outcome
           /\ tx'[q].overtaken = tx[q].overtaken \/ tx'[q].overtaken
  <2>1. Evaluated(tx[q], history[s])
    BY <1>1, <1>2, <1>3 DEF ReadView
  <2>2. history'[s] = history[s]
    <3>1. ~ (tx[q].pc = "persist" /\ tx'[q] = [tx[q] EXCEPT !.overtaken = TRUE])
      BY TxFields DEF Tx
    <3> QED
      BY <1>1, <1>2, <1>3, <3>1, HistoryMove
  <2> QED
    BY <1>1, <1>3, <2>1, <2>2 DEF Evaluated
<1>4. CASE /\ history' = history
           /\ tx'[q].outcome = Outcome(Apply(history[s], tx[q].write), stored[s].score)
  BY <1>1, <1>4 DEF Evaluated, Outcome
<1> QED
  BY <1>3, <1>4, ReaderMove

(* A commit stores the risk the transaction computed; it is the risk of    *)
(* what it commits unless it was overtaken.                                *)
LEMMA CommitExact ==
  ASSUME TypeOK, ReadView, NEW p \in Procs, NEW ts, NEW u \in Students,
         tx[p].pc \in {"persist", "refresh"}, Commit(p, tx[p].student, ts),
         roster'[u] = "enrolled", ~stale'[u],
         roster[u] = "enrolled" /\ ~stale[u] =>
           stored[u] = [score |-> Score(history[u]), tier |-> Tier(history[u])]
  PROVE  stored'[u] = [score |-> Score(history'[u]), tier |-> Tier(history'[u])]
<1> DEFINE s == tx[p].student
<1>0. roster' = roster
  BY DEF Commit
<1>1. CASE u = s
  <2>1. /\ history'[u] = Apply(history[u], tx[p].write)
        /\ stored'[u] = [score |-> tx[p].outcome.score, tier |-> tx[p].outcome.tier]
        /\ stale'[u] = tx[p].overtaken
    BY <1>1 DEF Commit, TypeOK
  <2>2. Evaluated(tx[p], history[u])
    BY <1>0, <1>1, <2>1 DEF ReadView
  <2> QED
    BY <2>1, <2>2 DEF Evaluated
<1>2. CASE u # s
  <2>1. stale'[u] = stale[u] /\ stored'[u] = stored[u] /\ history'[u] = history[u]
    BY <1>2 DEF Commit, TypeOK
  <2> QED
    BY <1>0, <2>1
<1> QED
  BY <1>1, <1>2

LEMMA ExactStep ==
  ASSUME TypeOK, ReadView, StoredRiskExact, [Next]_vars
  PROVE  StoredRiskExact'
<1> SUFFICES ASSUME NEW u \in Students, roster'[u] = "enrolled", ~stale'[u]
             PROVE  stored'[u] = [score |-> Score(history'[u]), tier |-> Tier(history'[u])]
  BY DEF StoredRiskExact, Enrolled, Exact
<1>0. roster[u] = "enrolled" /\ ~stale[u] =>
        stored[u] = [score |-> Score(history[u]), tier |-> Tier(history[u])]
  BY DEF StoredRiskExact, Enrolled, Exact
<1> DEFINE Kept == /\ roster[u] = "enrolled" /\ ~stale[u]
                   /\ stored'[u] = stored[u] /\ history'[u] = history[u]
<1>7. ASSUME Kept
      PROVE  stored'[u] = [score |-> Score(history'[u]), tier |-> Tier(history'[u])]
  BY <1>0, <1>7
<1> HIDE DEF Kept
<1>1. CASE UNCHANGED vars
  BY <1>1, <1>7 DEF vars, Kept
<1>2. ASSUME NEW w \in Workers, NEW s \in Students, ClientStep(w, s)
      PROVE  Kept
  <2>1. ASSUME NEW c \in Confidences, UpdateStudent(w, s, c)
        PROVE  Kept
    <3>1. u # s
      BY <2>1 DEF UpdateStudent, TypeOK
    <3> QED
      BY <2>1, <3>1 DEF UpdateStudent, TypeOK, Kept
  <2> QED
    BY <1>2, <2>1 DEF ClientStep, RecordAttendance, RecordHomework, SubmitSurvey,
                      Request, PickWeek, Kept
<1>3. ASSUME NEW s \in Students, StaffStep(s)
      PROVE  stored'[u] = [score |-> Score(history'[u]), tier |-> Tier(history'[u])]
  <2>1. ASSUME NEW c \in Confidences, CreateStudent(s, c)
        PROVE  stored'[u] = [score |-> Score(history'[u]), tier |-> Tier(history'[u])]
    <3>1. CASE u = s
      <4>1. history'[u] = EmptyHistory(c) /\ stored'[u] = Initially(c)
        BY <2>1, <3>1 DEF CreateStudent, TypeOK
      <4> QED
        BY <4>1 DEF Initially
    <3>2. CASE u # s
      BY <1>7, <2>1, <3>2 DEF CreateStudent, TypeOK, Kept
    <3> QED
      BY <3>1, <3>2
  <2>2. CASE DeleteStudent(s)
    <3>1. u # s
      BY <2>2 DEF DeleteStudent, TypeOK
    <3> QED
      BY <1>7, <2>2, <3>1 DEF DeleteStudent, TypeOK, Kept
  <2>3. ASSUME NEW i \in DOMAIN tasks[s], StartTask(s, i) \/ ResolveTask(s, i)
        PROVE  stored'[u] = [score |-> Score(history'[u]), tier |-> Tier(history'[u])]
    BY <1>7, <2>3 DEF StartTask, ResolveTask, Kept
  <2> QED
    BY <1>3, <2>1, <2>2, <2>3 DEF StaffStep
<1>4. ASSUME NEW p \in Procs, SubmitPicked(p) \/ ReadSignals(p) \/ Fail(p)
      PROVE  Kept
  BY <1>4 DEF SubmitPicked, ReadSignals, Fail, Kept
<1>5. ASSUME NEW p \in Procs, Persist(p) \/ RefreshReasons(p)
      PROVE  stored'[u] = [score |-> Score(history'[u]), tier |-> Tier(history'[u])]
  <2>1. CASE PersistRisk(p)
    BY <1>0, <2>1, CommitExact DEF PersistRisk
  <2>2. CASE FindTask(p) \/ MissStudent(p)
    BY <1>7, <2>2 DEF FindTask, MissStudent, Kept
  <2>3. CASE RefreshReasons(p)
    BY <1>0, <2>3, CommitExact DEF RefreshReasons
  <2> QED
    BY <1>5, <2>1, <2>2, <2>3 DEF Persist
<1>6. CASE JobStep
  BY <1>7, <1>6 DEF JobStep, ListForRecompute, RecomputeNext, Kept
<1> QED
  BY <1>7, <1>1, <1>2, <1>3, <1>4, <1>5, <1>6 DEF Next, Procs

(* However the transactions of one student interleave, the stored score    *)
(* and tier are the evaluation of the committed signals unless one of them *)
(* is known to have been missed.                                          *)
THEOREM StoredRiskExactHolds == Spec => []StoredRiskExact
<1>1. Init => ExactInv
  <2> SUFFICES ASSUME Init PROVE ExactInv
    OBVIOUS
  <2>1. \A p \in Procs : tx[p].pc = "idle"
    BY DEF Init, Idle
  <2>3. RowsHeld /\ NoEarlyTx /\ ReadView
    BY <2>1 DEF Init, RowsHeld, NoEarlyTx, ReadView, Busy
  <2>2. StoredRiskExact
    BY DEF Init, StoredRiskExact, Enrolled
  <2> QED
    BY <2>2, <2>3, InitType DEF ExactInv
<1>2. ExactInv /\ [Next]_vars => ExactInv'
  BY TypeStep, RowsHeldStep, NoEarlyTxStep, ReadViewStep, ExactStep DEF ExactInv
<1>3. ExactInv => StoredRiskExact
  BY DEF ExactInv
<1> QED
  BY <1>1, <1>2, <1>3, PTL DEF Spec
-----------------------------------------------------------------------------
(***************************************************************************)
(* A step that stores Red leaves an unresolved task with a reason, or      *)
(* staff resolved the one it found.  What a recompute stores was decided   *)
(* at the read: the invariant carries the reasons over the steps in        *)
(* between (RedHasReasons), and RowsHeld the task it found.                *)
(***************************************************************************)
RedHasReasons ==
  \A p \in Procs :
    tx[p].pc \in {"persist", "refresh"} /\ tx[p].outcome.tier = "Red" =>
      tx[p].outcome.reasons # {}

(* A student without any history scores at most 25 and is not Red.        *)
LEMMA InitiallyNotRed ==
  ASSUME NEW c \in 1..10
  PROVE  Initially(c).tier # "Red"
<1> DEFINE h == EmptyHistory(c)
<1>0. h \in History
  BY EmptyHistoryType
<1>1. Cardinality({}) = 0
  BY FS_EmptySet
<1>2. /\ Completed(h.att) = {} /\ Recorded(h.att) = {}
      /\ Completed(h.hw) = {} /\ Recorded(h.hw) = {}
      /\ SurveyWeeks(h) = {} /\ h.confidence = c
  BY DEF EmptyHistory, Completed, Recorded, SurveyWeeks
<1>3. ASSUME NEW marks, Completed(marks) = {}, Recorded(marks) = {}
      PROVE  RungsBelow(marks, RateLadder) = 0
  <2>1. {pct \in RateLadder : 100 * 0 < pct * 0} = {}
    BY DEF RateLadder
  <2> QED
    BY <1>1, <1>3, <2>1 DEF RungsBelow
<1>4. AttendancePoints(h) = 0 /\ HomeworkPoints(h) = 0
  <2>1. RungsBelow(h.att, RateLadder) = 0 /\ RungsBelow(h.hw, RateLadder) = 0
    BY <1>2, <1>3
  <2> HIDE DEF h
  <2> QED
    BY <2>1 DEF AttendancePoints, HomeworkPoints
<1>5. ConsecutiveAbsences(h) = 0
  <2>1. {d \in Dates : h.att[d] = "no" /\ \A e \in Completed(h.att) : e < d} = {}
    BY DEF EmptyHistory
  <2> QED
    BY <1>1, <2>1 DEF ConsecutiveAbsences
<1>6. StreakPoints(h) = 0
  <2>1. {n \in {2, 3} : ConsecutiveAbsences(h) >= n} = {}
    BY <1>5
  <2> QED
    BY <1>1, <2>1 DEF StreakPoints
<1>7. MotivationPoints(h) = 0 /\ ProgressPoints(h) = 0 /\ NeutralPoints(h) = 10
  BY <1>2 DEF MotivationPoints, ProgressPoints, NeutralPoints, LatestSurvey, NoSurvey
<1>8. ConfidencePoints(h) \in 0..15
  <2>1. {x \in {3, 6, 8} : h.confidence <= x} \subseteq {3, 6, 8}
    OBVIOUS
  <2>2. IsFiniteSet({3, 6, 8}) /\ Cardinality({3, 6, 8}) <= 3
    <3>1. IsFiniteSet({3}) /\ Cardinality({3}) = 1
      BY FS_Singleton
    <3>2. /\ IsFiniteSet({3} \cup {6})
          /\ Cardinality({3} \cup {6}) = 2
      <4>1. 6 \notin {3}
        OBVIOUS
      <4> QED
        BY <3>1, <4>1, FS_AddElement
    <3>3. /\ IsFiniteSet(({3} \cup {6}) \cup {8})
          /\ Cardinality(({3} \cup {6}) \cup {8}) = 3
      <4>1. 8 \notin {3} \cup {6}
        OBVIOUS
      <4> QED
        BY <3>2, <4>1, FS_AddElement
    <3>4. ({3} \cup {6}) \cup {8} = {3, 6, 8}
      OBVIOUS
    <3> QED
      BY <3>3, <3>4
  <2> DEFINE n == Cardinality({x \in {3, 6, 8} : h.confidence <= x})
  <2>3. n \in Nat /\ n <= 3
    BY <2>1, <2>2, FS_Subset, FS_CardinalityType
  <2>4. ConfidencePoints(h) = 5 * n
    BY DEF ConfidencePoints
  <2> HIDE DEF n, h
  <2> QED
    BY <2>3, <2>4
<1> HIDE DEF h
<1>9. Score(h) \in 0..25
  <2>1. Score(h) = Clamp(0 + 0 + 0 + 0 + 0 + ConfidencePoints(h) + 10)
    BY <1>4, <1>6, <1>7 DEF Score, Factors
  <2> QED
    BY <1>8, <2>1 DEF Clamp
<1>10. Tier(h) = "Green"
  BY <1>5, <1>9 DEF Tier, RawTier, TriggerAbsences, ThresholdRed, ThresholdYellow
<1> QED
  BY <1>10 DEF Initially, h

(* Evaluate never answers Red without a reason for the task.              *)
LEMMA RedIsExplained ==
  ASSUME NEW h, NEW n, Outcome(h, n).tier = "Red"
  PROVE  Outcome(h, n).reasons # {}
BY DEF Outcome, TaskReasons

(* An auto-open with a reason leaves an unresolved task that gives it.     *)
LEMMA OpenedShows ==
  ASSUME NEW ts \in Seq(Task), NEW reasons \in Reasons, reasons # {}
  PROVE  \E i \in Unresolved(Opened(ts, reasons)) : Opened(ts, reasons)[i].reasons # {}
<1> DEFINE opened == Append(ts, [status |-> "Open", reasons |-> reasons])
<1>1. Opened(ts, reasons) = opened
  BY DEF Opened
<1>2. /\ Len(ts) + 1 \in DOMAIN opened
      /\ opened[Len(ts) + 1] = [status |-> "Open", reasons |-> reasons]
  OBVIOUS
<1>3. Len(ts) + 1 \in Unresolved(opened)
  BY <1>2 DEF Unresolved
<1> QED
  BY <1>1, <1>2, <1>3

LEMMA RedHasReasonsHolds == Spec => []RedHasReasons
<1>1. Init => RedHasReasons
  BY DEF Init, RedHasReasons, Idle
<1>2. TypeOK /\ RedHasReasons /\ [Next]_vars => RedHasReasons'
  <2> SUFFICES ASSUME TypeOK, RedHasReasons, [Next]_vars, NEW q \in Procs,
                      tx'[q].pc \in {"persist", "refresh"}, tx'[q].outcome.tier = "Red"
               PROVE  tx'[q].outcome.reasons # {}
    BY DEF RedHasReasons
  <2>1. CASE tx[q].pc \in {"persist", "refresh"} /\ tx'[q].outcome = tx[q].outcome
    BY <2>1 DEF RedHasReasons
  <2>2. ASSUME NEW h, NEW n, tx'[q].outcome = Outcome(h, n)
        PROVE  tx'[q].outcome.reasons # {}
    BY <2>2, RedIsExplained
  <2> QED
    BY <2>1, <2>2, ReaderMove
<1> QED
  BY <1>1, <1>2, TypeCorrect, PTL DEF Spec

(* The stored risk of a student changes when the row is created or         *)
(* deleted, and at the commit of a recompute of that student.              *)
LEMMA StoredStep ==
  ASSUME TypeOK, [Next]_vars, NEW s \in Students, stored'[s] # stored[s]
  PROVE  \/ \E c \in 1..10 : stored'[s] = Initially(c)
         \/ \E p \in Procs :
              /\ PersistRisk(p) \/ RefreshReasons(p)
              /\ tx[p].student = s
              /\ stored'[s].tier = tx[p].outcome.tier
<1>1. ASSUME stored' = stored PROVE FALSE
  BY <1>1
<1>2. ASSUME NEW u \in Students, StaffStep(u)
      PROVE  \E c \in 1..10 : stored'[s] = Initially(c)
  <2>1. ASSUME NEW c \in Confidences, CreateStudent(u, c)
        PROVE  stored'[s] = Initially(c) /\ c \in 1..10
    BY <2>1, RetentionAssumption DEF CreateStudent, TypeOK
  <2>2. CASE DeleteStudent(u)
    BY <2>2 DEF DeleteStudent, TypeOK
  <2>3. ASSUME NEW i \in DOMAIN tasks[u], StartTask(u, i) \/ ResolveTask(u, i)
        PROVE  FALSE
    BY <1>1, <2>3 DEF StartTask, ResolveTask
  <2> QED
    BY <1>2, <2>1, <2>2, <2>3 DEF StaffStep
<1>3. ASSUME NEW p \in Procs, Persist(p) \/ RefreshReasons(p)
      PROVE  /\ PersistRisk(p) \/ RefreshReasons(p)
             /\ tx[p].student = s
             /\ stored'[s].tier = tx[p].outcome.tier
  <2>1. ASSUME NEW ts, Commit(p, tx[p].student, ts)
        PROVE  tx[p].student = s /\ stored'[s].tier = tx[p].outcome.tier
    <3>1. stored' = [stored EXCEPT ![tx[p].student] = [score |-> tx[p].outcome.score,
                                                       tier |-> tx[p].outcome.tier]]
      BY <2>1 DEF Commit
    <3> QED
      BY <3>1 DEF TypeOK
  <2>2. ~ (FindTask(p) \/ MissStudent(p))
    BY <1>1 DEF FindTask, MissStudent
  <2> QED
    BY <1>3, <2>1, <2>2 DEF Persist, PersistRisk, RefreshReasons
<1>4. ASSUME NEW w \in Workers, NEW u \in Students, ClientStep(w, u) PROVE FALSE
  BY <1>1, <1>4 DEF ClientStep, UpdateStudent, RecordAttendance, RecordHomework,
                    SubmitSurvey, Request, PickWeek
<1>5. ASSUME NEW p \in Procs, SubmitPicked(p) \/ ReadSignals(p) \/ Fail(p) PROVE FALSE
  BY <1>1, <1>5 DEF SubmitPicked, ReadSignals, Fail
<1>6. ASSUME JobStep PROVE FALSE
  BY <1>1, <1>6 DEF JobStep, ListForRecompute, RecomputeNext
<1>7. ASSUME UNCHANGED vars PROVE FALSE
  BY <1>1, <1>7 DEF vars
<1> QED
  BY <1>2, <1>3, <1>4, <1>5, <1>6, <1>7 DEF Next, Procs

(* A step that stores Red leaves an unresolved task with a reason on the   *)
(* board, whatever happened to the previous task since the read, unless    *)
(* staff resolved the one that kept a new one from being opened            *)
(* (recomputeInTx).                                                        *)
THEOREM RedOpensTaskHolds == Spec => RedOpensTask
<1>1. TypeOK /\ RowsHeld /\ RedHasReasons /\ [Next]_vars =>
        [\A s \in Students : stored'[s] # stored[s] /\ stored'[s].tier = "Red" =>
           \/ \E i \in Unresolved(tasks[s]') : tasks'[s][i].reasons # {}
           \/ \E p \in Procs : On(p, s) /\ tx[p].resolved]_vars
  <2> SUFFICES ASSUME TypeOK, RowsHeld, RedHasReasons, [Next]_vars, NEW s \in Students,
                      stored'[s] # stored[s], stored'[s].tier = "Red"
               PROVE  \/ \E i \in Unresolved(tasks'[s]) : tasks'[s][i].reasons # {}
                      \/ \E p \in Procs : On(p, s) /\ tx[p].resolved
    BY DEF Unresolved
  <2>1. ASSUME NEW c \in 1..10, stored'[s] = Initially(c) PROVE FALSE
    BY <2>1, InitiallyNotRed
  <2>2. PICK p \in Procs :
          /\ PersistRisk(p) \/ RefreshReasons(p)
          /\ tx[p].student = s
          /\ stored'[s].tier = tx[p].outcome.tier
    BY <2>1, StoredStep
  <2>3. tx[p].pc \in {"persist", "refresh"}
    BY <2>2 DEF PersistRisk, RefreshReasons
  <2>4. tx[p].outcome.reasons # {} /\ tx[p].outcome.reasons \in Reasons
    BY <2>2, <2>3, TxFields DEF RedHasReasons
  <2>5. tasks[s] \in Seq(Task)
    BY DEF TypeOK
  <2>6. CASE PersistRisk(p)
    <3>1. tasks'[s] = Opened(tasks[s], tx[p].outcome.reasons)
      BY <2>2, <2>6 DEF PersistRisk, Commit, TypeOK
    <3> QED
      BY <2>4, <2>5, <3>1, OpenedShows
  <2>7. CASE RefreshReasons(p)
    <3>1. tasks'[s] = Refreshed(tasks[s], tx[p].outcome.reasons)
      BY <2>2, <2>7 DEF RefreshReasons, Commit, TypeOK
    <3>2. tx[p].resolved \/ Unresolved(tasks[s]) # {}
      BY <2>2, <2>7 DEF RefreshReasons, RowsHeld
    <3>3. CASE tx[p].resolved
      BY <2>2, <2>3, <3>3 DEF On, Busy
    <3>4. CASE Unresolved(tasks[s]) # {}
      BY <2>4, <2>5, <3>1, <3>4, RefreshedStatus
    <3> QED
      BY <3>2, <3>3, <3>4
  <2> QED
    BY <2>2, <2>6, <2>7
<1> QED
  BY <1>1, RowsHeldHolds, RedHasReasonsHolds, TypeCorrect, PTL DEF Spec, RedOpensTask
=============================================================================
