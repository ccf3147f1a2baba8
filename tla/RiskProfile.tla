----------------------------- MODULE RiskProfile -----------------------------
(***************************************************************************)
(* One student's history, edited one row at a time the way the handlers    *)
(* edit it, with the score read off after every edit.  It asks of the      *)
(* scoring function alone whether an edit moves the score the way a mentor *)
(* would expect; Retention.tla asks what the database makes of it.         *)
(***************************************************************************)
EXTENDS RiskScore, Sequences

CONSTANTS
  SurveyAnswers,  \* the check-ins a student may send, a subset of Surveys
  Levels,         \* the confidence levels an edit may set
  Pasts           \* the sets of dates attended before the first edit, and
                  \* never corrected: a student starts with one of them

ASSUME ProfileAssumption ==
  /\ SurveyAnswers \subseteq Surveys
  /\ Levels \subseteq 1..10
  /\ Pasts \subseteq SUBSET Dates

VARIABLES
  profile   \* the student's rows

profileVars == <<profile>>

ProfileTypeOK == profile \in History

ProfileInit ==
  \E c \in Levels, past \in Pasts :
     profile = [EmptyHistory(c) EXCEPT
                  !.att = [d \in Dates |-> IF d \in past THEN "yes" ELSE "none"]]

(* The dates the edits below range over.                                  *)
EditedDates == Dates \ UNION Pasts

(* CreateAttendance and CreateHomework upsert on the date, CreateSurvey on *)
(* the week, UpdateStudent overwrites the confidence.                      *)
MarkAttendance(d, present) ==
  profile' = [profile EXCEPT !.att[d] = IF present THEN "yes" ELSE "no"]

MarkHomework(d, done) ==
  profile' = [profile EXCEPT !.hw[d] = IF done THEN "yes" ELSE "no"]

CheckIn(w, answer) == profile' = [profile EXCEPT !.survey[w] = answer]

EditConfidence(c) == profile' = [profile EXCEPT !.confidence = c]

ProfileNext ==
  \/ \E d \in EditedDates, present \in BOOLEAN : MarkAttendance(d, present)
  \/ \E d \in HomeworkDates, done \in BOOLEAN : MarkHomework(d, done)
  \/ \E w \in Weeks, answer \in SurveyAnswers : CheckIn(w, answer)
  \/ \E c \in Levels : EditConfidence(c)

ProfileSpec == ProfileInit /\ [][ProfileNext]_profileVars

-----------------------------------------------------------------------------
TierRank(tier) == CASE tier = "Green" -> 0 [] tier = "Yellow" -> 1 [] tier = "Red" -> 2

(* An edit of the history before into the history after moves score and    *)
(* tier up, or down, together.                                             *)
RiskRises(before, after) ==
  Score(after) >= Score(before) /\ TierRank(Tier(after)) >= TierRank(Tier(before))
RiskFalls(before, after) == RiskRises(after, before)

(* Recording, or correcting a mark to, an absence never lowers the score   *)
(* nor the tier, on whatever past date it falls; a mark of presence never  *)
(* raises them.  Rate ladder, trailing streak and forced Red are three     *)
(* functions of the same rows, and any one of them could break it          *)
(* (computeRisk, consecutiveTrailingAbsences, evaluateWithTriggers).  The  *)
(* same for homework, except that the first row of all is compared to the  *)
(* neutral nil of homeworkRate.                                            *)
SignalsMonotone ==
  [][/\ \A d \in Dates :
          /\ profile.att[d] # "no" /\ profile.att[d]' = "no" => RiskRises(profile, profile')
          /\ profile.att[d] # "yes" /\ profile.att[d]' = "yes" => RiskFalls(profile, profile')
     /\ \A d \in HomeworkDates :
          /\ profile.hw[d] # "no" /\ profile.hw[d]' = "no" => RiskRises(profile, profile')
          /\ profile.hw[d] # "yes" /\ profile.hw[d]' = "yes" => RiskFalls(profile, profile')]_profileVars

(* Only the check-in of the highest week counts: rewriting an older week   *)
(* changes nothing, and a newer check-in that is no worse on either answer *)
(* than the one it supersedes never raises the risk (latestSurvey).        *)
LatestCheckinDecides ==
  [][\A w \in Weeks :
       LET before == SurveyWeeks(profile)
           older  == \E v \in before : v > w
           newest == before # {} /\ \A v \in before : v <= w
           was    == LatestSurvey(profile)
           new    == profile.survey[w]'
       IN  profile.survey[w] # new =>
             /\ older => RiskRises(profile, profile') /\ RiskFalls(profile, profile')
             /\ newest /\ new.motivation >= was.motivation /\ new.progress >= was.progress
                  => RiskFalls(profile, profile')]_profileVars

=============================================================================
