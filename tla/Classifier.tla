----------------------------- MODULE Classifier -----------------------------
(***************************************************************************)
(* The classifier of scene-detect/scene.py: the descending sort that ends *)
(* scene_similarity and the first-match chain of stability predicates of *)
(* _evaluate_state, which turn a frame's per-scene scores into the        *)
(* candidate state given to fsm_update.  The histogram correlation that   *)
(* makes the scores is not modelled: a frame is any assignment of scores  *)
(* from Levels to the loaded scenes.  Scores are in hundredths.            *)
(***************************************************************************)
EXTENDS Integers, FiniteSets, Sequences, SceneStates

CONSTANTS LoadOrder,   \* the scenes of the template files, in load order
          Levels       \* the scores a frame may give, in hundredths

VARIABLE score   \* score_map of scene_similarity for the current frame

N == Len(LoadOrder)

\* The keys of templates_hist: one per scene with a readable template.
Loaded == {LoadOrder[i] : i \in 1..N}

\* Where a scene sits in the dict score_map, i.e. in load order.
Pos(n) == CHOOSE i \in 1..N : LoadOrder[i] = n

\* results = sorted(score_map.items(), key=score, reverse=True): Python's
\* sort is stable, and reverse=True keeps equal keys in their dict order,
\* so scene n is preceded by exactly the scenes with a higher score and
\* the earlier-loaded scenes with the same score.
Rank(n) ==
  Cardinality({m \in Loaded : \/ score[m] > score[n]
                              \/ score[m] = score[n] /\ Pos(m) < Pos(n)})

scores == [k \in 1..N |-> CHOOSE n \in Loaded : Rank(n) = k - 1]

\* _score_of: the score of a scene, -1.0 when it has no template.
ScoreOf(n) == IF n \in Loaded THEN score[n] ELSE -100

\* names[k] of _top_names(scores, 3), for k in 0..2 as in the code.
Names(k) == scores[k + 1]

TopName  == scores[1]
TopScore == score[TopName]

\* all(s <= bound for n, s in scores if n not in excl)
AllOthersAtMost(excl, bound) == \A n \in Loaded \ excl : score[n] <= bound

\* The stability predicates of _evaluate_state, in the order tested.
HomeStable ==
  /\ TopName = "home" /\ TopScore >= 80 /\ N >= 3
  /\ Names(1) = "clear-ok" /\ Names(2) \in {"helper-select", "deck-select"}

EventStable ==
  TopName = "event" /\ TopScore >= 80 /\ N >= 2 /\ Names(1) = "quest"

QuestStable ==
  TopName = "quest" /\ TopScore >= 80 /\ N >= 2 /\ Names(1) = "event"

NormalQuestStable ==
  /\ TopName = "normal-quest" /\ TopScore >= 80
  /\ ScoreOf("normal-quest-uijin") >= 70
  /\ N >= 2 /\ Names(1) = "normal-quest-uijin"

NormalQuestUijinStable ==
  /\ TopName = "normal-quest-uijin" /\ TopScore >= 80
  /\ ScoreOf("normal-quest") >= 70 /\ ScoreOf("deck-select") >= 50
  /\ ScoreOf("event") >= 45 /\ ScoreOf("quest") >= 45
  /\ N >= 2 /\ Names(1) = "normal-quest"

KaryuStable ==
  /\ TopName = "normal-quest-uijin-karyu" /\ TopScore >= 70
  /\ \/ ScoreOf("helper-select") >= 50
     \/ ScoreOf("deck-select") >= 50
     \/ ScoreOf("normal-quest") >= 60
  /\ N >= 2 /\ Names(1) \in {"helper-select", "deck-select", "normal-quest"}

HelperSelectStable ==
  /\ TopName = "helper-select" /\ TopScore >= 80
  /\ ScoreOf("clear-ok") >= 60 /\ ScoreOf("deck-select") >= 60
  /\ N >= 2 /\ Names(1) \in {"clear-ok", "deck-select"}

DeckSelectStable ==
  /\ TopName = "deck-select" /\ TopScore >= 80
  /\ ScoreOf("event") >= 60 \/ ScoreOf("quest") >= 60
  /\ N >= 2 /\ Names(1) \in {"event", "quest"}

InPlayStable ==
  /\ TopName = "normal-quest-uijin-in-play" /\ TopScore >= 60
  /\ Cardinality({k \in 2..N : score[scores[k]] <= 20}) >= 8

ClearOkStable == TopName = "clear-ok" /\ TopScore >= 80

\* As the code parses it: "and" binds tighter than "or", so the condition
\* is (A and B and C) or D, and D alone, every other scene at 0.2 or
\* below, makes the candidate whatever the top scene.  The exclusion
\* ("special-reward") is a string, so "not in" is a substring test; no
\* other scene name of the project is a substring of "special-reward".
SpecialRewardStable ==
  \/ /\ TopName = "special-reward" /\ TopScore >= 60
     /\ ScoreOf("reward-next") >= 30
     /\ AllOthersAtMost({"special-reward", "reward-next"}, 20)
  \/ AllOthersAtMost({"special-reward"}, 20)

RewardNextStable ==
  /\ TopName = "reward-next" /\ TopScore >= 60
  /\ ScoreOf("special-reward") < 60
  /\ \A n \in Loaded \ {"reward-next", "special-reward"} : score[n] < 30

\* _evaluate_state: the first predicate that holds wins.
EvaluateState ==
  IF N = 0 THEN S_UNKNOWN
  ELSE IF HomeStable THEN S_HOME
  ELSE IF EventStable THEN S_EVENT
  ELSE IF QuestStable THEN S_QUEST
  ELSE IF NormalQuestStable THEN S_NORMAL_QUEST
  ELSE IF NormalQuestUijinStable THEN S_NORMAL_QUEST_UIJIN
  ELSE IF KaryuStable THEN S_NORMAL_QUEST_UIJIN_KARYU
  ELSE IF HelperSelectStable THEN S_HELPER_SELECT
  ELSE IF DeckSelectStable THEN S_DECK_SELECT
  ELSE IF InPlayStable THEN S_IN_PLAY
  ELSE IF ClearOkStable THEN S_CLEAR_OK
  ELSE IF SpecialRewardStable THEN S_SPECIAL_REWARD
  ELSE IF RewardNextStable THEN S_REWARD_NEXT
  ELSE S_UNKNOWN

\* One frame per detection: any scores the correlation may give.
Frame == score' \in [Loaded -> Levels]

Init == score \in [Loaded -> Levels]

Spec == Init /\ [][Frame]_score

-----------------------------------------------------------------------------
\* Spec 4.2 and the note of spec 9: SPECIAL-REWARD is recognised only when
\* special-reward is the top-ranked scene with a score of at least 0.6, as
\* _evaluate_state's first conjuncts read.
SpecialRewardOnTop ==
  EvaluateState = S_SPECIAL_REWARD =>
    TopName = "special-reward" /\ TopScore >= 60

=============================================================================
