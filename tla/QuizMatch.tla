----------------------------- MODULE QuizMatch -----------------------------
(***************************************************************************)
(* What a quiz match promises its two players: each player stands at a     *)
(* question with a score; one answer moves that player one question on and *)
(* is worth one point or none.  Nobody's answer touches the other player,  *)
(* and no answer counts after the last question.                           *)
(***************************************************************************)
EXTENDS Naturals

CONSTANTS Players, NumQuestions

VARIABLE standing

QuizStart == [score |-> 0, activeQuestionIndex |-> 0]

QuizInit == standing = [p \in Players |-> QuizStart]

Answer(p) ==
    /\ standing[p].activeQuestionIndex < NumQuestions
    /\ \E point \in {0, 1} :
          standing' = [standing EXCEPT ![p] =
              [score |-> standing[p].score + point,
               activeQuestionIndex |-> standing[p].activeQuestionIndex + 1]]

QuizNext == \E p \in Players : Answer(p)

QuizSpec == QuizInit /\ [][QuizNext]_standing
=============================================================================
