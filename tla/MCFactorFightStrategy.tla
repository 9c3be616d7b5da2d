----------------------- MODULE MCFactorFightStrategy ------------------------
(***************************************************************************)
(* The ordered list of moves and the default strategy, on the boards and   *)
(* dice of MCFactorFightRules.                                             *)
(***************************************************************************)
EXTENDS MCFactorFightRules, FactorFightStrategy

Choice == ChooseMove(MoveList(board, dice[1], dice[2]))

-----------------------------------------------------------------------------
Closest(m) == IF m.Pawn1.Result > m.Pawn2.Result THEN m.Pawn1.Result ELSE m.Pawn2.Result

(* With one pawn at the goal the strategy brings the other as close as the *)
(* dice allow, whatever the order of the moves.                            *)
LastPawnGoesClosest ==
    ~ done /\ (board.Pawn1 = Goal \/ board.Pawn2 = Goal) =>
        LET best == Choice.Pawn1.Result + Choice.Pawn2.Result
        IN  \A m \in MovesFor(board, dice[1], dice[2]) :
                m.Pawn1.Result + m.Pawn2.Result <= best

(* factorfight/strategy.go: "ChooseMove chooses the move with one Pawn     *)
(* closest to the goal": no other move has a pawn that is closer, counting *)
(* pawns that are not home yet.                                            *)
ChoosesPawnClosestToGoal ==
    ~ done /\ board.Pawn1 # Goal /\ board.Pawn2 # Goal =>
        \A m \in MovesFor(board, dice[1], dice[2]) : Closest(m) <= Closest(Choice)
=============================================================================
