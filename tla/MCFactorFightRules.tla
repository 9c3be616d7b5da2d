------------------------- MODULE MCFactorFightRules -------------------------
(***************************************************************************)
(* The rules of Factor Fight over every legal board and every pair of dice *)
(* of a small game.  A behaviour plays one move on the board it starts     *)
(* with.                                                                   *)
(***************************************************************************)
EXTENDS FactorFightRules

CONSTANT Depth   \* bound: how far below 0 a pawn starts

VARIABLES board,  \* the mover's State
          dice,   \* the two dice
          done    \* has the move been made?

vars == <<board, dice, done>>

Squares == (-Depth)..Goal

Init ==
    /\ board \in {b \in {Board(p1, p2, q1, q2) : p1, p2, q1, q2 \in Squares} : Legal(b)}
    /\ dice \in Die \X Die
    /\ done = FALSE

MakeMove ==
    /\ ~ done
    /\ \E m \in MovesFor(board, dice[1], dice[2]) : board' = Move(board, m)
    /\ done' = TRUE
    /\ UNCHANGED dice

Next == MakeMove
Spec == Init /\ [][Next]_vars
-----------------------------------------------------------------------------
(* TakeTurn's "no valid moves" never happens: while the game is not over   *)
(* every roll leaves the player a move.                                    *)
EveryTurnHasAMove == ~ done => MovesFor(board, dice[1], dice[2]) # {}

(* pawnMovesTwoDice: "Order of operations does not matter" where it skips  *)
(* an order, so no square is lost by skipping it.                          *)
AllOrders(start, d1, d2) ==
    EvalWithMax(UNION {LeftFirst(start, op1, pair[1], op2, pair[2])
                         \cup RightFirst(start, op1, pair[1], op2, pair[2]) :
                       pair \in {<<d1, d2>>, <<d2, d1>>}, op1 \in Ops, op2 \in Ops})
SkippingLosesNothing ==
    pawnMoves(board.Pawn1, dice) = AllOrders(board.Pawn1, dice[1], dice[2])

(* After a move no two pawns share a square but the start and the goal:    *)
(* every pawn landed on was bumped, whichever bump took precedence.        *)
BumpsSeparate == NoSharedSquare(board)

(* A pawn that has reached the goal stays there, whoever moves (allocation *)
(* gives it no dice and no bump reaches it).                               *)
GoalIsFinal ==
    [][\A f \in DOMAIN board : board[f] = Goal => board'[f] = Goal]_vars
=============================================================================
