-------------------------- MODULE FactorFightRules --------------------------
(***************************************************************************)
(* The rules of Factor Fight (factorfight/move.go and the State methods of *)
(* factorfight/game.go): which moves two dice allow, whom a move bumps and *)
(* what it does to the board.                                              *)
(*                                                                         *)
(* An expression tree is modelled by its value: moves are compared, sent   *)
(* and applied by Result and Bump only.  A list of moves is modelled by    *)
(* the set of its members (FactorFightStrategy keeps the order).           *)
(***************************************************************************)
EXTENDS Integers, FiniteSets, Sequences

CONSTANTS Goal,   \* the square both pawns must reach: 101 in the code
          Sides   \* the sides of a die: 10 in the code

(* One die cannot take a pawn from the start to the goal, so that nobody   *)
(* wins with the first move: 10 < 101.                                     *)
ASSUME RulesAssumption ==
    Goal \in Nat /\ Sides \in Nat \ {0} /\ Sides < Goal
-----------------------------------------------------------------------------
Die == 1..Sides
Ops == {"Add", "Sub", "Mul", "Div"}
BumpStatus == {"NoBump", "BumpedPeer1", "BumpedPeer2", "BumpedSelf"}

Magnitude(n) == IF n < 0 THEN -n ELSE n

(* Division is allowed only when it leaves no remainder.                   *)
Quotient(l, r) ==
    IF r = 0 \/ l % Magnitude(r) # 0 THEN {}
    ELSE {IF r > 0 THEN l \div r ELSE (-l) \div (-r)}

(* Expr.Eval of "l op r": its value, or nothing when it is an error.       *)
Eval(l, op, r) ==
    IF op = "Add" THEN {l + r}
    ELSE IF op = "Sub" THEN {l - r}
    ELSE IF op = "Mul" THEN {l * r}
    ELSE Quotient(l, r)

EvalWithMax(values) == {v \in values : v <= Goal}

(* (start op1 a) op2 b  and  start op1 (a op2 b). *)
LeftFirst(start, op1, a, op2, b) ==
    UNION {Eval(v, op2, b) : v \in Eval(start, op1, a)}
RightFirst(start, op1, a, op2, b) ==
    UNION {Eval(start, op1, v) : v \in Eval(a, op2, b)}

(* Mutant of OrderIrrelevant: the second operation is not looked at.       *)
OrderIrrelevantAfterSum(op1, op2) == op1 \in {"Add", "Sub"} \/ op2 = "Mul"

(* The pairs for which "order of operations does not matter". *)
OrderIrrelevant(op1, op2) ==
    \/ op1 \in {"Add", "Sub"} /\ op2 \in {"Add", "Sub"}
    \/ op1 = "Mul" /\ op2 = "Mul"

pawnMovesOneDie(start, die) ==
    UNION {EvalWithMax(Eval(start, op, die)) : op \in Ops}

(* What two operations lead to, in the orders that matter. *)
BothOrders(start, op1, a, op2, b) ==
    EvalWithMax(LeftFirst(start, op1, a, op2, b) \cup
                IF OrderIrrelevant(op1, op2) THEN {} ELSE RightFirst(start, op1, a, op2, b))

pawnMovesTwoDice(start, d1, d2) ==
    UNION {BothOrders(start, op1, pair[1], op2, pair[2]) :
           pair \in {<<d1, d2>>, <<d2, d1>>}, op1 \in Ops, op2 \in Ops}

(* The squares a pawn can go to with the dice it is given. *)
pawnMoves(start, dice) ==
    IF dice = <<>> THEN {start}
    ELSE IF Len(dice) = 1 THEN pawnMovesOneDie(start, dice[1])
    ELSE pawnMovesTwoDice(start, dice[1], dice[2])

(* Mutant of allAllocations: both dice never go to one pawn.               *)
SplitAllocations(d1, d2, p1, p2) ==
    {alloc \in {<< <<d1>>, <<d2>> >>, << <<d2>>, <<d1>> >>} :
        p1 # Goal /\ p2 # Goal}

(* Who gets which dice: <<pawn 1's, pawn 2's>>.  A pawn at the goal gets   *)
(* none.                                                                   *)
allAllocations(d1, d2, p1, p2) ==
    {alloc \in {<< <<>>, <<d1, d2>> >>, << <<d1, d2>>, <<>> >>,
                << <<d1>>, <<d2>> >>, << <<d2>>, <<d1>> >>} :
        /\ p1 = Goal => alloc[1] = <<>>
        /\ p2 = Goal => alloc[2] = <<>>}

(* Mutants of BumpAt: the peer's second pawn is forgotten; a pawn at the   *)
(* goal is not safe.                                                       *)
BumpFirstOnly(result, peer1, peer2) ==
    IF result = peer1 /\ peer1 # Goal THEN "BumpedPeer1" ELSE "NoBump"
BumpAtGoal(result, peer1, peer2) ==
    IF result = peer2 THEN "BumpedPeer2"
    ELSE IF result = peer1 THEN "BumpedPeer1"
    ELSE "NoBump"

(* A pawn bumps the peer's pawn on the square it ends on, the second one   *)
(* if both are there; a pawn at the goal is safe.                          *)
BumpAt(result, peer1, peer2) ==
    IF result = peer2 /\ peer2 # Goal THEN "BumpedPeer2"
    ELSE IF result = peer1 /\ peer1 # Goal THEN "BumpedPeer1"
    ELSE "NoBump"

PawnMove(result, bump) == [Result |-> result, Bump |-> bump]

(* Two pawns of one player on one square: the second bumps the first. *)
MoveTo(r1, r2, peer1, peer2) ==
    [Pawn1 |-> PawnMove(r1, BumpAt(r1, peer1, peer2)),
     Pawn2 |-> PawnMove(r2, IF r1 = r2 /\ r1 # Goal THEN "BumpedSelf"
                            ELSE BumpAt(r2, peer1, peer2))]

(* At least one pawn must move, and none past the goal.  No allocation is  *)
(* left when both pawns are at the goal.                                   *)
generateMoves(p1, p2, d1, d2, peer1, peer2) ==
    {MoveTo(r[1], r[2], peer1, peer2) :
        r \in {q \in UNION {pawnMoves(p1, alloc[1]) \X pawnMoves(p2, alloc[2]) :
                            alloc \in allAllocations(d1, d2, p1, p2)} :
                 q # <<p1, p2>> /\ q[1] <= Goal /\ q[2] <= Goal}}
-----------------------------------------------------------------------------
(* A session's State: its own two pawns and the peer's. *)
Board(p1, p2, peer1, peer2) ==
    [Pawn1 |-> p1, Pawn2 |-> p2, PeerPawn1 |-> peer1, PeerPawn2 |-> peer2]

Boards == [Pawn1 : Int, Pawn2 : Int, PeerPawn1 : Int, PeerPawn2 : Int]
Moves  == LET pm == [Result : Int, Bump : BumpStatus] IN [Pawn1 : pm, Pawn2 : pm]

StartBoard == Board(0, 0, 0, 0)

Bumps(m) == {m.Pawn1.Bump, m.Pawn2.Bump}
SentBack(pos, bumped) == IF bumped THEN 0 ELSE pos

(* State.Move: the session's own move. *)
Move(s, m) ==
    Board(SentBack(m.Pawn1.Result, "BumpedSelf" \in Bumps(m)),
          m.Pawn2.Result,
          SentBack(s.PeerPawn1, "BumpedPeer1" \in Bumps(m)),
          SentBack(s.PeerPawn2, "BumpedPeer2" \in Bumps(m)))

(* Mutant of PeerMove: the peer's bump of its own pawn is forgotten.       *)
PeerMoveNoSelfBump(s, m) ==
    Board(SentBack(s.Pawn1, "BumpedPeer1" \in Bumps(m)),
          SentBack(s.Pawn2, "BumpedPeer2" \in Bumps(m)),
          m.Pawn1.Result,
          m.Pawn2.Result)

(* State.PeerMove: the peer's move, seen from the other side. *)
PeerMove(s, m) ==
    Board(SentBack(s.Pawn1, "BumpedPeer1" \in Bumps(m)),
          SentBack(s.Pawn2, "BumpedPeer2" \in Bumps(m)),
          SentBack(m.Pawn1.Result, "BumpedSelf" \in Bumps(m)),
          m.Pawn2.Result)

(* Mutant of Win: one pawn at the goal is enough.                          *)
WinWithOne(s) == s.Pawn1 = Goal \/ s.Pawn2 = Goal

Win(s)  == s.Pawn1 = Goal /\ s.Pawn2 = Goal
Lose(s) == s.PeerPawn1 = Goal /\ s.PeerPawn2 = Goal

(* The moves TakeTurn offers to the strategy. *)
MovesFor(s, d1, d2) ==
    generateMoves(s.Pawn1, s.Pawn2, d1, d2, s.PeerPawn1, s.PeerPawn2)

(* Mutant of MovesOfPeer: the validator's own pawns are swapped.           *)
MovesOfPeerSwapped(s, d1, d2) ==
    generateMoves(s.PeerPawn1, s.PeerPawn2, d1, d2, s.Pawn2, s.Pawn1)

(* validateMove: the moves OtherTurn accepts from the peer. *)
MovesOfPeer(s, d1, d2) ==
    generateMoves(s.PeerPawn1, s.PeerPawn2, d1, d2, s.Pawn1, s.Pawn2)

(* The same board from the other player's side. *)
Mirror(s) == Board(s.PeerPawn1, s.PeerPawn2, s.Pawn1, s.Pawn2)

(* Pawns share a square only at the start and at the goal. *)
Apart(a, b) == a = b => a \in {0, Goal}
NoSharedSquare(s) ==
    /\ Apart(s.Pawn1, s.Pawn2) /\ Apart(s.PeerPawn1, s.PeerPawn2)
    /\ \A a \in {s.Pawn1, s.Pawn2}, b \in {s.PeerPawn1, s.PeerPawn2} : Apart(a, b)

(* A board that a game can reach and go on from: on the board, nobody on   *)
(* the same square, nobody past the goal, and the game is not over.        *)
Legal(s) ==
    /\ \A a \in {s.Pawn1, s.Pawn2, s.PeerPawn1, s.PeerPawn2} : a \in Int /\ a <= Goal
    /\ NoSharedSquare(s)
    /\ ~ Win(s) /\ ~ Lose(s)
=============================================================================
