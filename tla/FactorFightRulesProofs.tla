----------------------- MODULE FactorFightRulesProofs -----------------------
(***************************************************************************)
(* Facts about the rules of Factor Fight, for every goal, every die and    *)
(* every board: the moves that generateMoves lists, and what they do to    *)
(* the board.                                                              *)
(***************************************************************************)
EXTENDS FactorFightRules, TLAPS

USE RulesAssumption

(* An expression's value is an integer (Expr.Eval).                        *)
LEMMA EvalInt ==
    ASSUME NEW l \in Int, NEW op \in Ops, NEW r \in Int
    PROVE  Eval(l, op, r) \subseteq Int
<1>1. Quotient(l, r) \subseteq Int
  BY DEF Quotient, Magnitude
<1> QED
  BY <1>1 DEF Eval

(* The squares that dice lead to (pawnMoves).                              *)
LEMMA PawnMovesInt ==
    ASSUME NEW start \in Int, NEW d1 \in Die, NEW d2 \in Die
    PROVE  /\ pawnMovesOneDie(start, d1) \subseteq Int
           /\ pawnMovesTwoDice(start, d1, d2) \subseteq Int
<1>0. d1 \in Int /\ d2 \in Int
  BY DEF Die
<1>1. pawnMovesOneDie(start, d1) \subseteq Int
  BY <1>0, EvalInt DEF pawnMovesOneDie, EvalWithMax
<1>2. ASSUME NEW op1 \in Ops, NEW op2 \in Ops, NEW a \in Int, NEW b \in Int
      PROVE  LeftFirst(start, op1, a, op2, b) \subseteq Int
             /\ RightFirst(start, op1, a, op2, b) \subseteq Int
  BY EvalInt DEF LeftFirst, RightFirst
<1>3. pawnMovesTwoDice(start, d1, d2) \subseteq Int
  <2> SUFFICES ASSUME NEW v \in pawnMovesTwoDice(start, d1, d2) PROVE v \in Int
    OBVIOUS
  <2>1. PICK pair \in {<<d1, d2>>, <<d2, d1>>}, op1 \in Ops, op2 \in Ops :
            v \in BothOrders(start, op1, pair[1], op2, pair[2])
    BY DEF pawnMovesTwoDice
  <2>2. pair[1] \in Int /\ pair[2] \in Int
    BY <1>0, <2>1
  <2>3. v \in LeftFirst(start, op1, pair[1], op2, pair[2])
        \/ v \in RightFirst(start, op1, pair[1], op2, pair[2])
    BY <2>1 DEF BothOrders, EvalWithMax
  <2> QED
    BY <1>2, <2>2, <2>3
<1> QED
  BY <1>1, <1>3

(* What a way to give out the dice leads to.                               *)
SoundAllocation(p1, p2, alloc) ==
    /\ pawnMoves(p1, alloc[1]) \subseteq Int /\ pawnMoves(p2, alloc[2]) \subseteq Int
    /\ p1 = Goal => pawnMoves(p1, alloc[1]) = {p1}
    /\ p2 = Goal => pawnMoves(p2, alloc[2]) = {p2}
    /\ \/ pawnMoves(p1, alloc[1]) = {p1}
       \/ pawnMoves(p2, alloc[2]) = {p2}
       \/ \E d \in Die : pawnMoves(p1, alloc[1]) = pawnMovesOneDie(p1, d)

(* Every way is sound: a pawn without dice stays, and so does one at the   *)
(* goal (allAllocations, pawnMoves).                                       *)
LEMMA AllocationFacts ==
    ASSUME NEW p1 \in Int, NEW p2 \in Int, NEW d1 \in Die, NEW d2 \in Die,
           NEW alloc \in allAllocations(d1, d2, p1, p2)
    PROVE  SoundAllocation(p1, p2, alloc)
<1> USE DEF allAllocations, pawnMoves, SoundAllocation
<1>1. alloc \in {<< <<>>, <<d1, d2>> >>, << <<d1, d2>>, <<>> >>,
                 << <<d1>>, <<d2>> >>, << <<d2>>, <<d1>> >>}
  BY DEF allAllocations
<1>2. CASE alloc = << <<>>, <<d1, d2>> >>
  BY <1>2, PawnMovesInt
<1>3. CASE alloc = << <<d1, d2>>, <<>> >>
  BY <1>3, PawnMovesInt
<1>4. CASE alloc = << <<d1>>, <<d2>> >>
  BY <1>4, PawnMovesInt
<1>5. CASE alloc = << <<d2>>, <<d1>> >>
  BY <1>5, PawnMovesInt
<1> QED
  BY <1>1, <1>2, <1>3, <1>4, <1>5

(* What every listed move is (generateMoves): some pawn moves, none goes   *)
(* past the goal, and one that is there stays.                             *)
LEMMA MoveFacts ==
    ASSUME NEW p1 \in Int, NEW p2 \in Int, NEW d1 \in Die, NEW d2 \in Die,
           NEW peer1 \in Int, NEW peer2 \in Int,
           NEW m \in generateMoves(p1, p2, d1, d2, peer1, peer2)
    PROVE  \E r1, r2 \in Int :
              /\ m = MoveTo(r1, r2, peer1, peer2)
              /\ r1 <= Goal /\ r2 <= Goal
              /\ p1 = Goal => r1 = Goal
              /\ p2 = Goal => r2 = Goal
              /\ \/ r1 = p1
                 \/ r2 = p2
                 \/ \E d \in Die : r1 \in pawnMovesOneDie(p1, d)
<1>1. PICK r \in UNION {pawnMoves(p1, alloc[1]) \X pawnMoves(p2, alloc[2]) :
                           alloc \in allAllocations(d1, d2, p1, p2)} :
          m = MoveTo(r[1], r[2], peer1, peer2) /\ r[1] <= Goal /\ r[2] <= Goal
  BY DEF generateMoves
<1>2. PICK alloc \in allAllocations(d1, d2, p1, p2) :
          r \in pawnMoves(p1, alloc[1]) \X pawnMoves(p2, alloc[2])
  BY <1>1
<1>3. r[1] \in pawnMoves(p1, alloc[1]) /\ r[2] \in pawnMoves(p2, alloc[2])
  BY <1>2
<1>4. SoundAllocation(p1, p2, alloc)
  BY AllocationFacts
<1>5. r[1] \in Int /\ r[2] \in Int
  BY <1>3, <1>4 DEF SoundAllocation
<1>6. \/ r[1] = p1 \/ r[2] = p2 \/ \E d \in Die : r[1] \in pawnMovesOneDie(p1, d)
  BY <1>3, <1>4 DEF SoundAllocation
<1>7. (p1 = Goal => r[1] = Goal) /\ (p2 = Goal => r[2] = Goal)
  BY <1>3, <1>4 DEF SoundAllocation
<1> QED
  BY <1>1, <1>5, <1>6, <1>7

(* A listed move has the fields that are sent (Move in move.go).           *)
LEMMA MoveType ==
    ASSUME NEW r1 \in Int, NEW r2 \in Int, NEW peer1 \in Int, NEW peer2 \in Int
    PROVE  MoveTo(r1, r2, peer1, peer2) \in Moves
BY DEF MoveTo, PawnMove, BumpAt, Moves, BumpStatus

-----------------------------------------------------------------------------
(* The peer's move seen from the other side (PeerMove and Move in game.go; *)
(* validateMove swaps the players as TakeTurn sees them).                  *)
LEMMA MirrorFacts ==
    ASSUME NEW s \in Boards
    PROVE  /\ Mirror(s) \in Boards /\ Mirror(Mirror(s)) = s
           /\ NoSharedSquare(Mirror(s)) <=> NoSharedSquare(s)
           /\ Win(Mirror(s)) <=> Lose(s)
           /\ Legal(Mirror(s)) <=> Legal(s)
           /\ \A d1, d2 : MovesOfPeer(s, d1, d2) = MovesFor(Mirror(s), d1, d2)
           /\ \A m \in Moves : /\ PeerMove(s, m) \in Boards
                               /\ Mirror(PeerMove(s, m)) = Move(Mirror(s), m)
<1>1. /\ Mirror(s) \in Boards /\ Mirror(Mirror(s)) = s
      /\ Win(Mirror(s)) <=> Lose(s)
  BY DEF Boards, Mirror, Board, Win, Lose
<1>2. NoSharedSquare(Mirror(s)) <=> NoSharedSquare(s)
  BY DEF Boards, Mirror, Board, NoSharedSquare, Apart
<1>5. Legal(Mirror(s)) <=> Legal(s)
  BY <1>1, <1>2 DEF Boards, Mirror, Board, Legal, Win, Lose
<1>3. \A d1, d2 : MovesOfPeer(s, d1, d2) = MovesFor(Mirror(s), d1, d2)
  BY DEF MovesOfPeer, MovesFor, Mirror, Board
<1>4. ASSUME NEW m \in Moves
      PROVE  PeerMove(s, m) \in Boards /\ Mirror(PeerMove(s, m)) = Move(Mirror(s), m)
  BY DEF Boards, Moves, PeerMove, Move, Mirror, Board, SentBack, Bumps
<1> QED
  BY <1>1, <1>2, <1>3, <1>4, <1>5

(* After a move no two pawns share a square but the start and the goal:    *)
(* both of the mover's pawns bump, and the second bumps the first (the     *)
(* bumps of generateMoves with State.Move).                                *)
LEMMA MoveSeparates ==
    ASSUME NEW s \in Boards, NoSharedSquare(s), NEW r1 \in Int, NEW r2 \in Int
    PROVE  NoSharedSquare(Move(s, MoveTo(r1, r2, s.PeerPawn1, s.PeerPawn2)))
BY DEF Boards, NoSharedSquare, Apart, Move, MoveTo, PawnMove, BumpAt, Board, SentBack, Bumps

(* Where one die takes a pawn from the start (pawnMovesOneDie).            *)
LEMMA OneDieFromStart ==
    ASSUME NEW d \in Die, NEW r \in pawnMovesOneDie(0, d)
    PROVE  r < Goal
<1>1. d \in Int /\ 1 <= d /\ d < Goal /\ 0 < Goal /\ Goal \in Int
  BY DEF Die
<1>2. PICK op \in Ops : r \in Eval(0, op, d)
  BY DEF pawnMovesOneDie, EvalWithMax
<1>3. r = 0 + d \/ r = 0 - d \/ r = 0 * d \/ r \in Quotient(0, d)
  BY <1>2 DEF Eval
<1>4. ASSUME r \in Quotient(0, d) PROVE r = 0
  BY <1>1, <1>4 DEF Quotient, Magnitude
<1> QED
  BY <1>1, <1>3, <1>4

(* Nobody wins with the first move of a pawn at the start: one pawn has at *)
(* most one die, and a die does not reach the goal (State.Win).            *)
LEMMA NoFirstMoveWins ==
    ASSUME NEW d1 \in Die, NEW d2 \in Die, NEW m \in MovesFor(StartBoard, d1, d2)
    PROVE  ~ Win(Move(StartBoard, m))
<1>1. PICK r1 \in Int, r2 \in Int :
          /\ m = MoveTo(r1, r2, 0, 0)
          /\ r1 = 0 \/ r2 = 0 \/ \E d \in Die : r1 \in pawnMovesOneDie(0, d)
  BY MoveFacts DEF MovesFor, StartBoard, Board
<1>2. r1 # Goal \/ r2 # Goal
  BY <1>1, OneDieFromStart
<1> QED
  BY <1>1, <1>2 DEF Move, MoveTo, PawnMove, BumpAt, Win, Board, SentBack, Bumps, StartBoard

(* A turn can be played: the dice can always be taken off a pawn that is   *)
(* not at the goal (allAllocations, pawnMovesTwoDice).                     *)
LEMMA MoveExists ==
    ASSUME NEW s \in Boards, s.Pawn1 <= Goal, s.Pawn2 <= Goal, ~ Win(s),
           NEW d1 \in Die, NEW d2 \in Die
    PROVE  MovesFor(s, d1, d2) # {}
<1> DEFINE p1 == s.Pawn1
           p2 == s.Pawn2
<1>1. /\ p1 \in Int /\ p2 \in Int /\ d1 \in Int /\ d2 \in Int /\ 0 < d1 /\ 0 < d2
      /\ p1 # Goal \/ p2 # Goal
  BY DEF Boards, Die, Win
<1>2. ASSUME NEW p \in Int, p <= Goal
      PROVE  p - d1 - d2 \in pawnMoves(p, <<d1, d2>>)
  <2>1. p - d1 - d2 \in LeftFirst(p, "Sub", d1, "Sub", d2) /\ p - d1 - d2 <= Goal
    BY <1>1, <1>2 DEF LeftFirst, Eval
  <2>2. p - d1 - d2 \in pawnMovesTwoDice(p, d1, d2)
    <3> DEFINE pair == <<d1, d2>>
    <3>1. pair \in {<<d1, d2>>, <<d2, d1>>} /\ "Sub" \in Ops
      BY DEF Ops
    <3>2. p - d1 - d2 \in BothOrders(p, "Sub", pair[1], "Sub", pair[2])
      BY <2>1 DEF BothOrders, EvalWithMax
    <3> HIDE DEF pair
    <3> QED
      BY <3>1, <3>2 DEF pawnMovesTwoDice
  <2> QED
    BY <2>2 DEF pawnMoves
<1>3. ASSUME NEW alloc \in allAllocations(d1, d2, p1, p2),
             NEW r1 \in pawnMoves(p1, alloc[1]), NEW r2 \in pawnMoves(p2, alloc[2]),
             r1 <= Goal, r2 <= Goal, <<r1, r2>> # <<p1, p2>>
      PROVE  MovesFor(s, d1, d2) # {}
  <2> DEFINE r == <<r1, r2>>
  <2>1. r \in pawnMoves(p1, alloc[1]) \X pawnMoves(p2, alloc[2])
    BY <1>3
  <2>2. MoveTo(r[1], r[2], s.PeerPawn1, s.PeerPawn2) \in
            generateMoves(p1, p2, d1, d2, s.PeerPawn1, s.PeerPawn2)
    BY <1>3, <2>1 DEF generateMoves
  <2> QED
    BY <2>2 DEF MovesFor
<1>4. CASE p1 # Goal
  <2> DEFINE alloc == << <<d1, d2>>, <<>> >>
  <2>1. alloc \in allAllocations(d1, d2, p1, p2)
    BY <1>4 DEF allAllocations
  <2>2. p1 - d1 - d2 \in pawnMoves(p1, alloc[1]) /\ p2 \in pawnMoves(p2, alloc[2])
    BY <1>1, <1>2 DEF pawnMoves
  <2>3. p1 - d1 - d2 <= Goal /\ p2 <= Goal /\ p1 - d1 - d2 # p1
    BY <1>1
  <2> HIDE DEF alloc, p1, p2
  <2> QED
    BY <1>3, <2>1, <2>2, <2>3
<1>5. CASE p2 # Goal
  <2> DEFINE alloc == << <<>>, <<d1, d2>> >>
  <2>1. alloc \in allAllocations(d1, d2, p1, p2)
    BY <1>5 DEF allAllocations
  <2>2. p1 \in pawnMoves(p1, alloc[1]) /\ p2 - d1 - d2 \in pawnMoves(p2, alloc[2])
    BY <1>1, <1>2 DEF pawnMoves
  <2>3. p2 - d1 - d2 <= Goal /\ p1 <= Goal /\ p2 - d1 - d2 # p2
    BY <1>1
  <2> HIDE DEF alloc, p1, p2
  <2> QED
    BY <1>3, <2>1, <2>2, <2>3
<1> QED
  BY <1>1, <1>4, <1>5

(* What a move that the rules list does to the board it was listed for:    *)
(* unless it wins, the other player can go on.                             *)
LEMMA ListedMove ==
    ASSUME NEW s \in Boards, NEW d1 \in Die, NEW d2 \in Die,
           NEW m \in MovesFor(s, d1, d2)
    PROVE  /\ m \in Moves /\ Move(s, m) \in Boards
           /\ NoSharedSquare(s) => NoSharedSquare(Move(s, m))
           /\ s = StartBoard => ~ Win(Move(s, m))
           /\ (Legal(s) /\ ~ Win(Move(s, m))) => Legal(Move(s, m))
<1>1. PICK r1 \in Int, r2 \in Int : /\ m = MoveTo(r1, r2, s.PeerPawn1, s.PeerPawn2)
                                    /\ r1 <= Goal /\ r2 <= Goal
  BY MoveFacts DEF MovesFor, Boards
<1>2. m \in Moves
  BY <1>1, MoveType DEF Boards
<1>3. Move(s, m) \in Boards
  BY <1>2 DEF Boards, Moves, Move, Board, SentBack, Bumps
<1>4. NoSharedSquare(s) => NoSharedSquare(Move(s, m))
  BY <1>1, MoveSeparates
<1>5. ASSUME Legal(s), ~ Win(Move(s, m)) PROVE Legal(Move(s, m))
  <2>1. /\ \A a \in {s.Pawn1, s.Pawn2, s.PeerPawn1, s.PeerPawn2} : a \in Int /\ a <= Goal
        /\ NoSharedSquare(Move(s, m)) /\ ~ Lose(s)
    BY <1>4, <1>5 DEF Legal
  <2>2. m.Pawn1.Result <= Goal /\ m.Pawn2.Result <= Goal
        /\ m.Pawn1.Result \in Int /\ m.Pawn2.Result \in Int
    BY <1>1 DEF MoveTo, PawnMove
  <2>3. ~ Lose(Move(s, m))
    BY <2>1 DEF Lose, Move, Board, SentBack
  <2>4. \A a \in {Move(s, m).Pawn1, Move(s, m).Pawn2, Move(s, m).PeerPawn1, Move(s, m).PeerPawn2} :
           a \in Int /\ a <= Goal
    BY <2>1, <2>2 DEF Move, Board, SentBack
  <2> QED
    BY <1>5, <2>1, <2>3, <2>4 DEF Legal
<1> QED
  BY <1>2, <1>3, <1>4, <1>5, NoFirstMoveWins
=============================================================================
