----------------------- MODULE FactorFightTurnsProofs -----------------------
(***************************************************************************)
(* Theorems about one turn of Factor Fight (MCFactorFightRules), for every *)
(* goal, every die and boards however far below zero.                      *)
(***************************************************************************)
EXTENDS MCFactorFightStrategy, FactorFightRulesProofs, FiniteSetTheorems,
        WellFoundedInduction

USE RulesAssumption

(* What a turn keeps of the board.                                         *)
BoardInv ==
    /\ board \in Boards /\ dice \in Die \X Die
    /\ NoSharedSquare(board)
    /\ done \in BOOLEAN
    /\ ~ done => Legal(board)

(* It holds in every turn (generateMoves, State.Move).                     *)
LEMMA BoardInvariant == Spec => []BoardInv
<1>1. Init => BoardInv
  <2> SUFFICES ASSUME Init PROVE BoardInv
    OBVIOUS
  <2>1. Legal(board) /\ \E p1, p2, q1, q2 \in Squares : board = Board(p1, p2, q1, q2)
    BY DEF Init
  <2>2. board \in Boards
    BY <2>1 DEF Legal, Board, Boards
  <2>3. NoSharedSquare(board)
    BY <2>1 DEF Legal
  <2>4. dice \in Die \X Die
    BY DEF Init
  <2>5. done \in BOOLEAN
    BY Zenon DEF Init
  <2> QED
    BY <2>1, <2>2, <2>3, <2>4, <2>5 DEF BoardInv
<1>2. BoardInv /\ [Next]_vars => BoardInv'
  <2> SUFFICES ASSUME BoardInv, [Next]_vars PROVE BoardInv'
    OBVIOUS
  <2>1. CASE MakeMove
    <3>1. PICK m \in MovesFor(board, dice[1], dice[2]) : board' = Move(board, m)
      BY <2>1 DEF MakeMove
    <3>2. dice[1] \in Die /\ dice[2] \in Die
      BY DEF BoardInv
    <3>3. Move(board, m) \in Boards /\ NoSharedSquare(Move(board, m))
      BY <3>2, ListedMove DEF BoardInv
    <3> QED
      BY <2>1, <3>1, <3>3 DEF BoardInv, MakeMove
  <2>2. CASE UNCHANGED vars
    BY <2>2 DEF BoardInv, vars, Legal, NoSharedSquare, Win, Lose
  <2> QED
    BY <2>1, <2>2 DEF Next
<1> QED
  BY <1>1, <1>2, PTL DEF Spec

(* TakeTurn's "no valid moves" never happens.                              *)
THEOREM PlayersCanMove == Spec => []EveryTurnHasAMove
<1>1. BoardInv => EveryTurnHasAMove
  <2> SUFFICES ASSUME BoardInv, ~ done PROVE MovesFor(board, dice[1], dice[2]) # {}
    BY DEF EveryTurnHasAMove
  <2>1. board.Pawn1 <= Goal /\ board.Pawn2 <= Goal /\ ~ Win(board)
    BY DEF BoardInv, Legal
  <2>2. dice[1] \in Die /\ dice[2] \in Die /\ board \in Boards
    BY DEF BoardInv
  <2> QED
    BY <2>1, <2>2, MoveExists
<1> QED
  BY <1>1, BoardInvariant, PTL

(* After a move no two pawns share a square but the start and the goal     *)
(* (the bumps of generateMoves, State.Move).                               *)
THEOREM MovesSeparate == Spec => []BumpsSeparate
<1>1. BoardInv => BumpsSeparate
  BY DEF BoardInv, BumpsSeparate
<1> QED
  BY <1>1, BoardInvariant, PTL

(* A pawn at the goal stays there, whoever moves (allAllocations, the      *)
(* bumps of generateMoves).                                                *)
THEOREM PawnsStayHome == Spec => GoalIsFinal
<1>1. BoardInv /\ [Next]_vars => [\A f \in DOMAIN board : board[f] = Goal => board'[f] = Goal]_vars
  <2> SUFFICES ASSUME BoardInv, MakeMove, NEW f \in DOMAIN board, board[f] = Goal
               PROVE  board'[f] = Goal
    BY DEF Next
  <2>1. PICK m \in MovesFor(board, dice[1], dice[2]) : board' = Move(board, m)
    BY DEF MakeMove
  <2>2. board \in Boards /\ dice[1] \in Die /\ dice[2] \in Die
    BY DEF BoardInv
  <2>3. PICK r1, r2 \in Int : /\ m = MoveTo(r1, r2, board.PeerPawn1, board.PeerPawn2)
                              /\ board.Pawn1 = Goal => r1 = Goal
                              /\ board.Pawn2 = Goal => r2 = Goal
    BY <2>2, MoveFacts DEF MovesFor, Boards
  <2>4. f \in {"Pawn1", "Pawn2", "PeerPawn1", "PeerPawn2"}
    BY <2>2 DEF Boards
  <2> QED
    BY <2>1, <2>2, <2>3, <2>4 DEF Move, MoveTo, PawnMove, BumpAt, Board, SentBack, Bumps, Boards
<1> QED
  BY <1>1, BoardInvariant, PTL DEF Spec, GoalIsFinal
-----------------------------------------------------------------------------
(* Where pawnMovesTwoDice skips the second order of two operations, two    *)
(* operations in the first order have the same value.                      *)
LEMMA OrdersAgree ==
    ASSUME NEW start \in Int, NEW a \in Int, NEW b \in Int,
           NEW op1 \in Ops, NEW op2 \in Ops, OrderIrrelevant(op1, op2)
    PROVE  \E o1, o2 \in Ops :
              RightFirst(start, op1, a, op2, b) \subseteq LeftFirst(start, o1, a, o2, b)
<1>1. /\ RightFirst(start, "Add", a, "Add", b) = {start + (a + b)}
      /\ RightFirst(start, "Add", a, "Sub", b) = {start + (a - b)}
      /\ RightFirst(start, "Sub", a, "Add", b) = {start - (a + b)}
      /\ RightFirst(start, "Sub", a, "Sub", b) = {start - (a - b)}
      /\ RightFirst(start, "Mul", a, "Mul", b) = {start * (a * b)}
  BY DEF RightFirst, Eval
<1>2. /\ LeftFirst(start, "Add", a, "Add", b) = {(start + a) + b}
      /\ LeftFirst(start, "Add", a, "Sub", b) = {(start + a) - b}
      /\ LeftFirst(start, "Sub", a, "Add", b) = {(start - a) + b}
      /\ LeftFirst(start, "Sub", a, "Sub", b) = {(start - a) - b}
      /\ LeftFirst(start, "Mul", a, "Mul", b) = {(start * a) * b}
  BY DEF LeftFirst, Eval
<1>3. /\ start + (a + b) = (start + a) + b /\ start + (a - b) = (start + a) - b
      /\ start - (a + b) = (start - a) - b /\ start - (a - b) = (start - a) + b
  OBVIOUS
<1>4. start * (a * b) = (start * a) * b
  OBVIOUS
<1>5. "Add" \in Ops /\ "Sub" \in Ops /\ "Mul" \in Ops
  BY DEF Ops
<1>6. \/ op1 = "Add" /\ op2 = "Add"
      \/ op1 = "Add" /\ op2 = "Sub"
      \/ op1 = "Sub" /\ op2 = "Add"
      \/ op1 = "Sub" /\ op2 = "Sub"
      \/ op1 = "Mul" /\ op2 = "Mul"
  BY DEF OrderIrrelevant
<1> QED
  BY <1>1, <1>2, <1>3, <1>4, <1>5, <1>6

EitherOrder(start, op1, a, op2, b) ==
    LeftFirst(start, op1, a, op2, b) \cup RightFirst(start, op1, a, op2, b)

(* The orders that pawnMovesTwoDice skips lose no square.                  *)
THEOREM NothingLost == Spec => []SkippingLosesNothing
<1>1. ASSUME NEW start \in Int, NEW d1 \in Die, NEW d2 \in Die
      PROVE  pawnMovesTwoDice(start, d1, d2) = AllOrders(start, d1, d2)
  <2> DEFINE Pairs == {<<d1, d2>>, <<d2, d1>>}
             Left(op1, op2, pair)  == LeftFirst(start, op1, pair[1], op2, pair[2])
             Right(op1, op2, pair) == RightFirst(start, op1, pair[1], op2, pair[2])
             Tried(op1, op2, pair) ==
                 Left(op1, op2, pair) \cup
                 IF OrderIrrelevant(op1, op2) THEN {} ELSE Right(op1, op2, pair)
  <2>1. \A v : v \in pawnMovesTwoDice(start, d1, d2) <=>
               v <= Goal /\ \E pair \in Pairs, op1, op2 \in Ops : v \in Tried(op1, op2, pair)
    <3>1. \A v : v \in pawnMovesTwoDice(start, d1, d2) <=>
                 \E pair \in Pairs, op1, op2 \in Ops : v \in BothOrders(start, op1, pair[1], op2, pair[2])
      BY DEF pawnMovesTwoDice
    <3>2. ASSUME NEW pair \in Pairs, NEW op1 \in Ops, NEW op2 \in Ops, NEW v
          PROVE  v \in BothOrders(start, op1, pair[1], op2, pair[2])
                    <=> v <= Goal /\ v \in Tried(op1, op2, pair)
      BY DEF BothOrders, EvalWithMax
    <3> HIDE DEF Pairs, Tried
    <3> QED
      BY <3>1, <3>2
  <2>2. \A v : v \in AllOrders(start, d1, d2) <=>
               v <= Goal /\ \E pair \in Pairs, op1, op2 \in Ops :
                               v \in Left(op1, op2, pair) \cup Right(op1, op2, pair)
    <3>1. AllOrders(start, d1, d2) =
             EvalWithMax(UNION {EitherOrder(start, op1, pair[1], op2, pair[2]) :
                                pair \in {<<d1, d2>>, <<d2, d1>>}, op1 \in Ops, op2 \in Ops})
      BY DEF AllOrders, EitherOrder
    <3>2. \A v : v \in UNION {EitherOrder(start, op1, pair[1], op2, pair[2]) :
                                pair \in {<<d1, d2>>, <<d2, d1>>}, op1 \in Ops, op2 \in Ops}
                 <=> \E pair \in Pairs, op1, op2 \in Ops :
                        v \in EitherOrder(start, op1, pair[1], op2, pair[2])
      OBVIOUS
    <3>3. \A v : v \in AllOrders(start, d1, d2) <=>
                 v <= Goal /\ \E pair \in Pairs, op1, op2 \in Ops :
                                 v \in EitherOrder(start, op1, pair[1], op2, pair[2])
      BY <3>1, <3>2 DEF EvalWithMax
    <3> QED
      BY <3>3 DEF EitherOrder
  <2>3. ASSUME NEW pair \in Pairs, NEW op1 \in Ops, NEW op2 \in Ops, OrderIrrelevant(op1, op2),
               NEW v \in Right(op1, op2, pair)
        PROVE  \E o1, o2 \in Ops : v \in Left(o1, o2, pair)
    <3>1. pair[1] \in Int /\ pair[2] \in Int
      BY DEF Die
    <3> QED
      BY <2>3, <3>1, OrdersAgree
  <2>4. ASSUME NEW v
        PROVE  (\E pair \in Pairs, op1, op2 \in Ops : v \in Tried(op1, op2, pair))
                  <=> \E pair \in Pairs, op1, op2 \in Ops :
                         v \in Left(op1, op2, pair) \cup Right(op1, op2, pair)
    <3> HIDE DEF Pairs, Left, Right
    <3> QED
      BY <2>3
  <2> HIDE DEF Pairs, Left, Right, Tried
  <2> QED
    BY <2>1, <2>2, <2>4
<1>2. BoardInv => SkippingLosesNothing
  <2> SUFFICES ASSUME BoardInv
               PROVE  pawnMoves(board.Pawn1, dice) = AllOrders(board.Pawn1, dice[1], dice[2])
    BY DEF SkippingLosesNothing
  <2>1. board.Pawn1 \in Int /\ dice[1] \in Die /\ dice[2] \in Die /\ dice # <<>> /\ Len(dice) = 2
    BY DEF BoardInv, Boards
  <2>2. pawnMoves(board.Pawn1, dice) = pawnMovesTwoDice(board.Pawn1, dice[1], dice[2])
    BY <2>1 DEF pawnMoves
  <2> QED
    BY <1>1, <2>1, <2>2
<1> QED
  BY <1>2, BoardInvariant, PTL
-----------------------------------------------------------------------------
(* What holds of the first item and is kept by each further one holds of   *)
(* all items (the loops of generateMoves and of ChooseMove).               *)
LEMMA ItemByItem ==
    ASSUME NEW n \in Nat, NEW T, 1 \in T, \A i \in 2..n : i - 1 \in T => i \in T
    PROVE  1..n \subseteq T
<1> DEFINE Missing == {i \in 1..n : i \notin T}
<1> SUFFICES ASSUME Missing # {} PROVE FALSE
  OBVIOUS
<1>1. Missing \subseteq Nat
  OBVIOUS
<1>2. PICK k \in Missing : \A m \in Missing : ~ <<m, k>> \in OpToRel(<, Nat)
  BY <1>1, WFMin, NatLessThanWellFounded
<1>3. \A m \in Missing : ~ m < k
  BY <1>1, <1>2 DEF OpToRel
<1>4. k \in 1..n /\ k # 1 /\ k \notin T
  BY <1>2
<1>5. k - 1 \in 1..n /\ k - 1 < k /\ k \in 2..n
  BY <1>4
<1>6. k - 1 \in T
  BY <1>3, <1>5
<1> QED
  BY <1>4, <1>5, <1>6

(* Lists are put together one after the other (append in the loops of      *)
(* pawnMovesTwoDice and generateMoves).                                    *)
LEMMA OneAfterTheOther ==
    ASSUME NEW seqs, Len(seqs) \in Nat, Len(seqs) # 0
    PROVE  \E g : /\ g[1] = seqs[1]
                  /\ \A i \in 2..Len(seqs) : g[i] = g[i - 1] \o seqs[i]
                  /\ FlattenSeq(seqs) = g[Len(seqs)]
<1> DEFINE n == Len(seqs)
           Flat(g, k) == g = [i \in 1..k |-> IF i = 1 THEN seqs[i] ELSE g[i - 1] \o seqs[i]]
           T == {k \in 1..n : \E g : Flat(g, k)}
<1>1. 1 \in T
  <2>1. Flat([i \in 1..1 |-> seqs[1]], 1)
    OBVIOUS
  <2> HIDE DEF Flat
  <2> QED
    BY <2>1
<1>2. ASSUME NEW k \in 2..n, k - 1 \in T PROVE k \in T
  <2>1. PICK g : Flat(g, k - 1)
    BY <1>2
  <2> DEFINE h == [i \in 1..k |-> IF i = k THEN g[k - 1] \o seqs[k] ELSE g[i]]
  <2>2. ASSUME NEW i \in 1..k PROVE h[i] = IF i = 1 THEN seqs[i] ELSE h[i - 1] \o seqs[i]
    <3>1. CASE i = 1
      BY <2>1, <3>1
    <3>2. CASE i # 1
      <4>1. i - 1 \in 1..(k - 1) /\ i - 1 \in 1..k /\ i - 1 # k
        BY <3>2
      <4>2. h[i - 1] = g[i - 1]
        BY <4>1
      <4>3. CASE i = k
        BY <4>2, <4>3, <3>2
      <4>4. CASE i # k
        <5>1. i \in 1..(k - 1)
          BY <4>4
        <5>2. g[i] = g[i - 1] \o seqs[i]
          BY <2>1, <3>2, <5>1
        <5> QED
          BY <4>2, <4>4, <5>2, <3>2
      <4> QED
        BY <4>3, <4>4
    <3> QED
      BY <3>1, <3>2
  <2>3. Flat(h, k)
    BY <2>2
  <2> HIDE DEF Flat, h
  <2> QED
    BY <2>3
<1>3. n \in T
  <2> HIDE DEF T
  <2>1. 1..n \subseteq T
    BY <1>1, <1>2, ItemByItem
  <2> QED
    BY <2>1
<1>4. PICK g : Flat(g, n) /\ g = CHOOSE f : Flat(f, n)
  BY <1>3
<1>5. FlattenSeq(seqs) = g[n]
  BY <1>4 DEF FlattenSeq
<1>6. \A i \in 1..n : g[i] = IF i = 1 THEN seqs[i] ELSE g[i - 1] \o seqs[i]
  BY <1>4
<1>7. g[1] = seqs[1] /\ \A i \in 2..n : g[i] = g[i - 1] \o seqs[i]
  <2> HIDE DEF Flat
  <2>1. 1 \in 1..n /\ \A i \in 2..n : i \in 1..n /\ i # 1
    OBVIOUS
  <2> QED
    BY <1>6, <2>1
<1> QED
  BY <1>5, <1>7

(* The items of two lists put together (append).                           *)
LEMMA Joined ==
    ASSUME NEW S, NEW s \in Seq(S), NEW u \in Seq(S)
    PROVE  \A x : x \in ToSet(s \o u) <=> x \in ToSet(s) \/ x \in ToSet(u)
<1>1. /\ Len(s \o u) = Len(s) + Len(u) /\ DOMAIN (s \o u) = 1..(Len(s) + Len(u))
      /\ \A i \in 1..(Len(s) + Len(u)) :
            (s \o u)[i] = IF i <= Len(s) THEN s[i] ELSE u[i - Len(s)]
      /\ DOMAIN s = 1..Len(s) /\ DOMAIN u = 1..Len(u) /\ Len(s) \in Nat /\ Len(u) \in Nat
  OBVIOUS
<1>2. \A i \in 1..Len(s) : (s \o u)[i] = s[i]
  BY <1>1
<1>3. \A i \in 1..Len(u) : (s \o u)[Len(s) + i] = u[i] /\ Len(s) + i \in DOMAIN (s \o u)
  BY <1>1
<1>4. ASSUME NEW x \in ToSet(s \o u) PROVE x \in ToSet(s) \/ x \in ToSet(u)
  <2>1. PICK i \in DOMAIN (s \o u) : x = (s \o u)[i]
    BY DEF ToSet
  <2>2. CASE i <= Len(s)
    BY <1>1, <2>1, <2>2 DEF ToSet
  <2>3. CASE ~ i <= Len(s)
    <3>1. x = u[i - Len(s)] /\ i - Len(s) \in DOMAIN u
      BY <1>1, <2>1, <2>3
    <3> QED
      BY <3>1 DEF ToSet
  <2> QED
    BY <2>2, <2>3
<1>5. ASSUME NEW x \in ToSet(s) PROVE x \in ToSet(s \o u)
  BY <1>1, <1>2 DEF ToSet
<1>6. ASSUME NEW x \in ToSet(u) PROVE x \in ToSet(s \o u)
  <2>1. PICK i \in 1..Len(u) : x = u[i]
    BY <1>1 DEF ToSet
  <2> QED
    BY <1>3, <2>1 DEF ToSet
<1> QED
  BY <1>4, <1>5, <1>6

(* The list has exactly the items of the lists it is put together from.    *)
LEMMA Flattened ==
    ASSUME NEW S, NEW n \in Nat, NEW seqs \in [1..n -> Seq(S)]
    PROVE  /\ FlattenSeq(seqs) \in Seq(S)
           /\ \A x : x \in ToSet(FlattenSeq(seqs)) <=> \E i \in 1..n : x \in ToSet(seqs[i])
<1>1. Len(seqs) = n
  OBVIOUS
<1>2. CASE n = 0
  <2>1. FlattenSeq(seqs) = seqs /\ seqs = << >>
    BY <1>1, <1>2 DEF FlattenSeq
  <2> QED
    BY <1>2, <2>1 DEF ToSet
<1>3. CASE n # 0
  <2>1. PICK g : /\ g[1] = seqs[1]
                 /\ \A i \in 2..n : g[i] = g[i - 1] \o seqs[i]
                 /\ FlattenSeq(seqs) = g[n]
    BY <1>1, <1>3, OneAfterTheOther
  <2> DEFINE Put(i) == /\ g[i] \in Seq(S)
                       /\ \A x : x \in ToSet(g[i]) <=> \E j \in 1..i : x \in ToSet(seqs[j])
             T == {i \in 1..n : Put(i)}
  <2>2. Put(1)
    BY <1>3, <2>1
  <2>3. ASSUME NEW i \in 2..n, Put(i - 1) PROVE Put(i)
    <3>0. i \in 1..n /\ i - 1 \in 1..(i - 1)
      BY <2>3
    <3>1. g[i] = g[i - 1] \o seqs[i] /\ g[i - 1] \in Seq(S) /\ seqs[i] \in Seq(S)
      <4>1. g[i] = g[i - 1] \o seqs[i]
        BY <2>1
      <4>2. seqs[i] \in Seq(S)
        BY <3>0
      <4>3. g[i - 1] \in Seq(S)
        BY <2>3
      <4> QED
        BY <4>1, <4>2, <4>3
    <3>2. g[i] \in Seq(S)
      BY <3>1
    <3>3. \A x : x \in ToSet(g[i]) <=> x \in ToSet(g[i - 1]) \/ x \in ToSet(seqs[i])
      BY <3>1, Joined
    <3>4. 1..i = 1..(i - 1) \cup {i}
      BY <3>0
    <3>5. \A x : x \in ToSet(g[i]) <=> \E j \in 1..i : x \in ToSet(seqs[j])
      BY <2>3, <3>3, <3>4
    <3> QED
      BY <3>2, <3>5
  <2> HIDE DEF Put
  <2>4. 1 \in T /\ \A i \in 2..n : i - 1 \in T => i \in T
    BY <1>3, <2>2, <2>3
  <2> HIDE DEF T
  <2>5. 1..n \subseteq T
    BY <2>4, ItemByItem
  <2>6. Put(n)
    BY <1>3, <2>5 DEF T
  <2> QED
    BY <2>1, <2>6 DEF Put
<1> QED
  BY <1>2, <1>3
-----------------------------------------------------------------------------
(* An expression that is valid is one entry of the list (EvalWithMax).     *)
LEMMA ListOfOne ==
    ASSUME NEW values, values \subseteq Int, \A v, w \in values : v = w
    PROVE  /\ ListOf(values) \in Seq(Int)
           /\ \A x : x \in ToSet(ListOf(values)) <=> x \in EvalWithMax(values)
<1>1. PICK S : S = EvalWithMax(values)
  OBVIOUS
<1>2. S \subseteq Int /\ \A v, w \in S : v = w
  BY <1>1 DEF EvalWithMax
<1>3. ListOf(values) = CHOOSE f \in [1..Cardinality(S) -> S] : IsInjective(f)
  BY <1>1 DEF ListOf, SetToSeq
<1>4. CASE S = {}
  <2>1. Cardinality(S) = 0
    BY <1>4, FS_EmptySet
  <2>2. \E f \in [1..0 -> S] : IsInjective(f)
    <3>1. << >> \in [1..0 -> S] /\ IsInjective(<< >>)
      BY <1>4 DEF IsInjective
    <3> QED
      BY <3>1
  <2>3. ListOf(values) \in [1..0 -> S]
    BY <1>3, <2>1, <2>2
  <2>4. ListOf(values) = << >>
    BY <2>3
  <2> QED
    BY <1>1, <1>4, <2>4 DEF ToSet
<1>5. CASE S # {}
  <2>1. PICK v \in S : S = {v}
    BY <1>2, <1>5
  <2>2. Cardinality(S) = 1
    BY <2>1, FS_Singleton
  <2>3. \E f \in [1..1 -> S] : IsInjective(f)
    <3>1. [i \in 1..1 |-> v] \in [1..1 -> S]
      OBVIOUS
    <3>2. IsInjective([i \in 1..1 |-> v])
      BY DEF IsInjective
    <3> QED
      BY <3>1, <3>2
  <2>4. ListOf(values) \in [1..1 -> {v}]
    BY <1>3, <2>1, <2>2, <2>3
  <2>5. ListOf(values) = <<v>> /\ v \in Int
    BY <1>2, <2>1, <2>4
  <2> QED
    BY <1>1, <2>1, <2>5 DEF ToSet
<1> QED
  BY <1>4, <1>5

(* An expression has at most one value (Expr.Eval).                        *)
LEMMA EvalOne ==
    ASSUME NEW l \in Int, NEW op \in Ops, NEW r \in Int
    PROVE  Eval(l, op, r) \subseteq Int /\ \A v, w \in Eval(l, op, r) : v = w
<1>1. \A v, w \in Quotient(l, r) : v = w
  BY DEF Quotient
<1> QED
  BY <1>1, EvalInt DEF Eval

(* ... and so has an expression of two operations (Expr.Eval).             *)
LEMMA OrdersOne ==
    ASSUME NEW start \in Int, NEW op1 \in Ops, NEW a \in Int, NEW op2 \in Ops, NEW b \in Int
    PROVE  /\ LeftFirst(start, op1, a, op2, b) \subseteq Int
           /\ \A v, w \in LeftFirst(start, op1, a, op2, b) : v = w
           /\ RightFirst(start, op1, a, op2, b) \subseteq Int
           /\ \A v, w \in RightFirst(start, op1, a, op2, b) : v = w
BY EvalOne DEF LeftFirst, RightFirst

(* The four operations, each once (ops in pawnMovesOneDie).                *)
LEMMA EveryOp ==
    /\ \A i \in 1..4 : OpOrder[i] \in Ops
    /\ \A op \in Ops : \E i \in 1..4 : OpOrder[i] = op
<1>1. /\ OpOrder[1] = "Add" /\ OpOrder[2] = "Sub" /\ OpOrder[3] = "Mul" /\ OpOrder[4] = "Div"
      /\ 1..4 = {1, 2, 3, 4}
  BY DEF OpOrder
<1> QED
  BY <1>1 DEF Ops

(* The loop of pawnMovesOneDie lists the squares one die leads to.         *)
LEMMA OneDieListed ==
    ASSUME NEW start \in Int, NEW die \in Die
    PROVE  /\ OneDieList(start, die) \in Seq(Int)
           /\ ToSet(OneDieList(start, die)) = pawnMovesOneDie(start, die)
<1> DEFINE Item(i) == ListOf(Eval(start, OpOrder[i], die))
           items == [i \in 1..4 |-> Item(i)]
<1>1. die \in Int
  BY DEF Die
<1>2. ASSUME NEW i \in 1..4
      PROVE  /\ Item(i) \in Seq(Int)
             /\ \A x : x \in ToSet(Item(i)) <=> x \in EvalWithMax(Eval(start, OpOrder[i], die))
  BY <1>1, EveryOp, EvalOne, ListOfOne
<1> HIDE DEF Item
<1>3. items \in [1..4 -> Seq(Int)] /\ \A i \in 1..4 : items[i] = Item(i)
  BY <1>2
<1>4. OneDieList(start, die) = FlattenSeq(items)
  BY DEF OneDieList, Item
<1> HIDE DEF items
<1>5. /\ FlattenSeq(items) \in Seq(Int)
      /\ \A x : x \in ToSet(FlattenSeq(items)) <=> \E i \in 1..4 : x \in ToSet(items[i])
  <2>1. 4 \in Nat
    OBVIOUS
  <2> QED
    BY <1>3, <2>1, Flattened
<1>6. \A x : x \in pawnMovesOneDie(start, die)
               <=> \E op \in Ops : x \in EvalWithMax(Eval(start, op, die))
  BY DEF pawnMovesOneDie
<1>7. \A x : x \in ToSet(FlattenSeq(items)) <=> x \in pawnMovesOneDie(start, die)
  <2>1. \A x : x \in ToSet(FlattenSeq(items))
                 <=> \E i \in 1..4 : x \in EvalWithMax(Eval(start, OpOrder[i], die))
    BY <1>2, <1>3, <1>5
  <2>2. \A x : (\E i \in 1..4 : x \in EvalWithMax(Eval(start, OpOrder[i], die)))
                 <=> \E op \in Ops : x \in EvalWithMax(Eval(start, op, die))
    BY EveryOp
  <2> QED
    BY <1>6, <2>1, <2>2
<1> QED
  BY <1>4, <1>5, <1>7

(* The turns of the three loops of pawnMovesTwoDice, counted from 1: each  *)
(* pair of dice with each two operations once.                             *)
LEMMA EveryTurn ==
    /\ \A i \in 1..32 : 1 + (((i - 1) \div 4) % 4) \in 1..4 /\ 1 + ((i - 1) % 4) \in 1..4
    /\ \A j, k \in 1..4, h \in {0, 16} : \E i \in 1..32 :
          /\ i <= 16 <=> h = 0
          /\ 1 + (((i - 1) \div 4) % 4) = j
          /\ 1 + ((i - 1) % 4) = k
<1>1. ASSUME NEW i \in 1..32
      PROVE  1 + (((i - 1) \div 4) % 4) \in 1..4 /\ 1 + ((i - 1) % 4) \in 1..4
  OBVIOUS
<1>2. ASSUME NEW j \in 1..4, NEW k \in 1..4, NEW h \in {0, 16}, NEW i, i = h + 4 * (j - 1) + k
      PROVE  /\ i \in 1..32
             /\ i <= 16 <=> h = 0
             /\ 1 + (((i - 1) \div 4) % 4) = j
             /\ 1 + ((i - 1) % 4) = k
  BY <1>2
<1>3. ASSUME NEW j \in 1..4, NEW k \in 1..4, NEW h \in {0, 16}
      PROVE  \E i \in 1..32 : /\ i <= 16 <=> h = 0
                              /\ 1 + (((i - 1) \div 4) % 4) = j
                              /\ 1 + ((i - 1) % 4) = k
  BY <1>2
<1> QED
  BY <1>1, <1>3

(* The loops of pawnMovesTwoDice list the squares two dice lead to.        *)
LEMMA TwoDiceListed ==
    ASSUME NEW start \in Int, NEW d1 \in Die, NEW d2 \in Die
    PROVE  /\ TwoDiceList(start, d1, d2) \in Seq(Int)
           /\ ToSet(TwoDiceList(start, d1, d2)) = pawnMovesTwoDice(start, d1, d2)
<1> DEFINE A(i) == IF i <= 16 THEN d1 ELSE d2
           B(i) == IF i <= 16 THEN d2 ELSE d1
           Op1(i) == OpOrder[1 + (((i - 1) \div 4) % 4)]
           Op2(i) == OpOrder[1 + ((i - 1) % 4)]
           Item(i) == ListOf(LeftFirst(start, Op1(i), A(i), Op2(i), B(i))) \o
                      IF OrderIrrelevant(Op1(i), Op2(i)) THEN <<>>
                      ELSE ListOf(RightFirst(start, Op1(i), A(i), Op2(i), B(i)))
           Reached(i) == BothOrders(start, Op1(i), A(i), Op2(i), B(i))
           items == [i \in 1..32 |-> Item(i)]
<1>1. TwoDiceList(start, d1, d2) = FlattenSeq(items)
  BY DEF TwoDiceList
<1>2. ASSUME NEW i \in 1..32
      PROVE  /\ Op1(i) \in Ops /\ Op2(i) \in Ops
             /\ A(i) \in Int /\ B(i) \in Int
             /\ <<A(i), B(i)>> \in {<<d1, d2>>, <<d2, d1>>}
  BY EveryOp, EveryTurn DEF Die
<1>3. \A pair \in {<<d1, d2>>, <<d2, d1>>}, op1, op2 \in Ops :
         \E i \in 1..32 : Op1(i) = op1 /\ Op2(i) = op2 /\ A(i) = pair[1] /\ B(i) = pair[2]
  <2> SUFFICES ASSUME NEW pair \in {<<d1, d2>>, <<d2, d1>>}, NEW op1 \in Ops, NEW op2 \in Ops
               PROVE  \E i \in 1..32 : /\ Op1(i) = op1 /\ Op2(i) = op2
                                       /\ A(i) = pair[1] /\ B(i) = pair[2]
    OBVIOUS
  <2>1. PICK j \in 1..4, k \in 1..4 : OpOrder[j] = op1 /\ OpOrder[k] = op2
    BY EveryOp
  <2>2. PICK h \in {0, 16} : pair = IF h = 0 THEN <<d1, d2>> ELSE <<d2, d1>>
    OBVIOUS
  <2>3. PICK i \in 1..32 : /\ i <= 16 <=> h = 0
                           /\ 1 + (((i - 1) \div 4) % 4) = j
                           /\ 1 + ((i - 1) % 4) = k
    BY EveryTurn
  <2> QED
    BY <2>1, <2>2, <2>3
<1> HIDE DEF A, B, Op1, Op2
<1>4. ASSUME NEW i \in 1..32
      PROVE  Item(i) \in Seq(Int) /\ \A x : x \in ToSet(Item(i)) <=> x \in Reached(i)
  <2> DEFINE left == LeftFirst(start, Op1(i), A(i), Op2(i), B(i))
             right == IF OrderIrrelevant(Op1(i), Op2(i)) THEN {}
                      ELSE RightFirst(start, Op1(i), A(i), Op2(i), B(i))
             rightList == IF OrderIrrelevant(Op1(i), Op2(i)) THEN <<>>
                          ELSE ListOf(RightFirst(start, Op1(i), A(i), Op2(i), B(i)))
  <2>1. /\ ListOf(left) \in Seq(Int)
        /\ \A x : x \in ToSet(ListOf(left)) <=> x \in EvalWithMax(left)
    BY <1>2, OrdersOne, ListOfOne
  <2>2. rightList \in Seq(Int) /\ \A x : x \in ToSet(rightList) <=> x \in EvalWithMax(right)
    <3>1. CASE OrderIrrelevant(Op1(i), Op2(i))
      BY <3>1 DEF ToSet, EvalWithMax
    <3>2. CASE ~ OrderIrrelevant(Op1(i), Op2(i))
      BY <1>2, <3>2, OrdersOne, ListOfOne
    <3> QED
      BY <3>1, <3>2
  <2>3. Item(i) = ListOf(left) \o rightList
    OBVIOUS
  <2>4. Reached(i) = EvalWithMax(left \cup right)
    BY DEF BothOrders
  <2> HIDE DEF left, right, rightList, Item, Reached
  <2>5. Item(i) \in Seq(Int)
    BY <2>1, <2>2, <2>3
  <2>6. \A x : x \in ToSet(Item(i)) <=> x \in ToSet(ListOf(left)) \/ x \in ToSet(rightList)
    BY <2>1, <2>2, <2>3, Joined
  <2>7. \A x : x \in Reached(i) <=> x \in EvalWithMax(left) \/ x \in EvalWithMax(right)
    BY <2>4 DEF EvalWithMax
  <2> QED
    BY <2>1, <2>2, <2>5, <2>6, <2>7
<1>5. \A x : x \in pawnMovesTwoDice(start, d1, d2) <=> \E i \in 1..32 : x \in Reached(i)
  <2>1. \A x : x \in pawnMovesTwoDice(start, d1, d2) <=>
               \E pair \in {<<d1, d2>>, <<d2, d1>>}, op1, op2 \in Ops :
                  x \in BothOrders(start, op1, pair[1], op2, pair[2])
    BY DEF pawnMovesTwoDice
  <2>2. ASSUME NEW x, NEW pair \in {<<d1, d2>>, <<d2, d1>>}, NEW op1 \in Ops, NEW op2 \in Ops,
               x \in BothOrders(start, op1, pair[1], op2, pair[2])
        PROVE  \E i \in 1..32 : x \in Reached(i)
    BY <1>3, <2>2
  <2>3. ASSUME NEW x, NEW i \in 1..32, x \in Reached(i)
        PROVE  \E pair \in {<<d1, d2>>, <<d2, d1>>}, op1, op2 \in Ops :
                  x \in BothOrders(start, op1, pair[1], op2, pair[2])
    <3>1. PICK pair \in {<<d1, d2>>, <<d2, d1>>} : pair = <<A(i), B(i)>>
      BY <1>2
    <3>2. x \in BothOrders(start, Op1(i), pair[1], Op2(i), pair[2])
      BY <2>3, <3>1
    <3> QED
      BY <1>2, <3>2
  <2> HIDE DEF Reached
  <2> QED
    BY <2>1, <2>2, <2>3
<1> HIDE DEF Item, Reached
<1>6. items \in [1..32 -> Seq(Int)] /\ \A i \in 1..32 : items[i] = Item(i)
  BY <1>4
<1> HIDE DEF items
<1>7. /\ FlattenSeq(items) \in Seq(Int)
      /\ \A x : x \in ToSet(FlattenSeq(items)) <=> \E i \in 1..32 : x \in ToSet(items[i])
  <2>1. 32 \in Nat
    OBVIOUS
  <2> QED
    BY <1>6, <2>1, Flattened
<1>8. \A x : x \in ToSet(FlattenSeq(items)) <=> x \in pawnMovesTwoDice(start, d1, d2)
  BY <1>4, <1>5, <1>6, <1>7
<1> QED
  BY <1>1, <1>7, <1>8

(* The dice that a pawn can be given, and how two dice can be given out.   *)
Given(d1, d2) == {<<>>, <<d1>>, <<d2>>, <<d1, d2>>}
Ways(d1, d2)  == Given(d1, d2) \X Given(d1, d2)

(* A pawn's squares are listed, whatever dice it is given (pawnMoves).     *)
LEMMA PawnListed ==
    ASSUME NEW start \in Int, NEW d1 \in Die, NEW d2 \in Die, NEW given \in Given(d1, d2)
    PROVE  /\ PawnList(start, given) \in Seq(Int)
           /\ ToSet(PawnList(start, given)) = pawnMoves(start, given)
<1>1. CASE given = <<>>
  <2>1. PawnList(start, given) = <<start>> /\ pawnMoves(start, given) = {start}
    BY <1>1 DEF PawnList, pawnMoves
  <2> QED
    BY <2>1 DEF ToSet
<1>2. CASE given = <<d1>> \/ given = <<d2>>
  <2>1. PICK die \in Die : given = <<die>>
    BY <1>2
  <2>2. /\ PawnList(start, given) = OneDieList(start, die)
        /\ pawnMoves(start, given) = pawnMovesOneDie(start, die)
    BY <2>1 DEF PawnList, pawnMoves
  <2> QED
    BY <2>2, OneDieListed
<1>3. CASE given = <<d1, d2>>
  <2>1. /\ PawnList(start, given) = TwoDiceList(start, d1, d2)
        /\ pawnMoves(start, given) = pawnMovesTwoDice(start, d1, d2)
    BY <1>3 DEF PawnList, pawnMoves
  <2> QED
    BY <2>1, TwoDiceListed
<1> QED
  BY <1>1, <1>2, <1>3 DEF Given

(* The ways to give out the dice are listed (allAllocations).              *)
LEMMA AllocationsListed ==
    ASSUME NEW d1 \in Die, NEW d2 \in Die, NEW p1, NEW p2
    PROVE  /\ AllocationList(d1, d2, p1, p2) \in Seq(Ways(d1, d2))
           /\ ToSet(AllocationList(d1, d2, p1, p2)) = allAllocations(d1, d2, p1, p2)
<1> DEFINE Way(i) == Allocations(d1, d2)[i]
           Item(i) == IF Way(i) \in allAllocations(d1, d2, p1, p2) THEN <<Way(i)>> ELSE <<>>
           items == [i \in 1..4 |-> Item(i)]
<1>1. AllocationList(d1, d2, p1, p2) = FlattenSeq(items)
  BY DEF AllocationList
<1>2. /\ Way(1) = << <<>>, <<d1, d2>> >> /\ Way(2) = << <<d1, d2>>, <<>> >>
      /\ Way(3) = << <<d1>>, <<d2>> >> /\ Way(4) = << <<d2>>, <<d1>> >>
  BY DEF Allocations
<1> HIDE DEF Way
<1>3. /\ \A i \in 1..4 : Way(i) \in Ways(d1, d2)
      /\ \A alloc \in allAllocations(d1, d2, p1, p2) : \E i \in 1..4 : alloc = Way(i)
  <2>1. 1..4 = {1, 2, 3, 4}
    OBVIOUS
  <2>2. \A i \in 1..4 : Way(i) \in Ways(d1, d2)
    BY <1>2, <2>1 DEF Ways, Given
  <2>3. ASSUME NEW alloc \in allAllocations(d1, d2, p1, p2) PROVE \E i \in 1..4 : alloc = Way(i)
    <3>1. alloc = Way(1) \/ alloc = Way(2) \/ alloc = Way(3) \/ alloc = Way(4)
      BY <1>2 DEF allAllocations
    <3> QED
      BY <2>1, <3>1
  <2> QED
    BY <2>2, <2>3
<1>4. ASSUME NEW i \in 1..4
      PROVE  /\ Item(i) \in Seq(Ways(d1, d2))
             /\ \A x : x \in ToSet(Item(i))
                         <=> x = Way(i) /\ x \in allAllocations(d1, d2, p1, p2)
  <2>1. <<Way(i)>> \in Seq(Ways(d1, d2)) /\ <<>> \in Seq(Ways(d1, d2))
    BY <1>3
  <2>2. ToSet(<<Way(i)>>) = {Way(i)} /\ ToSet(<<>>) = {}
    BY DEF ToSet
  <2> QED
    BY <2>1, <2>2
<1> HIDE DEF Item
<1>5. items \in [1..4 -> Seq(Ways(d1, d2))] /\ \A i \in 1..4 : items[i] = Item(i)
  BY <1>4
<1> HIDE DEF items
<1>6. /\ FlattenSeq(items) \in Seq(Ways(d1, d2))
      /\ \A x : x \in ToSet(FlattenSeq(items)) <=> \E i \in 1..4 : x \in ToSet(items[i])
  <2>1. 4 \in Nat
    OBVIOUS
  <2> QED
    BY <1>5, <2>1, Flattened
<1>7. \A x : x \in ToSet(FlattenSeq(items)) <=> x \in allAllocations(d1, d2, p1, p2)
  BY <1>3, <1>4, <1>5, <1>6
<1> QED
  BY <1>1, <1>6, <1>7

(* Every square of one pawn is listed with every square of the other (the  *)
(* inner loops of generateMoves).                                          *)
LEMMA PairsListed ==
    ASSUME NEW list1 \in Seq(Int), NEW list2 \in Seq(Int)
    PROVE  /\ PairList(list1, list2) \in Seq(Int \X Int)
           /\ ToSet(PairList(list1, list2)) = ToSet(list1) \X ToSet(list2)
<1> DEFINE Item(i) == [j \in 1..Len(list2) |-> <<list1[i], list2[j]>>]
           items == [i \in 1..Len(list1) |-> Item(i)]
<1>1. PairList(list1, list2) = FlattenSeq(items)
  BY DEF PairList
<1>2. /\ Len(list1) \in Nat /\ Len(list2) \in Nat
      /\ \A i \in 1..Len(list1) : list1[i] \in Int
      /\ \A j \in 1..Len(list2) : list2[j] \in Int
  OBVIOUS
<1>3. /\ \A x : x \in ToSet(list1) <=> \E i \in 1..Len(list1) : x = list1[i]
      /\ \A x : x \in ToSet(list2) <=> \E j \in 1..Len(list2) : x = list2[j]
  BY DEF ToSet
<1>4. ASSUME NEW i \in 1..Len(list1)
      PROVE  /\ Item(i) \in Seq(Int \X Int)
             /\ \A x : x \in ToSet(Item(i)) <=> \E j \in 1..Len(list2) : x = <<list1[i], list2[j]>>
  <2>1. Item(i) \in [1..Len(list2) -> Int \X Int]
    BY <1>2
  <2>2. Item(i) \in Seq(Int \X Int)
    BY <1>2, <2>1
  <2> QED
    BY <2>2 DEF ToSet
<1> HIDE DEF Item
<1>5. items \in [1..Len(list1) -> Seq(Int \X Int)] /\ \A i \in 1..Len(list1) : items[i] = Item(i)
  BY <1>4
<1> HIDE DEF items
<1>6. /\ FlattenSeq(items) \in Seq(Int \X Int)
      /\ \A x : x \in ToSet(FlattenSeq(items)) <=> \E i \in 1..Len(list1) : x \in ToSet(items[i])
  BY <1>2, <1>5, Flattened
<1>7. \A x : x \in ToSet(FlattenSeq(items)) <=>
         \E i \in 1..Len(list1), j \in 1..Len(list2) : x = <<list1[i], list2[j]>>
  BY <1>4, <1>5, <1>6
<1>8. \A x : x \in ToSet(FlattenSeq(items)) <=> x \in ToSet(list1) \X ToSet(list2)
  <2>1. ASSUME NEW i \in 1..Len(list1), NEW j \in 1..Len(list2)
        PROVE  <<list1[i], list2[j]>> \in ToSet(list1) \X ToSet(list2)
    BY <1>3
  <2>2. ASSUME NEW x \in ToSet(list1) \X ToSet(list2)
        PROVE  \E i \in 1..Len(list1), j \in 1..Len(list2) : x = <<list1[i], list2[j]>>
    <3>1. PICK u \in ToSet(list1), v \in ToSet(list2) : x = <<u, v>>
      OBVIOUS
    <3> QED
      BY <1>3, <3>1
  <2> QED
    BY <1>7, <2>1, <2>2
<1> QED
  BY <1>1, <1>6, <1>8

(* The pairs of squares the allocations lead to (generateMoves).           *)
PairsFor(s, d1, d2) ==
    UNION {pawnMoves(s.Pawn1, alloc[1]) \X pawnMoves(s.Pawn2, alloc[2]) :
           alloc \in allAllocations(d1, d2, s.Pawn1, s.Pawn2)}

(* ... are listed, allocation by allocation (generateMoves).               *)
LEMMA AllPairsListed ==
    ASSUME NEW s \in Boards, NEW d1 \in Die, NEW d2 \in Die
    PROVE  /\ AllPairs(s, d1, d2) \in Seq(Int \X Int)
           /\ ToSet(AllPairs(s, d1, d2)) = PairsFor(s, d1, d2)
<1> DEFINE allocs == AllocationList(d1, d2, s.Pawn1, s.Pawn2)
           Item(i) == PairList(PawnList(s.Pawn1, allocs[i][1]), PawnList(s.Pawn2, allocs[i][2]))
           items == [i \in 1..Len(allocs) |-> Item(i)]
           Reached(alloc) == pawnMoves(s.Pawn1, alloc[1]) \X pawnMoves(s.Pawn2, alloc[2])
<1>1. AllPairs(s, d1, d2) = FlattenSeq(items)
  BY DEF AllPairs
<1>2. /\ allocs \in Seq(Ways(d1, d2))
      /\ ToSet(allocs) = allAllocations(d1, d2, s.Pawn1, s.Pawn2)
  BY AllocationsListed
<1>3. s.Pawn1 \in Int /\ s.Pawn2 \in Int
  BY DEF Boards
<1> HIDE DEF allocs
<1>4. /\ Len(allocs) \in Nat
      /\ \A i \in 1..Len(allocs) : allocs[i] \in Ways(d1, d2)
      /\ \A alloc : alloc \in allAllocations(d1, d2, s.Pawn1, s.Pawn2)
                      <=> \E i \in 1..Len(allocs) : alloc = allocs[i]
  BY <1>2 DEF ToSet
<1>5. ASSUME NEW i \in 1..Len(allocs)
      PROVE  Item(i) \in Seq(Int \X Int) /\ \A x : x \in ToSet(Item(i)) <=> x \in Reached(allocs[i])
  <2>1. allocs[i][1] \in Given(d1, d2) /\ allocs[i][2] \in Given(d1, d2)
    BY <1>4 DEF Ways
  <2>2. /\ PawnList(s.Pawn1, allocs[i][1]) \in Seq(Int)
        /\ ToSet(PawnList(s.Pawn1, allocs[i][1])) = pawnMoves(s.Pawn1, allocs[i][1])
        /\ PawnList(s.Pawn2, allocs[i][2]) \in Seq(Int)
        /\ ToSet(PawnList(s.Pawn2, allocs[i][2])) = pawnMoves(s.Pawn2, allocs[i][2])
    BY <1>3, <2>1, PawnListed
  <2> QED
    BY <2>2, PairsListed
<1> HIDE DEF Item
<1>6. items \in [1..Len(allocs) -> Seq(Int \X Int)] /\ \A i \in 1..Len(allocs) : items[i] = Item(i)
  BY <1>5
<1> HIDE DEF items, Reached
<1>7. /\ FlattenSeq(items) \in Seq(Int \X Int)
      /\ \A x : x \in ToSet(FlattenSeq(items)) <=> \E i \in 1..Len(allocs) : x \in ToSet(items[i])
  BY <1>4, <1>6, Flattened
<1>8. \A x : x \in ToSet(FlattenSeq(items)) <=>
         \E alloc \in allAllocations(d1, d2, s.Pawn1, s.Pawn2) : x \in Reached(alloc)
  BY <1>4, <1>5, <1>6, <1>7
<1>9. \A x : x \in PairsFor(s, d1, d2) <=>
         \E alloc \in allAllocations(d1, d2, s.Pawn1, s.Pawn2) : x \in Reached(alloc)
  BY DEF PairsFor, Reached
<1> QED
  BY <1>1, <1>7, <1>8, <1>9

(* A move is made of two squares (Move).                                   *)
LEMMA MoveToType ==
    ASSUME NEW r1 \in Int, NEW r2 \in Int, NEW peer1 \in Int, NEW peer2 \in Int
    PROVE  /\ MoveTo(r1, r2, peer1, peer2) \in Moves
           /\ MoveTo(r1, r2, peer1, peer2).Pawn1.Result = r1
           /\ MoveTo(r1, r2, peer1, peer2).Pawn2.Result = r2
BY MoveType DEF MoveTo, PawnMove

(* The list that the strategy goes through has the moves of the rules      *)
(* (generateMoves).                                                        *)
LEMMA MovesListed ==
    ASSUME NEW s \in Boards, NEW d1 \in Die, NEW d2 \in Die
    PROVE  /\ MoveList(s, d1, d2) \in Seq(Moves)
           /\ ToSet(MoveList(s, d1, d2)) = MovesFor(s, d1, d2)
<1> DEFINE pairs == AllPairs(s, d1, d2)
           Goes(q) == q # <<s.Pawn1, s.Pawn2>> /\ q[1] <= Goal /\ q[2] <= Goal
           To(q) == MoveTo(q[1], q[2], s.PeerPawn1, s.PeerPawn2)
           Item(i) == IF Goes(pairs[i]) THEN <<To(pairs[i])>> ELSE <<>>
           items == [i \in 1..Len(pairs) |-> Item(i)]
<1>1. MoveList(s, d1, d2) = FlattenSeq(items)
  BY DEF MoveList
<1>2. pairs \in Seq(Int \X Int) /\ ToSet(pairs) = PairsFor(s, d1, d2)
  BY AllPairsListed
<1>3. MovesFor(s, d1, d2) = {To(q) : q \in {p \in PairsFor(s, d1, d2) : Goes(p)}}
  BY DEF MovesFor, generateMoves, PairsFor
<1> HIDE DEF pairs
<1>4. /\ Len(pairs) \in Nat
      /\ \A i \in 1..Len(pairs) : pairs[i] \in Int \X Int
      /\ \A q : q \in PairsFor(s, d1, d2) <=> \E i \in 1..Len(pairs) : q = pairs[i]
  BY <1>2 DEF ToSet
<1>5. \A q \in Int \X Int : To(q) \in Moves
  BY MoveToType DEF Boards
<1> HIDE DEF Goes, To
<1>6. ASSUME NEW i \in 1..Len(pairs)
      PROVE  /\ Item(i) \in Seq(Moves)
             /\ \A x : x \in ToSet(Item(i)) <=> Goes(pairs[i]) /\ x = To(pairs[i])
  <2>1. To(pairs[i]) \in Moves
    BY <1>4, <1>5
  <2> DEFINE M == Moves
  <2> HIDE DEF M
  <2>2. <<To(pairs[i])>> \in Seq(M) /\ <<>> \in Seq(M)
    BY <2>1 DEF M
  <2>3. ToSet(<<To(pairs[i])>>) = {To(pairs[i])} /\ ToSet(<<>>) = {}
    BY DEF ToSet
  <2> QED
    BY <2>2, <2>3 DEF M
<1> HIDE DEF Item
<1>7. items \in [1..Len(pairs) -> Seq(Moves)] /\ \A i \in 1..Len(pairs) : items[i] = Item(i)
  BY <1>6
<1> HIDE DEF items
<1>8. /\ FlattenSeq(items) \in Seq(Moves)
      /\ \A x : x \in ToSet(FlattenSeq(items)) <=> \E i \in 1..Len(pairs) : x \in ToSet(items[i])
  BY <1>4, <1>7, Flattened
<1>9. \A x : x \in ToSet(FlattenSeq(items)) <=>
         \E q \in PairsFor(s, d1, d2) : Goes(q) /\ x = To(q)
  BY <1>4, <1>6, <1>7, <1>8
<1> QED
  BY <1>1, <1>3, <1>8, <1>9

-----------------------------------------------------------------------------
(* ChooseMove goes through the list and keeps the best so far.             *)
LEMMA BestSoFar ==
    ASSUME NEW moves, Len(moves) \in Nat, Len(moves) # 0
    PROVE  \E g : /\ g[1] = moves[1]
                  /\ \A i \in 2..Len(moves) :
                        g[i] = IF Further(moves[i], g[i - 1]) THEN moves[i] ELSE g[i - 1]
                  /\ ChooseMove(moves) = g[Len(moves)]
<1> DEFINE n == Len(moves)
           Better(i, b) == IF Further(moves[i], b) THEN moves[i] ELSE b
           Best(g, k) == g = [i \in 1..k |-> IF i = 1 THEN moves[1] ELSE Better(i, g[i - 1])]
           T == {k \in 1..n : \E g : Best(g, k)}
<1> HIDE DEF Better
<1>1. 1 \in T
  <2>1. Best([i \in 1..1 |-> moves[1]], 1)
    OBVIOUS
  <2> HIDE DEF Best
  <2> QED
    BY <2>1
<1>2. ASSUME NEW k \in 2..n, k - 1 \in T PROVE k \in T
  <2>1. PICK g : Best(g, k - 1)
    BY <1>2
  <2> DEFINE h == [i \in 1..k |-> IF i = k THEN Better(k, g[k - 1]) ELSE g[i]]
  <2>2. ASSUME NEW i \in 1..k PROVE h[i] = IF i = 1 THEN moves[1] ELSE Better(i, h[i - 1])
    <3>1. CASE i = 1
      BY <2>1, <3>1
    <3>2. CASE i # 1
      <4>1. i - 1 \in 1..(k - 1) /\ i - 1 \in 1..k /\ i - 1 # k
        BY <3>2
      <4>2. h[i - 1] = g[i - 1]
        BY <4>1
      <4>3. CASE i = k
        BY <4>2, <4>3, <3>2
      <4>4. CASE i # k
        <5>1. i \in 1..(k - 1)
          BY <4>4
        <5>2. g[i] = Better(i, g[i - 1])
          BY <2>1, <3>2, <5>1
        <5> QED
          BY <4>2, <4>4, <5>2, <3>2
      <4> QED
        BY <4>3, <4>4
    <3> QED
      BY <3>1, <3>2
  <2>3. Best(h, k)
    BY <2>2
  <2> HIDE DEF Best, h
  <2> QED
    BY <2>3
<1>3. n \in T
  <2> HIDE DEF T
  <2>1. 1..n \subseteq T
    BY <1>1, <1>2, ItemByItem
  <2> QED
    BY <2>1
<1>4. PICK g : Best(g, n) /\ g = CHOOSE f : Best(f, n)
  BY <1>3
<1>5. ChooseMove(moves) = g[n]
  BY <1>4 DEF ChooseMove, Better
<1>6. \A i \in 1..n : g[i] = IF i = 1 THEN moves[1] ELSE Better(i, g[i - 1])
  BY <1>4
<1>7. g[1] = moves[1] /\ \A i \in 2..n : g[i] = Better(i, g[i - 1])
  <2> HIDE DEF Best
  <2>1. 1 \in 1..n /\ \A i \in 2..n : i \in 1..n /\ i # 1
    OBVIOUS
  <2> QED
    BY <1>6, <2>1
<1> QED
  BY <1>5, <1>7 DEF Better

Reach(m) == m.Pawn1.Result + m.Pawn2.Result

(* Where a move counts as further exactly if the pawns together get        *)
(* further, ChooseMove keeps the one that gets furthest.                   *)
LEMMA KeepsTheFurthest ==
    ASSUME NEW moves \in Seq(Moves), Len(moves) # 0,
           \A i, j \in 1..Len(moves) :
              Further(moves[i], moves[j]) <=> Reach(moves[i]) > Reach(moves[j])
    PROVE  \A i \in 1..Len(moves) : Reach(moves[i]) <= Reach(ChooseMove(moves))
<1> DEFINE n == Len(moves)
<1>1. n \in Nat /\ \A i \in 1..n : moves[i] \in Moves
  OBVIOUS
<1>2. \A i \in 1..n : Reach(moves[i]) \in Int
  BY <1>1 DEF Reach, Moves
<1>3. PICK g : /\ g[1] = moves[1]
               /\ \A i \in 2..n :
                     g[i] = IF Further(moves[i], g[i - 1]) THEN moves[i] ELSE g[i - 1]
               /\ ChooseMove(moves) = g[n]
  BY <1>1, BestSoFar
<1> HIDE DEF n
<1> DEFINE Ahead(i) == /\ \E k \in 1..n : g[i] = moves[k]
                       /\ \A j \in 1..i : Reach(moves[j]) <= Reach(g[i])
           T == {i \in 1..n : Ahead(i)}
<1>4. n \in Nat \ {0}
  BY <1>1 DEF n
<1>5. Ahead(1)
  BY <1>2, <1>3, <1>4
<1>6. ASSUME NEW i \in 2..n, Ahead(i - 1) PROVE Ahead(i)
  <2>1. PICK k \in 1..n : g[i - 1] = moves[k]
    BY <1>6
  <2>2. \A j \in 1..(i - 1) : Reach(moves[j]) <= Reach(moves[k])
    BY <1>6, <2>1
  <2>3. i \in 1..n /\ 1..i = 1..(i - 1) \cup {i} /\ 1..(i - 1) \subseteq 1..n
    BY <1>4
  <2>4. Reach(moves[i]) \in Int /\ Reach(moves[k]) \in Int
    BY <1>2, <2>3
  <2>5. Further(moves[i], moves[k]) <=> Reach(moves[i]) > Reach(moves[k])
    BY <2>3 DEF n
  <2>6. g[i] = IF Reach(moves[i]) > Reach(moves[k]) THEN moves[i] ELSE moves[k]
    BY <1>3, <2>1, <2>5
  <2>7. \E l \in 1..n : g[i] = moves[l]
    BY <2>3, <2>6
  <2>8. Reach(moves[i]) <= Reach(g[i]) /\ Reach(moves[k]) <= Reach(g[i]) /\ Reach(g[i]) \in Int
    BY <2>4, <2>6
  <2>9. ASSUME NEW j \in 1..i PROVE Reach(moves[j]) <= Reach(g[i])
    <3>1. CASE j = i
      BY <2>8, <3>1
    <3>2. CASE j # i
      <4>1. j \in 1..(i - 1) /\ Reach(moves[j]) \in Int
        BY <1>2, <2>3, <3>2
      <4> QED
        BY <2>2, <2>4, <2>8, <4>1
    <3> QED
      BY <3>1, <3>2
  <2> QED
    BY <2>7, <2>9
<1> HIDE DEF Ahead
<1>7. 1 \in T /\ \A i \in 2..n : i - 1 \in T => i \in T
  BY <1>4, <1>5, <1>6
<1> HIDE DEF T
<1>8. 1..n \subseteq T
  BY <1>4, <1>7, ItemByItem
<1>9. Ahead(n)
  BY <1>4, <1>8 DEF T
<1> QED
  BY <1>3, <1>9 DEF Ahead, n

(* With one pawn at the goal the strategy brings the other as close as the *)
(* dice allow, whatever the order of the moves (ChooseMove).               *)
THEOREM LastPawnCloses == Spec => []LastPawnGoesClosest
<1>1. ASSUME BoardInv, ~ done, board.Pawn1 = Goal \/ board.Pawn2 = Goal,
             NEW m \in MovesFor(board, dice[1], dice[2])
      PROVE  Reach(m) <= Reach(Choice)
  <2>1. board \in Boards /\ dice[1] \in Die /\ dice[2] \in Die
    BY <1>1 DEF BoardInv
  <2>2. PICK moves : moves = MoveList(board, dice[1], dice[2])
    OBVIOUS
  <2>3. moves \in Seq(Moves) /\ ToSet(moves) = MovesFor(board, dice[1], dice[2])
    BY <2>1, <2>2, MovesListed
  <2>4. \A x : x \in MovesFor(board, dice[1], dice[2]) <=> \E i \in 1..Len(moves) : x = moves[i]
    BY <2>3 DEF ToSet
  <2>5. ASSUME NEW x \in MovesFor(board, dice[1], dice[2])
        PROVE  /\ x.Pawn1.Result \in Int /\ x.Pawn2.Result \in Int
               /\ board.Pawn1 = Goal => x.Pawn1.Result = Goal
               /\ board.Pawn2 = Goal => x.Pawn2.Result = Goal
    <3>1. PICK r1, r2 \in Int : /\ x = MoveTo(r1, r2, board.PeerPawn1, board.PeerPawn2)
                                /\ board.Pawn1 = Goal => r1 = Goal
                                /\ board.Pawn2 = Goal => r2 = Goal
      BY <2>1, MoveFacts DEF MovesFor, Boards
    <3>2. x.Pawn1.Result = r1 /\ x.Pawn2.Result = r2
      BY <3>1 DEF MoveTo, PawnMove
    <3> QED
      BY <3>1, <3>2
  <2>6. \A x, y \in MovesFor(board, dice[1], dice[2]) : Further(x, y) <=> Reach(x) > Reach(y)
    BY <1>1, <2>5 DEF Further, Reach
  <2>7. Len(moves) # 0
    BY <2>3, <2>4
  <2>8. \A i \in 1..Len(moves) : Reach(moves[i]) <= Reach(ChooseMove(moves))
    BY <2>3, <2>4, <2>6, <2>7, KeepsTheFurthest
  <2> QED
    BY <2>2, <2>4, <2>8 DEF Choice
<1>2. BoardInv => LastPawnGoesClosest
  BY <1>1 DEF LastPawnGoesClosest, Reach
<1> QED
  BY <1>2, BoardInvariant, PTL
=============================================================================
