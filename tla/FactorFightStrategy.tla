------------------------ MODULE FactorFightStrategy -------------------------
(***************************************************************************)
(* The moves in the order generateMoves lists them (factorfight/move.go)   *)
(* and the default strategy, whose choice depends on that order            *)
(* (factorfight/strategy.go).                                              *)
(***************************************************************************)
EXTENDS FactorFightRules, SequencesExt

OpOrder == <<"Add", "Sub", "Mul", "Div">>

(* The list of a set of at most one value. *)
ListOf(values) == SetToSeq(EvalWithMax(values))

OneDieList(start, die) ==
    FlattenSeq([i \in 1..4 |-> ListOf(Eval(start, OpOrder[i], die))])

(* Three loops, from the outside in: the order of the dice, op1, op2.  The *)
(* left-to-right expression comes before the other one.                    *)
TwoDiceList(start, d1, d2) ==
    FlattenSeq([i \in 1..32 |->
        LET a   == IF i <= 16 THEN d1 ELSE d2
            b   == IF i <= 16 THEN d2 ELSE d1
            op1 == OpOrder[1 + (((i - 1) \div 4) % 4)]
            op2 == OpOrder[1 + ((i - 1) % 4)]
        IN  ListOf(LeftFirst(start, op1, a, op2, b)) \o
            IF OrderIrrelevant(op1, op2) THEN <<>>
            ELSE ListOf(RightFirst(start, op1, a, op2, b))])

PawnList(start, dice) ==
    IF dice = <<>> THEN <<start>>
    ELSE IF Len(dice) = 1 THEN OneDieList(start, dice[1])
    ELSE TwoDiceList(start, dice[1], dice[2])

Allocations(d1, d2) ==
    << << <<>>, <<d1, d2>> >>, << <<d1, d2>>, <<>> >>,
       << <<d1>>, <<d2>> >>, << <<d2>>, <<d1>> >> >>

AllocationList(d1, d2, p1, p2) ==
    FlattenSeq([i \in 1..4 |->
        LET alloc == Allocations(d1, d2)[i]
        IN  IF alloc \in allAllocations(d1, d2, p1, p2) THEN <<alloc>> ELSE <<>>])

(* Every result of pawn 1 with every result of pawn 2, in that order. *)
PairList(list1, list2) ==
    FlattenSeq([i \in 1..Len(list1) |->
        [j \in 1..Len(list2) |-> <<list1[i], list2[j]>>]])

(* The pairs of squares that the allocations allow, one after the other. *)
AllPairs(s, d1, d2) ==
    LET allocs == AllocationList(d1, d2, s.Pawn1, s.Pawn2)
    IN  FlattenSeq([i \in 1..Len(allocs) |->
            PairList(PawnList(s.Pawn1, allocs[i][1]), PawnList(s.Pawn2, allocs[i][2]))])

MoveList(s, d1, d2) ==
    LET pairs == AllPairs(s, d1, d2)
    IN  FlattenSeq([i \in 1..Len(pairs) |->
            IF /\ pairs[i] # <<s.Pawn1, s.Pawn2>>
               /\ pairs[i][1] <= Goal /\ pairs[i][2] <= Goal
            THEN <<MoveTo(pairs[i][1], pairs[i][2], s.PeerPawn1, s.PeerPawn2)>>
            ELSE <<>>])

(* Mutant of Further: only the first pawn counts.                          *)
FurtherFirst(m, best) == m.Pawn1.Result > best.Pawn1.Result

(* ClosestMoveStrategy.ChooseMove: go through the list and keep the last   *)
(* move that takes either pawn further than the best move so far does.     *)
Further(m, best) ==
    m.Pawn1.Result > best.Pawn1.Result \/ m.Pawn2.Result > best.Pawn2.Result

ChooseMove(moves) ==
    LET best[i \in 1..Len(moves)] ==
            IF i = 1 THEN moves[1]
            ELSE LET b == best[i - 1]
                 IN  IF Further(moves[i], b) THEN moves[i] ELSE b
    IN  best[Len(moves)]
=============================================================================
