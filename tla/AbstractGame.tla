---------------------------- MODULE AbstractGame ----------------------------
(***************************************************************************)
(* Factor Fight as its players understand it: one board, two players who   *)
(* take turns, every turn one legal move for two dice, until one player    *)
(* has both pawns at the goal.  There are no sessions, messages or views.  *)
(***************************************************************************)
EXTENDS FactorFightRules

CONSTANTS Players, None, Other(_)

VARIABLES pawns,  \* pawns[p]: the squares of p's two pawns
          turn    \* who moves next; None before the initiative

vars == <<pawns, turn>>

View(p) ==
    Board(pawns[p][1], pawns[p][2], pawns[Other(p)][1], pawns[Other(p)][2])

Over == \E p \in Players : pawns[p] = <<Goal, Goal>>

Init ==
    /\ pawns = [p \in Players |-> <<0, 0>>]
    /\ turn = None

(* Initiative decides who begins. *)
Begin ==
    /\ turn = None
    /\ turn' \in Players
    /\ UNCHANGED pawns

(* The player whose turn it is makes a legal move for some dice; pawns     *)
(* that are bumped go back to the start.                                   *)
Turn(p) ==
    /\ turn = p /\ turn' = Other(p)
    /\ ~ Over
    /\ \E d1, d2 \in Die : \E m \in MovesFor(View(p), d1, d2) :
          LET b == Move(View(p), m)
          IN  pawns' = [q \in Players |-> IF q = p THEN <<b.Pawn1, b.Pawn2>>
                                          ELSE <<b.PeerPawn1, b.PeerPawn2>>]

Next == Begin \/ \E p \in Players : Turn(p)

Spec == Init /\ [][Next]_vars
=============================================================================
