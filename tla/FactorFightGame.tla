--------------------------- MODULE FactorFightGame ---------------------------
(***************************************************************************)
(* A game of Factor Fight between two Sessions (factorfight/game.go): each *)
(* keeps its own State of the board, rolls the shared dice with the other, *)
(* and either makes a move and sends it or receives and validates one.     *)
(*                                                                         *)
(* Over gRPC (server/factorfight) the Host serves the Play stream and the  *)
(* Challenger opened it; both tell OnGameComplete how the game ended.      *)
(*                                                                         *)
(* The dice are taken from DiceRoll: RollsPairUp and RollAgreement justify *)
(* that the players' k-th rolls give the same dice, and that neither gets  *)
(* them before the other has started that roll.                            *)
(***************************************************************************)
EXTENDS FactorFightRules

CONSTANTS Host, Challenger,
          Wire,           \* "channel": Go channels; "grpc": protobuf messages
          IntRange,       \* values of the int32 a move travels in: 2^32
          MayDisconnect,  \* may the stream break, or a context end?
          MayRefuse,      \* may a message that is received not verify?
          Pawn1Depth,     \* bounds: the Host's strategy takes its pawns no
          Pawn2Depth,     \* further below 0, the Challenger's not below 0
          None

ASSUME GameAssumption ==
    /\ Host # Challenger
    /\ Wire \in {"channel", "grpc"}
    /\ IntRange \in Nat \ {0}
    /\ MayDisconnect \in BOOLEAN /\ MayRefuse \in BOOLEAN
    /\ Pawn1Depth \in Nat /\ Pawn2Depth \in Nat

VARIABLES pc,       \* pc[p]: where p's session is in PlayWithInitiative
          board,    \* board[p]: p's State
          rolls,    \* rolls[p]: the dice of the turn p is in
          pending,  \* pending[p]: dice the peer has and p has still to get
          chosen,   \* chosen[p]: the move p has made and not sent yet
          inbox,    \* inbox[p]: moves on their way to p, or not verified
          err,      \* err[p]: the error that ended p's session
          stream,   \* the stream: "open", "broken" by the network, or "reset"
          report,   \* report[p]: what OnGameComplete was told, or "none"
          narrowed  \* history: has a move been sent that arrives as another?

vars == <<pc, board, rolls, pending, chosen, inbox, err, stream, report, narrowed>>
-----------------------------------------------------------------------------
Players == {Host, Challenger}
Other(p) == IF p = Host THEN Challenger ELSE Host

Floor(p) == IF p = Host THEN <<-Pawn1Depth, -Pawn2Depth>> ELSE <<0, 0>>

Dice == Die \X Die

ASSUME NoneAssumption == None \notin Dice /\ None \notin Moves

(* The states of a session: it rolls, then makes or awaits a move.  The    *)
(* player who does not begin has an opening turn of the other before its   *)
(* loop.                                                                   *)
RollStates == {"initiative", "openingRoll", "takeRoll", "otherRoll"}
RecvStates == {"openingRecv", "otherRecv"}
Blocking   == RollStates \cup RecvStates \cup {"send"}
PCs        == Blocking \cup {"choose", "won", "lost"}

Errors == {"none", "io", "refused", "noMoves", "rejected"}

Playing(p) == err[p] = "none" /\ report[p] = "none"
At(p, states) == Playing(p) /\ pc[p] \in states
Ended(p) == ~ Playing(p)

(* An int32 keeps the low 32 bits, as a signed number. *)
Int32(v) == ((v + IntRange \div 2) % IntRange) - IntRange \div 2
OnWire(pm) == IF Wire = "grpc" THEN PawnMove(Int32(pm.Result), pm.Bump) ELSE pm

Encoded(m) == [Pawn1 |-> OnWire(m.Pawn1), Pawn2 |-> OnWire(m.Pawn2)]

(* The stream is gone, or a handler has returned an error and ended it. *)
Broken == stream # "open" \/ (Wire = "grpc" /\ \E p \in Players : err[p] # "none")

GoTo(p, state) == pc' = [pc EXCEPT ![p] = state]
-----------------------------------------------------------------------------
Init ==
    /\ pc = [p \in Players |-> "initiative"]
    /\ board = [p \in Players |-> StartBoard]
    /\ rolls = [p \in Players |-> None]
    /\ pending = [p \in Players |-> None]
    /\ chosen = [p \in Players |-> None]
    /\ inbox = [p \in Players |-> << >>]
    /\ err = [p \in Players |-> "none"]
    /\ stream = "open"
    /\ report = [p \in Players |-> "none"]
    /\ narrowed = FALSE

(* Mutant of GoesFirst: both players want the high half.                   *)
HighGoesFirst(p, d) == d[1] > Sides \div 2

(* RollInitiative: the host wants the high half, the challenger the rest. *)
GoesFirst(p, d) ==
    IF p = Host THEN d[1] > Sides \div 2 ELSE d[1] <= Sides \div 2

(* RollSync has returned the dice d to p: whose turn it is decides what p  *)
(* does with them.                                                         *)
Rolled(p, d) ==
    \/ /\ pc[p] = "initiative"
       /\ GoTo(p, IF GoesFirst(p, d) THEN "takeRoll" ELSE "openingRoll")
       /\ UNCHANGED <<rolls, err>>
    \/ /\ pc[p] = "takeRoll"
       /\ rolls' = [rolls EXCEPT ![p] = d]
       /\ IF MovesFor(board[p], d[1], d[2]) = {}
          THEN err' = [err EXCEPT ![p] = "noMoves"] /\ UNCHANGED pc
          ELSE GoTo(p, "choose") /\ UNCHANGED err
    \/ /\ pc[p] \in {"openingRoll", "otherRoll"}
       /\ rolls' = [rolls EXCEPT ![p] = d]
       /\ GoTo(p, IF pc[p] = "openingRoll" THEN "openingRecv" ELSE "otherRecv")
       /\ UNCHANGED err

(* Both players roll and p is the first to get the result. *)
RollFirst(p) ==
    /\ At(p, RollStates) /\ At(Other(p), RollStates)
    /\ pending = [q \in Players |-> None]
    /\ ~ Broken
    /\ \E d \in Dice :
          /\ pending' = [pending EXCEPT ![Other(p)] = d]
          /\ Rolled(p, d)
    /\ UNCHANGED <<board, chosen, inbox, stream, report, narrowed>>

(* p gets the result of a roll the peer has already finished. *)
RollSecond(p) ==
    /\ At(p, RollStates)
    /\ pending[p] # None
    /\ Rolled(p, pending[p])
    /\ pending' = [pending EXCEPT ![p] = None]
    /\ UNCHANGED <<board, chosen, inbox, stream, report, narrowed>>

(* TakeTurn: the strategy picks any of the moves; the session's own board  *)
(* changes before the move is sent.                                        *)
ChooseMove(p) ==
    /\ At(p, {"choose"})
    /\ GoTo(p, "send")
    /\ \E m \in MovesFor(board[p], rolls[p][1], rolls[p][2]) :
          /\ m.Pawn1.Result >= Floor(p)[1] /\ m.Pawn2.Result >= Floor(p)[2]
          /\ chosen' = [chosen EXCEPT ![p] = m]
          /\ board' = [board EXCEPT ![p] = Move(@, m)]
    /\ rolls' = [rolls EXCEPT ![p] = None]
    /\ UNCHANGED <<pending, inbox, err, stream, report, narrowed>>

(* Peer.SendMove, and the test for a win that follows it. *)
SendMove(p) ==
    /\ At(p, {"send"})
    /\ ~ Broken
    /\ inbox' = [inbox EXCEPT ![Other(p)] = Append(@, Encoded(chosen[p]))]
    /\ chosen' = [chosen EXCEPT ![p] = None]
    /\ GoTo(p, IF Win(board[p]) THEN "won" ELSE "otherRoll")
    /\ narrowed' = (narrowed \/ Encoded(chosen[p]) # chosen[p])
    /\ UNCHANGED <<board, rolls, pending, err, stream, report>>

(* OtherTurn, from Peer.RecvMove on.  Only the loop tests for a loss: the  *)
(* opening turn does not.                                                  *)
AcceptMove(p) ==
    /\ At(p, RecvStates)
    /\ inbox[p] # << >>
    /\ inbox' = [inbox EXCEPT ![p] = Tail(@)]
    /\ rolls' = [rolls EXCEPT ![p] = None]
    /\ LET m == Head(inbox[p])
           after == PeerMove(board[p], m)
       IN  /\ m \in MovesOfPeer(board[p], rolls[p][1], rolls[p][2])
           /\ board' = [board EXCEPT ![p] = after]
           /\ GoTo(p, IF pc[p] = "otherRecv" /\ Lose(after) THEN "lost" ELSE "takeRoll")
    /\ UNCHANGED <<pending, chosen, err, stream, report, narrowed>>

(* validateMove fails: the session ends with an error. *)
RejectMove(p) ==
    /\ At(p, RecvStates)
    /\ inbox[p] # << >>
    /\ err' = [err EXCEPT ![p] = "rejected"]
    /\ inbox' = [inbox EXCEPT ![p] = Tail(@)]
    /\ Head(inbox[p]) \notin MovesOfPeer(board[p], rolls[p][1], rolls[p][2])
    /\ UNCHANGED <<pc, board, rolls, pending, chosen, stream, report, narrowed>>

(* Mutant of StreamFails: only a send notices.                             *)
SendFails(p) ==
    /\ Broken
    /\ At(p, {"send"})
    /\ err' = [err EXCEPT ![p] = "io"]
    /\ UNCHANGED <<pc, board, rolls, pending, chosen, inbox, stream, report, narrowed>>

(* A roll, a send or a receive on a broken stream returns an error. *)
StreamFails(p) ==
    /\ Broken
    /\ At(p, Blocking)
    /\ err' = [err EXCEPT ![p] = "io"]
    /\ UNCHANGED <<pc, board, rolls, pending, chosen, inbox, stream, report, narrowed>>

(* The other player has sent a message of the roll that p has not received *)
(* yet, at least its confirmation, or a move.                              *)
HasMessage(p) ==
    \/ /\ pc[p] \in RollStates
       /\ pending[p] # None \/ (At(Other(p), RollStates) /\ pending[Other(p)] = None)
    \/ pc[p] \in RecvStates /\ inbox[p] # << >>

(* A receive on a stream that is whole returns an error: the signature of  *)
(* the message is not verified (Refuse in VerifiedStreams), because the    *)
(* chain has expired, the signer's identity is not to be had or the insert *)
(* is refused.                                                             *)
MessageRefused(p) ==
    /\ MayRefuse /\ Wire = "grpc" /\ ~ Broken
    /\ At(p, RollStates \cup RecvStates) /\ HasMessage(p)
    /\ err' = [err EXCEPT ![p] = "refused"]
    /\ UNCHANGED <<pc, board, rolls, pending, chosen, inbox, stream, report, narrowed>>

(* Mutant of Complete: whoever returns resets the stream.                  *)
CompleteAndReset(p) ==
    /\ At(p, {"won", "lost"})
    /\ report' = [report EXCEPT ![p] = IF pc[p] = "won" THEN "win" ELSE "lose"]
    /\ stream' = IF Wire = "grpc" /\ stream = "open" THEN "reset" ELSE stream
    /\ UNCHANGED <<pc, board, rolls, pending, chosen, inbox, err, narrowed>>

(* The game is over: OnGameComplete, then the handler returns.  When the   *)
(* challenger's does, its context ends and resets the stream; the end of   *)
(* the host's is delivered behind the messages it has sent.                *)
Complete(p) ==
    /\ At(p, {"won", "lost"})
    /\ report' = [report EXCEPT ![p] = IF pc[p] = "won" THEN "win" ELSE "lose"]
    /\ stream' = IF p = Challenger /\ Wire = "grpc" /\ stream = "open"
                 THEN "reset" ELSE stream
    /\ UNCHANGED <<pc, board, rolls, pending, chosen, inbox, err, narrowed>>

Disconnect ==
    /\ MayDisconnect /\ Wire = "grpc" /\ ~ Broken
    /\ stream' = "broken"
    /\ UNCHANGED <<pc, board, rolls, pending, chosen, inbox, err, report, narrowed>>

(* Both sessions have returned: the system stops. *)
Finished ==
    /\ \A p \in Players : Ended(p)
    /\ UNCHANGED vars
-----------------------------------------------------------------------------
Session(p) ==
    \/ StreamFails(p) \/ MessageRefused(p) \/ Complete(p)
    \/ RollFirst(p) \/ RollSecond(p) \/ ChooseMove(p) \/ SendMove(p)
    \/ AcceptMove(p) \/ RejectMove(p)

Next == (\E p \in Players : Session(p)) \/ Disconnect \/ Finished

Spec == Init /\ [][Next]_vars

(* The sessions are goroutines: they run when they can.  Nothing makes a   *)
(* stream break.                                                           *)
FairSpec == Spec /\ \A p \in Players : WF_vars(Session(p))
-----------------------------------------------------------------------------
(* The types of the variables: a session's state, its board, the dice and  *)
(* moves under way.                                                        *)
TypeOK ==
    /\ pc \in [Players -> PCs]
    /\ board \in [Players -> Boards]
    /\ rolls \in [Players -> Dice \cup {None}]
    /\ pending \in [Players -> Dice \cup {None}]
    /\ chosen \in [Players -> Moves \cup {None}]
    /\ inbox \in [Players -> Seq(Moves)]
    /\ err \in [Players -> Errors]
    /\ stream \in {"open", "broken", "reset"}
    /\ report \in [Players -> {"none", "win", "lose"}]
    /\ narrowed \in BOOLEAN

Rejected == \E p \in Players : err[p] = "rejected"

(* p has made a move that the other has not applied yet. *)
Ahead(p) == pc[p] = "send" \/ inbox[Other(p)] # << >>

(* The two States are one board seen from two sides: equal when no move is *)
(* under way, and otherwise exactly the one move apart that is being sent  *)
(* (TakeTurn applies a move before it sends it, OtherTurn after).  A move  *)
(* that has arrived as another one has ended that, refused or not.         *)
UnderWay(p) == IF pc[p] = "send" THEN <<chosen[p]>> ELSE inbox[Other(p)]
BoardsMirror ==
    narrowed \/
    \A p \in Players :
        /\ Ahead(p) => /\ ~ Ahead(Other(p)) /\ Len(UnderWay(p)) = 1
                       /\ board[p] = Mirror(PeerMove(board[Other(p)], UnderWay(p)[1]))
        /\ (~ Ahead(p) /\ ~ Ahead(Other(p))) => board[p] = Mirror(board[Other(p)])

(* A move that the rules offered to the strategy is refused by the peer    *)
(* for one reason only: a pawn was too far below zero for the protobuf     *)
(* field, and a move arrived as another (strategy.go: ChooseMove "receives *)
(* a list of all possible moves and returns the one that it wants to       *)
(* execute"; validateMove; int32(p.Result) in convert.go).                 *)
HonestMovesAccepted == Rejected => narrowed

(* The two players are never told the same result, and a player is told it *)
(* won only with both pawns home on both boards that were brought up to    *)
(* date (factorfight_test.go: the results "should not match"), unless a    *)
(* move has arrived as another one.                                        *)
ResultsOpposite ==
    narrowed \/
    \A p \in Players :
        /\ report[p] # "none" => report[p] # report[Other(p)]
        /\ report[p] = "win" => /\ pc[Other(p)] \in {"otherRecv", "otherRoll", "lost"}
                                /\ pc[Other(p)] = "lost" => Lose(board[Other(p)])

(* A game that the host wins is reported to the challenger as lost, unless *)
(* the network breaks the stream or the challenger itself refuses one of   *)
(* the last messages: the host's return does not overtake them, and only   *)
(* the challenger's own return resets the stream (TakeTurn's SendMove      *)
(* comes before Complete; service.go:118-130; peer.go:75-77, :123-125).    *)
ChallengerHearsOfLoss ==
    narrowed \/
    (pc[Host] = "won" /\ Ended(Challenger)
        => \/ report[Challenger] = "lose"
           \/ stream = "broken" \/ err[Challenger] = "refused")

(* No two pawns stand on one square, the start and the goal aside, in      *)
(* either player's view (the bumps of generateMoves and Move).             *)
NoPawnsCollide == narrowed \/ \A p \in Players : NoSharedSquare(board[p])
-----------------------------------------------------------------------------
(* The phases of a turn, with p to move and q the other.                   *)
Idle(p) == rolls[p] = None /\ pending[p] = None /\ chosen[p] = None /\ inbox[p] = << >>

(* q, which awaits p's move, has the dice d or can get them. *)
Awaits(q, d) ==
    /\ d \in Dice /\ chosen[q] = None
    /\ \/ pc[q] \in {"openingRoll", "otherRoll"} /\ rolls[q] = None /\ pending[q] = d
       \/ pc[q] \in RecvStates /\ rolls[q] = d /\ pending[q] = None

Mirrored(p, q) == board[p] = Mirror(board[q])

InitiativePhase(p, q) ==
    /\ Idle(p) /\ chosen[q] = None /\ rolls[q] = None /\ inbox[q] = << >>
    /\ pc[q] = "initiative" /\ Mirrored(p, q) /\ board[q] = StartBoard
    /\ \/ pc[p] = "initiative" /\ pending[q] = None
       \/ pending[q] \in Dice
          /\ pc[p] = IF GoesFirst(p, pending[q]) THEN "takeRoll" ELSE "openingRoll"

(* Neither has the dice of the turn, or q has them first. *)
RollPhase(p, q) ==
    /\ pc[p] = "takeRoll" /\ rolls[p] = None /\ chosen[p] = None
    /\ inbox[p] = << >> /\ inbox[q] = << >> /\ Mirrored(p, q)
    /\ \/ pc[q] \in {"openingRoll", "otherRoll"} /\ Idle(q) /\ pending[p] = None
       \/ /\ pc[q] \in RecvStates /\ pending[p] \in Dice
          /\ rolls[q] = pending[p] /\ pending[q] = None /\ chosen[q] = None

(* p has the dice, and a move to make. *)
ChoosePhase(p, q) ==
    /\ pc[p] = "choose"
    /\ pending[p] = None /\ chosen[p] = None /\ inbox[p] = << >> /\ inbox[q] = << >>
    /\ Mirrored(p, q) /\ Awaits(q, rolls[p])

(* p has applied the move m, which q has not. *)
MovedBy(p, q, m) ==
    \E d \in Dice :
        /\ Awaits(q, d)
        /\ m \in MovesOfPeer(board[q], d[1], d[2])
        /\ board[p] = Mirror(PeerMove(board[q], m))

SendPhase(p, q) ==
    /\ pc[p] = "send" /\ rolls[p] = None /\ pending[p] = None
    /\ inbox[p] = << >> /\ inbox[q] = << >> /\ MovedBy(p, q, chosen[p])

SentPhase(p, q) ==
    /\ pc[p] = IF Win(board[p]) THEN "won" ELSE "otherRoll"
    /\ Idle(p) /\ Len(inbox[q]) = 1 /\ MovedBy(p, q, inbox[q][1])

OverPhase(p, q) ==
    /\ pc[p] = "won" /\ pc[q] = "lost" /\ Idle(p) /\ Idle(q)
    /\ Mirrored(p, q) /\ Lose(board[q])

(* A player in its opening turn has the start board: only the loop tests   *)
(* for a loss, and nobody wins with the first move.                        *)
Opening(q) == pc[q] \in {"openingRoll", "openingRecv"} => board[q] = StartBoard

(* The other player's board is one to go on from, until the game is over.  *)
Turn(p, q) ==
    /\ NoSharedSquare(board[p]) /\ NoSharedSquare(board[q])
    /\ Opening(p) /\ Opening(q)
    /\ \/ /\ Legal(board[q])
          /\ \/ InitiativePhase(p, q) \/ RollPhase(p, q) \/ ChoosePhase(p, q)
             \/ SendPhase(p, q) \/ SentPhase(p, q)
       \/ OverPhase(p, q)

NoneStuck == \A p \in Players : err[p] \in {"none", "io", "refused"}

InStep ==
    /\ NoneStuck
    /\ \E p \in Players : Turn(p, Other(p))

Bookkeeping ==
    \A p \in Players :
        /\ pc[p] = "choose" => rolls[p] # None
        /\ pc[p] = "send" => chosen[p] # None
        /\ report[p] # "none" => pc[p] = IF report[p] = "win" THEN "won" ELSE "lost"

Refused == \E p \in Players : err[p] = "refused"

(* Why a session has ended: an error ends it in a call that blocks, only   *)
(* the challenger's return resets the stream, and until a move arrives as  *)
(* another one every error comes from a stream that is gone or from a      *)
(* message that was refused.                                               *)
EndInv ==
    /\ stream = "reset" => report[Challenger] # "none"
    /\ \A p \in Players :
          err[p] # "none" => /\ pc[p] \in Blocking
                             /\ narrowed \/ stream # "open" \/ Refused

(* What every step of a game keeps: until a move arrives as another one,   *)
(* which Go channels never do, the sessions are in the same phase of the   *)
(* same turn, no move is refused and nobody is without a move              *)
(* (PlayWithInitiative, TakeTurn, OtherTurn).                              *)
Inductive ==
    /\ TypeOK
    /\ Bookkeeping
    /\ EndInv
    /\ Wire = "channel" => ~ narrowed
    /\ narrowed \/ InStep
-----------------------------------------------------------------------------
(* When the stream is gone, or a session has failed or finished its game,  *)
(* both sessions return, with a result or an error: nobody waits for a     *)
(* peer that has left (the error returns of PlayWithInitiative and of the  *)
(* Play handlers).                                                         *)
NobodyIsLeftWaiting ==
    (stream # "open" \/ \E p \in Players : err[p] # "none" \/ pc[p] \in {"won", "lost"})
        ~> \A p \in Players : Ended(p)

(* server/factorfight/service.go: "OnGameComplete runs after your server   *)
(* receives a challenge from another player": once the challenger has      *)
(* reported the end of the game, the challenged server does.               *)
ChallengedServerReports ==
    report[Challenger] # "none" ~> report[Host] # "none"
-----------------------------------------------------------------------------
(* The game as one board (AbstractGame).  A player's move counts from the  *)
(* moment it changes the player's own State.                               *)
Front == IF \E p \in Players : Ahead(p) THEN CHOOSE p \in Players : Ahead(p) ELSE Host

AbstractPawns ==
    LET b == board[Front]
    IN  [p \in Players |-> IF p = Front THEN <<b.Pawn1, b.Pawn2>>
                           ELSE <<b.PeerPawn1, b.PeerPawn2>>]

(* Whose turn it is, from what either session is doing. *)
HasMoved(p)  == pc[p] = "won" \/ Ahead(p)
IsMoving(p)  == pc[p] \in {"takeRoll", "choose"}
IsWaiting(p) == pc[p] \in {"openingRoll", "openingRecv", "otherRoll", "otherRecv"}
AbstractTurn ==
    IF \E p \in Players : HasMoved(p) THEN Other(CHOOSE p \in Players : HasMoved(p))
    ELSE IF \E p \in Players : IsMoving(p) THEN CHOOSE p \in Players : IsMoving(p)
    ELSE IF \E p \in Players : IsWaiting(p) THEN Other(CHOOSE p \in Players : IsWaiting(p))
    ELSE None

Abstract == INSTANCE AbstractGame WITH
    pawns <- AbstractPawns, turn <- AbstractTurn

(* Two sessions that exchange moves play one game with alternating turns.  *)
PlaysOneGame == Abstract!Spec
=============================================================================
