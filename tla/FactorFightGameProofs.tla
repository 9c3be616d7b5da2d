------------------------ MODULE FactorFightGameProofs ------------------------
(***************************************************************************)
(* Theorems about FactorFightGame, for every goal and every die, for Go    *)
(* channels and for gRPC, with integers of every width and however far     *)
(* below zero the pawns go.                                                *)
(***************************************************************************)
EXTENDS FactorFightGame, FactorFightRulesProofs, SequenceTheorems

USE RulesAssumption, GameAssumption, NoneAssumption

(* There are two players (Session and its peer).                           *)
LEMMA OtherFacts ==
    \A p \in Players : Other(p) \in Players /\ Other(Other(p)) = p /\ Other(p) # p
BY DEF Players, Other

(* The sets the types are made of.                                         *)
LEMMA BoardFacts ==
    /\ StartBoard \in Boards /\ NoSharedSquare(StartBoard) /\ Legal(StartBoard)
    /\ Mirror(StartBoard) = StartBoard
    /\ \A d \in Dice : d[1] \in Die /\ d[2] \in Die
    /\ \A d \in Dice : d # None
    /\ \A m \in Moves : m # None /\ Encoded(m) \in Moves
<1>1. /\ StartBoard \in Boards /\ NoSharedSquare(StartBoard) /\ Legal(StartBoard)
      /\ Mirror(StartBoard) = StartBoard
  BY DEF StartBoard, Boards, Board, Mirror, NoSharedSquare, Apart, Legal, Win, Lose
<1>2. \A d \in Dice : d[1] \in Die /\ d[2] \in Die /\ d # None
  BY DEF Dice
<1>3. IntRange \div 2 \in Int /\ \A v \in Int : Int32(v) \in Int
  BY DEF Int32
<1>4. \A m \in Moves : m # None /\ Encoded(m) \in Moves
  BY <1>3 DEF Moves, Encoded, OnWire, PawnMove
<1> QED
  BY <1>1, <1>2, <1>4

(* A Go channel delivers the move that was sent.                           *)
LEMMA ChannelExact ==
    ASSUME Wire = "channel", NEW m \in Moves
    PROVE  Encoded(m) = m
BY DEF Encoded, OnWire, Moves

-----------------------------------------------------------------------------
(* The move a session makes or accepts leaves it with a board (Move,       *)
(* PeerMove).                                                              *)
LEMMA BoardStep ==
    ASSUME NEW s \in Boards, NEW d \in Dice
    PROVE  /\ \A m \in MovesFor(s, d[1], d[2]) : m \in Moves /\ Move(s, m) \in Boards
           /\ \A m \in Moves : PeerMove(s, m) \in Boards
BY BoardFacts, ListedMove, MirrorFacts

(* What the peer accepts: the moves listed for the mirrored board, and     *)
(* what they do (validateMove, PeerMove).                                  *)
LEMMA PeerListed ==
    ASSUME NEW s \in Boards, NEW d \in Dice
    PROVE  /\ MovesOfPeer(s, d[1], d[2]) = MovesFor(Mirror(s), d[1], d[2])
           /\ \A m \in MovesOfPeer(s, d[1], d[2]) :
                 /\ m \in Moves /\ PeerMove(s, m) \in Boards
                 /\ Mirror(PeerMove(s, m)) = Move(Mirror(s), m)
                 /\ NoSharedSquare(s) => NoSharedSquare(PeerMove(s, m))
                 /\ s = StartBoard => ~ Lose(PeerMove(s, m))
                 /\ (Legal(s) /\ ~ Lose(PeerMove(s, m))) => Legal(PeerMove(s, m))
<1>1. MovesOfPeer(s, d[1], d[2]) = MovesFor(Mirror(s), d[1], d[2]) /\ Mirror(s) \in Boards
  BY MirrorFacts
<1>2. ASSUME NEW m \in MovesFor(Mirror(s), d[1], d[2])
      PROVE  /\ m \in Moves /\ PeerMove(s, m) \in Boards
             /\ Mirror(PeerMove(s, m)) = Move(Mirror(s), m)
             /\ NoSharedSquare(s) => NoSharedSquare(PeerMove(s, m))
             /\ s = StartBoard => ~ Lose(PeerMove(s, m))
             /\ (Legal(s) /\ ~ Lose(PeerMove(s, m))) => Legal(PeerMove(s, m))
  <2>1. d[1] \in Die /\ d[2] \in Die
    BY BoardFacts
  <2>2. /\ m \in Moves
        /\ NoSharedSquare(Mirror(s)) => NoSharedSquare(Move(Mirror(s), m))
        /\ Mirror(s) = StartBoard => ~ Win(Move(Mirror(s), m))
        /\ (Legal(Mirror(s)) /\ ~ Win(Move(Mirror(s), m))) => Legal(Move(Mirror(s), m))
    BY <1>1, <2>1, ListedMove
  <2>3. PeerMove(s, m) \in Boards /\ Mirror(PeerMove(s, m)) = Move(Mirror(s), m)
    BY <2>2, MirrorFacts
  <2>4. NoSharedSquare(s) => NoSharedSquare(PeerMove(s, m))
    BY <2>2, <2>3, MirrorFacts
  <2>5. s = StartBoard => ~ Lose(PeerMove(s, m))
    BY <2>2, <2>3, MirrorFacts, BoardFacts
  <2>6. (Legal(s) /\ ~ Lose(PeerMove(s, m))) => Legal(PeerMove(s, m))
    BY <2>2, <2>3, MirrorFacts
  <2> QED
    BY <2>2, <2>3, <2>4, <2>5, <2>6
<1> QED
  BY <1>1, <1>2

(* Every step keeps the types (the handlers of Session).                   *)
LEMMA TypeStep ==
    ASSUME TypeOK, Bookkeeping, [Next]_vars
    PROVE  TypeOK' /\ Bookkeeping'
<1>types. /\ pc \in [Players -> PCs] /\ rolls \in [Players -> Dice \cup {None}]
          /\ err \in [Players -> Errors]
          /\ \A p \in Players : pc[p] = "choose" => rolls[p] # None
  BY DEF TypeOK, Bookkeeping
<1>pc. /\ {"initiative", "openingRoll", "takeRoll", "otherRoll", "openingRecv",
           "otherRecv", "send", "choose", "won", "lost"} \subseteq PCs
       /\ {"none", "io", "refused", "noMoves", "rejected"} \subseteq Errors
  BY DEF PCs, Blocking, RollStates, RecvStates, Errors
<1>rolled. ASSUME NEW p \in Players, NEW d \in Dice, Rolled(p, d), pc[p] \in RollStates,
                  report[p] = "none"
           PROVE  /\ pc' \in [Players -> PCs] /\ rolls' \in [Players -> Dice \cup {None}]
                  /\ err' \in [Players -> Errors]
                  /\ \A q \in Players : /\ pc'[q] = "choose" => rolls'[q] # None
                                        /\ pc'[q] = "send" => pc[q] = "send"
                                        /\ report[q] # "none" => pc'[q] = pc[q]
  <2>1. CASE pc[p] = "initiative"
    BY <1>rolled, <1>pc, <1>types, <2>1 DEF Rolled, GoTo
  <2>2. CASE pc[p] = "takeRoll"
    <3>1. rolls' = [rolls EXCEPT ![p] = d] /\ d # None
      BY <1>rolled, <2>2, BoardFacts DEF Rolled, GoTo
    <3>2. \/ err' = [err EXCEPT ![p] = "noMoves"] /\ pc' = pc
          \/ pc' = [pc EXCEPT ![p] = "choose"] /\ err' = err
      BY <1>rolled, <2>2 DEF Rolled, GoTo
    <3> QED
      BY <1>rolled, <1>pc, <1>types, <2>2, <3>1, <3>2
  <2>3. CASE pc[p] \in {"openingRoll", "otherRoll"}
    <3>1. rolls' = [rolls EXCEPT ![p] = d] /\ err' = err
      BY <1>rolled, <2>3 DEF Rolled, GoTo
    <3>2. \E next \in {"openingRecv", "otherRecv"} : pc' = [pc EXCEPT ![p] = next]
      BY <1>rolled, <2>3 DEF Rolled, GoTo
    <3> QED
      BY <1>rolled, <1>pc, <1>types, <2>3, <3>1, <3>2
  <2> QED
    BY <1>rolled, <2>1, <2>2, <2>3 DEF RollStates
<1> USE DEF TypeOK, Bookkeeping, GoTo, At, Playing
<1>1. ASSUME NEW p \in Players, RollFirst(p) PROVE TypeOK' /\ Bookkeeping'
  <2>1. PICK d \in Dice : pending' = [pending EXCEPT ![Other(p)] = d] /\ Rolled(p, d)
    BY <1>1 DEF RollFirst
  <2>2. pc[p] \in RollStates /\ report[p] = "none"
    BY <1>1 DEF RollFirst
  <2>3. /\ pending' \in [Players -> Dice \cup {None}]
        /\ UNCHANGED <<board, chosen, inbox, stream, report, narrowed>>
    BY <1>1, <2>1, OtherFacts DEF RollFirst
  <2> QED
    BY <1>rolled, <2>1, <2>2, <2>3
<1>2. ASSUME NEW p \in Players, RollSecond(p) PROVE TypeOK' /\ Bookkeeping'
  BY <1>2, <1>rolled DEF RollSecond
<1>3. ASSUME NEW p \in Players, ChooseMove(p) PROVE TypeOK' /\ Bookkeeping'
  <2>1. PICK m \in MovesFor(board[p], rolls[p][1], rolls[p][2]) :
            chosen' = [chosen EXCEPT ![p] = m] /\ board' = [board EXCEPT ![p] = Move(@, m)]
    BY <1>3 DEF ChooseMove
  <2>2. m \in Moves /\ m # None /\ Move(board[p], m) \in Boards
    BY <1>3, <2>1, BoardStep, BoardFacts DEF ChooseMove
  <2> QED
    BY <1>3, <1>pc, <2>1, <2>2 DEF ChooseMove
<1>4. ASSUME NEW p \in Players, SendMove(p) PROVE TypeOK' /\ Bookkeeping'
  <2>1. chosen[p] \in Moves /\ Encoded(chosen[p]) \in Moves
    BY <1>4, BoardFacts DEF SendMove
  <2>2. Append(inbox[Other(p)], Encoded(chosen[p])) \in Seq(Moves)
    BY <2>1, OtherFacts, AppendProperties
  <2> QED
    BY <1>4, <1>pc, <2>2 DEF SendMove
<1>5. ASSUME NEW p \in Players, AcceptMove(p) PROVE TypeOK' /\ Bookkeeping'
  <2>1. Head(inbox[p]) \in Moves /\ Tail(inbox[p]) \in Seq(Moves)
    BY <1>5, HeadTailProperties DEF AcceptMove
  <2>2. PeerMove(board[p], Head(inbox[p])) \in Boards
    BY <2>1, MirrorFacts
  <2> QED
    BY <1>5, <1>pc, <2>1, <2>2 DEF AcceptMove
<1>6. ASSUME NEW p \in Players, RejectMove(p) PROVE TypeOK' /\ Bookkeeping'
  <2>1. Tail(inbox[p]) \in Seq(Moves)
    BY <1>6, HeadTailProperties DEF RejectMove
  <2> QED
    BY <1>6, <1>pc, <2>1 DEF RejectMove
<1>7. ASSUME NEW p \in Players, StreamFails(p) \/ MessageRefused(p)
      PROVE  TypeOK' /\ Bookkeeping'
  <2>1. /\ err' = [err EXCEPT ![p] = "io"] \/ err' = [err EXCEPT ![p] = "refused"]
        /\ UNCHANGED <<pc, board, rolls, pending, chosen, inbox, stream, report, narrowed>>
    BY <1>7 DEF StreamFails, MessageRefused
  <2>2. err' \in [Players -> Errors]
    BY <1>types, <1>pc, <2>1
  <2> QED
    BY <2>1, <2>2 DEF TypeOK, Bookkeeping
<1>8. ASSUME NEW p \in Players, Complete(p) PROVE TypeOK' /\ Bookkeeping'
  BY <1>8 DEF Complete
<1>9. CASE Disconnect \/ Finished \/ UNCHANGED vars
  BY <1>9 DEF Disconnect, Finished, vars
<1> QED
  BY <1>1, <1>2, <1>3, <1>4, <1>5, <1>6, <1>7, <1>8, <1>9 DEF Next, Session

(* The inbox holds at most one move: what Append, Head and Tail do then.   *)
LEMMA OneMove ==
    /\ \A m \in Moves : /\ Len(Append(<< >>, m)) = 1
                       /\ Append(<< >>, m)[1] = m
    /\ \A s \in Seq(Moves) : Len(s) = 1 =>
          s # << >> /\ Head(s) = s[1] /\ s[1] \in Moves /\ Tail(s) = << >>
<1>1. << >> \in Seq(Moves) /\ Len(<< >>) = 0
  BY EmptySeq
<1>2. ASSUME NEW m \in Moves
      PROVE  Len(Append(<< >>, m)) = 1 /\ Append(<< >>, m)[1] = m
  OBVIOUS
<1>3. ASSUME NEW s \in Seq(Moves), Len(s) = 1
      PROVE  s # << >> /\ Head(s) = s[1] /\ s[1] \in Moves /\ Tail(s) = << >>
  <2>1. s # << >>
    BY <1>1, <1>3
  <2>2. Tail(s) \in Seq(Moves) /\ Len(Tail(s)) = 0
    BY <1>3, <2>1, HeadTailProperties
  <2>3. Tail(s) = << >>
    BY <2>2, EmptySeq
  <2>4. Head(s) = s[1] /\ s[1] \in Moves
    BY <1>3, <2>1
  <2> QED
    BY <2>1, <2>3, <2>4
<1> QED
  BY <1>2, <1>3

-----------------------------------------------------------------------------
(* A pair of players in a phase of a turn, p to move.                      *)
Ready(p, q) ==
    p \in Players /\ q \in Players /\ q = Other(p) /\ p = Other(q) /\ p # q
    /\ TypeOK /\ Turn(p, q)

(* What leaves the phases alone: a step that only ends a session, or says  *)
(* how a game ended (StreamFails, Complete).                               *)
LEMMA FrameStep ==
    ASSUME NEW p, NEW q, Ready(p, q),
           UNCHANGED <<pc, board, rolls, pending, chosen, inbox>>,
           err[p] # "none" => err'[p] = err[p]
    PROVE  Turn(p, q)'
BY DEF Ready, Turn, Opening, InitiativePhase, RollPhase, ChoosePhase, SendPhase, SentPhase,
       OverPhase, Idle, Mirrored, MovedBy, Awaits, NoSharedSquare

(* The player to move has a move (TakeTurn).                               *)
LEMMA MoverCanMove ==
    ASSUME NEW p, NEW q, Ready(p, q), Mirrored(p, q), Legal(board[q]), NEW d \in Dice
    PROVE  Legal(board[p]) /\ MovesFor(board[p], d[1], d[2]) # {}
<1>1. board[p] \in Boards /\ board[q] \in Boards /\ d[1] \in Die /\ d[2] \in Die
  BY BoardFacts DEF Ready, TypeOK
<1>2. Legal(board[p])
  BY <1>1, MirrorFacts DEF Mirrored
<1>3. board[p].Pawn1 <= Goal /\ board[p].Pawn2 <= Goal /\ ~ Win(board[p])
  BY <1>2 DEF Legal
<1> QED
  BY <1>1, <1>2, <1>3, MoveExists

(* The first of the two to get the dice (RollInitiative, TakeTurn and      *)
(* OtherTurn up to RollSync).                                              *)
LEMMA RollFirstStep ==
    ASSUME NEW p, NEW q, Ready(p, q), NEW r \in Players, RollFirst(r)
    PROVE  UNCHANGED err /\ (Turn(p, q)' \/ Turn(q, p)')
<1> USE DEF Ready, TypeOK, GoTo
<1>0. PICK d \in Dice : pending' = [pending EXCEPT ![Other(r)] = d] /\ Rolled(r, d)
  BY DEF RollFirst
<1>1. /\ pending[p] = None /\ pending[q] = None /\ d # None
      /\ pc[p] \in RollStates /\ pc[q] \in RollStates /\ r \in {p, q}
      /\ err[p] = "none" /\ err[q] = "none"
      /\ UNCHANGED <<board, chosen, inbox>>
  BY <1>0, BoardFacts, OtherFacts DEF RollFirst, At, Playing, Players, Other
<1>2. Legal(board[q]) /\ (InitiativePhase(p, q) \/ RollPhase(p, q))
  BY <1>1, BoardFacts
     DEF Turn, ChoosePhase, SendPhase, SentPhase, OverPhase, MovedBy, Awaits, RollStates, RecvStates
<1>3. CASE InitiativePhase(p, q)
  <2>1. pc[p] = "initiative" /\ pc[q] = "initiative" /\ board[p] = StartBoard
        /\ board[q] = StartBoard /\ Idle(p) /\ Idle(q)
    BY <1>1, <1>3, BoardFacts DEF InitiativePhase, Idle, Mirrored
  <2>2. rolls' = rolls /\ err' = err
        /\ pc' = [pc EXCEPT ![r] = IF GoesFirst(r, d) THEN "takeRoll" ELSE "openingRoll"]
    BY <1>0, <1>1, <2>1 DEF Rolled
  <2>3. CASE r = p
    <3>1. InitiativePhase(p, q)'
      BY <1>0, <1>1, <2>1, <2>2, <2>3, BoardFacts DEF InitiativePhase, Idle, Mirrored, GoesFirst
    <3> QED
      BY <1>1, <2>1, <2>2, <2>3, <3>1, BoardFacts DEF Turn, Opening
  <2>4. CASE r = q
    <3>1. InitiativePhase(q, p)'
      BY <1>0, <1>1, <2>1, <2>2, <2>4, BoardFacts DEF InitiativePhase, Idle, Mirrored, GoesFirst
    <3> QED
      BY <1>1, <2>1, <2>2, <2>4, <3>1, BoardFacts DEF Turn, Opening
  <2> QED
    BY <1>1, <2>3, <2>4
<1>4. CASE RollPhase(p, q)
  <2>1. pc[p] = "takeRoll" /\ pc[q] \in {"openingRoll", "otherRoll"} /\ Idle(p) /\ Idle(q)
        /\ Mirrored(p, q)
    BY <1>1, <1>4 DEF RollPhase, Idle, RollStates, RecvStates
  <2>2. rolls' = [rolls EXCEPT ![r] = d]
    BY <1>0, <1>1, <2>1 DEF Rolled
  <2>3. CASE r = p
    <3>0. MovesFor(board[p], d[1], d[2]) # {}
      BY <1>2, <2>1, MoverCanMove DEF Ready
    <3>1. pc' = [pc EXCEPT ![p] = "choose"] /\ err' = err
      BY <1>0, <2>1, <2>3, <3>0 DEF Rolled
    <3>2. ChoosePhase(p, q)'
      BY <1>0, <1>1, <2>1, <2>2, <2>3, <3>1 DEF ChoosePhase, Idle, Mirrored, Awaits
    <3> QED
      BY <1>1, <1>2, <2>1, <2>3, <3>1, <3>2 DEF Turn, Opening
  <2>4. CASE r = q
    <3>1. pc' = [pc EXCEPT ![q] = IF pc[q] = "openingRoll" THEN "openingRecv" ELSE "otherRecv"]
          /\ err' = err
      BY <1>0, <2>1, <2>4 DEF Rolled
    <3>2. RollPhase(p, q)'
      BY <1>0, <1>1, <2>1, <2>2, <2>4, <3>1 DEF RollPhase, Idle, Mirrored, RecvStates
    <3> QED
      BY <1>1, <1>2, <2>1, <2>4, <3>1, <3>2 DEF Turn, Opening
  <2> QED
    BY <1>1, <2>3, <2>4
<1> QED
  BY <1>2, <1>3, <1>4

(* The second of the two to get the dice gets the same.                    *)
LEMMA RollSecondStep ==
    ASSUME NEW p, NEW q, Ready(p, q), NEW r \in Players, RollSecond(r)
    PROVE  UNCHANGED err /\ (Turn(p, q)' \/ Turn(q, p)')
<1> USE DEF Ready, TypeOK, GoTo
<1> DEFINE d == pending[r]
<1>1. /\ d \in Dice /\ d # None /\ Rolled(r, d) /\ r \in {p, q}
      /\ pending' = [pending EXCEPT ![r] = None]
      /\ pc[r] \in RollStates /\ err[r] = "none"
      /\ UNCHANGED <<board, chosen, inbox>>
  BY OtherFacts DEF RollSecond, At, Playing, Players, Other
<1>2. CASE InitiativePhase(p, q)
  <2>1. /\ r = q /\ Idle(p) /\ pc[q] = "initiative"
        /\ rolls[q] = None /\ chosen[q] = None /\ inbox[q] = << >>
        /\ board[p] = StartBoard /\ board[q] = StartBoard
        /\ pc[p] = IF GoesFirst(p, d) THEN "takeRoll" ELSE "openingRoll"
    BY <1>1, <1>2, BoardFacts DEF InitiativePhase, Idle, Mirrored
  <2>2. rolls' = rolls /\ err' = err
        /\ pc' = [pc EXCEPT ![q] = IF GoesFirst(q, d) THEN "takeRoll" ELSE "openingRoll"]
    BY <1>1, <2>1 DEF Rolled
  <2>3. GoesFirst(q, d) <=> ~ GoesFirst(p, d)
    <3>1. d[1] \in Int /\ Sides \div 2 \in Int
      BY <1>1, BoardFacts DEF Die
    <3> QED
      BY <3>1 DEF GoesFirst, Players, Other
  <2>4. /\ NoSharedSquare(board'[p]) /\ NoSharedSquare(board'[q])
        /\ Opening(p)' /\ Opening(q)' /\ Mirrored(p, q)' /\ Mirrored(q, p)'
        /\ Idle(p)' /\ Idle(q)' /\ Legal(board'[p]) /\ Legal(board'[q])
    BY <1>1, <2>1, <2>2, BoardFacts DEF Opening, Mirrored, Idle
  <2>5. RollPhase(p, q)' \/ RollPhase(q, p)'
    BY <1>1, <2>1, <2>2, <2>3, <2>4 DEF RollPhase, Idle
  <2> QED
    BY <2>2, <2>4, <2>5 DEF Turn
<1>3. CASE RollPhase(p, q) /\ Legal(board[q])
  <2>1. /\ r = p /\ pc[p] = "takeRoll" /\ chosen[p] = None /\ Mirrored(p, q)
        /\ inbox[p] = << >> /\ inbox[q] = << >> /\ pending[q] = None
        /\ pc[q] \in RecvStates /\ rolls[q] = d /\ chosen[q] = None
    BY <1>1, <1>3, BoardFacts DEF RollPhase, Idle
  <2>0. MovesFor(board[p], d[1], d[2]) # {}
    BY <1>1, <1>3, <2>1, MoverCanMove DEF Ready
  <2>2. rolls' = [rolls EXCEPT ![p] = d] /\ pc' = [pc EXCEPT ![p] = "choose"] /\ err' = err
    BY <1>1, <2>0, <2>1 DEF Rolled
  <2>3. ChoosePhase(p, q)'
    BY <1>1, <2>1, <2>2 DEF ChoosePhase, Mirrored, Awaits, RecvStates
  <2> QED
    BY <1>1, <1>3, <2>1, <2>2, <2>3 DEF Turn, Opening
<1>4. CASE Legal(board[q]) /\ (ChoosePhase(p, q) \/ SendPhase(p, q) \/ SentPhase(p, q))
  <2>1. PICK dq \in Dice : /\ Awaits(q, dq)
                           /\ \/ ChoosePhase(p, q) /\ dq = rolls[p]
                              \/ /\ SendPhase(p, q)
                                 /\ chosen[p] \in MovesOfPeer(board[q], dq[1], dq[2])
                                 /\ board[p] = Mirror(PeerMove(board[q], chosen[p]))
                              \/ /\ SentPhase(p, q)
                                 /\ inbox[q][1] \in MovesOfPeer(board[q], dq[1], dq[2])
                                 /\ board[p] = Mirror(PeerMove(board[q], inbox[q][1]))
    BY <1>4 DEF ChoosePhase, SendPhase, SentPhase, MovedBy, Awaits
  <2>2. pending[p] = None
    BY <1>4 DEF ChoosePhase, SendPhase, SentPhase, Idle
  <2>3. r = q /\ dq = d /\ pc[q] \in {"openingRoll", "otherRoll"} /\ chosen[q] = None
    BY <1>1, <2>1, <2>2, BoardFacts DEF Awaits
  <2>4. /\ rolls' = [rolls EXCEPT ![q] = d] /\ err' = err
        /\ pc' = [pc EXCEPT ![q] = IF pc[q] = "openingRoll" THEN "openingRecv" ELSE "otherRecv"]
    BY <1>1, <2>3 DEF Rolled
  <2>5. Awaits(q, dq)' /\ pc'[p] = pc[p] /\ rolls'[p] = rolls[p] /\ pending'[p] = None
    BY <1>1, <2>2, <2>3, <2>4 DEF Awaits, RecvStates
  <2>6. CASE ChoosePhase(p, q) /\ dq = rolls[p]
    BY <1>1, <1>4, <2>1, <2>3, <2>4, <2>5, <2>6 DEF Turn, Opening, ChoosePhase, Mirrored
  <2>7. CASE /\ SendPhase(p, q)
             /\ chosen[p] \in MovesOfPeer(board[q], dq[1], dq[2])
             /\ board[p] = Mirror(PeerMove(board[q], chosen[p]))
    <3>1. SendPhase(p, q)'
      BY <1>1, <2>5, <2>7 DEF SendPhase, MovedBy
    <3> QED
      BY <1>1, <1>4, <2>3, <2>4, <2>5, <3>1 DEF Turn, Opening
  <2>8. CASE /\ SentPhase(p, q)
             /\ inbox[q][1] \in MovesOfPeer(board[q], dq[1], dq[2])
             /\ board[p] = Mirror(PeerMove(board[q], inbox[q][1]))
    <3>1. SentPhase(p, q)'
      BY <1>1, <2>5, <2>8 DEF SentPhase, MovedBy, Idle
    <3> QED
      BY <1>1, <1>4, <2>3, <2>4, <2>5, <3>1 DEF Turn, Opening
  <2> QED
    BY <2>1, <2>6, <2>7, <2>8
<1>5. CASE OverPhase(p, q)
  BY <1>1, <1>5 DEF OverPhase, Idle
<1> QED
  BY <1>2, <1>3, <1>4, <1>5 DEF Turn

(* A move is made with the dice that the other has or will get, and from   *)
(* the board that the other has (TakeTurn, State.Move).                    *)
LEMMA ChooseStep ==
    ASSUME NEW p, NEW q, Ready(p, q), NEW r \in Players, ChooseMove(r)
    PROVE  Turn(p, q)'
<1> USE DEF Ready, TypeOK, GoTo
<1>1. r \in {p, q} /\ pc[r] = "choose" /\ UNCHANGED <<pending, inbox, err>>
  BY OtherFacts DEF ChooseMove, At, Players, Other
<1>2. r = p /\ ChoosePhase(p, q) /\ Legal(board[q])
  BY <1>1 DEF Turn, InitiativePhase, RollPhase, ChoosePhase, SendPhase, SentPhase, OverPhase,
              MovedBy, Awaits, RecvStates
<1>3. Mirrored(p, q) /\ Awaits(q, rolls[p]) /\ rolls[p] \in Dice
  BY <1>2 DEF ChoosePhase, Awaits
<1>4. PICK m \in MovesFor(board[p], rolls[p][1], rolls[p][2]) :
          chosen' = [chosen EXCEPT ![p] = m] /\ board' = [board EXCEPT ![p] = Move(@, m)]
  BY <1>2 DEF ChooseMove
<1>5. rolls' = [rolls EXCEPT ![p] = None] /\ pc' = [pc EXCEPT ![p] = "send"]
  BY <1>2 DEF ChooseMove
<1>6. m \in MovesOfPeer(board[q], rolls[p][1], rolls[p][2])
  BY <1>3, <1>4, PeerListed DEF Mirrored
<1>7. board'[p] = Mirror(PeerMove(board[q], m)) /\ board'[q] = board[q]
  BY <1>3, <1>4, <1>6, PeerListed DEF Mirrored
<1>9. MovedBy(p, q, m)'
  BY <1>1, <1>3, <1>4, <1>5, <1>6, <1>7 DEF MovedBy, Awaits
<1>10. SendPhase(p, q)'
  BY <1>1, <1>2, <1>4, <1>5, <1>9 DEF SendPhase, ChoosePhase
<1>11. NoSharedSquare(board[p]) /\ NoSharedSquare(board[q])
  BY DEF Turn
<1>12. NoSharedSquare(board'[p]) /\ NoSharedSquare(board'[q])
  BY <1>3, <1>4, <1>7, <1>11, BoardFacts, ListedMove
<1> QED
  BY <1>2, <1>5, <1>7, <1>10, <1>12 DEF Turn, Opening

(* The move that arrives is the move that was sent, or counts as narrowed  *)
(* (Peer.SendMove).                                                        *)
LEMMA SendStep ==
    ASSUME NEW p, NEW q, Ready(p, q), NEW r \in Players, SendMove(r), ~ narrowed'
    PROVE  Turn(p, q)'
<1> USE DEF Ready, TypeOK, GoTo
<1>1. r \in {p, q} /\ pc[r] = "send" /\ UNCHANGED <<board, rolls, pending, err>>
  BY OtherFacts DEF SendMove, At, Players, Other
<1>2. r = p /\ SendPhase(p, q) /\ Legal(board[q])
  BY <1>1 DEF Turn, InitiativePhase, RollPhase, ChoosePhase, SendPhase, SentPhase, OverPhase,
              MovedBy, Awaits, RecvStates
<1>3. PICK d \in Dice : /\ Awaits(q, d)
                        /\ chosen[p] \in MovesOfPeer(board[q], d[1], d[2])
                        /\ board[p] = Mirror(PeerMove(board[q], chosen[p]))
  BY <1>2 DEF SendPhase, MovedBy
<1>4. chosen[p] \in Moves /\ Encoded(chosen[p]) = chosen[p]
  <2>1. chosen[p] \in Moves
    BY <1>3, PeerListed
  <2> QED
    BY <1>2, <2>1 DEF SendMove
<1>5. /\ inbox[p] = << >> /\ inbox[q] = << >> /\ rolls[p] = None /\ pending[p] = None
      /\ inbox' = [inbox EXCEPT ![q] = Append(@, chosen[p])]
      /\ chosen' = [chosen EXCEPT ![p] = None]
      /\ pc' = [pc EXCEPT ![p] = IF Win(board[p]) THEN "won" ELSE "otherRoll"]
  BY <1>2, <1>4 DEF SendMove, SendPhase
<1>6. Len(inbox'[q]) = 1 /\ inbox'[q][1] = chosen[p] /\ inbox'[p] = << >>
  <2>1. inbox'[q] = Append(<< >>, chosen[p]) /\ inbox'[p] = << >>
    BY <1>5
  <2> QED
    BY <1>4, <2>1, OneMove
<1>8. Awaits(q, d)'
  BY <1>1, <1>3, <1>5 DEF Awaits
<1>9. SentPhase(p, q)'
  BY <1>1, <1>3, <1>5, <1>6, <1>8 DEF SentPhase, Idle, MovedBy
<1> QED
  BY <1>1, <1>2, <1>5, <1>9 DEF Turn, Opening

(* Only a move under way can be received, and it is one that the receiver  *)
(* lists (OtherTurn, validateMove).                                        *)
LEMMA ReceiveFacts ==
    ASSUME NEW p, NEW q, Ready(p, q), NEW r \in Players, pc[r] \in RecvStates, inbox[r] # << >>
    PROVE  /\ r = q /\ SentPhase(p, q) /\ Legal(board[q])
           /\ rolls[q] \in Dice /\ pending[q] = None /\ chosen[q] = None
           /\ inbox[q] # << >> /\ Head(inbox[q]) \in MovesOfPeer(board[q], rolls[q][1], rolls[q][2])
           /\ board[p] = Mirror(PeerMove(board[q], Head(inbox[q])))
           /\ Tail(inbox[q]) = << >>
<1> USE DEF Ready, TypeOK
<1>1. r \in {p, q}
  BY DEF Players, Other
<1>2. r = q /\ SentPhase(p, q) /\ Legal(board[q])
  BY <1>1 DEF Turn, InitiativePhase, RollPhase, ChoosePhase, SendPhase, SentPhase, OverPhase,
              Idle, MovedBy, Awaits, RecvStates
<1>3. inbox[q] \in Seq(Moves) /\ Len(inbox[q]) = 1 /\ MovedBy(p, q, inbox[q][1])
  BY <1>2 DEF SentPhase
<1>4. Head(inbox[q]) = inbox[q][1] /\ Tail(inbox[q]) = << >>
  BY <1>3, OneMove
<1>5. PICK d \in Dice : /\ Awaits(q, d)
                        /\ inbox[q][1] \in MovesOfPeer(board[q], d[1], d[2])
                        /\ board[p] = Mirror(PeerMove(board[q], inbox[q][1]))
  BY <1>3 DEF MovedBy
<1>6. rolls[q] = d /\ pending[q] = None /\ chosen[q] = None
  BY <1>2, <1>5 DEF Awaits, RecvStates
<1> QED
  BY <1>2, <1>4, <1>5, <1>6

(* An accepted move brings the two boards together again; the game goes on *)
(* with the roles swapped, or both know that it is over (OtherTurn, and    *)
(* the test for a loss that only the loop makes).                          *)
LEMMA AcceptStep ==
    ASSUME NEW p, NEW q, Ready(p, q), NEW r \in Players, AcceptMove(r)
    PROVE  Turn(p, q)' \/ Turn(q, p)'
<1> DEFINE m == Head(inbox[q])
           after == PeerMove(board[q], m)
<1>1. /\ r = q /\ SentPhase(p, q) /\ Legal(board[q]) /\ rolls[q] \in Dice /\ pending[q] = None /\ chosen[q] = None
      /\ m \in MovesOfPeer(board[q], rolls[q][1], rolls[q][2])
      /\ board[p] = Mirror(after) /\ Tail(inbox[q]) = << >> /\ pc[q] \in RecvStates
  <2>1. pc[r] \in RecvStates /\ inbox[r] # << >>
    BY DEF AcceptMove, At
  <2> QED
    BY <2>1, ReceiveFacts
<1> USE DEF Ready, TypeOK, GoTo
<1>2. /\ board' = [board EXCEPT ![q] = after]
      /\ pc' = [pc EXCEPT ![q] = IF pc[q] = "otherRecv" /\ Lose(after) THEN "lost" ELSE "takeRoll"]
      /\ inbox' = [inbox EXCEPT ![q] = << >>]
      /\ rolls' = [rolls EXCEPT ![q] = None]
      /\ UNCHANGED <<pending, chosen, err>>
  BY <1>1 DEF AcceptMove
<1>3. NoSharedSquare(board[p]) /\ NoSharedSquare(board[q]) /\ Opening(q)
  BY DEF Turn
<1>4. /\ after \in Boards /\ NoSharedSquare(after) /\ Mirror(board[p]) = after
      /\ board[q] = StartBoard => ~ Lose(after)
      /\ Win(board[p]) <=> Lose(after)
      /\ ~ Lose(after) => Legal(board[p])
  <2>1. /\ after \in Boards
        /\ NoSharedSquare(board[q]) => NoSharedSquare(after)
        /\ board[q] = StartBoard => ~ Lose(after)
        /\ ~ Lose(after) => Legal(after)
    BY <1>1, PeerListed
  <2>2. /\ Mirror(Mirror(after)) = after /\ (Win(Mirror(after)) <=> Lose(after))
        /\ Legal(Mirror(after)) <=> Legal(after)
    BY <2>1, MirrorFacts
  <2> QED
    BY <1>1, <1>3, <2>1, <2>2
<1>5. Idle(p)' /\ Idle(q)' /\ pc'[p] = pc[p] /\ board'[p] = board[p] /\ board'[q] = after
  BY <1>1, <1>2 DEF SentPhase, Idle
<1>6. pc[p] = IF Lose(after) THEN "won" ELSE "otherRoll"
  BY <1>1, <1>4 DEF SentPhase
<1>7. NoSharedSquare(board'[p]) /\ NoSharedSquare(board'[q])
  BY <1>3, <1>4, <1>5
<1>8. pc'[q] = IF Lose(after) THEN "lost" ELSE "takeRoll"
  BY <1>1, <1>2, <1>3, <1>4 DEF Opening, RecvStates
<1>9. Opening(p)' /\ Opening(q)'
  BY <1>5, <1>6, <1>8 DEF Opening
<1>10. CASE Lose(after)
  <2>1. OverPhase(p, q)'
    BY <1>1, <1>5, <1>6, <1>8, <1>10 DEF OverPhase, Mirrored, Idle
  <2> QED
    BY <1>7, <1>9, <2>1 DEF Turn
<1>11. CASE ~ Lose(after)
  <2>1. RollPhase(q, p)'
    BY <1>4, <1>5, <1>6, <1>8, <1>11 DEF RollPhase, Mirrored, Idle
  <2>2. Legal(board'[p])
    BY <1>4, <1>5, <1>11
  <2> QED
    BY <1>7, <1>9, <2>1, <2>2 DEF Turn
<1> QED
  BY <1>10, <1>11

-----------------------------------------------------------------------------
(* A game begins with the initiative (PlayWithInitiative).                 *)
LEMMA InitStep == Init => Inductive
<1> SUFFICES ASSUME Init PROVE Inductive
  OBVIOUS
<1> USE DEF Init
<1>1. TypeOK
  <2>1. << >> \in Seq(Moves)
    BY EmptySeq
  <2> QED
    BY <2>1, BoardFacts DEF TypeOK, PCs, Blocking, RollStates, Errors
<1>2. Bookkeeping /\ EndInv /\ ~ narrowed /\ NoneStuck
  BY DEF Bookkeeping, EndInv, NoneStuck
<1>3. Turn(Host, Challenger) /\ Host \in Players /\ Other(Host) = Challenger
  BY BoardFacts DEF Turn, Opening, InitiativePhase, Idle, Mirrored, Players, Other
<1> QED
  BY <1>1, <1>2, <1>3 DEF Inductive, InStep

(* While every move arrives as itself, a step leads from phase to phase,   *)
(* and no move is refused.                                                 *)
LEMMA InStepStep ==
    ASSUME TypeOK, InStep, [Next]_vars, ~ narrowed'
    PROVE  InStep'
<1>1. PICK p \in Players : Turn(p, Other(p))
  BY DEF InStep
<1> DEFINE q == Other(p)
<1>2. Ready(p, q) /\ NoneStuck
  BY <1>1, OtherFacts DEF Ready, InStep, NoneStuck
<1>3. SUFFICES NoneStuck' /\ (Turn(p, q)' \/ Turn(q, p)')
  <2>1. Players' = Players /\ q \in Players /\ Other(q) = p
    BY OtherFacts
  <2> QED
    BY <2>1 DEF InStep, NoneStuck, Players, Other
<1> HIDE DEF q
<1>4. ASSUME NEW r \in Players, RejectMove(r) PROVE FALSE
  <2>1. /\ pc[r] \in RecvStates /\ inbox[r] # << >>
        /\ Head(inbox[r]) \notin MovesOfPeer(board[r], rolls[r][1], rolls[r][2])
    BY <1>4 DEF RejectMove, At
  <2> QED
    BY <1>2, <2>1, ReceiveFacts
<1> USE DEF TypeOK, NoneStuck, Ready
<1>5. ASSUME NEW r \in Players, RollFirst(r)
      PROVE  NoneStuck' /\ (Turn(p, q)' \/ Turn(q, p)')
  BY <1>2, <1>5, RollFirstStep
<1>6. ASSUME NEW r \in Players, RollSecond(r)
      PROVE  NoneStuck' /\ (Turn(p, q)' \/ Turn(q, p)')
  BY <1>2, <1>6, RollSecondStep
<1>7. ASSUME NEW r \in Players, ChooseMove(r) PROVE NoneStuck' /\ Turn(p, q)'
  BY <1>2, <1>7, ChooseStep DEF ChooseMove
<1>8. ASSUME NEW r \in Players, SendMove(r) PROVE NoneStuck' /\ Turn(p, q)'
  BY <1>2, <1>8, SendStep DEF SendMove
<1>9. ASSUME NEW r \in Players, AcceptMove(r)
      PROVE  NoneStuck' /\ (Turn(p, q)' \/ Turn(q, p)')
  BY <1>2, <1>9, AcceptStep DEF AcceptMove
<1>10. ASSUME NEW r \in Players, StreamFails(r) \/ MessageRefused(r)
       PROVE  NoneStuck' /\ Turn(p, q)'
  BY <1>2, <1>10, FrameStep DEF StreamFails, MessageRefused, At, Playing
<1>11. ASSUME NEW r \in Players, Complete(r) PROVE NoneStuck' /\ Turn(p, q)'
  BY <1>2, <1>11, FrameStep DEF Complete
<1>12. CASE Disconnect \/ Finished \/ UNCHANGED vars
  BY <1>2, <1>12, FrameStep DEF Disconnect, Finished, vars
<1> QED
  BY <1>4, <1>5, <1>6, <1>7, <1>8, <1>9, <1>10, <1>11, <1>12 DEF Next, Session

(* A session ends in a call that blocks, and, while every move arrives as  *)
(* itself, only because the stream is gone or a message was refused (the   *)
(* error returns of PlayWithInitiative; service.go's Challenge, whose      *)
(* return resets the stream).                                              *)
LEMMA EndStep ==
    ASSUME TypeOK, Bookkeeping, EndInv, [Next]_vars, narrowed => narrowed',
           narrowed' \/ NoneStuck'
    PROVE  EndInv'
<1>blocking. /\ {"initiative", "openingRoll", "takeRoll", "otherRoll", "openingRecv",
                 "otherRecv", "send"} = Blocking
             /\ RollStates \subseteq Blocking /\ RecvStates \subseteq Blocking
  BY DEF Blocking, RollStates, RecvStates
<1> SUFFICES ASSUME NEW q \in Players
             PROVE  /\ (stream = "reset" => report[Challenger] # "none")'
                    /\ err'[q] # "none" =>
                          pc'[q] \in Blocking /\ (narrowed' \/ stream' # "open" \/ Refused')
  <2>1. Host \in Players
    BY DEF Players
  <2> QED
    BY <2>1 DEF EndInv
<1> USE DEF TypeOK, EndInv, GoTo, At, Playing
<1>told. Refused => Refused'
  <2> SUFFICES ASSUME NEW p \in Players, err[p] = "refused" PROVE err'[p] = "refused"
    BY DEF Refused
  <2> QED
    BY DEF Next, Session, RollFirst, RollSecond, Rolled, ChooseMove, SendMove, AcceptMove,
           RejectMove, StreamFails, MessageRefused, Complete, Disconnect, Finished, vars
<1>rolled. ASSUME NEW p \in Players, NEW d, Rolled(p, d), At(p, RollStates),
                  stream' = stream, report' = report
           PROVE  /\ (stream = "reset" => report[Challenger] # "none")'
                  /\ err'[q] # "none" =>
                        pc'[q] \in Blocking /\ (narrowed' \/ stream' # "open" \/ Refused')
  <2>1. CASE err'[p] = "none"
    <3>1. err' = err /\ (q # p => pc'[q] = pc[q])
      BY <1>rolled, <2>1 DEF Rolled
    <3> QED
      BY <1>told, <1>rolled, <2>1, <3>1
  <2>2. CASE err'[p] # "none"
    <3>1. err'[p] = "noMoves"
      BY <1>rolled, <2>2 DEF Rolled
    <3>2. narrowed'
      BY <3>1 DEF NoneStuck, Players
    <3>3. pc' = pc
      BY <1>rolled, <2>2 DEF Rolled
    <3> QED
      BY <1>rolled, <1>blocking, <3>2, <3>3 DEF Rolled
  <2> QED
    BY <2>1, <2>2
<1>1. ASSUME NEW p \in Players, RollFirst(p) \/ RollSecond(p)
      PROVE  /\ (stream = "reset" => report[Challenger] # "none")'
             /\ err'[q] # "none" =>
                   pc'[q] \in Blocking /\ (narrowed' \/ stream' # "open" \/ Refused')
  <2>1. PICK d : Rolled(p, d)
    BY <1>1 DEF RollFirst, RollSecond
  <2>2. At(p, RollStates) /\ stream' = stream /\ report' = report
    BY <1>1 DEF RollFirst, RollSecond
  <2> QED
    BY <1>rolled, <2>1, <2>2
<1>2. ASSUME NEW p \in Players, ChooseMove(p) \/ SendMove(p) \/ AcceptMove(p)
      PROVE  /\ (stream = "reset" => report[Challenger] # "none")'
             /\ err'[q] # "none" =>
                   pc'[q] \in Blocking /\ (narrowed' \/ stream' # "open" \/ Refused')
  <2>1. err[p] = "none" /\ UNCHANGED <<err, stream, report>> /\ (q # p => pc'[q] = pc[q])
    BY <1>2 DEF ChooseMove, SendMove, AcceptMove
  <2> QED
    BY <1>told, <2>1
<1>3. ASSUME NEW p \in Players, RejectMove(p)
      PROVE  /\ (stream = "reset" => report[Challenger] # "none")'
             /\ err'[q] # "none" =>
                   pc'[q] \in Blocking /\ (narrowed' \/ stream' # "open" \/ Refused')
  <2>1. err'[p] = "rejected"
    BY <1>3 DEF RejectMove
  <2>2. narrowed'
    BY <2>1 DEF NoneStuck, Players
  <2> QED
    BY <1>3, <1>blocking, <2>2 DEF RejectMove
<1>7. ASSUME NEW p \in Players, MessageRefused(p)
      PROVE  /\ (stream = "reset" => report[Challenger] # "none")'
             /\ err'[q] # "none" =>
                   pc'[q] \in Blocking /\ (narrowed' \/ stream' # "open" \/ Refused')
  <2>1. err'[p] = "refused"
    BY <1>7 DEF MessageRefused
  <2>2. Refused'
    BY <2>1 DEF Refused
  <2> QED
    BY <1>7, <1>blocking, <2>2 DEF MessageRefused
<1>4. ASSUME NEW p \in Players, StreamFails(p)
      PROVE  /\ (stream = "reset" => report[Challenger] # "none")'
             /\ err'[q] # "none" =>
                   pc'[q] \in Blocking /\ (narrowed' \/ stream' # "open" \/ Refused')
  <2>1. narrowed \/ stream # "open" \/ Refused
    BY <1>4 DEF StreamFails, Broken
  <2> QED
    BY <1>told, <1>4, <2>1 DEF StreamFails
<1>5. ASSUME NEW p \in Players, Complete(p)
      PROVE  /\ (stream = "reset" => report[Challenger] # "none")'
             /\ err'[q] # "none" =>
                   pc'[q] \in Blocking /\ (narrowed' \/ stream' # "open" \/ Refused')
  <2>1. report'[p] # "none" /\ Challenger \in Players
        /\ \A r \in Players : report[r] # "none" => report'[r] # "none"
    BY <1>5 DEF Complete, Players
  <2>2. stream' = "reset" => p = Challenger \/ stream = "reset"
    BY <1>5 DEF Complete
  <2>3. stream # "open" => stream' # "open"
    BY <1>5 DEF Complete
  <2> QED
    BY <1>told, <1>5, <2>1, <2>2, <2>3 DEF Complete
<1>6. CASE Disconnect \/ Finished \/ UNCHANGED vars
  BY <1>told, <1>6 DEF Disconnect, Finished, vars
<1> QED
  BY <1>1, <1>2, <1>3, <1>4, <1>5, <1>6, <1>7 DEF Next, Session

(* The inductive step: types, phases, and channels that deliver what was   *)
(* sent.                                                                   *)
LEMMA InductiveStep == Inductive /\ [Next]_vars => Inductive'
<1> SUFFICES ASSUME Inductive, [Next]_vars PROVE Inductive'
  OBVIOUS
<1>1. TypeOK /\ Bookkeeping /\ TypeOK' /\ Bookkeeping'
  BY TypeStep DEF Inductive
<1>2. narrowed => narrowed'
  BY DEF Next, Session, RollFirst, RollSecond, ChooseMove, SendMove, AcceptMove, RejectMove,
         StreamFails, MessageRefused, Complete, Disconnect, Finished, vars
<1>3. ASSUME Wire = "channel", narrowed' PROVE narrowed
  <2>1. ASSUME NEW p \in Players, SendMove(p) PROVE narrowed
    <3>1. chosen[p] \in Moves
      BY <1>1, <2>1 DEF SendMove, At, TypeOK, Bookkeeping
    <3> QED
      BY <1>3, <2>1, <3>1, ChannelExact DEF SendMove
  <2> QED
    BY <1>3, <2>1
       DEF Next, Session, RollFirst, RollSecond, ChooseMove, AcceptMove, RejectMove,
           StreamFails, MessageRefused, Complete, Disconnect, Finished, vars
<1>4. narrowed' \/ InStep'
  BY <1>1, <1>2, InStepStep DEF Inductive
<1>5. EndInv'
  <2>1. narrowed' \/ NoneStuck'
    BY <1>4 DEF InStep
  <2> QED
    BY <1>1, <1>2, <2>1, EndStep DEF Inductive
<1> QED
  BY <1>1, <1>3, <1>4, <1>5 DEF Inductive

(* The sessions are in the same phase of the same turn until a move        *)
(* arrives as another one, which never happens over Go channels.           *)
THEOREM GameInvariant == Spec => []Inductive
BY InitStep, InductiveStep, PTL DEF Spec

(* The variables keep their types (Session, State, Move).                  *)
THEOREM GameTypeCorrect == Spec => []TypeOK
<1>1. Inductive => TypeOK
  BY DEF Inductive
<1> QED
  BY <1>1, GameInvariant, PTL

(* The two States are one board seen from two sides, or one move apart     *)
(* (TakeTurn, OtherTurn, Move, PeerMove).                                  *)
THEOREM BoardsStayMirrored == Spec => []BoardsMirror
<1>1. Inductive => BoardsMirror
  <2> SUFFICES ASSUME Inductive, ~ narrowed PROVE BoardsMirror
    BY DEF BoardsMirror
  <2>1. PICK p \in Players : Turn(p, Other(p))
    BY DEF Inductive, InStep
  <2> DEFINE q == Other(p)
  <2>2. Ready(p, q) /\ Players = {p, q}
    BY <2>1, OtherFacts DEF Ready, Inductive, Players
  <2>3. Other(p) = q /\ Other(q) = p /\ board[p] \in Boards /\ board[q] \in Boards
    BY <2>2 DEF Ready, TypeOK
  <2> HIDE DEF q
  <2>4. CASE InitiativePhase(p, q) \/ RollPhase(p, q) \/ ChoosePhase(p, q) \/ OverPhase(p, q)
    <3>1. Mirrored(p, q)
      BY <2>4 DEF InitiativePhase, RollPhase, ChoosePhase, OverPhase
    <3>2. ~ Ahead(p) /\ ~ Ahead(q)
      BY <2>3, <2>4 DEF Ahead, InitiativePhase, RollPhase, ChoosePhase, OverPhase, Awaits, Idle,
                        RecvStates
    <3>3. board[p] = Mirror(board[q]) /\ board[q] = Mirror(board[p])
      BY <2>3, <3>1, MirrorFacts DEF Mirrored
    <3> QED
      BY <2>2, <2>3, <3>2, <3>3 DEF BoardsMirror
  <2>5. CASE SendPhase(p, q) \/ SentPhase(p, q)
    <3>1. PICK m : /\ \/ SendPhase(p, q) /\ m = chosen[p]
                      \/ SentPhase(p, q) /\ m = inbox[q][1]
                   /\ MovedBy(p, q, m)
      <4>1. SendPhase(p, q) => MovedBy(p, q, chosen[p])
        BY DEF SendPhase
      <4>2. SentPhase(p, q) => MovedBy(p, q, inbox[q][1])
        BY DEF SentPhase
      <4> QED
        BY <2>5, <4>1, <4>2
    <3>2. board[p] = Mirror(PeerMove(board[q], m)) /\ pc[q] # "send" /\ inbox[p] = << >>
      BY <2>5, <3>1 DEF MovedBy, Awaits, RecvStates, SendPhase, SentPhase, Idle
    <3>3. Ahead(p) /\ ~ Ahead(q) /\ Len(UnderWay(p)) = 1 /\ UnderWay(p)[1] = m
      <4>1. CASE SendPhase(p, q) /\ m = chosen[p]
        BY <2>3, <3>2, <4>1 DEF SendPhase, Ahead, UnderWay
      <4>2. CASE SentPhase(p, q) /\ m = inbox[q][1]
        <5>1. inbox[q] # << >> /\ pc[p] # "send" /\ Len(inbox[q]) = 1
          BY <2>2, <4>2, OneMove DEF SentPhase, Ready, TypeOK
        <5> QED
          BY <2>3, <3>2, <4>2, <5>1 DEF Ahead, UnderWay
      <4> QED
        BY <3>1, <4>1, <4>2
    <3> QED
      BY <2>2, <2>3, <3>2, <3>3 DEF BoardsMirror
  <2> QED
    BY <2>2, <2>4, <2>5 DEF Ready, Turn
<1> QED
  BY <1>1, GameInvariant, PTL

(* A move that the rules offered is refused only when it arrives as        *)
(* another one (validateMove, convert.go), never over Go channels.         *)
THEOREM MovesAccepted ==
    /\ Spec => []HonestMovesAccepted
    /\ Wire = "channel" => (Spec => [](~ Rejected))
<1>1. Inductive => HonestMovesAccepted
  BY DEF Inductive, InStep, NoneStuck, HonestMovesAccepted, Rejected
<1>2. Wire = "channel" => (Inductive => ~ Rejected)
  BY DEF Inductive, InStep, NoneStuck, Rejected
<1>3. Spec => []HonestMovesAccepted
  BY <1>1, GameInvariant, PTL
<1>4. Wire = "channel" => (Spec => [](~ Rejected))
  <2> SUFFICES ASSUME Wire = "channel" PROVE Spec => [](~ Rejected)
    OBVIOUS
  <2>1. Inductive => ~ Rejected
    BY <1>2
  <2> QED
    BY <2>1, GameInvariant, PTL
<1> QED
  BY <1>3, <1>4

(* No two pawns share a square but the start and the goal, in either       *)
(* player's State (the bumps of generateMoves and Move).                   *)
THEOREM PawnsApart == Spec => []NoPawnsCollide
<1>1. Inductive => NoPawnsCollide
  BY DEF Inductive, InStep, NoPawnsCollide, Turn, Players, Other
<1> QED
  BY <1>1, GameInvariant, PTL

(* The players are told opposite results, and the winner's peer knows or   *)
(* is about to (PlayWithInitiative, OnGameComplete).                       *)
THEOREM ResultsDiffer == Spec => []ResultsOpposite
<1>1. Inductive => ResultsOpposite
  <2> SUFFICES ASSUME Inductive, ~ narrowed PROVE ResultsOpposite
    BY DEF ResultsOpposite
  <2>1. PICK p \in Players : Turn(p, Other(p))
    BY DEF Inductive, InStep
  <2> DEFINE q == Other(p)
  <2>2. Ready(p, q) /\ Players = {p, q} /\ Other(p) = q /\ Other(q) = p
    BY <2>1, OtherFacts DEF Ready, Inductive, Players
  <2> HIDE DEF q
  <2>3. \A r \in Players :
           /\ report[r] \in {"none", "win", "lose"}
           /\ report[r] = "win" => pc[r] = "won"
           /\ report[r] = "lose" => pc[r] = "lost"
    BY DEF Inductive, Bookkeeping, TypeOK
  <2>4. pc[q] # "won" /\ pc[p] # "lost"
    BY <2>2 DEF Ready, Turn, InitiativePhase, RollPhase, ChoosePhase, SendPhase, SentPhase,
                OverPhase, MovedBy, Awaits, RecvStates
  <2>5. ASSUME pc[p] = "won"
        PROVE  /\ pc[q] \in {"otherRecv", "otherRoll", "lost"}
               /\ pc[q] = "lost" => Lose(board[q])
    <3>1. SentPhase(p, q) \/ OverPhase(p, q)
      BY <2>2, <2>5 DEF Ready, Turn, InitiativePhase, RollPhase, ChoosePhase, SendPhase
    <3>2. CASE SentPhase(p, q)
      <4>1. PICK d \in Dice : /\ Awaits(q, d)
                              /\ inbox[q][1] \in MovesOfPeer(board[q], d[1], d[2])
                              /\ board[p] = Mirror(PeerMove(board[q], inbox[q][1]))
        BY <3>2 DEF SentPhase, MovedBy
      <4>2. Win(board[p])
        BY <2>5, <3>2 DEF SentPhase
      <4>3. board[q] \in Boards /\ Opening(q)
        BY <2>2 DEF Ready, TypeOK, Turn
      <4>4. Lose(PeerMove(board[q], inbox[q][1]))
        BY <4>1, <4>2, <4>3, PeerListed, MirrorFacts
      <4>5. board[q] # StartBoard
        BY <4>1, <4>3, <4>4, PeerListed
      <4> QED
        BY <4>1, <4>3, <4>5 DEF Awaits, Opening, RecvStates
    <3>3. CASE OverPhase(p, q)
      BY <3>3 DEF OverPhase
    <3> QED
      BY <3>1, <3>2, <3>3
  <2> QED
    BY <2>2, <2>3, <2>4, <2>5 DEF ResultsOpposite
<1> QED
  BY <1>1, GameInvariant, PTL

(* A challenger that lost to the host hears of it, unless the network      *)
(* breaks the stream (service.go: Complete follows the last SendMove, and  *)
(* the host's return does not reset the stream).                           *)
THEOREM ChallengerHears == Spec => []ChallengerHearsOfLoss
<1>1. Inductive => ChallengerHearsOfLoss
  <2> SUFFICES ASSUME Inductive, ~ narrowed, pc[Host] = "won", Ended(Challenger),
                      stream # "broken", err[Challenger] # "refused"
               PROVE  report[Challenger] = "lose"
    BY DEF ChallengerHearsOfLoss
  <2>1. PICK p \in Players : Turn(p, Other(p))
    BY DEF Inductive, InStep
  <2> DEFINE q == Other(p)
  <2>2. Ready(p, q) /\ Players = {p, q}
    BY <2>1, OtherFacts DEF Ready, Inductive, Players
  <2> HIDE DEF q
  <2>3. ~ (pc[p] = "won" /\ pc[q] = "won")
    BY <2>2 DEF Ready, Turn, InitiativePhase, RollPhase, ChoosePhase, SendPhase, SentPhase,
                OverPhase, MovedBy, Awaits, RecvStates
  <2>4. pc[Challenger] # "won"
    BY <2>2, <2>3 DEF Players
  <2>5. report[Challenger] # "none"
    <3>1. err[Host] # "refused"
      BY DEF Inductive, EndInv, Blocking, RollStates, RecvStates, Players
    <3>2. ~ Refused
      BY <3>1 DEF Refused, Players
    <3> QED
      BY <3>2 DEF Inductive, EndInv, Ended, Playing, TypeOK, Players
  <2> QED
    BY <2>4, <2>5 DEF Inductive, Bookkeeping, TypeOK, Players
<1> QED
  BY <1>1, GameInvariant, PTL
-----------------------------------------------------------------------------
(***************************************************************************)
(* Two sessions play one game (AbstractGame), for every goal and every     *)
(* die, as long as every move arrives as the move that was sent.           *)
(***************************************************************************)

(* The board as p sees it, and whose turn it is when p is the one to move. *)
Seen(s, p) ==
    [r \in Players |-> IF r = p THEN <<s.Pawn1, s.Pawn2>> ELSE <<s.PeerPawn1, s.PeerPawn2>>]
PawnsSeen(p) == Seen(board[p], p)

TurnSeen(p) ==
    IF pc[p] = "initiative" THEN None
    ELSE IF pc[p] \in {"takeRoll", "choose"} THEN p
    ELSE Other(p)

MoverStates  == {"initiative", "openingRoll", "takeRoll", "choose", "send", "otherRoll", "won"}
WaiterStates == {"initiative", "openingRoll", "otherRoll", "openingRecv", "otherRecv", "lost"}

(* What the players in a phase do (the states of PlayWithInitiative), and  *)
(* which of them have dice to get.                                         *)
LEMMA PhaseFacts ==
    ASSUME NEW p, NEW q, Ready(p, q)
    PROVE  /\ pc[p] \in MoverStates /\ pc[q] \in WaiterStates
           /\ pc[p] \in {"initiative", "openingRoll", "takeRoll", "choose"} =>
                 Mirrored(p, q) /\ inbox[p] = << >> /\ inbox[q] = << >> /\ Legal(board[q])
           /\ pc[p] \in {"send", "otherRoll", "won"} =>
                 /\ inbox[p] = << >> /\ pc[q] # "initiative" /\ pending[p] = None
                 /\ pc[q] \in RollStates => pending[q] # None
                 /\ pc[p] = "otherRoll" => inbox[q] # << >>
           /\ pc[p] = "openingRoll" =>
                 pc[q] = "initiative" /\ pending[p] = None /\ pending[q] # None
           /\ pc[p] = "initiative" =>
                 pc[q] = "initiative" /\ pending[p] = None /\ pending[q] = None
<1> USE DEF Ready, TypeOK, MoverStates, WaiterStates, RollStates
<1>1. CASE InitiativePhase(p, q) /\ Legal(board[q])
  BY <1>1, BoardFacts DEF InitiativePhase, Idle
<1>2. CASE RollPhase(p, q) /\ Legal(board[q])
  BY <1>2 DEF RollPhase, RecvStates
<1>3. CASE ChoosePhase(p, q) /\ Legal(board[q])
  BY <1>3 DEF ChoosePhase, Awaits, RecvStates
<1>4. CASE SendPhase(p, q)
  BY <1>4, BoardFacts DEF SendPhase, MovedBy, Awaits, RecvStates
<1>5. CASE SentPhase(p, q)
  <2>1. inbox[q] # << >>
    BY <1>5, OneMove DEF SentPhase
  <2> QED
    BY <1>5, <2>1, BoardFacts DEF SentPhase, Idle, MovedBy, Awaits, RecvStates
<1>6. CASE OverPhase(p, q)
  BY <1>6 DEF OverPhase, Idle
<1> QED
  BY <1>1, <1>2, <1>3, <1>4, <1>5, <1>6 DEF Turn

(* Either player sees the same game while no move is under way.            *)
LEMMA SameGame ==
    ASSUME NEW p, NEW q, Ready(p, q), Mirrored(p, q)
    PROVE  PawnsSeen(p) = PawnsSeen(q)
<1>1. Players = {p, q} /\ p # q /\ board[p] = Mirror(board[q])
  BY DEF Ready, Mirrored, Players, Other
<1>2. /\ board[p].Pawn1 = board[q].PeerPawn1 /\ board[p].Pawn2 = board[q].PeerPawn2
      /\ board[p].PeerPawn1 = board[q].Pawn1 /\ board[p].PeerPawn2 = board[q].Pawn2
  BY <1>1 DEF Mirror, Board
<1> QED
  BY <1>1, <1>2 DEF PawnsSeen, Seen

(* The abstract game, read off the player to move: its own board, and its  *)
(* turn until it has made its move.                                        *)
AbstractSeen ==
    \A p \in Players : Turn(p, Other(p)) =>
        /\ AbstractPawns = PawnsSeen(p) /\ AbstractTurn = TurnSeen(p)
        /\ pc[p] \in MoverStates /\ pc[Other(p)] \in WaiterStates
        /\ pc[p] = "openingRoll" => pc[Other(p)] = "initiative"

(* It is what either session's state shows (Front, AbstractTurn).          *)
LEMMA AbstractState == TypeOK => AbstractSeen
<1> SUFFICES ASSUME TypeOK, NEW p \in Players, Turn(p, Other(p))
             PROVE  /\ AbstractPawns = PawnsSeen(p) /\ AbstractTurn = TurnSeen(p)
                    /\ pc[p] \in MoverStates /\ pc[Other(p)] \in WaiterStates
                    /\ pc[p] = "openingRoll" => pc[Other(p)] = "initiative"
  BY DEF AbstractSeen
<1> DEFINE q == Other(p)
<1>1. Ready(p, q) /\ Players = {p, q} /\ Other(p) = q /\ Other(q) = p /\ p # q
  BY OtherFacts DEF Ready, Players
<1> HIDE DEF q
<1>2. ASSUME pc[p] \in {"initiative", "openingRoll", "takeRoll", "choose"}
      PROVE  AbstractPawns = PawnsSeen(p) /\ AbstractTurn = TurnSeen(p)
  <2>1. Mirrored(p, q) /\ inbox[p] = << >> /\ inbox[q] = << >> /\ pc[q] # "send" /\ pc[q] # "won"
    BY <1>1, <1>2, PhaseFacts DEF WaiterStates
  <2>2. ~ Ahead(p) /\ ~ Ahead(q) /\ ~ HasMoved(p) /\ ~ HasMoved(q) /\ ~ IsMoving(q)
    BY <1>1, <1>2, <2>1, PhaseFacts DEF Ahead, HasMoved, IsMoving, WaiterStates
  <2>3. AbstractPawns = PawnsSeen(Host)
    BY <1>1, <2>2 DEF AbstractPawns, Front, PawnsSeen, Seen
  <2>4. PawnsSeen(p) = PawnsSeen(q)
    BY <1>1, <2>1, SameGame
  <2>5. AbstractPawns = PawnsSeen(p)
    BY <1>1, <2>3, <2>4 DEF Players
  <2>6. CASE pc[p] \in {"takeRoll", "choose"}
    <3>1. IsMoving(p) /\ (CHOOSE x \in Players : IsMoving(x)) = p
      BY <1>1, <2>2, <2>6 DEF IsMoving
    <3> QED
      BY <1>1, <2>2, <2>5, <2>6, <3>1 DEF AbstractTurn, TurnSeen
  <2>7. CASE pc[p] = "openingRoll"
    <3>1. pc[q] = "initiative"
      BY <1>1, <2>7, PhaseFacts
    <3>2. IsWaiting(p) /\ ~ IsWaiting(q) /\ ~ IsMoving(p)
      BY <2>7, <3>1 DEF IsWaiting, IsMoving
    <3>3. (CHOOSE x \in Players : IsWaiting(x)) = p
      BY <1>1, <3>2
    <3> QED
      BY <1>1, <2>2, <2>5, <2>7, <3>2, <3>3 DEF AbstractTurn, TurnSeen
  <2>8. CASE pc[p] = "initiative"
    <3>1. ~ IsWaiting(p) /\ ~ IsWaiting(q) /\ ~ IsMoving(p)
      BY <1>1, <2>8, PhaseFacts DEF IsWaiting, IsMoving
    <3> QED
      BY <1>1, <2>2, <2>5, <2>8, <3>1 DEF AbstractTurn, TurnSeen
  <2> QED
    BY <1>2, <2>6, <2>7, <2>8
<1>3. ASSUME pc[p] \in {"send", "otherRoll", "won"}
      PROVE  AbstractPawns = PawnsSeen(p) /\ AbstractTurn = TurnSeen(p)
  <2>1. /\ inbox[p] = << >> /\ pc[q] # "send" /\ pc[q] # "won"
        /\ pc[p] = "otherRoll" => inbox[q] # << >>
    BY <1>1, <1>3, PhaseFacts DEF WaiterStates
  <2>2. HasMoved(p) /\ ~ HasMoved(q) /\ ~ Ahead(q)
    BY <1>1, <1>3, <2>1 DEF Ahead, HasMoved
  <2>3. (CHOOSE x \in Players : HasMoved(x)) = p
    BY <1>1, <2>2
  <2>4. AbstractTurn = TurnSeen(p)
    BY <1>1, <1>3, <2>2, <2>3 DEF AbstractTurn, TurnSeen
  <2>5. CASE Ahead(p)
    <3>1. Front = p
      BY <1>1, <2>2, <2>5 DEF Front
    <3> QED
      BY <2>4, <3>1 DEF AbstractPawns, PawnsSeen, Seen
  <2>6. CASE ~ Ahead(p)
    <3>1. Mirrored(p, q)
      <4>1. pc[p] = "won" /\ inbox[q] = << >>
        BY <1>1, <1>3, <2>1, <2>6 DEF Ahead
      <4>2. ~ SentPhase(p, q)
        BY <4>1, EmptySeq DEF SentPhase
      <4> QED
        BY <1>1, <4>1, <4>2
           DEF Ready, Turn, InitiativePhase, RollPhase, ChoosePhase, SendPhase, OverPhase
    <3>2. AbstractPawns = PawnsSeen(Host)
      BY <1>1, <2>2, <2>6 DEF AbstractPawns, Front, PawnsSeen, Seen
    <3>3. PawnsSeen(p) = PawnsSeen(q)
      BY <1>1, <3>1, SameGame
    <3> QED
      BY <1>1, <2>4, <3>2, <3>3 DEF Players
  <2> QED
    BY <2>5, <2>6
<1> QED
  BY <1>1, <1>2, <1>3, PhaseFacts DEF MoverStates

(* The same of the state a step leads to.                                  *)
LEMMA NextAbstractState == TypeOK' => AbstractSeen'
BY AbstractState, PTL

(* Where a session goes when RollSync returns (PlayWithInitiative).        *)
LEMMA RolledFacts ==
    ASSUME TypeOK, NEW r \in Players, NEW d, Rolled(r, d), pc[r] \in RollStates
    PROVE  /\ \A x \in Players : x # r => pc'[x] = pc[x]
           /\ pc[r] = "initiative" => pc'[r] \in {"takeRoll", "openingRoll"}
           /\ pc[r] = "takeRoll" => pc'[r] \in {"takeRoll", "choose"}
           /\ pc[r] \in {"openingRoll", "otherRoll"} => pc'[r] \in RecvStates
BY DEF Rolled, GoTo, TypeOK, RollStates, RecvStates

-----------------------------------------------------------------------------
(* The game that is played is the one with these rules (AbstractGame and   *)
(* FactorFightGame extend the same FactorFightRules).                      *)
LEMMA SameRules ==
    /\ Abstract!Die = Die
    /\ \A a, b, c, d : Abstract!Board(a, b, c, d) = Board(a, b, c, d)
    /\ \A s, m : Abstract!Move(s, m) = Move(s, m)
    /\ \A s, d1, d2 : Abstract!MovesFor(s, d1, d2) = MovesFor(s, d1, d2)
<1>1. Abstract!Die = Die
  BY DEF Abstract!Die, Die
<1>2. \A a, b, c, d : Abstract!Board(a, b, c, d) = Board(a, b, c, d)
  BY DEF Abstract!Board, Board
<1>3. \A s, m : Abstract!Move(s, m) = Move(s, m)
  BY DEF Abstract!Move, Abstract!Board, Abstract!SentBack, Abstract!Bumps,
         Move, Board, SentBack, Bumps
<1>4. \A s, d1, d2 : Abstract!MovesFor(s, d1, d2) = MovesFor(s, d1, d2)
  BY DEF Abstract!MovesFor, Abstract!generateMoves, Abstract!MoveTo, Abstract!BumpAt,
         Abstract!PawnMove, Abstract!allAllocations, Abstract!pawnMoves,
         Abstract!pawnMovesOneDie, Abstract!pawnMovesTwoDice, Abstract!BothOrders,
         Abstract!OrderIrrelevant, Abstract!LeftFirst, Abstract!RightFirst,
         Abstract!EvalWithMax, Abstract!Eval, Abstract!Quotient, Abstract!Magnitude,
         Abstract!Ops,
         MovesFor, generateMoves, MoveTo, BumpAt, PawnMove, allAllocations, pawnMoves,
         pawnMovesOneDie, pawnMovesTwoDice, BothOrders, OrderIrrelevant, LeftFirst,
         RightFirst, EvalWithMax, Eval, Quotient, Magnitude, Ops
<1> QED
  BY <1>1, <1>2, <1>3, <1>4

(* A step of the sessions is a step of the game or none of it: the roll    *)
(* that gives the initiative begins it, and a player moves when TakeTurn   *)
(* changes its own State.                                                  *)
LEMMA GameStep ==
    ASSUME Inductive, Inductive', ~ narrowed, ~ narrowed', [Next]_vars
    PROVE  [Abstract!Next]_Abstract!vars
<1>1. TypeOK /\ TypeOK' /\ InStep /\ InStep' /\ AbstractSeen /\ AbstractSeen'
  BY AbstractState, NextAbstractState DEF Inductive
<1>2. PICK p \in Players : Turn(p, Other(p))
  BY <1>1 DEF InStep
<1> DEFINE q == Other(p)
<1>3. /\ Ready(p, q) /\ Players = {p, q} /\ Other(p) = q /\ Other(q) = p /\ p # q
      /\ AbstractPawns = PawnsSeen(p) /\ AbstractTurn = TurnSeen(p)
      /\ pc[p] \in MoverStates /\ pc[q] \in WaiterStates
  BY <1>1, <1>2, OtherFacts DEF Ready, Players, AbstractSeen
<1>4. /\ Turn(p, q)' => /\ AbstractPawns' = PawnsSeen(p)' /\ AbstractTurn' = TurnSeen(p)'
                        /\ pc'[p] \in MoverStates /\ pc'[q] \in WaiterStates
      /\ Turn(q, p)' => /\ AbstractPawns' = PawnsSeen(q)' /\ AbstractTurn' = TurnSeen(q)'
                        /\ pc'[q] \in MoverStates /\ pc'[p] \in WaiterStates
                        /\ pc'[q] = "openingRoll" => pc'[p] = "initiative"
  BY <1>1, <1>3 DEF AbstractSeen, Players, Other
<1> HIDE DEF q
<1>5. \A r \in Players : ~ RejectMove(r)
  <2> SUFFICES ASSUME NEW r \in Players, RejectMove(r) PROVE FALSE
    OBVIOUS
  <2>1. /\ pc[r] \in RecvStates /\ inbox[r] # << >>
        /\ Head(inbox[r]) \notin MovesOfPeer(board[r], rolls[r][1], rolls[r][2])
    BY DEF RejectMove, At
  <2> QED
    BY <1>3, <2>1, ReceiveFacts
<1>6. ASSUME NEW r \in Players, ChooseMove(r) PROVE Abstract!Next
  <2>1. r = p /\ pc[p] = "choose" /\ rolls[p] \in Dice /\ Legal(board[q])
    <3>1. pc[r] = "choose"
      BY <1>6 DEF ChooseMove, At
    <3>2. r = p /\ pc[p] = "choose"
      BY <1>3, <3>1 DEF WaiterStates
    <3>3. rolls[p] \in Dice
      BY <1>1, <3>2 DEF Inductive, TypeOK, Bookkeeping
    <3>4. Legal(board[q])
      BY <1>3, <3>2, PhaseFacts
    <3> QED
      BY <3>2, <3>3, <3>4
  <2>2. PICK m \in MovesFor(board[p], rolls[p][1], rolls[p][2]) : board' = [board EXCEPT ![p] = Move(@, m)]
    BY <1>6, <2>1 DEF ChooseMove
  <2>3. pc' = [pc EXCEPT ![p] = "send"]
    BY <1>6, <2>1 DEF ChooseMove, GoTo
  <2>4. AbstractPawns' = PawnsSeen(p)' /\ AbstractTurn' = q /\ AbstractTurn = p
    <3>1. pc'[p] = "send"
      BY <1>1, <1>3, <2>3 DEF TypeOK
    <3>2. Turn(p, q)'
      BY <1>3, <1>6, ChooseStep
    <3> QED
      BY <1>3, <1>4, <2>1, <3>1, <3>2 DEF TurnSeen
  <2>5. Abstract!View(p) = board[p] /\ board'[p] = Move(board[p], m) /\ board[p] \in Boards
    <3>1. board[p] \in Boards /\ board'[p] = Move(board[p], m)
      BY <1>1, <1>3, <2>2 DEF TypeOK
    <3> QED
      <4>1. /\ AbstractPawns[p] = <<board[p].Pawn1, board[p].Pawn2>>
            /\ AbstractPawns[Other(p)] = <<board[p].PeerPawn1, board[p].PeerPawn2>>
        BY <1>3 DEF PawnsSeen, Seen
      <4>2. Abstract!View(p) = Board(AbstractPawns[p][1], AbstractPawns[p][2],
                                     AbstractPawns[Other(p)][1], AbstractPawns[Other(p)][2])
        BY SameRules DEF Abstract!View
      <4>3. Abstract!View(p) = Board(board[p].Pawn1, board[p].Pawn2,
                                     board[p].PeerPawn1, board[p].PeerPawn2)
        BY <4>1, <4>2
      <4> QED
        BY <3>1, <4>3 DEF Board, Boards
  <2>6. ~ Abstract!Over
    <3>1. Mirrored(p, q)
      BY <1>3, <2>1, PhaseFacts
    <3>2. Legal(board[p])
      BY <1>3, <2>1, <3>1, MoverCanMove
    <3>3. ~ Win(board[p]) /\ ~ Lose(board[p])
      BY <3>2 DEF Legal
    <3> QED
      BY <1>3, <3>3 DEF Abstract!Over, PawnsSeen, Seen, Win, Lose
  <2>7. AbstractPawns' = LET b == Move(Abstract!View(p), m)
                         IN  [x \in Players |-> IF x = p THEN <<b.Pawn1, b.Pawn2>>
                                                ELSE <<b.PeerPawn1, b.PeerPawn2>>]
    BY <2>4, <2>5 DEF PawnsSeen, Seen, Players
  <2>8. rolls[p][1] \in Die /\ rolls[p][2] \in Die
    BY <2>1, BoardFacts
  <2>9. Abstract!Turn(p)
    <3>1. \E d1, d2 \in Die : \E x \in MovesFor(Abstract!View(p), d1, d2) :
             LET b == Move(Abstract!View(p), x)
             IN  AbstractPawns' = [y \in Players |-> IF y = p THEN <<b.Pawn1, b.Pawn2>>
                                                    ELSE <<b.PeerPawn1, b.PeerPawn2>>]
      <4>1. m \in MovesFor(Abstract!View(p), rolls[p][1], rolls[p][2])
        BY <2>2, <2>5
      <4> QED
        BY <2>7, <2>8, <4>1
    <3>2. \E d1, d2 \in Abstract!Die : \E x \in Abstract!MovesFor(Abstract!View(p), d1, d2) :
             LET b == Abstract!Move(Abstract!View(p), x)
             IN  AbstractPawns' = [y \in Players |-> IF y = p THEN <<b.Pawn1, b.Pawn2>>
                                                    ELSE <<b.PeerPawn1, b.PeerPawn2>>]
      BY <3>1, SameRules
    <3> QED
      BY <1>3, <2>4, <2>6, <3>2 DEF Abstract!Turn
  <2> QED
    BY <1>3, <2>9 DEF Abstract!Next
<1>7. ASSUME NEW r \in Players, SendMove(r) PROVE UNCHANGED Abstract!vars
  <2>1. r = p /\ pc[p] = "send" /\ board' = board /\ pc'[p] \in {"won", "otherRoll"}
    BY <1>1, <1>3, <1>7 DEF SendMove, At, GoTo, WaiterStates, TypeOK
  <2>2. Turn(p, q)'
    BY <1>3, <1>7, SendStep
  <2> QED
    BY <1>3, <1>4, <2>1, <2>2 DEF Abstract!vars, TurnSeen, PawnsSeen
<1>8. ASSUME NEW r \in Players, AcceptMove(r) PROVE UNCHANGED Abstract!vars
  <2> DEFINE after == PeerMove(board[q], Head(inbox[q]))
  <2>1. pc[r] \in RecvStates /\ inbox[r] # << >>
    BY <1>8 DEF AcceptMove, At
  <2>2. r = q /\ SentPhase(p, q) /\ board[p] = Mirror(after)
        /\ rolls[q] \in Dice /\ Head(inbox[q]) \in MovesOfPeer(board[q], rolls[q][1], rolls[q][2])
    BY <1>3, <2>1, ReceiveFacts
  <2>3. after \in Boards
    BY <1>3, <2>2, PeerListed DEF Ready, TypeOK
  <2>4. /\ board' = [board EXCEPT ![q] = after]
        /\ pc' = [pc EXCEPT ![q] = IF pc[q] = "otherRecv" /\ Lose(after) THEN "lost" ELSE "takeRoll"]
    BY <1>8, <2>2 DEF AcceptMove, GoTo
  <2>5. /\ board'[p] = board[p] /\ board'[q] = after /\ pc'[p] = pc[p]
        /\ pc[p] \in {"won", "otherRoll"} /\ pc'[q] \in {"lost", "takeRoll"}
    BY <1>1, <1>3, <2>2, <2>4 DEF TypeOK, SentPhase
  <2>6. CASE Turn(p, q)'
    BY <1>3, <1>4, <2>5, <2>6 DEF Abstract!vars, TurnSeen, PawnsSeen
  <2>7. CASE Turn(q, p)'
    <3>1. AbstractTurn' = AbstractTurn
      BY <1>3, <1>4, <2>5, <2>7 DEF TurnSeen, MoverStates
    <3>2. PawnsSeen(q)' = PawnsSeen(p)
      BY <1>3, <2>2, <2>3, <2>5 DEF PawnsSeen, Seen, Mirror, Board, Players
    <3> QED
      BY <1>3, <1>4, <2>7, <3>1, <3>2 DEF Abstract!vars
  <2> QED
    BY <1>3, <1>8, <2>6, <2>7, AcceptStep
<1>9. ASSUME NEW r \in Players, RollSecond(r) PROVE UNCHANGED Abstract!vars
  <2>1. /\ board' = board /\ pc[r] \in RollStates /\ pending[r] # None /\ r \in {p, q}
        /\ Rolled(r, pending[r])
    BY <1>3, <1>9 DEF RollSecond, At
  <2>2. PawnsSeen(p)' = PawnsSeen(p) /\ PawnsSeen(q)' = PawnsSeen(q)
    BY <2>1 DEF PawnsSeen
  <2>3. Turn(p, q)' \/ Turn(q, p)'
    BY <1>3, <1>9, RollSecondStep
  <2>4. CASE pc[p] \in {"send", "otherRoll", "won"}
    <3>1. r = q /\ pc[q] \in {"openingRoll", "otherRoll"}
      BY <1>3, <2>1, <2>4, PhaseFacts DEF RollStates, WaiterStates
    <3>2. pc'[q] \in RecvStates /\ pc'[p] = pc[p]
      BY <1>1, <1>3, <2>1, <3>1, RolledFacts
    <3>3. Turn(p, q)'
      BY <1>4, <2>3, <3>2 DEF RecvStates, MoverStates
    <3> QED
      BY <1>3, <1>4, <2>2, <2>4, <3>2, <3>3 DEF Abstract!vars, TurnSeen
  <2>5. CASE pc[p] \in {"takeRoll", "choose"}
    <3>1. pc'[p] \in {"takeRoll", "choose"}
      BY <1>1, <1>3, <2>1, <2>5, RolledFacts DEF RollStates
    <3>2. Turn(p, q)'
      BY <1>4, <2>3, <3>1 DEF WaiterStates
    <3> QED
      BY <1>3, <1>4, <2>2, <2>5, <3>1, <3>2 DEF Abstract!vars, TurnSeen
  <2>6. CASE pc[p] = "openingRoll"
    <3>1. r = q /\ pc[q] = "initiative" /\ Mirrored(p, q)
      BY <1>3, <2>1, <2>6, PhaseFacts
    <3>2. pc'[q] \in {"takeRoll", "openingRoll"} /\ pc'[p] = "openingRoll"
      BY <1>1, <1>3, <2>1, <2>6, <3>1, RolledFacts
    <3>3. PawnsSeen(q) = PawnsSeen(p)
      BY <1>3, <3>1, SameGame
    <3>4. CASE Turn(p, q)'
      BY <1>3, <1>4, <2>2, <2>6, <3>2, <3>4 DEF Abstract!vars, TurnSeen
    <3>5. CASE Turn(q, p)'
      <4>1. pc'[q] = "takeRoll"
        BY <1>4, <3>2, <3>5
      <4> QED
        BY <1>3, <1>4, <2>2, <2>6, <3>3, <3>5, <4>1 DEF Abstract!vars, TurnSeen
    <3> QED
      BY <2>3, <3>4, <3>5
  <2>7. CASE pc[p] = "initiative"
    BY <1>3, <2>1, <2>7, PhaseFacts
  <2> QED
    BY <1>3, <2>4, <2>5, <2>6, <2>7 DEF MoverStates
<1>10. ASSUME NEW r \in Players, RollFirst(r) PROVE Abstract!Next \/ UNCHANGED Abstract!vars
  <2>1. /\ board' = board /\ pc[p] \in RollStates /\ pc[q] \in RollStates /\ r \in {p, q}
        /\ pending[p] = None /\ pending[q] = None
    BY <1>3, <1>10 DEF RollFirst, At
  <2>2. PICK d \in Dice : Rolled(r, d)
    BY <1>10 DEF RollFirst
  <2>3. PawnsSeen(p)' = PawnsSeen(p) /\ PawnsSeen(q)' = PawnsSeen(q)
    BY <2>1 DEF PawnsSeen
  <2>4. Turn(p, q)' \/ Turn(q, p)'
    BY <1>3, <1>10, RollFirstStep
  <2>5. CASE pc[p] = "takeRoll"
    <3>1. pc'[p] \in {"takeRoll", "choose"}
      BY <1>1, <1>3, <2>1, <2>2, <2>5, RolledFacts
    <3>2. Turn(p, q)'
      BY <1>4, <2>4, <3>1 DEF WaiterStates
    <3> QED
      BY <1>3, <1>4, <2>3, <2>5, <3>1, <3>2 DEF Abstract!vars, TurnSeen
  <2>6. CASE pc[p] = "initiative"
    <3>1. Mirrored(p, q) /\ AbstractTurn = None
      BY <1>3, <2>6, PhaseFacts DEF TurnSeen
    <3>2. PawnsSeen(q) = PawnsSeen(p)
      BY <1>3, <3>1, SameGame
    <3>3. AbstractPawns' = AbstractPawns
      BY <1>3, <1>4, <2>3, <2>4, <3>2
    <3>4. AbstractTurn' \in {None, p, q}
      BY <1>3, <1>4, <2>4 DEF TurnSeen
    <3> QED
      BY <1>3, <3>1, <3>3, <3>4 DEF Abstract!Next, Abstract!Begin, Abstract!vars
  <2> QED
    BY <1>3, <2>1, <2>5, <2>6, PhaseFacts DEF MoverStates, RollStates
<1>11. ASSUME UNCHANGED <<pc, board, inbox>> PROVE UNCHANGED Abstract!vars
  BY <1>11 DEF Abstract!vars, AbstractPawns, AbstractTurn, Front, Ahead, HasMoved, IsMoving, IsWaiting
<1>12. ASSUME NEW r \in Players, StreamFails(r) \/ MessageRefused(r) \/ Complete(r)
       PROVE  UNCHANGED Abstract!vars
  BY <1>11, <1>12 DEF StreamFails, MessageRefused, Complete
<1>13. CASE Disconnect \/ Finished \/ UNCHANGED vars
  BY <1>11, <1>13 DEF Disconnect, Finished, vars
<1> QED
  BY <1>5, <1>6, <1>7, <1>8, <1>9, <1>10, <1>12, <1>13 DEF Next, Session

-----------------------------------------------------------------------------
(* A game begins with both pawns of both players at the start and nobody   *)
(* to move (NewSession).                                                   *)
LEMMA GameStart == Init => Abstract!Init
<1> SUFFICES ASSUME Init PROVE Abstract!Init
  OBVIOUS
<1>1. ~ Ahead(Host) /\ ~ Ahead(Challenger)
  BY DEF Init, Ahead, Players, Other
<1>2. AbstractPawns = [p \in Players |-> <<0, 0>>]
  BY <1>1 DEF Init, AbstractPawns, Front, StartBoard, Board, Players
<1>3. AbstractTurn = None
  BY <1>1 DEF Init, AbstractTurn, HasMoved, IsMoving, IsWaiting, Players
<1> QED
  BY <1>2, <1>3 DEF Abstract!Init

(* As long as every move arrives as the one that was sent, two sessions    *)
(* that exchange moves play one game with alternating turns; over Go       *)
(* channels they always do (PlayWithInitiative, TakeTurn, OtherTurn).      *)
THEOREM OneGame ==
    /\ (Spec /\ [](~ narrowed)) => PlaysOneGame
    /\ Wire = "channel" => (Spec => PlaysOneGame)
<1>1. (Spec /\ [](~ narrowed)) => PlaysOneGame
  BY GameStart, GameStep, GameInvariant, PTL DEF Spec, PlaysOneGame, Abstract!Spec
<1>2. Wire = "channel" => (Spec => PlaysOneGame)
  <2> SUFFICES ASSUME Wire = "channel" PROVE Spec => PlaysOneGame
    OBVIOUS
  <2>1. Inductive => ~ narrowed
    BY DEF Inductive
  <2> QED
    BY <1>1, <2>1, GameInvariant, PTL
<1> QED
  BY <1>1, <1>2
=============================================================================
