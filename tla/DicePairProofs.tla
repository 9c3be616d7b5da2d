--------------------------- MODULE DicePairProofs ---------------------------
(***************************************************************************)
(* The rolls of two players who stop at their first error stay in step,    *)
(* for every number of rolls, every link and every capacity, whichever     *)
(* contexts end: what a goroutine receives is always the next message of   *)
(* the peer, and never more than two messages are on their way.            *)
(***************************************************************************)
EXTENDS DiceRollProofs, Integers

USE PlayersAssumption, BoundsAssumption, NoneAssumption

(* The three messages of a roll are told apart by their number, and each   *)
(* number is of one roll (the steps of startExchange and confirmRoll).     *)
LEMMA MessageNumbers ==
    ASSUME NEW p \in Players, NEW k \in 1..MaxRolls, NEW m
    PROVE  /\ IsMessage(p, 3*k - 2, m) <=> m = CommitmentMsg(<<p, k>>)
           /\ IsMessage(p, 3*k - 1, m) <=> m = SecretMsg(<<p, k>>)
           /\ IsMessage(p, 3*k, m) <=>
                 m = ConfirmationMsg(rollOf(<<p, k>>, <<Other(p), k>>))
<1>1. \A j \in 1..MaxRolls : /\ 3*k - 2 = 3*j - 2 <=> j = k
                             /\ 3*k - 1 = 3*j - 1 <=> j = k
                             /\ 3*k = 3*j <=> j = k
                             /\ 3*k - 2 # 3*j - 1 /\ 3*k - 2 # 3*j
                             /\ 3*k - 1 # 3*j - 2 /\ 3*k - 1 # 3*j
                             /\ 3*k # 3*j - 2 /\ 3*k # 3*j - 1
  OBVIOUS
<1> HIDE DEF calculateCommitment
<1>2. IsMessage(p, 3*k - 2, m) <=> m = CommitmentMsg(<<p, k>>)
  BY <1>1 DEF IsMessage
<1>3. IsMessage(p, 3*k - 1, m) <=> m = SecretMsg(<<p, k>>)
  BY <1>1 DEF IsMessage
<1>4. IsMessage(p, 3*k, m) <=> m = ConfirmationMsg(rollOf(<<p, k>>, <<Other(p), k>>))
  BY <1>1 DEF IsMessage
<1> QED
  BY <1>2, <1>3, <1>4

(* A roll is a player and a number, and its peer is the other player.      *)
LEMMA RollNames ==
    /\ \A r \in RollIds : \E p \in Players, k \in 1..MaxRolls : r = <<p, k>>
    /\ \A p \in Players, k \in 1..MaxRolls :
          /\ <<p, k>> \in RollIds /\ <<p, k>>[2] = k
          /\ Owner(<<p, k>>) = p /\ Peer(<<p, k>>) = Other(p)
BY DEF RollIds, Owner, Peer

(* There are two players (the crossed channels of ChannelPeers).           *)
LEMMA TwoPlayers ==
    \A p \in Players : /\ Other(p) \in Players /\ Other(Other(p)) = p
                       /\ Other(p) # p /\ Players = {p, Other(p)}
BY DEF Players, Other

(* Where no goroutine of a player's rolls moves, its tally stays.          *)
LEMMA PlacedFrame ==
    ASSUME NEW p \in Players,
           \A j \in 1..MaxRolls : /\ main'[<<p, j>>] = main[<<p, j>>]
                                 /\ exch'[<<p, j>>] = exch[<<p, j>>],
           NEW s \in Int, NEW t \in Int, Placed(p, s, t)
    PROVE  Placed(p, s, t)'
<1>1. PICK k \in 1..(MaxRolls + 1) : InRoll(p, k) /\ Tally(p, k, s, t)
  BY DEF Placed
<1>2. InRoll(p, k)'
  BY <1>1 DEF InRoll
<1>3. Tally(p, k, s, t)'
  BY <1>1 DEF Tally
<1> QED
  BY <1>2, <1>3 DEF Placed

(* The roll that has started and not ended well is the one that is         *)
(* counted.                                                                *)
LEMMA PlacedIn ==
    ASSUME NEW p \in Players, NEW k \in 1..MaxRolls, main[<<p, k>>] \notin {"idle", "ok"},
           NEW s, NEW t, Placed(p, s, t)
    PROVE  InRoll(p, k) /\ Tally(p, k, s, t)
<1>1. PICK j \in 1..(MaxRolls + 1) : InRoll(p, j) /\ Tally(p, j, s, t)
  BY DEF Placed
<1>2. j = k
  BY <1>1 DEF InRoll
<1> QED
  BY <1>1, <1>2

(* A step of the goroutines of one roll.                                   *)
Moves(r, x, m) == exch' = [exch EXCEPT ![r] = x] /\ main' = [main EXCEPT ![r] = m]

(* It leaves the goroutines of every other roll where they are             *)
(* (Roller.Roll, startExchange).                                           *)
LEMMA MovesRoll ==
    ASSUME TypeOK, NEW p \in Players, NEW k \in 1..MaxRolls, NEW x, NEW m,
           Moves(<<p, k>>, x, m)
    PROVE  \A q \in Players, j \in 1..MaxRolls :
              /\ main'[<<q, j>>] = IF q = p /\ j = k THEN m ELSE main[<<q, j>>]
              /\ exch'[<<q, j>>] = IF q = p /\ j = k THEN x ELSE exch[<<q, j>>]
BY RollNames DEF Moves, TypeOK

(* While it does not end well, the same roll is counted after it ...       *)
LEMMA InRollStep ==
    ASSUME TypeOK, NEW p \in Players, NEW k \in 1..MaxRolls, NEW x, NEW m,
           Moves(<<p, k>>, x, m), m # "ok", InRoll(p, k)
    PROVE  InRoll(p, k)'
BY MovesRoll DEF InRoll

(* ... and the next one when it does (RollSync returns before the player   *)
(* rolls again).                                                           *)
LEMMA NextRoll ==
    ASSUME TypeOK, NEW p \in Players, NEW k \in 1..MaxRolls, NEW x,
           Moves(<<p, k>>, x, "ok"), InRoll(p, k),
           NEW n \in Int, n = k + 1
    PROVE  n \in 1..(MaxRolls + 1) /\ InRoll(p, n)'
<1>1. \A j \in 1..MaxRolls :
         main'[<<p, j>>] = IF j = k THEN "ok" ELSE main[<<p, j>>]
  BY MovesRoll
<1> QED
  BY <1>1 DEF InRoll

(* A goroutine that has read the type of a message is not taken for one    *)
(* that has not (ReadMessage).                                             *)
LEMMA NoneIsNoReading ==
    ASSUME TypeOK, NEW p \in Players, chan[p] # << >>
    PROVE  [type |-> Head(chan[p]).type, need |-> Width] # None
<1>1. Head(chan[p]) \in Message
  BY TailElements DEF TypeOK
<1>2. Head(chan[p]).type \in MsgTypes
  BY <1>1 DEF Message, CommitmentMsg, SecretMsg, ConfirmationMsg, MsgTypes
<1>3. [type |-> Head(chan[p]).type, need |-> Width] \in Readings
  BY <1>2, WidthAssumption DEF Readings
<1> QED
  BY <1>3

(* No two goroutines of a player receive at the same time: the player has  *)
(* one roll under way (RollSync).                                          *)
LEMMA OneReader ==
    ASSUME PairInv, CountInv, NEW r \in RollIds, NEW o \in RollIds,
           Owner(r) = Owner(o), Receiving(r), Receiving(o)
    PROVE  r = o
<1>1. PICK p \in Players, k \in 1..MaxRolls : r = <<p, k>>
  BY RollNames
<1>2. PICK j \in 1..MaxRolls : o = <<p, j>>
  BY <1>1, RollNames
<1>3. main[<<p, k>>] \notin {"idle", "ok"} /\ main[<<p, j>>] \notin {"idle", "ok"}
  BY <1>1, <1>2 DEF PairInv, Receiving
<1>4. PICK i \in 1..(MaxRolls + 1) : InRoll(p, i)
  BY DEF CountInv, Counted, Placed
<1>5. i = k /\ i = j
  BY <1>3, <1>4 DEF InRoll
<1> QED
  BY <1>1, <1>2, <1>5

(* So what a goroutine receives is the first message on the link, whole    *)
(* (PipePeer.Recv).                                                        *)
LEMMA WholeMessage ==
    ASSUME TypeOK, ReadInv, NEW r \in RollIds, Recv(r)
    PROVE  /\ chan[Owner(r)] # << >>
           /\ Received(r) = Head(chan[Owner(r)])
           /\ chan' = [chan EXCEPT ![Owner(r)] = Tail(@)]
           /\ taken' = [taken EXCEPT ![Owner(r)] = 0]
           /\ reading' = [reading EXCEPT ![r] = None]
<1> DEFINE p == Owner(r)
           m == Head(chan[p])
<1>1. p \in Players /\ chan[p] # << >> /\ chan[p] \in Seq(Message)
  BY RollOwners DEF Recv, TypeOK
<1>2. CASE Link # "pipe"
  <2>1. taken[p] = 0 /\ reading[r] = None
    BY <1>1, <1>2 DEF ReadInv
  <2>2. taken = [taken EXCEPT ![p] = 0] /\ reading = [reading EXCEPT ![r] = None]
    BY <1>1, <2>1 DEF TypeOK
  <2> QED
    BY <1>1, <1>2, <2>2 DEF Recv, Received
<1>3. CASE Link = "pipe"
  <2>1. /\ taken[p] = 1 /\ reading[r].type = m.type /\ reading[r].need = Width
        /\ reading' = [reading EXCEPT ![r] = None] /\ Take(p, Width)
    <3>1. reading[r] # None /\ Take(p, reading[r].need)
          /\ reading' = [reading EXCEPT ![r] = None]
      BY <1>3 DEF Recv
    <3>2. taken[p] = 1 /\ reading[r] = [type |-> m.type, need |-> Width]
      BY <3>1 DEF ReadInv
    <3>3. reading[r].type = m.type /\ reading[r].need = Width
      BY <3>2
    <3> QED
      BY <3>1, <3>2, <3>3
  <2>2. /\ taken' = [taken EXCEPT ![p] = 0]
        /\ chan' = [chan EXCEPT ![p] = Tail(chan[p])]
    BY <2>1, WidthAssumption DEF Take, Left
  <2>3. m \in Message
    BY <1>1, TailElements
  <2>4. m = [type |-> m.type, data |-> m.data]
    BY <2>3 DEF Message, CommitmentMsg, SecretMsg, ConfirmationMsg
  <2>5. Received(r) = m
    BY <1>3, <2>1, <2>4 DEF Received
  <2> QED
    BY <1>1, <2>1, <2>2, <2>5
<1> QED
  BY <1>2, <1>3

(* A Read that does not end a Recv is of the type of a message, which no   *)
(* other goroutine has begun (ReadMessage).                                *)
LEMMA FirstRead ==
    ASSUME TypeOK, InLockstep, NEW r \in RollIds, Read(r)
    PROVE  /\ Link = "pipe" /\ Receiving(r) /\ reading[r] = None
           /\ chan[Owner(r)] # << >>
           /\ taken' = [taken EXCEPT ![Owner(r)] = 1]
           /\ reading' = [reading EXCEPT
                 ![r] = [type |-> Head(chan[Owner(r)]).type, need |-> Width]]
           /\ UNCHANGED <<chan, exch, main, commitIn, secretIn, computed, cancelled>>
<1> DEFINE p == Owner(r)
<1>1. p \in Players
  BY RollOwners
<1>2. ~ ReadPart(r)
  <2>1. ASSUME reading[r] # None PROVE Left(p) = Width /\ reading[r].need = Width
    <3>1. taken[p] = 1 /\ reading[r] = [type |-> Head(chan[p]).type, need |-> Width]
      BY <2>1 DEF InLockstep, ReadInv
    <3> QED
      BY <3>1, WidthAssumption DEF Left
  <2> QED
    BY <2>1, WidthAssumption DEF ReadPart
<1>3. ReadType(r)
  BY <1>2 DEF Read
<1>4. taken[p] = 0
  <2>1. ASSUME taken[p] = 1 PROVE FALSE
    <3>1. PICK o \in RollIds : Owner(o) = p /\ reading[o] # None
      BY <1>1, <2>1 DEF InLockstep, ReadInv
    <3>2. Receiving(o) /\ Receiving(r) /\ reading[r] = None
      BY <1>3, <3>1 DEF InLockstep, ReadInv, ReadType
    <3> QED
      BY <3>1, <3>2, OneReader DEF InLockstep
  <2> QED
    BY <1>1, <2>1 DEF InLockstep, ReadInv
<1>5. taken' = [taken EXCEPT ![p] = 1] /\ chan' = chan
  <2>1. Take(p, 1) /\ 1 < Left(p)
    BY <1>3, <1>4, WidthAssumption DEF ReadType, Left
  <2>2. taken' = [taken EXCEPT ![p] = taken[p] + 1] /\ chan' = chan
    BY <2>1 DEF Take
  <2> QED
    BY <1>4, <2>2
<1> QED
  BY <1>3, <1>4, <1>5 DEF ReadType

(* Sending: the roll's tally counts one more, and the message is the next. *)
LEMMA CountSent ==
    ASSUME TypeOK, NEW sent \in [Players -> 0..(3 * MaxRolls)], Counted(sent),
           NEW p \in Players, NEW k \in 1..MaxRolls, NEW x, NEW m, NEW msg,
           Moves(<<p, k>>, x, m), Send(<<p, k>>, msg),
           sent[p] < 3 * MaxRolls, IsMessage(p, sent[p] + 1, msg),
           NEW q, q = Other(p), NEW s \in Int, s = sent[p] + 1,
           NEW t \in Int, t = sent[q] - Len(chan[p]),
           Placed(p, s, t)'
    PROVE  CountInv'
<1>1. q \in Players /\ Other(q) = p /\ p # q /\ Players = {p, q}
  BY TwoPlayers
<1>2. PICK after \in [Players -> 0..(3 * MaxRolls)] : after[p] = s /\ after[q] = sent[q]
  <2> WITNESS [sent EXCEPT ![p] = @ + 1] \in [Players -> 0..(3 * MaxRolls)]
  <2> QED
    BY <1>1
<1>3. /\ chan[p] \in Seq(Message) /\ chan[q] \in Seq(Message)
      /\ chan'[p] = chan[p] /\ chan'[q] = Append(chan[q], msg)
  <2>1. chan' = [chan EXCEPT ![q] = Append(@, msg)]
    BY RollNames DEF Send
  <2>2. chan \in [Players -> Seq(Message)]
    BY DEF TypeOK
  <2> QED
    BY <1>1, <2>1, <2>2
<1>4. /\ Len(chan'[q]) = Len(chan[q]) + 1 /\ Len(chan'[p]) = Len(chan[p])
      /\ Len(chan[p]) \in Int /\ Len(chan[q]) \in Int
  <2>1. Len(Append(chan[q], msg)) = Len(chan[q]) + 1
    BY <1>3
  <2> QED
    BY <1>3, <2>1
<1>5. ASSUME NEW i \in DOMAIN chan'[q]
       PROVE  IF i = Len(chan[q]) + 1 THEN chan'[q][i] = msg
              ELSE i \in DOMAIN chan[q] /\ chan'[q][i] = chan[q][i]
  <2>1. chan[q] \in Seq(Message) /\ i \in DOMAIN Append(chan[q], msg)
    BY <1>3
  <2>2. /\ i \in 1..(Len(chan[q]) + 1) /\ DOMAIN chan[q] = 1..Len(chan[q]) /\ Len(chan[q]) \in Nat
        /\ Append(chan[q], msg)[i] = IF i = Len(chan[q]) + 1 THEN msg ELSE chan[q][i]
    BY <2>1
  <2>3. i # Len(chan[q]) + 1 => i \in DOMAIN chan[q]
    BY <2>2
  <2> QED
    BY <1>3, <2>2, <2>3
<1>6. PICK u \in Int : u = sent[p] - Len(chan[q])
  BY <1>1, <1>3
<1>7. PICK c \in Int : c = sent[q]
  BY <1>1
<1>8. /\ Placed(q, c, u) /\ \A i \in DOMAIN chan[q] : IsMessage(p, u + i, chan[q][i])
      /\ \A i \in DOMAIN chan[p] : IsMessage(q, t + i, chan[p][i])
  BY <1>1, <1>6, <1>7 DEF Counted
<1>9. after[p] - Len(chan'[q]) = u /\ after[q] - Len(chan'[p]) = t
  <2>1. sent[p] \in Int /\ sent[q] \in Int
    BY <1>1
  <2> QED
    BY <1>2, <1>4, <1>6, <2>1
<1>10. ASSUME NEW i \in DOMAIN chan'[q] PROVE IsMessage(p, u + i, chan'[q][i])
  <2>1. CASE i = Len(chan[q]) + 1
    <3>1. Len(chan[q]) \in Nat /\ sent[p] \in Int
      BY <1>3
    <3>2. u + i = sent[p] + 1
      BY <1>6, <2>1, <3>1
    <3> QED
      BY <1>5, <2>1, <3>2
  <2>2. CASE i # Len(chan[q]) + 1
    BY <1>5, <1>8, <2>2
  <2> QED
    BY <2>1, <2>2
<1>11. Placed(q, c, u)'
  BY <1>1, <1>8, MovesRoll, PlacedFrame
<1>12. /\ Placed(p, s, t)' /\ Placed(q, c, u)'
       /\ \A i \in DOMAIN chan'[p] : IsMessage(q, t + i, chan'[p][i])
       /\ \A i \in DOMAIN chan'[q] : IsMessage(p, u + i, chan'[q][i])
       /\ after[p] = s /\ after[q] = c
  BY <1>2, <1>3, <1>7, <1>8, <1>10, <1>11
<1>13. Counted(after)'
  <2> SUFFICES ASSUME NEW r \in Players
               PROVE  /\ Placed(r, after[r], after[Other(r)] - Len(chan[r]))'
                      /\ \A i \in DOMAIN chan'[r] :
                            IsMessage(Other(r), after[Other(r)] - Len(chan'[r]) + i, chan'[r][i])
    BY DEF Counted
  <2>1. CASE r = p
    BY <1>1, <1>9, <1>12, <2>1
  <2>2. CASE r = q
    BY <1>1, <1>9, <1>12, <2>2
  <2> QED
    BY <1>1, <2>1, <2>2
<1> QED
  BY <1>13 DEF CountInv

(* Receiving: one message more is counted, and it was the next.            *)
LEMMA CountReceived ==
    ASSUME TypeOK, NEW sent \in [Players -> 0..(3 * MaxRolls)], Counted(sent),
           NEW p \in Players, NEW k \in 1..MaxRolls, NEW x, NEW m,
           Moves(<<p, k>>, x, m), ReadInv, Recv(<<p, k>>),
           NEW q, q = Other(p), NEW s \in Int, s = sent[p],
           NEW t \in Int, t = sent[q] - Len(chan[p]) + 1,
           Placed(p, s, t)'
    PROVE  CountInv'
<1>1. q \in Players /\ Other(q) = p /\ p # q /\ Players = {p, q}
  BY TwoPlayers
<1>2. /\ chan[p] \in Seq(Message) /\ chan[p] # << >> /\ chan[q] \in Seq(Message)
      /\ chan'[p] = Tail(chan[p]) /\ chan'[q] = chan[q]
  <2>1. Owner(<<p, k>>) = p /\ <<p, k>> \in RollIds
    BY RollNames
  <2>2. chan[p] # << >> /\ chan' = [chan EXCEPT ![p] = Tail(chan[p])]
    BY <2>1, WholeMessage
  <2> QED
    BY <1>1, <2>2 DEF TypeOK
<1>3. /\ Len(chan'[p]) = Len(chan[p]) - 1 /\ Len(chan[p]) \in Nat
      /\ \A i \in DOMAIN chan'[p] :
            i \in Int /\ i + 1 \in DOMAIN chan[p] /\ chan'[p][i] = chan[p][i + 1]
  BY <1>2, TailElements
<1>4. PICK u \in Int : u = sent[p] - Len(chan[q])
  BY <1>1, <1>2
<1>5. PICK c \in Int : c = sent[q]
  BY <1>1
<1>6. /\ Placed(q, c, u) /\ \A i \in DOMAIN chan[q] : IsMessage(p, u + i, chan[q][i])
      /\ \A i \in DOMAIN chan[p] : IsMessage(q, c - Len(chan[p]) + i, chan[p][i])
  BY <1>1, <1>4, <1>5 DEF Counted
<1>7. sent[p] - Len(chan'[q]) = u /\ sent[q] - Len(chan'[p]) = t
  <2>1. sent[q] \in Int /\ Len(chan[p]) \in Int
    BY <1>1, <1>3
  <2> QED
    BY <1>2, <1>3, <1>4, <2>1
<1>8. ASSUME NEW i \in DOMAIN chan'[p] PROVE IsMessage(q, t + i, chan'[p][i])
  <2>1. t + i = c - Len(chan[p]) + (i + 1)
    BY <1>3, <1>5
  <2> QED
    BY <1>3, <1>6, <2>1
<1>9. Placed(q, c, u)'
  BY <1>1, <1>6, MovesRoll, PlacedFrame
<1>10. Counted(sent)'
  BY <1>1, <1>2, <1>5, <1>6, <1>7, <1>8, <1>9 DEF Counted
<1> QED
  BY <1>10 DEF CountInv

(* A step that leaves the link as it is.                                   *)
LEMMA CountKept ==
    ASSUME TypeOK, NEW sent \in [Players -> 0..(3 * MaxRolls)], Counted(sent),
           NEW p \in Players, NEW k \in 1..MaxRolls, NEW x, NEW m,
           Moves(<<p, k>>, x, m), chan' = chan,
           NEW q, q = Other(p), NEW s \in Int, s = sent[p],
           NEW t \in Int, t = sent[q] - Len(chan[p]),
           Placed(p, s, t)'
    PROVE  CountInv'
<1>1. q \in Players /\ Other(q) = p /\ p # q /\ Players = {p, q}
  BY TwoPlayers
<1>2. PICK u \in Int : u = sent[p] - Len(chan[q])
  BY <1>1 DEF TypeOK
<1>3. PICK c \in Int : c = sent[q]
  BY <1>1
<1>4. /\ Placed(q, c, u) /\ \A i \in DOMAIN chan[q] : IsMessage(p, u + i, chan[q][i])
      /\ \A i \in DOMAIN chan[p] : IsMessage(q, t + i, chan[p][i])
  BY <1>1, <1>2, <1>3 DEF Counted
<1>5. Placed(q, c, u)'
  BY <1>1, <1>4, MovesRoll, PlacedFrame
<1>6. Counted(sent)'
  BY <1>1, <1>2, <1>3, <1>4, <1>5 DEF Counted
<1> QED
  BY <1>6 DEF CountInv

-----------------------------------------------------------------------------
(* What a step of p's k-th roll finds: the counts of p, and the message at *)
(* the head of its link, which is the next of the other's.                 *)
Counts(p, q, sent, s, t) ==
    /\ q = Other(p) /\ s = sent[p] /\ t = sent[q] - Len(chan[p])
    /\ Placed(p, s, t)
    /\ chan[p] # << >> => IsMessage(q, t + 1, Head(chan[p]))

(* Such counts exist in every state of the two rolls: nothing is sent or   *)
(* received but in the order of Roller.startExchange and confirmRoll.      *)
LEMMA CountsExist ==
    ASSUME TypeOK, NEW sent \in [Players -> 0..(3 * MaxRolls)], Counted(sent),
           NEW p \in Players
    PROVE  \E q \in Players, s, t \in Int : Counts(p, q, sent, s, t)
<1>1. PICK q \in Players : q = Other(p)
  BY TwoPlayers
<1>2. chan[p] \in Seq(Message) /\ (chan[p] # << >> => 1 \in DOMAIN chan[p] /\ Head(chan[p]) = chan[p][1])
  BY TailElements DEF TypeOK
<1>3. PICK s \in Int, t \in Int : s = sent[p] /\ t = sent[q] - Len(chan[p])
  BY <1>1, <1>2
<1>4. /\ Placed(p, s, t)
      /\ \A i \in DOMAIN chan[p] : IsMessage(q, t + i, chan[p][i])
  BY <1>1, <1>3 DEF Counted
<1> QED
  BY <1>1, <1>2, <1>3, <1>4 DEF Counts

(* The player's first or next roll is counted when it starts (Roller.Roll, *)
(* after RollSync has returned the one before).                            *)
LEMMA CountRoll ==
    ASSUME ~ RollAfterFailure, TypeOK, PairInv, CountInv,
           NEW r \in RollIds, Roll(r)
    PROVE  CountInv'
<1>1. PICK sent \in [Players -> 0..(3 * MaxRolls)] : Counted(sent)
  BY DEF CountInv
<1>2. PICK p \in Players, k \in 1..MaxRolls : r = <<p, k>>
  BY RollNames
<1>3. PICK q \in Players, s \in Int, t \in Int : Counts(p, q, sent, s, t)
  BY <1>1, CountsExist
<1>4. /\ main[<<p, k>>] = "idle" /\ (k > 1 => main[<<p, k - 1>>] = "ok")
      /\ Moves(<<p, k>>, "sendCommitment", "awaitSecret") /\ chan' = chan
  BY <1>2 DEF Roll, MayRoll, Moves, ExchangeTo, MainTo
<1>5. PICK j \in 1..(MaxRolls + 1) : InRoll(p, j) /\ Tally(p, j, s, t)
  BY <1>3 DEF Counts, Placed
<1>6. j = k
  <2>1. ~ j > k
    BY <1>4, <1>5 DEF InRoll
  <2>2. ASSUME j < k PROVE FALSE
    <3>1. k - 1 \in 1..MaxRolls /\ j \in 1..MaxRolls
      BY <2>2
    <3>2. k - 1 = j \/ k - 1 > j
      BY <2>2
    <3> QED
      BY <1>4, <1>5, <2>2, <3>1, <3>2 DEF InRoll
  <2> QED
    BY <2>1, <2>2
<1>7. exch[<<p, k>>] = "idle"
  BY <1>2, <1>4 DEF PairInv
<1>8. InRoll(p, k)'
  BY <1>4, <1>5, <1>6, InRollStep
<1>9. Tally(p, k, s, t)'
  BY <1>4, <1>5, <1>6, <1>7, MovesRoll DEF Tally
<1>10. Placed(p, s, t)'
  BY <1>8, <1>9 DEF Placed
<1> QED
  BY <1>1, <1>3, <1>4, <1>10, CountKept DEF Counts

(* Each message that a goroutine sends is the next of its player's.        *)
LEMMA CountSend ==
    ASSUME TypeOK, PairInv, RollsPairUp, ProgressInv, CountInv, NEW r \in RollIds,
           SendCommitment(r) \/ SendSecret(r) \/ SendConfirmation(r)
    PROVE  CountInv'
<1>1. PICK sent \in [Players -> 0..(3 * MaxRolls)] : Counted(sent)
  BY DEF CountInv
<1>2. PICK p \in Players, k \in 1..MaxRolls : r = <<p, k>>
  BY RollNames
<1>3. PICK q \in Players, s \in Int, t \in Int : Counts(p, q, sent, s, t)
  BY <1>1, CountsExist
<1>4. ASSUME NEW x, NEW m, NEW msg, NEW u \in Int, u = s + 1,
             Moves(<<p, k>>, x, m), Send(<<p, k>>, msg), m # "ok",
             main[<<p, k>>] \notin {"idle", "ok"},
             Tally(p, k, s, t) => Tally(p, k, u, t)' /\ s < 3 * MaxRolls
                                  /\ IsMessage(p, u, msg)
      PROVE  CountInv'
  <2>1. InRoll(p, k) /\ Tally(p, k, s, t)
    BY <1>3, <1>4, PlacedIn DEF Counts
  <2>2. InRoll(p, k)'
    BY <1>4, <2>1, InRollStep
  <2>3. Placed(p, u, t)'
    BY <1>4, <2>1, <2>2 DEF Placed
  <2> QED
    BY <1>1, <1>3, <1>4, <2>1, <2>3, CountSent DEF Counts
<1>5. PICK u \in Int : u = s + 1
  OBVIOUS
<1>6. CASE SendCommitment(r)
  <2>1. /\ Moves(r, "recvCommitment", main[r]) /\ exch[r] = "sendCommitment"
        /\ Send(r, CommitmentMsg(r)) /\ main[r] \notin {"idle", "ok"}
    BY <1>6 DEF SendCommitment, Moves, ExchangeTo, TypeOK, PairInv
  <2>2. ASSUME Tally(p, k, s, t) PROVE s = 3*k - 3 /\ t = 3*k - 3
    BY <1>2, <2>1, <2>2 DEF Tally
  <2>3. ASSUME Tally(p, k, s, t)
        PROVE  Tally(p, k, u, t)' /\ s < 3 * MaxRolls /\ u = 3*k - 2
    <3>1. exch'[<<p, k>>] = "recvCommitment" /\ main'[<<p, k>>] = main[<<p, k>>]
      BY <1>2, <2>1, MovesRoll
    <3> QED
      BY <1>2, <1>5, <2>1, <2>2, <2>3, <3>1 DEF Tally, PairInv
  <2>4. IsMessage(p, 3*k - 2, CommitmentMsg(r))
    BY <1>2, MessageNumbers
  <2> QED
    BY <1>2, <1>4, <1>5, <2>1, <2>3, <2>4
<1>7. CASE SendSecret(r)
  <2>1. /\ Moves(r, "recvSecret", main[r]) /\ exch[r] = "sendSecret"
        /\ Send(r, SecretMsg(r)) /\ main[r] \notin {"idle", "ok"}
    BY <1>7 DEF SendSecret, Moves, ExchangeTo, TypeOK, PairInv
  <2>2. ASSUME Tally(p, k, s, t) PROVE s = 3*k - 2 /\ t = 3*k - 2
    BY <1>2, <2>1, <2>2 DEF Tally
  <2>3. ASSUME Tally(p, k, s, t)
        PROVE  Tally(p, k, u, t)' /\ s < 3 * MaxRolls /\ u = 3*k - 1
    <3>1. exch'[<<p, k>>] = "recvSecret" /\ main'[<<p, k>>] = main[<<p, k>>]
      BY <1>2, <2>1, MovesRoll
    <3> QED
      BY <1>2, <1>5, <2>1, <2>2, <2>3, <3>1 DEF Tally, PairInv
  <2>4. IsMessage(p, 3*k - 1, SecretMsg(r))
    BY <1>2, MessageNumbers
  <2> QED
    BY <1>2, <1>4, <1>5, <2>1, <2>3, <2>4
<1>8. CASE SendConfirmation(r)
  <2>1. /\ Moves(r, "done", "awaitConfirmation") /\ main[r] = "confirm" /\ exch[r] = "done"
        /\ Send(r, ConfirmationMsg(computed[r]))
    BY <1>8 DEF SendConfirmation, Moves, MainTo, TypeOK, PairInv
  <2>2. ASSUME Tally(p, k, s, t) PROVE s = 3*k - 1 /\ t = 3*k - 1
    BY <1>2, <2>1, <2>2 DEF Tally
  <2>3. ASSUME Tally(p, k, s, t)
        PROVE  Tally(p, k, u, t)' /\ s < 3 * MaxRolls /\ u = 3*k
    <3>1. exch'[<<p, k>>] = "done" /\ main'[<<p, k>>] = "awaitConfirmation"
      BY <1>2, <2>1, MovesRoll
    <3> QED
      BY <1>2, <1>5, <2>1, <2>2, <2>3, <3>1 DEF Tally
  <2>4. computed[r] = rollOf(<<p, k>>, <<Other(p), k>>)
    BY <1>2, <2>1, RollNames DEF RollsPairUp, ProgressInv
  <2>5. IsMessage(p, 3*k, ConfirmationMsg(computed[r]))
    BY <2>4, MessageNumbers
  <2> QED
    BY <1>2, <1>4, <1>5, <2>1, <2>3, <2>5
<1> QED
  BY <1>6, <1>7, <1>8

(* A goroutine receives the message it waits for, of the peer's roll of    *)
(* the same number: what startExchange and confirmRoll do not check.       *)
LEMMA NextReceived ==
    ASSUME TypeOK, PairInv, ReadInv, CountInv, NEW r \in RollIds, Recv(r),
           exch[r] \in {"recvCommitment", "recvSecret"} \/ main[r] = "awaitConfirmation"
    PROVE  LET peers == <<Peer(r), r[2]>>
               m     == Received(r)
           IN  /\ exch[r] = "recvCommitment" => m = CommitmentMsg(peers)
               /\ exch[r] = "recvSecret" => m = SecretMsg(peers)
               /\ main[r] = "awaitConfirmation" => m = ConfirmationMsg(rollOf(peers, r))
<1>1. PICK sent \in [Players -> 0..(3 * MaxRolls)] : Counted(sent)
  BY DEF CountInv
<1>2. PICK p \in Players, k \in 1..MaxRolls : r = <<p, k>>
  BY RollNames
<1>3. PICK q \in Players, s \in Int, t \in Int : Counts(p, q, sent, s, t)
  BY <1>1, CountsExist
<1>4. main[<<p, k>>] \notin {"idle", "ok"}
  BY <1>2 DEF PairInv
<1>5. InRoll(p, k) /\ Tally(p, k, s, t)
  BY <1>3, <1>4, PlacedIn DEF Counts
<1>6. /\ Owner(r) = p /\ Peer(r) = q /\ r[2] = k /\ Other(q) = p
      /\ IsMessage(q, t + 1, Received(r))
  BY <1>2, <1>3, RollNames, TwoPlayers, WholeMessage DEF Counts
<1>7. CASE exch[r] = "recvCommitment"
  <2>1. t + 1 = 3*k - 2 /\ main[r] # "awaitConfirmation"
    BY <1>2, <1>5, <1>7 DEF Tally, PairInv
  <2> QED
    BY <1>6, <1>7, <2>1, MessageNumbers
<1>8. CASE exch[r] = "recvSecret"
  <2>1. t + 1 = 3*k - 1 /\ main[r] # "awaitConfirmation"
    BY <1>2, <1>5, <1>8 DEF Tally, PairInv
  <2> QED
    BY <1>6, <1>8, <2>1, MessageNumbers
<1>9. CASE main[r] = "awaitConfirmation"
  <2>1. exch[r] = "done"
    BY <1>9 DEF PairInv
  <2>2. t + 1 = 3*k
    BY <1>2, <1>5, <1>9 DEF Tally
  <2>3. Received(r) = ConfirmationMsg(rollOf(<<q, k>>, <<p, k>>))
    BY <1>6, <2>2, MessageNumbers
  <2> QED
    BY <1>2, <1>6, <2>1, <2>3
<1> QED
  BY <1>7, <1>8, <1>9

(* What a goroutine receives is counted.                                   *)
LEMMA CountRecv ==
    ASSUME TypeOK, PairInv, ReadInv, CountInv, NEW r \in RollIds,
           RecvCommitment(r) \/ RecvSecret(r) \/ RecvConfirmation(r)
    PROVE  CountInv'
<1>1. PICK sent \in [Players -> 0..(3 * MaxRolls)] : Counted(sent)
  BY DEF CountInv
<1>2. PICK p \in Players, k \in 1..MaxRolls : r = <<p, k>>
  BY RollNames
<1>3. PICK q \in Players, s \in Int, t \in Int : Counts(p, q, sent, s, t)
  BY <1>1, CountsExist
<1>4. PICK u \in Int : u = t + 1
  OBVIOUS
<1>5. main[<<p, k>>] \notin {"idle", "ok"} /\ Recv(r)
  BY <1>2 DEF RecvCommitment, RecvSecret, RecvConfirmation, PairInv
<1>6. InRoll(p, k) /\ Tally(p, k, s, t)
  BY <1>3, <1>5, PlacedIn DEF Counts
<1>7. ASSUME NEW x, NEW m, Moves(<<p, k>>, x, m), Placed(p, s, u)'
      PROVE  CountInv'
  BY <1>1, <1>2, <1>3, <1>4, <1>5, <1>7, CountReceived DEF Counts
<1>8. CASE RecvCommitment(r)
  <2>1. Moves(r, "sendSecret", main[r]) /\ exch[r] = "recvCommitment"
    <3>1. exch[r] = "recvCommitment"
      BY <1>8 DEF RecvCommitment
    <3>2. Received(r) = CommitmentMsg(<<Peer(r), r[2]>>)
      BY <1>5, <3>1, NextReceived
    <3>3. Received(r).type = "Commitment"
      BY <3>2 DEF CommitmentMsg
    <3>4. ExchangeTo(r, "sendSecret") /\ main' = main
      BY <1>8, <3>3 DEF RecvCommitment
    <3> QED
      BY <3>1, <3>4 DEF Moves, ExchangeTo, TypeOK
  <2>2. InRoll(p, k)'
    BY <1>2, <1>5, <1>6, <2>1, InRollStep
  <2>3. exch'[<<p, k>>] = "sendSecret" /\ main'[<<p, k>>] = main[<<p, k>>]
    BY <1>2, <2>1, MovesRoll
  <2>4. Tally(p, k, s, u)'
    BY <1>2, <1>4, <1>6, <2>1, <2>3 DEF Tally, PairInv
  <2> QED
    BY <1>2, <1>7, <2>1, <2>2, <2>4 DEF Placed
<1>9. CASE RecvSecret(r)
  <2>1. Moves(r, "pushSecret", main[r]) /\ exch[r] = "recvSecret"
    <3>1. exch[r] = "recvSecret"
      BY <1>9 DEF RecvSecret
    <3>2. Received(r) = SecretMsg(<<Peer(r), r[2]>>)
      BY <1>5, <3>1, NextReceived
    <3>3. Received(r).type = "Secret"
      BY <3>2 DEF SecretMsg
    <3>4. ExchangeTo(r, "pushSecret") /\ main' = main
      BY <1>9, <3>3 DEF RecvSecret
    <3> QED
      BY <3>1, <3>4 DEF Moves, ExchangeTo, TypeOK
  <2>2. InRoll(p, k)'
    BY <1>2, <1>5, <1>6, <2>1, InRollStep
  <2>3. exch'[<<p, k>>] = "pushSecret" /\ main'[<<p, k>>] = main[<<p, k>>]
    BY <1>2, <2>1, MovesRoll
  <2>4. Tally(p, k, s, u)'
    BY <1>2, <1>4, <1>6, <2>1, <2>3 DEF Tally, PairInv
  <2> QED
    BY <1>2, <1>7, <2>1, <2>2, <2>4 DEF Placed
<1>10. CASE RecvConfirmation(r)
  <2>1. exch[r] = "done" /\ main[r] = "awaitConfirmation"
    BY <1>10 DEF RecvConfirmation, PairInv
  <2>2. s = 3*k /\ t = 3*k - 1
    BY <1>2, <1>6, <2>1 DEF Tally
  <2>3. CASE Moves(r, "done", "ok")
    <3>1. PICK n \in Int : n = k + 1
      OBVIOUS
    <3>2. n \in 1..(MaxRolls + 1) /\ InRoll(p, n)'
      BY <1>2, <1>6, <2>3, <3>1, NextRoll
    <3>3. n <= MaxRolls => main[<<p, n>>] = "idle" /\ exch[<<p, n>>] = "idle"
      <4> SUFFICES ASSUME n <= MaxRolls PROVE main[<<p, n>>] = "idle" /\ exch[<<p, n>>] = "idle"
        OBVIOUS
      <4>1. main[<<p, n>>] = "idle" /\ <<p, n>> \in RollIds
        BY <1>6, <3>1, RollNames DEF InRoll
      <4> QED
        BY <4>1 DEF PairInv
    <3>4. n <= MaxRolls => main'[<<p, n>>] = "idle" /\ exch'[<<p, n>>] = "idle"
      BY <1>2, <2>3, <3>1, <3>3, MovesRoll
    <3>5. Tally(p, n, s, u)'
      BY <1>4, <2>2, <3>1, <3>4 DEF Tally
    <3> QED
      BY <1>2, <1>7, <2>3, <3>2, <3>5 DEF Placed
  <2>4. CASE Moves(r, "done", "failed")
    <3>1. InRoll(p, k)'
      BY <1>2, <1>6, <2>4, InRollStep
    <3>2. exch'[<<p, k>>] = "done" /\ main'[<<p, k>>] = "failed"
      BY <1>2, <2>4, MovesRoll
    <3>3. Tally(p, k, s, u)'
      BY <1>4, <2>2, <3>2 DEF Tally
    <3> QED
      BY <1>2, <1>7, <2>4, <3>1, <3>3 DEF Placed
  <2> QED
    BY <1>10, <2>1, <2>3, <2>4 DEF RecvConfirmation, Moves, MainTo, TypeOK
<1> QED
  BY <1>8, <1>9, <1>10

(* What the goroutines do without the link leaves the counts as they are.  *)
LEMMA CountQuiet ==
    ASSUME TypeOK, PairInv, CountInv, NEW r \in RollIds,
           \/ ExchangeIOFails(r) \/ PushSeesCancel(r) \/ Meet(r)
           \/ WaiterSeesCancel(r) \/ ConfirmIOFails(r)
    PROVE  CountInv'
<1>1. PICK sent \in [Players -> 0..(3 * MaxRolls)] : Counted(sent)
  BY DEF CountInv
<1>2. PICK p \in Players, k \in 1..MaxRolls : r = <<p, k>>
  BY RollNames
<1>3. PICK q \in Players, s \in Int, t \in Int : Counts(p, q, sent, s, t)
  BY <1>1, CountsExist
<1>4. ASSUME NEW x, NEW m, Moves(r, x, m), m # "ok", main[r] \notin {"idle", "ok"},
             chan' = chan,
             \/ x = "pushErr"
             \/ x = "done" /\ m = "failed"
             \/ x = exch[r] /\ m = "failed"
             \/ x = "pushCommitment" /\ m = "awaitCommitment" /\ exch[r] = "pushSecret"
             \/ x = "done" /\ m = "confirm" /\ exch[r] = "pushCommitment",
             m \in {"confirm", "awaitConfirmation"} => x = "done"
      PROVE  CountInv'
  <2>1. InRoll(p, k) /\ Tally(p, k, s, t)
    BY <1>2, <1>3, <1>4, PlacedIn DEF Counts
  <2>2. InRoll(p, k)'
    BY <1>2, <1>4, <2>1, InRollStep
  <2>3. exch'[<<p, k>>] = x /\ main'[<<p, k>>] = m
    BY <1>2, <1>4, MovesRoll
  <2>4. Tally(p, k, s, t)'
    BY <1>2, <1>4, <2>1, <2>3 DEF Tally
  <2>5. Placed(p, s, t)'
    BY <2>2, <2>4 DEF Placed
  <2> QED
    BY <1>1, <1>2, <1>3, <1>4, <2>5, CountKept DEF Counts
<1> USE DEF Moves, ExchangeTo, MainTo, TypeOK, PairInv
<1>5. CASE ExchangeIOFails(r) \/ PushSeesCancel(r)
  <2>1. /\ Moves(r, "pushErr", main[r]) /\ chan' = chan
        /\ main[r] \notin {"idle", "ok", "confirm", "awaitConfirmation"}
    BY <1>5 DEF ExchangeIOFails, PushSeesCancel
  <2> QED
    BY <1>4, <2>1
<1>6. CASE DeliverSecret(r)
  BY <1>4, <1>6 DEF DeliverSecret
<1>7. CASE DeliverCommitment(r)
  BY <1>4, <1>7 DEF DeliverCommitment
<1>8. CASE DeliverErr(r)
  BY <1>4, <1>8 DEF DeliverErr
<1>9. CASE WaiterSeesCancel(r) \/ ConfirmIOFails(r)
  <2>1. /\ Moves(r, exch[r], "failed") /\ chan' = chan /\ main[r] \notin {"idle", "ok"}
    BY <1>9 DEF WaiterSeesCancel, ConfirmIOFails
  <2> QED
    BY <1>4, <2>1
<1> QED
  BY <1>5, <1>6, <1>7, <1>8, <1>9 DEF Meet

(* Where no goroutine moves and nothing is sent or received.               *)
LEMMA CountFrame ==
    ASSUME CountInv, UNCHANGED <<chan, exch, main>>
    PROVE  CountInv'
<1>1. PICK sent \in [Players -> 0..(3 * MaxRolls)] : Counted(sent)
  BY DEF CountInv
<1>2. ASSUME NEW p \in Players, NEW s, NEW t, Placed(p, s, t) PROVE Placed(p, s, t)'
  <2>1. PICK k \in 1..(MaxRolls + 1) : InRoll(p, k) /\ Tally(p, k, s, t)
    BY <1>2 DEF Placed
  <2>2. InRoll(p, k)' /\ Tally(p, k, s, t)'
    BY <2>1 DEF InRoll, Tally
  <2> QED
    BY <2>2 DEF Placed
<1>3. ASSUME NEW p \in Players
      PROVE  /\ Placed(p, sent[p], sent[Other(p)] - Len(chan[p]))'
             /\ \A i \in DOMAIN chan'[p] :
                   IsMessage(Other(p), sent[Other(p)] - Len(chan'[p]) + i, chan'[p][i])
  <2>1. chan' = chan
    OBVIOUS
  <2>2. /\ Placed(p, sent[p], sent[Other(p)] - Len(chan[p]))
        /\ \A i \in DOMAIN chan[p] :
              IsMessage(Other(p), sent[Other(p)] - Len(chan[p]) + i, chan[p][i])
    BY <1>1 DEF Counted
  <2>3. PICK s, t : s = sent[p] /\ t = sent[Other(p)] - Len(chan[p])
    OBVIOUS
  <2>4. Placed(p, s, t)'
    BY <1>2, <2>2, <2>3
  <2> QED
    BY <2>1, <2>2, <2>3, <2>4
<1>4. Counted(sent)'
  BY <1>3 DEF Counted
<1> QED
  BY <1>4 DEF CountInv

(* The goroutines of a roll, and what it received: PairInv and RollsPairUp *)
(* of one roll.                                                            *)
PairedAt(r) ==
    /\ exch[r] = "idle" <=> main[r] = "idle"
    /\ exch[r] = "done" => main[r] \in {"confirm", "awaitConfirmation", "ok", "failed"}
    /\ main[r] \in {"confirm", "awaitConfirmation", "ok"} => exch[r] = "done"
    /\ commitIn[r] # None => commitIn[r] = calculateCommitment(<<Peer(r), r[2]>>)
    /\ secretIn[r] # None => secretIn[r] = <<Peer(r), r[2]>>
    /\ computed[r] # None => computed[r] = rollOf(r, <<Peer(r), r[2]>>)

(* They speak of the same rolls (Roller.Roll, startExchange).              *)
LEMMA PairedRolls ==
    /\ PairInv /\ RollsPairUp <=> \A r \in RollIds : PairedAt(r)
    /\ (\A r \in RollIds : PairedAt(r)') => PairInv' /\ RollsPairUp'
BY DEF PairedAt, PairInv, RollsPairUp

(* What a goroutine takes from the link is of the peer's roll of the same  *)
(* number, and so is what the roll works out of it (Roller.Roll).          *)
LEMMA PairStep ==
    ASSUME TypeOK, ProgressInv, InLockstep, [Next]_vars
    PROVE  PairInv' /\ RollsPairUp'
<1>0. \A r \in RollIds : PairedAt(r)
  BY PairedRolls DEF InLockstep
<1> SUFFICES ASSUME NEW q \in RollIds PROVE PairedAt(q)'
  BY PairedRolls
<1> USE DEF TypeOK, ExchangeTo, MainTo
<1>1. ASSUME NEW r \in RollIds, Roll(r) PROVE PairedAt(q)'
  BY <1>0, <1>1 DEF Roll, MayRoll, PairedAt
<1>2. ASSUME NEW r \in RollIds, SendCommitment(r) \/ SendSecret(r) PROVE PairedAt(q)'
  BY <1>0, <1>2 DEF SendCommitment, SendSecret, PairedAt
<1>3. ASSUME NEW r \in RollIds, RecvCommitment(r) PROVE PairedAt(q)'
  <2>1. exch[r] = "recvCommitment" /\ Recv(r)
    BY <1>3 DEF RecvCommitment
  <2>2. Received(r) = CommitmentMsg(<<Peer(r), r[2]>>)
    BY <2>1, NextReceived DEF InLockstep
  <2>3. /\ Received(r).type = "Commitment"
        /\ Received(r).data = calculateCommitment(<<Peer(r), r[2]>>)
    BY <2>2 DEF CommitmentMsg
  <2>4. /\ commitIn' = [commitIn EXCEPT ![r] = calculateCommitment(<<Peer(r), r[2]>>)]
        /\ exch' = [exch EXCEPT ![r] = "sendSecret"]
        /\ UNCHANGED <<main, secretIn, computed>>
    BY <1>3, <2>3 DEF RecvCommitment
  <2> HIDE DEF calculateCommitment
  <2> QED
    BY <1>0, <2>1, <2>4 DEF PairedAt
<1>4. ASSUME NEW r \in RollIds, RecvSecret(r) PROVE PairedAt(q)'
  <2>1. exch[r] = "recvSecret" /\ Recv(r)
    BY <1>4 DEF RecvSecret
  <2>2. Received(r) = SecretMsg(<<Peer(r), r[2]>>)
    BY <2>1, NextReceived DEF InLockstep
  <2>3. /\ Received(r).type = "Secret"
        /\ Received(r).data = <<Peer(r), r[2]>>
    BY <2>2 DEF SecretMsg
  <2>4. /\ secretIn' = [secretIn EXCEPT ![r] = <<Peer(r), r[2]>>]
        /\ exch' = [exch EXCEPT ![r] = "pushSecret"]
        /\ UNCHANGED <<main, commitIn, computed>>
    BY <1>4, <2>3 DEF RecvSecret
  <2> QED
    BY <1>0, <2>1, <2>4 DEF PairedAt
<1>5. ASSUME NEW r \in RollIds, ExchangeIOFails(r) \/ PushSeesCancel(r) PROVE PairedAt(q)'
  BY <1>0, <1>5 DEF ExchangeIOFails, PushSeesCancel, PairedAt
<1>6. ASSUME NEW r \in RollIds, Meet(r) PROVE PairedAt(q)'
  <2>1. CASE DeliverSecret(r) \/ DeliverErr(r)
    BY <1>0, <2>1 DEF DeliverSecret, DeliverErr, PairedAt
  <2>2. CASE DeliverCommitment(r)
    <3>1. exch[r] = "pushCommitment" /\ secretIn[r] = <<Peer(r), r[2]>>
      BY <1>0, <2>2 DEF DeliverCommitment, ProgressInv, PairedAt
    <3>2. \/ /\ computed' = [computed EXCEPT ![r] = rollOf(r, <<Peer(r), r[2]>>)]
             /\ main' = [main EXCEPT ![r] = "confirm"]
          \/ computed' = computed /\ main' = [main EXCEPT ![r] = "failed"]
      BY <2>2, <3>1 DEF DeliverCommitment
    <3>3. exch' = [exch EXCEPT ![r] = "done"] /\ UNCHANGED <<commitIn, secretIn>>
      BY <2>2 DEF DeliverCommitment
    <3>4. CASE q # r
      <4>1. /\ exch'[q] = exch[q] /\ main'[q] = main[q] /\ commitIn'[q] = commitIn[q]
            /\ secretIn'[q] = secretIn[q] /\ computed'[q] = computed[q]
        BY <3>2, <3>3, <3>4
      <4> QED
        BY <1>0, <4>1 DEF PairedAt
    <3>5. CASE q = r
      <4>1. exch'[r] = "done" /\ main'[r] \in {"confirm", "failed"}
        BY <3>2, <3>3
      <4>2. computed'[r] \in {computed[r], rollOf(r, <<Peer(r), r[2]>>)}
        BY <3>2
      <4> QED
        BY <1>0, <3>3, <3>5, <4>1, <4>2 DEF PairedAt
    <3> QED
      BY <3>4, <3>5
  <2> QED
    BY <1>6, <2>1, <2>2 DEF Meet
<1>7. ASSUME NEW r \in RollIds, Main(r) PROVE PairedAt(q)'
  BY <1>0, <1>7 DEF Main, WaiterSeesCancel, ConfirmIOFails, SendConfirmation, RecvConfirmation,
                    PairedAt
<1>9. ASSUME NEW r \in RollIds, Read(r) PROVE PairedAt(q)'
  BY <1>0, <1>9, FirstRead DEF PairedAt
<1>8. CASE UNCHANGED <<exch, main, commitIn, secretIn, computed>>
  BY <1>0, <1>8 DEF PairedAt
<1> QED
  BY <1>1, <1>2, <1>3, <1>4, <1>5, <1>6, <1>7, <1>8, <1>9 DEF Next, Exchange, Cancel, Finished, vars

(* Every step keeps the counts, when nobody rolls again after an error.    *)
LEMMA CountStep ==
    ASSUME ~ RollAfterFailure, TypeOK, ProgressInv, InLockstep, [Next]_vars
    PROVE  CountInv'
<1> USE DEF InLockstep
<1>1. ASSUME NEW r \in RollIds, Roll(r) PROVE CountInv'
  BY <1>1, CountRoll
<1>2. ASSUME NEW r \in RollIds, Exchange(r) \/ Meet(r) \/ Main(r) PROVE CountInv'
  BY <1>2, CountSend, CountRecv, CountQuiet DEF Exchange, Main
<1>3. CASE UNCHANGED <<chan, exch, main>>
  BY <1>3, CountFrame
<1>4. ASSUME NEW r \in RollIds, Read(r) PROVE CountInv'
  BY <1>4, FirstRead, CountFrame
<1> QED
  BY <1>1, <1>2, <1>3, <1>4 DEF Next, Cancel, Finished, vars

(* Where nothing is received, a reader of a message is still one, and its  *)
(* message still the first.                                                *)
LEMMA ReadFrame ==
    ASSUME TypeOK, ReadInv, UNCHANGED <<taken, reading>>,
           \A r \in RollIds : Link = "pipe" /\ Receiving(r) => Receiving(r)',
           \A p \in Players : chan[p] # << >> =>
               chan'[p] # << >> /\ Head(chan'[p]) = Head(chan[p])
    PROVE  ReadInv'
BY RollOwners DEF ReadInv

(* A message is read by one goroutine from its type to its last byte, when *)
(* nobody rolls again after an error (ReadMessage).                        *)
LEMMA ReadStep ==
    ASSUME TypeOK, InLockstep, [Next]_vars
    PROVE  ReadInv'
<1> USE DEF InLockstep
<1>1. ASSUME NEW r \in RollIds, SendCommitment(r) \/ SendSecret(r) \/ SendConfirmation(r)
      PROVE  ReadInv'
  <2>1. PICK m : Send(r, m)
    BY <1>1 DEF SendCommitment, SendSecret, SendConfirmation
  <2>2. ASSUME NEW p \in Players, chan[p] # << >>
        PROVE  chan'[p] # << >> /\ Head(chan'[p]) = Head(chan[p])
    <3>1. chan[p] \in Seq(Message)
      BY DEF TypeOK
    <3>2. chan'[p] = chan[p] \/ chan'[p] = Append(chan[p], m)
      BY <2>1 DEF Send, TypeOK
    <3>3. Len(chan[p]) > 0 /\ Head(chan[p]) = chan[p][1]
      BY <2>2, <3>1
    <3>4. /\ Append(chan[p], m) # << >>
          /\ Head(Append(chan[p], m)) = Head(chan[p])
      BY <3>1, <3>3
    <3> QED
      BY <2>2, <3>2, <3>4
  <2>3. \A o \in RollIds : Receiving(o) => Receiving(o)'
    BY <1>1 DEF SendCommitment, SendSecret, SendConfirmation, Receiving, ExchangeTo, MainTo,
                TypeOK
  <2> QED
    BY <2>1, <2>2, <2>3, ReadFrame DEF Send
<1>2. ASSUME NEW r \in RollIds, Recv(r), Receiving(r),
             \A o \in RollIds : o # r /\ Receiving(o) => Receiving(o)'
      PROVE  ReadInv'
  <2> DEFINE p == Owner(r)
  <2>1. /\ chan' = [chan EXCEPT ![p] = Tail(@)]
        /\ taken' = [taken EXCEPT ![p] = 0]
        /\ reading' = [reading EXCEPT ![r] = None]
    BY <1>2, WholeMessage
  <2>2. ASSUME NEW o \in RollIds, reading'[o] # None
        PROVE  /\ o # r /\ reading[o] # None /\ reading'[o] = reading[o] /\ Owner(o) # p
               /\ Receiving(o) /\ Receiving(o)'
    <3>1. o # r /\ reading[o] # None /\ reading'[o] = reading[o]
      BY <2>1, <2>2 DEF TypeOK
    <3>2. Receiving(o)
      BY <3>1 DEF ReadInv
    <3> QED
      BY <1>2, <3>1, <3>2, OneReader
  <2>3. ASSUME NEW q \in Players, q # p
        PROVE  /\ chan'[q] = chan[q] /\ taken'[q] = taken[q]
               /\ \A o \in RollIds : Owner(o) = q => reading'[o] = reading[o]
    BY <2>1, <2>3 DEF TypeOK
  <2>4. p \in Players /\ taken'[p] = 0
    BY <2>1, RollOwners DEF TypeOK
  <2>5. ASSUME NEW q \in Players
        PROVE  /\ taken'[q] \in {0, 1}
               /\ taken'[q] = 1 => \E o \in RollIds : Owner(o) = q /\ reading'[o] # None
    BY <2>3, <2>4 DEF ReadInv
  <2>6. ASSUME NEW o \in RollIds, reading'[o] # None
        PROVE  /\ Link = "pipe" /\ Receiving(o)'
               /\ taken'[Owner(o)] = 1 /\ chan'[Owner(o)] # << >>
               /\ reading'[o] = [type |-> Head(chan'[Owner(o)]).type, need |-> Width]
    BY <2>2, <2>3, <2>6, RollOwners DEF ReadInv
  <2> QED
    BY <2>5, <2>6 DEF ReadInv
<1>3. ASSUME NEW r \in RollIds, RecvCommitment(r) \/ RecvSecret(r) \/ RecvConfirmation(r)
      PROVE  ReadInv'
  BY <1>2, <1>3 DEF RecvCommitment, RecvSecret, RecvConfirmation, Receiving, ExchangeTo,
                    MainTo, TypeOK
<1>4. ASSUME NEW r \in RollIds, Read(r) PROVE ReadInv'
  <2> DEFINE p == Owner(r)
  <2>1. /\ Link = "pipe" /\ Receiving(r) /\ chan[p] # << >> /\ p \in Players
        /\ taken' = [taken EXCEPT ![p] = 1]
        /\ reading' = [reading EXCEPT ![r] = [type |-> Head(chan[p]).type, need |-> Width]]
        /\ UNCHANGED <<chan, exch, main>>
    BY <1>4, FirstRead, RollOwners
  <2>2. \A o \in RollIds : Receiving(o)' <=> Receiving(o)
    BY <2>1 DEF Receiving
  <2>3. reading'[r] # None
    BY <2>1, NoneIsNoReading DEF TypeOK
  <2> QED
    BY <2>1, <2>2, <2>3, RollOwners DEF ReadInv, TypeOK
<1>5. ASSUME NEW r \in RollIds,
             \/ Roll(r) \/ ExchangeIOFails(r) \/ PushSeesCancel(r) \/ Meet(r)
             \/ WaiterSeesCancel(r) \/ ConfirmIOFails(r) \/ Cancel(r)
      PROVE  ReadInv'
  <2>1. UNCHANGED <<chan, taken, reading>>
    BY <1>5 DEF Roll, ExchangeIOFails, PushSeesCancel, Meet, DeliverSecret,
                DeliverCommitment, DeliverErr, WaiterSeesCancel, ConfirmIOFails, Cancel
  <2>2. \A o \in RollIds : Link = "pipe" /\ Receiving(o) => Receiving(o)'
    BY <1>5 DEF Roll, MayRoll, ExchangeIOFails, PushSeesCancel, Meet, DeliverSecret,
                DeliverCommitment, DeliverErr, WaiterSeesCancel, ConfirmIOFails, Cancel,
                Receiving, RecvSeesCancel, ExchangeTo, MainTo, TypeOK, PairInv
  <2> QED
    BY <2>1, <2>2, ReadFrame
<1>6. CASE UNCHANGED vars
  BY <1>6, ReadFrame DEF vars, Receiving
<1> QED
  BY <1>1, <1>3, <1>4, <1>5, <1>6 DEF Next, Exchange, Main, Finished

(* Nothing is sent or received before the first roll.                      *)
LEMMA LockstepInit == Init => InLockstep
<1> SUFFICES ASSUME Init PROVE InLockstep
  OBVIOUS
<1> USE DEF Init
<1>1. PairInv /\ ReadInv /\ RollsPairUp
  BY DEF PairInv, ReadInv, RollsPairUp
<1> DEFINE sent == [p \in Players |-> 0]
<1>2. ASSUME NEW p \in Players PROVE Placed(p, 0, 0)
  <2>1. \A j \in 1..MaxRolls : main[<<p, j>>] = "idle" /\ exch[<<p, j>>] = "idle"
    BY RollNames
  <2>2. InRoll(p, 1) /\ Tally(p, 1, 0, 0) /\ 1 \in 1..(MaxRolls + 1)
    BY <2>1 DEF InRoll, Tally
  <2> QED
    BY <2>2 DEF Placed
<1>3. \A p \in Players : sent[p] - Len(chan[Other(p)]) = 0 /\ sent[Other(p)] - Len(chan[p]) = 0
  BY TwoPlayers
<1>4. Counted(sent)
  BY <1>2, <1>3 DEF Counted
<1>5. sent \in [Players -> 0..(3 * MaxRolls)]
  OBVIOUS
<1> QED
  BY <1>1, <1>4, <1>5 DEF InLockstep, CountInv

(* Players who stop at their first error stay in step: every message they  *)
(* receive is the next of the other's (startExchange, confirmRoll).        *)
THEOREM Lockstep == ~ RollAfterFailure => (Spec => []InLockstep)
<1> SUFFICES ASSUME ~ RollAfterFailure PROVE Spec => []InLockstep
  OBVIOUS
<1>1. Inductive /\ InLockstep /\ [Next]_vars => InLockstep'
  <2> SUFFICES ASSUME Inductive, InLockstep, [Next]_vars PROVE InLockstep'
    OBVIOUS
  <2>1. PairInv' /\ RollsPairUp'
    BY PairStep DEF Inductive
  <2>2. CountInv'
    BY CountStep DEF Inductive
  <2>3. ReadInv'
    BY ReadStep DEF Inductive
  <2> QED
    BY <2>1, <2>2, <2>3 DEF InLockstep
<1> QED
  BY <1>1, LockstepInit, InductiveInvariant, PTL DEF Spec

(* The players' k-th rolls belong together (Roller.Roll, called again      *)
(* after RollSync has returned well).                                      *)
THEOREM PairedUp == ~ RollAfterFailure => (Spec => []RollsPairUp)
<1> SUFFICES ASSUME ~ RollAfterFailure PROVE Spec => []RollsPairUp
  OBVIOUS
<1>1. InLockstep => RollsPairUp
  BY DEF InLockstep
<1> QED
  BY <1>1, Lockstep, PTL

(* A link with room for two messages per direction never blocks a Send     *)
(* (ChannelPeer): there are never more on their way to a player.           *)
THEOREM TwoInFlight == ~ RollAfterFailure => (Spec => []AtMostTwoInFlight)
<1> SUFFICES ASSUME ~ RollAfterFailure PROVE Spec => []AtMostTwoInFlight
  OBVIOUS
<1>1. TypeOK /\ InLockstep => AtMostTwoInFlight
  <2> SUFFICES ASSUME TypeOK, InLockstep, NEW p \in Players PROVE Len(chan[p]) <= 2
    BY DEF AtMostTwoInFlight
  <2>1. PICK sent \in [Players -> 0..(3 * MaxRolls)] : Counted(sent)
    BY DEF InLockstep, CountInv
  <2>2. PICK q \in Players : q = Other(p) /\ p = Other(q)
    BY TwoPlayers
  <2>3. Len(chan[p]) \in Nat /\ Len(chan[q]) \in Nat
    BY DEF TypeOK
  <2>4. /\ Placed(p, sent[p], sent[q] - Len(chan[p]))
        /\ Placed(q, sent[q], sent[p] - Len(chan[q]))
    BY <2>1, <2>2 DEF Counted
  <2>5. ASSUME NEW r, NEW s, NEW t, Placed(r, s, t) PROVE s \in {t, t + 1}
    <3>1. PICK k \in 1..(MaxRolls + 1) : Tally(r, k, s, t)
      BY <2>5 DEF Placed
    <3> QED
      BY <3>1 DEF Tally
  <2>6. sent[p] \in Int /\ sent[q] \in Int
    BY <2>2
  <2>7. /\ sent[p] <= sent[q] - Len(chan[p]) + 1
        /\ sent[q] <= sent[p] - Len(chan[q]) + 1
    BY <2>3, <2>4, <2>5, <2>6
  <2> QED
    BY <2>3, <2>6, <2>7
<1> QED
  BY <1>1, Lockstep, TypeCorrect, PTL
=============================================================================
