--------------------------- MODULE DiceRollProofs ---------------------------
(***************************************************************************)
(* Theorems about DiceRoll, for every capacity of the link, every number   *)
(* of rolls, every kind of peer, and whether or not contexts are cancelled *)
(* and rolls retried: the messages that two goroutines tear on a pipe      *)
(* included.                                                               *)
(***************************************************************************)
EXTENDS DiceRoll, TLAPS

USE PlayersAssumption, BoundsAssumption, NoneAssumption

(* The opponent of a player is the other player, and of him the first:     *)
(* links run between the two players and nobody else.                      *)
LEMMA OtherIsPlayer ==
    \A p \in Players : Other(p) \in Players /\ Other(Other(p)) = p
BY DEF Players, Other

(* A roll's owner and its opponent are players, and each is the other's    *)
(* opponent: whose message goes to whom (ChannelPeer's crossed channels).  *)
LEMMA RollOwners ==
    \A r \in RollIds : /\ Owner(r) \in Players /\ Peer(r) \in Players
                       /\ Other(Peer(r)) = Owner(r) /\ Other(Owner(r)) = Peer(r)
BY OtherIsPlayer DEF RollIds, Owner, Peer

(* Every kind of message a goroutine sends is a message of the link        *)
(* (message.go).                                                           *)
LEMMA Constructors ==
    /\ \A r \in RollIds : CommitmentMsg(r) \in Message /\ SecretMsg(r) \in Message
    /\ \A v \in Outcomes : ConfirmationMsg(v) \in Message
    /\ \A r, s \in RollIds : rollOf(r, s) \in Outcomes
    /\ \A r \in RollIds : calculateCommitment(r) \in Commitments
BY DEF Message, Outcomes, Commitments

(* A Send keeps the messages on the link and adds one at the end.          *)
LEMMA AppendElements ==
    ASSUME NEW S, NEW q \in Seq(S), NEW m \in S
    PROVE  /\ Append(q, m) \in Seq(S)
           /\ Len(Append(q, m)) = Len(q) + 1
           /\ \A i \in DOMAIN Append(q, m) :
                 \/ Append(q, m)[i] = m
                 \/ i \in DOMAIN q /\ Append(q, m)[i] = q[i]
OBVIOUS

(* A Recv takes the first message and leaves the others as they are.       *)
LEMMA TailElements ==
    ASSUME NEW S, NEW q \in Seq(S), q # << >>
    PROVE  /\ Tail(q) \in Seq(S)
           /\ Len(Tail(q)) = Len(q) - 1
           /\ Head(q) \in S /\ 1 \in DOMAIN q /\ Head(q) = q[1]
           /\ \A i \in DOMAIN Tail(q) : i + 1 \in DOMAIN q /\ Tail(q)[i] = q[i + 1]
OBVIOUS

(* After a Read the link to a player is as it was, or without its first    *)
(* message, the last byte of which has been read.                          *)
Shortened ==
    \A p \in Players : \/ chan'[p] = chan[p]
                       \/ chan[p] # << >> /\ chan'[p] = Tail(chan[p])

(* A Read of some of the bytes that are left (io.Pipe).                    *)
LEMMA TakeBytes ==
    ASSUME TypeOK, NEW p \in Players, chan[p] # << >>, NEW n \in 1..Left(p), Take(p, n)
    PROVE  /\ chan' \in [Players -> Seq(Message)]
           /\ \A q \in Players : Len(chan'[q]) <= Cap
           /\ taken' \in [Players -> 0..Width]
           /\ Shortened
<1> USE WidthAssumption DEF TypeOK, Shortened
<1>1. taken[p] \in 0..Width /\ Left(p) = Width + 1 - taken[p] /\ chan[p] \in Seq(Message)
  BY DEF Left
<1>2. CASE n < Left(p)
  <2>1. taken' = [taken EXCEPT ![p] = taken[p] + n] /\ chan' = chan
    BY <1>2 DEF Take
  <2>2. taken[p] + n \in 0..Width
    BY <1>1, <1>2
  <2> QED
    BY <2>1, <2>2
<1>3. CASE ~ (n < Left(p))
  <2>1. /\ taken' = [taken EXCEPT ![p] = 0]
        /\ chan' = [chan EXCEPT ![p] = Tail(chan[p])]
    BY <1>3 DEF Take
  <2>2. Tail(chan[p]) \in Seq(Message) /\ Len(Tail(chan[p])) = Len(chan[p]) - 1
    BY <1>1, TailElements
  <2> QED
    BY <2>1, <2>2
<1> QED
  BY <1>2, <1>3

(* So does Recv on any link, and what a reader has read of a message is    *)
(* its type and some of its data.                                          *)
LEMMA LinkRead ==
    ASSUME TypeOK, NEW r \in RollIds, Recv(r) \/ Read(r)
    PROVE  /\ chan' \in [Players -> Seq(Message)]
           /\ \A q \in Players : Len(chan'[q]) <= Cap
           /\ taken' \in [Players -> 0..Width]
           /\ reading' \in [RollIds -> Readings \cup {None}]
           /\ Shortened
<1> USE WidthAssumption DEF TypeOK
<1> DEFINE p == Owner(r)
<1>1. p \in Players /\ chan[p] \in Seq(Message) /\ taken[p] \in 0..Width
  BY RollOwners
<1>2. Left(p) \in 1..(Width + 1) /\ Left(p) = Width + 1 - taken[p]
  BY <1>1 DEF Left
<1>3. reading[r] # None => reading[r].type \in MsgTypes /\ reading[r].need \in 1..Width
  BY DEF Readings
<1>4. CASE Recv(r) /\ Link # "pipe"
  <2>1. Tail(chan[p]) \in Seq(Message) /\ Len(Tail(chan[p])) = Len(chan[p]) - 1
    BY <1>1, <1>4, TailElements DEF Recv
  <2>2. /\ chan' = [chan EXCEPT ![p] = Tail(chan[p])] /\ chan[p] # << >>
        /\ UNCHANGED <<taken, reading>>
    BY <1>4 DEF Recv
  <2> QED
    BY <1>1, <2>1, <2>2 DEF Shortened
<1>5. CASE Recv(r) /\ Link = "pipe"
  <2>1. /\ reading[r].need \in 1..Left(p) /\ Take(p, reading[r].need) /\ chan[p] # << >>
        /\ reading' = [reading EXCEPT ![r] = None]
    BY <1>2, <1>3, <1>5 DEF Recv
  <2> QED
    BY <1>1, <2>1, TakeBytes
<1>6. CASE ReadType(r)
  <2>1. 1 \in 1..Left(p) /\ Take(p, 1) /\ chan[p] # << >>
    BY <1>2, <1>6 DEF ReadType
  <2>2. Head(chan[p]).type \in MsgTypes
    <3>1. Head(chan[p]) \in Message
      BY <1>1, <2>1, TailElements
    <3> QED
      BY <3>1 DEF Message, CommitmentMsg, SecretMsg, ConfirmationMsg, MsgTypes
  <2>3. reading' \in [RollIds -> Readings \cup {None}]
    <3>1. \/ \E t \in MsgTypes :
                reading' = [reading EXCEPT ![r] = [type |-> t, need |-> Width]]
          \/ reading' = reading
      BY <1>6, <2>2 DEF ReadType
    <3>2. \A t \in MsgTypes : [type |-> t, need |-> Width] \in Readings
      BY WidthAssumption DEF Readings
    <3>3. reading \in [RollIds -> Readings \cup {None}]
      OBVIOUS
    <3> HIDE DEF TypeOK
    <3> QED
      BY <3>1, <3>2, <3>3
  <2> QED
    BY <1>1, <2>1, <2>3, TakeBytes
<1>7. CASE ReadPart(r)
  <2>1. /\ Left(p) \in 1..Left(p) /\ Take(p, Left(p)) /\ chan[p] # << >>
        /\ reading[r].need - Left(p) \in 1..Width
        /\ reading' = [reading EXCEPT ![r].need = reading[r].need - Left(p)]
    BY <1>2, <1>3, <1>7 DEF ReadPart
  <2>2. reading' \in [RollIds -> Readings \cup {None}]
    BY <1>3, <1>7, <2>1 DEF ReadPart, Readings
  <2> QED
    BY <1>1, <2>1, <2>2, TakeBytes
<1> QED
  BY <1>4, <1>5, <1>6, <1>7 DEF Read

(* Recv returns a message of the link, or one whose data nobody sent.      *)
LEMMA ReceivedMessage ==
    ASSUME TypeOK, NEW r \in RollIds, Recv(r)
    PROVE  \/ /\ Received(r) \in Message
              /\ 1 \in DOMAIN chan[Owner(r)] /\ Received(r) = chan[Owner(r)][1]
           \/ Received(r).data = Torn
<1> DEFINE m == Head(chan[Owner(r)])
<1>1. /\ Owner(r) \in Players /\ chan[Owner(r)] \in Seq(Message)
      /\ chan[Owner(r)] # << >>
  BY RollOwners DEF TypeOK, Recv
<1>2. m \in Message /\ 1 \in DOMAIN chan[Owner(r)] /\ m = chan[Owner(r)][1]
  BY <1>1, TailElements
<1>3. m = [type |-> m.type, data |-> m.data]
  BY <1>2 DEF Message, CommitmentMsg, SecretMsg, ConfirmationMsg
<1> QED
  BY <1>2, <1>3 DEF Received

(* Its data is of the kind that its type says, or torn.                    *)
LEMMA ReceivedData ==
    ASSUME TypeOK, NEW r \in RollIds, Recv(r)
    PROVE  /\ Received(r).type = "Commitment" => Received(r).data \in Commitments \cup {Torn}
           /\ Received(r).type = "Secret" => Received(r).data \in RollIds \cup {Torn}
BY ReceivedMessage DEF Message, CommitmentMsg, SecretMsg, ConfirmationMsg, Commitments

(* A torn commitment or secret has been received, but from nobody.         *)
LEMMA TornIsNothing ==
    Torn # None /\ Torn \notin RollIds /\ Torn \notin Commitments /\ Torn \notin Outcomes
BY TornAssumption
-----------------------------------------------------------------------------
(* The initial state satisfies the invariant: no goroutine has started and *)
(* the link is empty.                                                      *)
LEMMA InductiveInit == Init => Inductive
<1> SUFFICES ASSUME Init PROVE Inductive
  OBVIOUS
<1> USE DEF Init
<1>1. TypeOK
  BY WidthAssumption DEF TypeOK, ExchStates, MainStates
<1>2. LinkInv
  BY DEF LinkInv
<1>3. ProgressInv /\ KnowledgeInv /\ RollAgreement
  BY DEF ProgressInv, KnowledgeInv, RollAgreement
<1> QED
  BY <1>1, <1>2, <1>3 DEF Inductive

(* Only a secret opens a commitment, and no torn one: its hash is none     *)
(* that was received (verifyCommitment).                                   *)
LEMMA OpensToSecret ==
    ASSUME TypeOK, ProgressInv, NEW r \in RollIds, exch[r] = "pushCommitment",
           verifyCommitment(secretIn[r], commitIn[r])
    PROVE  secretIn[r] \in RollIds /\ commitIn[r] = calculateCommitment(secretIn[r])
<1>1. secretIn[r] \in RollIds \cup {Torn} /\ commitIn[r] \in Commitments \cup {Torn}
  BY DEF TypeOK, ProgressInv
<1>2. commitIn[r] = calculateCommitment(secretIn[r])
  BY DEF verifyCommitment
<1>3. ASSUME secretIn[r] = Torn PROVE FALSE
  <2>1. calculateCommitment(Torn) \notin Commitments
    BY TornAssumption DEF calculateCommitment, Commitments
  <2> QED
    BY <1>1, <1>2, <1>3, <2>1, TornAssumption
<1> QED
  BY <1>1, <1>2, <1>3

(* The types are kept by every step of every goroutine: what is received   *)
(* is a message of the link, what is computed is made of secrets.          *)
LEMMA TypeStep == TypeOK /\ ProgressInv /\ [Next]_vars => TypeOK'
<1> SUFFICES ASSUME TypeOK, ProgressInv, [Next]_vars PROVE TypeOK'
  OBVIOUS
<1> USE DEF TypeOK, ExchangeTo, MainTo, ExchStates, MainStates
<1>1. ASSUME NEW r \in RollIds, NEW m \in Message, Send(r, m)
      PROVE  /\ chan' \in [Players -> Seq(Message)]
             /\ \A p \in Players : Len(chan'[p]) <= Cap
             /\ UNCHANGED <<taken, reading>>
  <2>1. chan[Peer(r)] \in Seq(Message) /\ Peer(r) \in Players
    BY RollOwners
  <2>2. /\ Append(chan[Peer(r)], m) \in Seq(Message)
        /\ Len(Append(chan[Peer(r)], m)) = Len(chan[Peer(r)]) + 1
    BY <2>1, AppendElements
  <2> QED
    BY <1>1, <2>1, <2>2 DEF Send
<1>3. ASSUME NEW r \in RollIds, Roll(r) PROVE TypeOK'
  BY <1>3 DEF Roll, MayRoll
<1>4. ASSUME NEW r \in RollIds, Exchange(r) PROVE TypeOK'
  <2>1. CASE SendCommitment(r)
    BY <2>1, <1>1, Constructors DEF SendCommitment
  <2>2. CASE RecvCommitment(r)
    <3>1. Recv(r)
      BY <2>2 DEF RecvCommitment
    <3>2. \/ /\ commitIn' = [commitIn EXCEPT ![r] = Received(r).data]
             /\ Received(r).type = "Commitment" /\ ExchangeTo(r, "sendSecret")
          \/ ExchangeTo(r, "pushErr") /\ UNCHANGED commitIn
      BY <2>2 DEF RecvCommitment
    <3>3. UNCHANGED <<main, secretIn, computed, cancelled>>
      BY <2>2 DEF RecvCommitment
    <3>d. Received(r).type = "Commitment" => Received(r).data \in Commitments \cup {Torn}
      BY <3>1, ReceivedData
    <3>4. commitIn' \in [RollIds -> Commitments \cup {Torn, None}]
      BY <3>2, <3>d
    <3>5. exch' \in [RollIds -> ExchStates]
      BY <3>2
    <3> QED
      BY <3>1, <3>3, <3>4, <3>5, LinkRead
  <2>3. CASE SendSecret(r)
    BY <2>3, <1>1, Constructors DEF SendSecret
  <2>4. CASE RecvSecret(r)
    <3>1. Recv(r)
      BY <2>4 DEF RecvSecret
    <3>2. \/ /\ secretIn' = [secretIn EXCEPT ![r] = Received(r).data]
             /\ Received(r).type = "Secret" /\ ExchangeTo(r, "pushSecret")
          \/ ExchangeTo(r, "pushErr") /\ UNCHANGED secretIn
      BY <2>4 DEF RecvSecret
    <3>3. UNCHANGED <<main, commitIn, computed, cancelled>>
      BY <2>4 DEF RecvSecret
    <3>d. Received(r).type = "Secret" => Received(r).data \in RollIds \cup {Torn}
      BY <3>1, ReceivedData
    <3>4. secretIn' \in [RollIds -> RollIds \cup {Torn, None}]
      BY <3>2, <3>d
    <3>5. exch' \in [RollIds -> ExchStates]
      BY <3>2
    <3> QED
      BY <3>1, <3>3, <3>4, <3>5, LinkRead
  <2>5. CASE ExchangeIOFails(r)
    BY <2>5 DEF ExchangeIOFails
  <2>6. CASE PushSeesCancel(r)
    BY <2>6 DEF PushSeesCancel
  <2> QED
    BY <1>4, <2>1, <2>2, <2>3, <2>4, <2>5, <2>6 DEF Exchange
<1>5. ASSUME NEW r \in RollIds, Meet(r) PROVE TypeOK'
  <2>1. CASE DeliverSecret(r)
    BY <2>1 DEF DeliverSecret
  <2>2. CASE DeliverCommitment(r)
    <3>1. exch[r] = "pushCommitment"
      BY <2>2 DEF DeliverCommitment
    <3>2. verifyCommitment(secretIn[r], commitIn[r]) => rollOf(r, secretIn[r]) \in Outcomes
      BY <3>1, OpensToSecret, Constructors
    <3>c. \/ computed' = computed
          \/ /\ verifyCommitment(secretIn[r], commitIn[r])
             /\ computed' = [computed EXCEPT ![r] = rollOf(r, secretIn[r])]
      BY <2>2 DEF DeliverCommitment
    <3>m. main' = [main EXCEPT ![r] = "confirm"] \/ main' = [main EXCEPT ![r] = "failed"]
      BY <2>2 DEF DeliverCommitment
    <3>3. computed' \in [RollIds -> Outcomes \cup {None}]
      BY <3>2, <3>c
    <3>4. main' \in [RollIds -> MainStates]
      BY <3>m
    <3> QED
      BY <2>2, <3>3, <3>4 DEF DeliverCommitment
  <2>3. CASE DeliverErr(r)
    BY <2>3 DEF DeliverErr
  <2> QED
    BY <1>5, <2>1, <2>2, <2>3 DEF Meet
<1>6. ASSUME NEW r \in RollIds, Main(r) PROVE TypeOK'
  <2>1. CASE WaiterSeesCancel(r) \/ ConfirmIOFails(r)
    BY <2>1 DEF WaiterSeesCancel, ConfirmIOFails
  <2>2. CASE SendConfirmation(r)
    <3>1. ConfirmationMsg(computed[r]) \in Message
      BY <2>2, Constructors DEF SendConfirmation, ProgressInv
    <3> QED
      BY <2>2, <3>1, <1>1 DEF SendConfirmation
  <2>3. CASE RecvConfirmation(r)
    BY <2>3, LinkRead DEF RecvConfirmation
  <2> QED
    BY <1>6, <2>1, <2>2, <2>3 DEF Main
<1>7. ASSUME NEW r \in RollIds, Cancel(r) PROVE TypeOK'
  BY <1>7 DEF Cancel
<1>8. ASSUME NEW r \in RollIds, Read(r) PROVE TypeOK'
  <2>1. CASE ReadType(r)
    BY <1>8, <2>1, LinkRead DEF ReadType, RecvFails
  <2>2. CASE ReadPart(r)
    BY <1>8, <2>2, LinkRead DEF ReadPart
  <2> QED
    BY <1>8, <2>1, <2>2 DEF Read
<1>9. CASE UNCHANGED vars
  BY <1>9 DEF vars
<1> QED
  BY <1>3, <1>4, <1>5, <1>6, <1>7, <1>8, <1>9 DEF Next, Finished
-----------------------------------------------------------------------------
(* Which goroutine is where stays in step with what it has received and    *)
(* computed.                                                               *)
LEMMA ProgressStep == TypeOK /\ ProgressInv /\ [Next]_vars => ProgressInv'
<1> SUFFICES ASSUME TypeOK, ProgressInv, [Next]_vars PROVE ProgressInv'
  OBVIOUS
<1> USE DEF TypeOK, ProgressInv, ExchangeTo, MainTo, ExchStates, MainStates
<1>1. ASSUME NEW r \in RollIds, Roll(r) PROVE ProgressInv'
  BY <1>1 DEF Roll, MayRoll
<1>2. ASSUME NEW r \in RollIds, Exchange(r) PROVE ProgressInv'
  <2>1. CASE SendCommitment(r) \/ SendSecret(r)
    BY <2>1 DEF SendCommitment, SendSecret
  <2>2. CASE RecvCommitment(r)
    BY <2>2, ReceivedData, TornIsNothing DEF RecvCommitment
  <2>3. CASE RecvSecret(r)
    BY <2>3, ReceivedData, TornIsNothing DEF RecvSecret
  <2>4. CASE ExchangeIOFails(r) \/ PushSeesCancel(r)
    BY <2>4 DEF ExchangeIOFails, PushSeesCancel
  <2> QED
    BY <1>2, <2>1, <2>2, <2>3, <2>4 DEF Exchange
<1>3. ASSUME NEW r \in RollIds, Meet(r) PROVE ProgressInv'
  <2>1. CASE DeliverSecret(r) \/ DeliverErr(r)
    BY <2>1 DEF DeliverSecret, DeliverErr
  <2>2. CASE DeliverCommitment(r)
    <3>1. verifyCommitment(secretIn[r], commitIn[r]) => rollOf(r, secretIn[r]) \in Outcomes
      BY <2>2, OpensToSecret, Constructors DEF DeliverCommitment
    <3> QED
      BY <2>2, <3>1 DEF DeliverCommitment
  <2> QED
    BY <1>3, <2>1, <2>2 DEF Meet
<1>4. ASSUME NEW r \in RollIds, Main(r) PROVE ProgressInv'
  BY <1>4 DEF Main, WaiterSeesCancel, ConfirmIOFails, SendConfirmation, RecvConfirmation
<1>5. ASSUME NEW r \in RollIds, Cancel(r) PROVE ProgressInv'
  BY <1>5 DEF Cancel
<1>6. ASSUME NEW r \in RollIds, Read(r) PROVE ProgressInv'
  BY <1>6 DEF Read, ReadType, ReadPart, Receiving, RecvFails
<1>7. CASE UNCHANGED vars
  BY <1>7 DEF vars
<1> QED
  BY <1>1, <1>2, <1>3, <1>4, <1>5, <1>6, <1>7 DEF Next, Finished

(* What a step may never take back: a roll that has started, a commitment  *)
(* that was accepted, a secret that was received, dice that were computed. *)
Keeps ==
    \A r \in RollIds :
        /\ main[r] # "idle" => main'[r] # "idle"
        /\ commitIn[r] # None => commitIn'[r] = commitIn[r]
        /\ computed[r] # None => computed'[r] = computed[r]

(* No step of any goroutine takes back what another player was told.       *)
LEMMA StepKeeps == TypeOK /\ ProgressInv /\ [Next]_vars => Keeps
<1> SUFFICES ASSUME TypeOK, ProgressInv, [Next]_vars PROVE Keeps
  OBVIOUS
<1> USE DEF Keeps, TypeOK, ProgressInv, ExchangeTo, MainTo
<1>1. ASSUME NEW r \in RollIds, Roll(r) \/ Main(r) \/ Cancel(r) PROVE Keeps
  BY <1>1 DEF Roll, MayRoll, Main, WaiterSeesCancel, ConfirmIOFails, SendConfirmation,
              RecvConfirmation, Cancel
<1>2. ASSUME NEW r \in RollIds, Exchange(r) PROVE Keeps
  BY <1>2 DEF Exchange, SendCommitment, RecvCommitment, SendSecret, RecvSecret,
              ExchangeIOFails, PushSeesCancel
<1>3. ASSUME NEW r \in RollIds, Meet(r) PROVE Keeps
  BY <1>3 DEF Meet, DeliverSecret, DeliverCommitment, DeliverErr
<1>4. ASSUME NEW r \in RollIds, Read(r) PROVE Keeps
  BY <1>4 DEF Read, ReadType, ReadPart, RecvFails
<1>5. CASE UNCHANGED vars
  BY <1>5 DEF vars
<1> QED
  BY <1>1, <1>2, <1>3, <1>4, <1>5 DEF Next, Finished

(* Vouched in the state after the step, of a message of any state.         *)
VouchedNext(p, m) ==
    \E s \in RollIds :
        /\ Owner(s) = Other(p)
        /\ \/ m = CommitmentMsg(s) /\ main'[s] # "idle"
           \/ m = SecretMsg(s) /\ commitIn'[s] # None
           \/ m = ConfirmationMsg(computed'[s]) /\ computed'[s] # None

(* So a message that was true when it was sent stays true on its way.      *)
LEMMA VouchedStable ==
    Keeps => \A p, m : Vouched(p, m) => VouchedNext(p, m)
BY DEF Keeps, Vouched, VouchedNext

(* The invariant of the link after a step, message by message.             *)
LEMMA LinkInvNext ==
    (\A p \in Players : \A i \in DOMAIN chan'[p] : VouchedNext(p, chan'[p][i]))
        => LinkInv'
BY DEF LinkInv, Vouched, VouchedNext

(* Every message on the link is vouched for by a roll of its sender.       *)
LEMMA LinkStep ==
    TypeOK /\ ProgressInv /\ LinkInv /\ [Next]_vars => LinkInv'
<1> SUFFICES ASSUME TypeOK, ProgressInv, LinkInv, [Next]_vars PROVE LinkInv'
  OBVIOUS
<1>k. Keeps
  BY StepKeeps
<1>1. ASSUME NEW r \in RollIds, NEW m \in Message, Send(r, m), VouchedNext(Peer(r), m)
      PROVE  LinkInv'
  <2>1. /\ chan[Peer(r)] \in Seq(Message) /\ Peer(r) \in Players
        /\ chan' = [chan EXCEPT ![Peer(r)] = Append(chan[Peer(r)], m)]
    BY <1>1, RollOwners DEF TypeOK, Send
  <2>2. SUFFICES ASSUME NEW p \in Players, NEW i \in DOMAIN chan'[p]
                 PROVE  VouchedNext(p, chan'[p][i])
    BY LinkInvNext
  <2>3. CASE p = Peer(r)
    <3>1. chan'[p] = Append(chan[p], m)
      BY <2>1, <2>3 DEF TypeOK
    <3>2. chan'[p][i] = m \/ (i \in DOMAIN chan[p] /\ chan'[p][i] = chan[p][i])
      BY <2>1, <2>3, <3>1, AppendElements
    <3> QED
      BY <1>1, <1>k, <2>3, <3>2, VouchedStable DEF LinkInv
  <2>4. CASE p # Peer(r)
    <3>1. chan'[p] = chan[p]
      BY <2>1, <2>4 DEF TypeOK
    <3> QED
      BY <1>k, <3>1, VouchedStable DEF LinkInv
  <2> QED
    BY <2>3, <2>4
<1>2. ASSUME NEW r \in RollIds, Recv(r) \/ Read(r) PROVE LinkInv'
  <2>1. Shortened
    BY <1>2, LinkRead
  <2>2. SUFFICES ASSUME NEW p \in Players, NEW i \in DOMAIN chan'[p]
                 PROVE  VouchedNext(p, chan'[p][i])
    BY LinkInvNext
  <2>3. CASE chan'[p] = chan[p]
    BY <1>k, <2>3, VouchedStable DEF LinkInv
  <2>4. CASE chan[p] # << >> /\ chan'[p] = Tail(chan[p])
    <3>1. \A j \in DOMAIN Tail(chan[p]) :
             j + 1 \in DOMAIN chan[p] /\ Tail(chan[p])[j] = chan[p][j + 1]
      BY <2>4, TailElements DEF TypeOK
    <3>2. i + 1 \in DOMAIN chan[p] /\ chan'[p][i] = chan[p][i + 1]
      BY <2>4, <3>1
    <3> QED
      BY <1>k, <3>2, VouchedStable DEF LinkInv
  <2> QED
    BY <2>1, <2>3, <2>4 DEF Shortened
<1>3. ASSUME chan' = chan PROVE LinkInv'
  BY <1>3, <1>k, VouchedStable, LinkInvNext DEF LinkInv
<1>4. ASSUME NEW r \in RollIds, Exchange(r) PROVE LinkInv'
  <2>1. CASE SendCommitment(r)
    <3>1. VouchedNext(Peer(r), CommitmentMsg(r))
      BY <2>1, RollOwners DEF SendCommitment, ProgressInv, VouchedNext
    <3> QED
      BY <2>1, <3>1, <1>1, Constructors DEF SendCommitment
  <2>2. CASE SendSecret(r)
    <3>1. VouchedNext(Peer(r), SecretMsg(r))
      BY <2>2, RollOwners DEF SendSecret, ProgressInv, VouchedNext
    <3> QED
      BY <2>2, <3>1, <1>1, Constructors DEF SendSecret
  <2>3. CASE RecvCommitment(r) \/ RecvSecret(r)
    BY <2>3, <1>2 DEF RecvCommitment, RecvSecret
  <2>4. CASE ExchangeIOFails(r) \/ PushSeesCancel(r)
    BY <2>4, <1>3 DEF ExchangeIOFails, PushSeesCancel
  <2> QED
    BY <1>4, <2>1, <2>2, <2>3, <2>4 DEF Exchange
<1>5. ASSUME NEW r \in RollIds, Main(r) PROVE LinkInv'
  <2>1. CASE SendConfirmation(r)
    <3>1. computed[r] # None /\ computed' = computed
      BY <2>1 DEF SendConfirmation, ProgressInv
    <3>2. VouchedNext(Peer(r), ConfirmationMsg(computed[r]))
      BY <3>1, RollOwners DEF VouchedNext
    <3>3. ConfirmationMsg(computed[r]) \in Message
      BY <3>1, Constructors DEF TypeOK
    <3> QED
      BY <2>1, <3>2, <3>3, <1>1 DEF SendConfirmation
  <2>2. CASE RecvConfirmation(r)
    BY <2>2, <1>2 DEF RecvConfirmation
  <2>3. CASE WaiterSeesCancel(r) \/ ConfirmIOFails(r)
    BY <2>3, <1>3 DEF WaiterSeesCancel, ConfirmIOFails
  <2> QED
    BY <1>5, <2>1, <2>2, <2>3 DEF Main
<1>6. ASSUME NEW r \in RollIds, Roll(r) \/ Meet(r) \/ Cancel(r) PROVE LinkInv'
  BY <1>6, <1>3 DEF Roll, MayRoll, Meet, DeliverSecret, DeliverCommitment, DeliverErr, Cancel
<1>7. CASE UNCHANGED vars
  BY <1>7, <1>3 DEF vars
<1> QED
  BY <1>2, <1>4, <1>5, <1>6, <1>7 DEF Next, Finished

(* What Recv returns is vouched for, unless it is torn.                    *)
LEMMA ReceivedVouched ==
    ASSUME TypeOK, LinkInv, NEW r \in RollIds, Recv(r)
    PROVE  Received(r).data = Torn \/ Vouched(Owner(r), Received(r))
BY ReceivedMessage, RollOwners DEF LinkInv

(* What a roll holds of its peer is what that peer's roll really did.      *)
LEMMA KnowledgeStep ==
    TypeOK /\ ProgressInv /\ LinkInv /\ KnowledgeInv /\ [Next]_vars
        => KnowledgeInv'
<1> SUFFICES ASSUME TypeOK, ProgressInv, LinkInv, KnowledgeInv, [Next]_vars
             PROVE  KnowledgeInv'
  OBVIOUS
<1>k. Keeps
  BY StepKeeps
<1>1. ASSUME UNCHANGED <<commitIn, secretIn>> PROVE KnowledgeInv'
  BY <1>1, <1>k DEF KnowledgeInv, Keeps, TypeOK
<1>3. ASSUME NEW r \in RollIds, RecvCommitment(r) PROVE KnowledgeInv'
  <2> DEFINE m == Received(r)
  <2>1. m.data = Torn \/ Vouched(Owner(r), m)
    BY <1>3, ReceivedVouched DEF RecvCommitment
  <2>s. secretIn' = secretIn
    BY <1>3 DEF RecvCommitment
  <2>2. CASE m.type # "Commitment"
    BY <1>1, <1>3, <2>s, <2>2 DEF RecvCommitment
  <2>4. CASE m.type = "Commitment" /\ m.data = Torn
    <3>1. commitIn' = [commitIn EXCEPT ![r] = Torn]
      BY <1>3, <2>4 DEF RecvCommitment
    <3>2. \A q \in RollIds : commitIn'[q] \notin {Torn, None} => commitIn'[q] = commitIn[q]
      BY <3>1 DEF TypeOK
    <3> QED
      BY <1>k, <2>s, <3>2 DEF KnowledgeInv, Keeps, TypeOK
  <2>3. CASE m.type = "Commitment" /\ m.data # Torn
    <3>1. PICK s \in RollIds : /\ Owner(s) = Peer(r) /\ main[s] # "idle"
                               /\ m.data = calculateCommitment(s)
      BY <2>1, <2>3, RollOwners
         DEF Vouched, CommitmentMsg, SecretMsg, ConfirmationMsg
    <3>2. commitIn' = [commitIn EXCEPT ![r] = m.data]
      BY <1>3, <2>3 DEF RecvCommitment
    <3>3. ASSUME NEW q \in RollIds, commitIn'[q] \notin {Torn, None}
          PROVE  \E t \in RollIds : /\ Owner(t) = Peer(q) /\ main'[t] # "idle"
                                    /\ commitIn'[q] = calculateCommitment(t)
      <4>1. CASE q = r
        BY <1>k, <3>1, <3>2, <4>1 DEF Keeps, TypeOK
      <4>2. CASE q # r
        <5>1. commitIn'[q] = commitIn[q]
          BY <3>2, <4>2 DEF TypeOK
        <5>2. PICK t \in RollIds : /\ Owner(t) = Peer(q) /\ main[t] # "idle"
                                   /\ commitIn[q] = calculateCommitment(t)
          BY <3>3, <5>1 DEF KnowledgeInv
        <5> QED
          BY <1>k, <5>1, <5>2 DEF Keeps
      <4> QED
        BY <4>1, <4>2
    <3>4. ASSUME NEW q \in RollIds, secretIn'[q] \notin {Torn, None}
          PROVE  Owner(secretIn'[q]) = Peer(q) /\ commitIn'[secretIn'[q]] # None
      BY <1>k, <2>s, <3>4 DEF KnowledgeInv, Keeps, TypeOK
    <3> QED
      BY <3>3, <3>4 DEF KnowledgeInv
  <2> QED
    BY <2>2, <2>3, <2>4
<1>4. ASSUME NEW r \in RollIds, RecvSecret(r) PROVE KnowledgeInv'
  <2> DEFINE m == Received(r)
  <2>1. m.data = Torn \/ Vouched(Owner(r), m)
    BY <1>4, ReceivedVouched DEF RecvSecret
  <2>s. commitIn' = commitIn
    BY <1>4 DEF RecvSecret
  <2>2. CASE m.type # "Secret"
    BY <1>1, <1>4, <2>s, <2>2 DEF RecvSecret
  <2>4. CASE m.type = "Secret" /\ m.data = Torn
    <3>1. secretIn' = [secretIn EXCEPT ![r] = Torn]
      BY <1>4, <2>4 DEF RecvSecret
    <3>2. \A q \in RollIds : secretIn'[q] \notin {Torn, None} => secretIn'[q] = secretIn[q]
      BY <3>1 DEF TypeOK
    <3> QED
      BY <1>k, <2>s, <3>2 DEF KnowledgeInv, Keeps, TypeOK
  <2>3. CASE m.type = "Secret" /\ m.data # Torn
    <3>1. Owner(m.data) = Peer(r) /\ commitIn[m.data] # None
      BY <2>1, <2>3, RollOwners
         DEF Vouched, CommitmentMsg, SecretMsg, ConfirmationMsg
    <3>2. secretIn' = [secretIn EXCEPT ![r] = m.data]
      BY <1>4, <2>3 DEF RecvSecret
    <3> QED
      BY <1>k, <2>s, <3>1, <3>2 DEF KnowledgeInv, Keeps, TypeOK
  <2> QED
    BY <2>2, <2>3, <2>4
<1>5. ASSUME NEW r \in RollIds, Exchange(r) PROVE KnowledgeInv'
  BY <1>1, <1>3, <1>4, <1>5
     DEF Exchange, SendCommitment, SendSecret, ExchangeIOFails, PushSeesCancel
<1>6. ASSUME NEW r \in RollIds, Roll(r) \/ Read(r) \/ Meet(r) \/ Main(r) \/ Cancel(r)
      PROVE  KnowledgeInv'
  BY <1>1, <1>6
     DEF Read, ReadType, ReadPart, Roll, MayRoll, Meet, DeliverSecret, DeliverCommitment, DeliverErr, Main,
         WaiterSeesCancel, ConfirmIOFails, SendConfirmation, RecvConfirmation, Cancel
<1>7. CASE UNCHANGED vars
  BY <1>1, <1>7 DEF vars
<1> QED
  BY <1>5, <1>6, <1>7 DEF Next, Finished

(* A roll turns "ok" only on a confirmation with its own dice, and that    *)
(* confirmation is vouched for by a roll of the peer.                      *)
LEMMA AgreementStep ==
    TypeOK /\ ProgressInv /\ LinkInv /\ RollAgreement /\ [Next]_vars
        => RollAgreement'
<1> SUFFICES ASSUME TypeOK, ProgressInv, LinkInv, RollAgreement, [Next]_vars
             PROVE  RollAgreement'
  OBVIOUS
<1>k. Keeps
  BY StepKeeps
<1>1. ASSUME \A r \in RollIds : main'[r] = "ok" => main[r] = "ok"
      PROVE  RollAgreement'
  <2> SUFFICES ASSUME NEW r \in RollIds, main'[r] = "ok"
               PROVE  \E s \in RollIds : /\ Owner(s) = Peer(r)
                                         /\ computed'[s] = computed'[r]
    BY DEF RollAgreement
  <2>1. PICK s \in RollIds : Owner(s) = Peer(r) /\ computed[s] = computed[r]
    BY <1>1 DEF RollAgreement
  <2>2. computed[r] # None
    BY <1>1 DEF ProgressInv
  <2> QED
    BY <1>k, <2>1, <2>2 DEF Keeps
<1>2. ASSUME NEW r \in RollIds, RecvConfirmation(r) PROVE RollAgreement'
  <2> DEFINE m == Received(r)
  <2>1. CASE ~ Confirms(m, computed[r])
    BY <1>1, <1>2, <2>1 DEF RecvConfirmation, MainTo, TypeOK
  <2>2. CASE Confirms(m, computed[r])
    <3>1. m.data # Torn
      BY <1>2, <2>2, TornIsNothing DEF Confirms, RecvConfirmation, ProgressInv, TypeOK
    <3>2. Vouched(Owner(r), m)
      BY <1>2, <3>1, ReceivedVouched DEF RecvConfirmation
    <3>3. PICK s \in RollIds : Owner(s) = Peer(r) /\ computed[s] = computed[r]
      BY <2>2, <3>2, RollOwners
         DEF Vouched, Confirms, CommitmentMsg, SecretMsg, ConfirmationMsg
    <3>4. /\ main' = [main EXCEPT ![r] = "ok"] /\ computed' = computed
      BY <1>2, <2>2 DEF RecvConfirmation, MainTo
    <3> QED
      BY <3>3, <3>4 DEF RollAgreement, TypeOK
  <2> QED
    BY <2>1, <2>2
<1>3. ASSUME NEW r \in RollIds, Roll(r) \/ Exchange(r) \/ Read(r) \/ Meet(r) \/ Cancel(r)
      PROVE  RollAgreement'
  <2>1. \A q \in RollIds : main'[q] = "ok" => main[q] = "ok"
    BY <1>3 DEF Read, ReadType, ReadPart, RecvFails, Roll, MayRoll, Exchange,
                SendCommitment, RecvCommitment, SendSecret,
                RecvSecret, ExchangeIOFails, PushSeesCancel, Meet, DeliverSecret,
                DeliverCommitment, DeliverErr, Cancel, MainTo, TypeOK
  <2> QED
    BY <1>1, <2>1
<1>4. ASSUME NEW r \in RollIds, WaiterSeesCancel(r) \/ ConfirmIOFails(r) \/ SendConfirmation(r)
      PROVE  RollAgreement'
  BY <1>1, <1>4 DEF WaiterSeesCancel, ConfirmIOFails, SendConfirmation, MainTo, TypeOK
<1>5. CASE UNCHANGED vars
  BY <1>1, <1>5 DEF vars
<1> QED
  BY <1>2, <1>3, <1>4, <1>5 DEF Next, Main, Finished

(* The invariant holds in every reachable state of the two goroutines of   *)
(* every roll.                                                             *)
THEOREM InductiveInvariant == Spec => []Inductive
<1>1. Inductive /\ [Next]_vars => Inductive'
  BY TypeStep, LinkStep, ProgressStep, KnowledgeStep, AgreementStep DEF Inductive
<1> QED
  BY <1>1, InductiveInit, PTL DEF Spec

(* Channels, goroutines and roll data keep their types.                    *)
THEOREM TypeCorrect == Spec => []TypeOK
<1>1. Inductive => TypeOK
  BY DEF Inductive
<1> QED
  BY <1>1, InductiveInvariant, PTL

(* Dice accepted by one player were worked out by the other as well        *)
(* (confirmRoll), for every link, cancellation and retry.                  *)
THEOREM Agreement == Spec => []RollAgreement
<1>1. Inductive => RollAgreement
  BY DEF Inductive
<1> QED
  BY <1>1, InductiveInvariant, PTL
-----------------------------------------------------------------------------
(* The initial state of the goroutines is the initial state of the fair    *)
(* roll: nothing started, nobody bound.                                    *)
LEMMA FairRollInit == Init => Abstract!Init
BY DEF Init, Abstract!Init, Fixed, Result

(* A roll that starts, a step that neither binds, computes nor decides,    *)
(* and the four that do: each is a step of the fair roll or none.          *)
LEMMA FairRollStep ==
    Inductive /\ [Next]_vars => [Abstract!Next]_(Abstract!vars)
<1> SUFFICES ASSUME Inductive, [Next]_vars PROVE [Abstract!Next]_(Abstract!vars)
  OBVIOUS
<1> USE DEF Inductive, TypeOK
<1> DEFINE opponent == [r \in RollIds |-> Fixed(r)]
           result   == [r \in RollIds |-> Result(r)]
<1>1. ASSUME UNCHANGED commitIn PROVE opponent' = opponent
  BY <1>1 DEF Fixed
<1>2. ASSUME NEW r \in RollIds, NEW to \in MainStates, MainTo(r, to)
      PROVE  result' = [result EXCEPT ![r] =
                           CASE to = "idle"   -> "none"
                             [] to = "ok"     -> "accepted"
                             [] to = "failed" -> "aborted"
                             [] OTHER         -> "open"]
  BY <1>2 DEF MainTo, Result
<1>3. ASSUME UNCHANGED main PROVE result' = result
  BY <1>3 DEF Result
<1>4. ASSUME UNCHANGED <<main, commitIn, computed>>
      PROVE  UNCHANGED Abstract!vars
  BY <1>1, <1>3, <1>4 DEF Abstract!vars
<1>5. ASSUME NEW r \in RollIds, main[r] \notin {"idle", "ok", "failed"},
             MainTo(r, "failed"), UNCHANGED <<commitIn, computed>>
      PROVE  Abstract!Abort(r)
  BY <1>1, <1>2, <1>5 DEF Abstract!Abort, Result, MainStates
<1>6. ASSUME NEW r \in RollIds, Roll(r) PROVE Abstract!Start(r)
  BY <1>1, <1>2, <1>6 DEF Roll, MayRoll, Abstract!Start, Result, MainStates
<1>7. ASSUME NEW r \in RollIds, RecvCommitment(r)
      PROVE  [Abstract!Next]_(Abstract!vars)
  <2> DEFINE m == Received(r)
  <2>1. CASE m.type # "Commitment"
    BY <1>4, <1>7, <2>1 DEF RecvCommitment
  <2>3. CASE m.type = "Commitment" /\ m.data = Torn
    <3>1. commitIn[r] = None /\ main[r] # "idle"
      BY <1>7 DEF RecvCommitment, ProgressInv
    <3>2. /\ commitIn' = [commitIn EXCEPT ![r] = Torn]
          /\ UNCHANGED <<main, computed>>
      BY <1>7, <2>3 DEF RecvCommitment
    <3>3. opponent' = [opponent EXCEPT ![r] = Torn]
      BY <3>2 DEF Fixed
    <3>4. Abstract!BindTorn(r)
      BY <1>3, <3>1, <3>2, <3>3 DEF Abstract!BindTorn, Fixed, Result
    <3> QED
      BY <3>4 DEF Abstract!Next
  <2>2. CASE m.type = "Commitment" /\ m.data # Torn
    <3>2. Vouched(Owner(r), m)
      BY <1>7, <2>2, ReceivedVouched DEF RecvCommitment
    <3>3. PICK s \in RollIds : /\ Owner(s) = Peer(r) /\ main[s] # "idle"
                               /\ m.data = calculateCommitment(s)
      BY <2>2, <3>2, RollOwners
         DEF Vouched, CommitmentMsg, SecretMsg, ConfirmationMsg
    <3>4. commitIn[r] = None /\ main[r] # "idle"
      BY <1>7 DEF RecvCommitment, ProgressInv
    <3>5. /\ commitIn' = [commitIn EXCEPT ![r] = m.data]
          /\ UNCHANGED <<main, computed>>
      BY <1>7, <2>2 DEF RecvCommitment
    <3>6. /\ calculateCommitment(s) \notin {Torn, None}
          /\ calculateCommitment(s).sha256 = s
      BY TornIsNothing DEF calculateCommitment, Commitments
    <3>7. opponent' = [opponent EXCEPT ![r] = s]
      BY <3>3, <3>5, <3>6 DEF Fixed
    <3>8. Abstract!Bind(r, s)
      BY <1>3, <3>3, <3>4, <3>5, <3>7 DEF Abstract!Bind, Fixed, Result
    <3> QED
      BY <3>8 DEF Abstract!Next
  <2> QED
    BY <2>1, <2>2, <2>3
<1>8. ASSUME NEW r \in RollIds, DeliverCommitment(r)
      PROVE  Abstract!Learn(r) \/ Abstract!Abort(r)
  <2>1. CASE ~ verifyCommitment(secretIn[r], commitIn[r])
    BY <1>5, <1>8, <2>1 DEF DeliverCommitment
  <2>2. CASE verifyCommitment(secretIn[r], commitIn[r])
    <3> DEFINE s == secretIn[r]
    <3>1. /\ s \in RollIds /\ commitIn[r] = calculateCommitment(s)
          /\ calculateCommitment(s) \notin {Torn, None} /\ commitIn[s] # None
      <4>1. s \in RollIds /\ commitIn[r] = calculateCommitment(s)
        BY <1>8, <2>2, OpensToSecret DEF DeliverCommitment
      <4>2. calculateCommitment(s) \notin {Torn, None}
        BY <4>1, TornIsNothing DEF Commitments
      <4> QED
        BY <4>1, <4>2, TornIsNothing DEF KnowledgeInv
    <3>2. opponent[r] = s
      BY <3>1 DEF Fixed, calculateCommitment
    <3>3. s \in RollIds /\ opponent[s] # None
      <4>1. commitIn[s] \in Commitments \cup {Torn}
        BY <3>1
      <4>2. commitIn[s] \in Commitments => commitIn[s].sha256 \in RollIds
        BY DEF Commitments, calculateCommitment
      <4> QED
        BY <3>1, <4>1, <4>2, TornIsNothing DEF Fixed
    <3>4. result[r] = "open" /\ computed[r] = None
      BY <1>8 DEF DeliverCommitment, ProgressInv, Result
    <3>5. /\ computed' = [computed EXCEPT ![r] = rollOf(r, s)]
          /\ MainTo(r, "confirm") /\ commitIn' = commitIn
      BY <1>8, <2>2 DEF DeliverCommitment
    <3>6. opponent' = opponent /\ result' = result
      <4>1. result' = [result EXCEPT ![r] = "open"]
        BY <1>2, <3>5 DEF MainStates
      <4>2. result = [result EXCEPT ![r] = "open"]
        BY <3>4
      <4> QED
        BY <1>1, <3>5, <4>1, <4>2
    <3> QED
      BY <3>2, <3>3, <3>4, <3>5, <3>6 DEF Abstract!Learn
  <2> QED
    BY <2>1, <2>2
<1>9. ASSUME NEW r \in RollIds, RecvConfirmation(r)
      PROVE  Abstract!Accept(r) \/ Abstract!Abort(r)
  <2> DEFINE m == Received(r)
  <2>1. CASE ~ Confirms(m, computed[r])
    BY <1>5, <1>9, <2>1 DEF RecvConfirmation
  <2>2. CASE Confirms(m, computed[r])
    <3>1. m.data # Torn
      BY <1>9, <2>2, TornIsNothing DEF Confirms, RecvConfirmation, ProgressInv
    <3>2. Vouched(Owner(r), m)
      BY <1>9, <3>1, ReceivedVouched DEF RecvConfirmation
    <3>3. \E s \in RollIds : Owner(s) = Peer(r) /\ computed[s] = computed[r]
      BY <2>2, <3>2, RollOwners
         DEF Vouched, Confirms, CommitmentMsg, SecretMsg, ConfirmationMsg
    <3>4. result[r] = "open" /\ computed[r] # None
      BY <1>9 DEF RecvConfirmation, ProgressInv, Result
    <3>5. /\ opponent' = opponent /\ computed' = computed
          /\ result' = [result EXCEPT ![r] = "accepted"]
      BY <1>1, <1>2, <1>9, <2>2 DEF RecvConfirmation, MainStates
    <3> QED
      BY <3>3, <3>4, <3>5 DEF Abstract!Accept
  <2> QED
    BY <2>1, <2>2
<1>10. ASSUME NEW r \in RollIds, WaiterSeesCancel(r) \/ ConfirmIOFails(r) \/ DeliverErr(r)
       PROVE  Abstract!Abort(r)
  BY <1>5, <1>10 DEF WaiterSeesCancel, ConfirmIOFails, DeliverErr
<1>11. ASSUME NEW r \in RollIds, DeliverSecret(r) \/ SendConfirmation(r)
       PROVE  UNCHANGED Abstract!vars
  <2>1. result' = result
    BY <1>2, <1>11 DEF DeliverSecret, SendConfirmation, MainTo, Result
  <2> QED
    BY <1>1, <1>11, <2>1 DEF DeliverSecret, SendConfirmation, Abstract!vars
<1>12. ASSUME NEW r \in RollIds,
              \/ SendCommitment(r) \/ SendSecret(r) \/ RecvSecret(r)
              \/ ExchangeIOFails(r) \/ PushSeesCancel(r) \/ Cancel(r)
       PROVE  UNCHANGED Abstract!vars
  BY <1>4, <1>12 DEF SendCommitment, SendSecret, RecvSecret, ExchangeIOFails,
                     PushSeesCancel, Cancel
<1>13. ASSUME NEW r \in RollIds, Read(r)
       PROVE  UNCHANGED Abstract!vars \/ Abstract!Abort(r)
  <2>1. CASE main' = main
    BY <1>4, <1>13, <2>1 DEF Read, ReadType, ReadPart
  <2>2. CASE main' # main
    <3>1. main[r] = "awaitConfirmation" /\ MainTo(r, "failed") /\ UNCHANGED <<commitIn, computed>>
      BY <1>13, <2>2 DEF Read, ReadType, ReadPart, RecvFails
    <3> QED
      BY <1>5, <3>1
  <2> QED
    BY <2>1, <2>2
<1>14. CASE UNCHANGED vars
  BY <1>4, <1>14 DEF vars
<1> QED
  BY <1>6, <1>7, <1>8, <1>9, <1>10, <1>11, <1>12, <1>13, <1>14
     DEF Next, Exchange, Meet, Main, Finished, Abstract!Next

(* The two goroutines per roll, their channels and the link between the    *)
(* players implement the fair roll, on every link and with every           *)
(* cancellation: no secret is given away to a peer that is still free to   *)
(* choose, and no dice count that the peer has not worked out.             *)
THEOREM FairRoll == Spec => ImplementsFairRoll
<1>1. Init => Abstract!Init
  BY FairRollInit
<1>2. Inductive /\ [Next]_vars => [Abstract!Next]_(Abstract!vars)
  BY FairRollStep
<1> QED
  BY <1>1, <1>2, InductiveInvariant, PTL DEF Spec, ImplementsFairRoll, Abstract!Spec
=============================================================================
