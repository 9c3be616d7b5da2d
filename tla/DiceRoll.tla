------------------------------ MODULE DiceRoll ------------------------------
(***************************************************************************)
(* The commit-reveal dice roll of package dice (dice/roller.go): two       *)
(* players, each with a Roller over one shared, ordered link, roll the     *)
(* same dice MaxRolls times.                                               *)
(*                                                                         *)
(* Every call of Roller.Roll runs two goroutines that meet on unbuffered   *)
(* Go channels:                                                            *)
(*   - the exchange goroutine of startExchange, state exch[r], which talks *)
(*     to the peer and then pushes what it received;                       *)
(*   - the roll goroutine, state main[r], which waits for the pushes,      *)
(*     checks the secret against the commitment, computes the dice and     *)
(*     confirms them with the peer.                                        *)
(*                                                                         *)
(* A roll is identified by <<player, number>>.  The identity of a roll     *)
(* also stands for its 256-bit random secret: secrets are fresh.  SHA-256  *)
(* is a constructor: nothing but a secret hashes to its commitment, and    *)
(* two different pairs of secrets give two different rolls.                *)
(*                                                                         *)
(* A ChannelPeer and a gRPC stream hand over whole messages.  A PipePeer   *)
(* reads the type of a message and then its data from an io.Pipe           *)
(* (ReadMessage), so two goroutines that receive from one pipe tear each   *)
(* other's messages; of the bytes is kept how many of them are read.       *)
(***************************************************************************)
EXTENDS Naturals, Sequences

CONSTANTS A, B,              \* the two players
          Cap,               \* messages the link holds in each direction
          MaxRolls,          \* bound: how many rolls each player starts
          Link,              \* the dice.Peer: "channel", "pipe" or "stream"
          Width,             \* bytes of data in a message: 32
          MayCancel,         \* the players whose contexts may be cancelled
          RollAfterFailure,  \* does a player roll again after an error?
          None,              \* "not received yet"
          Torn               \* bytes that nobody sent as one message's data

ASSUME PlayersAssumption == A # B
ASSUME BoundsAssumption == Cap \in Nat \ {0} /\ MaxRolls \in Nat
ASSUME LinkAssumption == Link \in {"channel", "pipe", "stream"}
ASSUME WidthAssumption == Width \in Nat \ {0}
ASSUME FlagsAssumption == MayCancel \subseteq {A, B} /\ RollAfterFailure \in BOOLEAN

VARIABLES chan,       \* chan[p]: messages on their way to player p
          taken,      \* taken[p]: bytes that are read of the first of them
          reading,    \* reading[r]: the message r has read the type of
          exch,       \* exch[r]: where r's exchange goroutine is
          main,       \* main[r]: where r's roll goroutine is
          commitIn,   \* commitIn[r]: the peer's commitment, once received
          secretIn,   \* secretIn[r]: the peer's secret, once received
          computed,   \* computed[r]: the dice r worked out
          cancelled   \* the rolls whose context was cancelled

vars == <<chan, taken, reading, exch, main, commitIn, secretIn, computed, cancelled>>
-----------------------------------------------------------------------------
Players == {A, B}
Other(p) == IF p = A THEN B ELSE A

RollIds == Players \X (1..MaxRolls)
Owner(r) == r[1]
Peer(r) == Other(r[1])

(* calculateCommitment: a hash that only the secret produces. *)
calculateCommitment(secret) == [sha256 |-> secret]

(* Mutant of rollOf: the secrets are hashed as they come, not sorted.      *)
rollOfUnsorted(mine, theirs) == <<mine, theirs>>

(* The dice of a pair of secrets.  Roll sorts the two secrets before it    *)
(* hashes them, so the result does not depend on whose secret is whose.    *)
rollOf(mine, theirs) == {mine, theirs}

CommitmentMsg(r)   == [type |-> "Commitment", data |-> calculateCommitment(r)]
SecretMsg(r)       == [type |-> "Secret", data |-> r]
ConfirmationMsg(v) == [type |-> "RollConfirmation", data |-> v]

Commitments == {calculateCommitment(r) : r \in RollIds}
Outcomes    == {rollOf(r, s) : r, s \in RollIds}

(* A mix of bytes is no secret, no dice, and no hash of anything. *)
ASSUME TornAssumption ==
    Torn \notin RollIds \cup Commitments \cup Outcomes \cup {None, calculateCommitment(Torn)}

(* IsMsgType: any other byte is refused. *)
MsgTypes == {"Commitment", "Secret", "RollConfirmation"}

(* A message of which the type and some of the data are read. *)
Readings == [type : MsgTypes, need : 1..Width]

ASSUME NoneAssumption ==
    None \notin RollIds \cup Commitments \cup Outcomes \cup Readings

Message ==
    {CommitmentMsg(r) : r \in RollIds} \cup {SecretMsg(r) : r \in RollIds}
        \cup {ConfirmationMsg(v) : v \in Outcomes}

ExchStates == {"idle", "sendCommitment", "recvCommitment", "sendSecret",
               "recvSecret", "pushSecret", "pushCommitment", "pushErr", "done"}
MainStates == {"idle", "awaitSecret", "awaitCommitment", "confirm",
               "awaitConfirmation", "ok", "failed"}

Returned(r) == main[r] \in {"ok", "failed"}

(* ctx.Done() as roll r sees it.  The context of a roll over gRPC is the    *)
(* stream's: when either side's ends, so does the stream for the other.     *)
CtxDone(r) == \/ r \in cancelled
              \/ Link = "stream" /\ cancelled # {}

(* Which link operations look at their context: ChannelPeer ignores it,    *)
(* PipePeer looks at it in Send only, a gRPC stream in both.               *)
SendSeesCancel == Link \in {"pipe", "stream"}
RecvSeesCancel == Link = "stream"
-----------------------------------------------------------------------------
Init ==
    /\ chan = [p \in Players |-> << >>]
    /\ taken = [p \in Players |-> 0]
    /\ reading = [r \in RollIds |-> None]
    /\ exch = [r \in RollIds |-> "idle"]
    /\ main = [r \in RollIds |-> "idle"]
    /\ commitIn = [r \in RollIds |-> None]
    /\ secretIn = [r \in RollIds |-> None]
    /\ computed = [r \in RollIds |-> None]
    /\ cancelled = {}

(* Mutant of Send: the capacity of the link is ignored.                    *)
SendUnbounded(r, m) ==
    /\ chan' = [chan EXCEPT ![Peer(r)] = Append(@, m)]
    /\ UNCHANGED <<taken, reading>>

(* Peer.Send: blocks while the link is full. *)
Send(r, m) ==
    /\ Len(chan[Peer(r)]) < Cap
    /\ chan' = [chan EXCEPT ![Peer(r)] = Append(@, m)]
    /\ UNCHANGED <<taken, reading>>

(* The bytes that are left of what PipePeer's goroutine is writing: the    *)
(* type and Width bytes of data.  A Read gets no more than these.          *)
Left(p) == Width + 1 - taken[p]

(* n of them are read; Write returns when the last is.                     *)
Take(p, n) ==
    IF n < Left(p) THEN taken' = [taken EXCEPT ![p] = @ + n] /\ UNCHANGED chan
    ELSE taken' = [taken EXCEPT ![p] = 0] /\ chan' = [chan EXCEPT ![p] = Tail(@)]

(* What Recv returns: the data is torn unless all of it is read at once,   *)
(* behind a type of its own.                                               *)
Received(r) ==
    LET m == Head(chan[Owner(r)])
    IN  IF Link # "pipe" THEN m
        ELSE [type |-> reading[r].type,
              data |-> IF /\ taken[Owner(r)] = 1 /\ reading[r].need = Width
                          /\ m.type = reading[r].type
                       THEN m.data ELSE Torn]

(* Peer.Recv returns: blocks while there is nothing to receive.            *)
Recv(r) ==
    /\ chan[Owner(r)] # << >>
    /\ \/ /\ Link # "pipe"
          /\ chan' = [chan EXCEPT ![Owner(r)] = Tail(@)]
          /\ UNCHANGED <<taken, reading>>
       \/ /\ Link = "pipe"
          /\ reading[r] # None /\ reading[r].need <= Left(Owner(r))
          /\ Take(Owner(r), reading[r].need)
          /\ reading' = [reading EXCEPT ![r] = None]

ExchangeTo(r, state) == exch' = [exch EXCEPT ![r] = state]
MainTo(r, state) == main' = [main EXCEPT ![r] = state]
-----------------------------------------------------------------------------
(* Mutant of Roll: the player does not wait for its previous roll.         *)
RollAtOnce(r) ==
    /\ main[r] = "idle"
    /\ MainTo(r, "awaitSecret")
    /\ ExchangeTo(r, "sendCommitment")
    /\ UNCHANGED <<chan, taken, reading, commitIn, secretIn, computed, cancelled>>

(* RollSync returns before the player rolls again; whether it also does so *)
(* after an error is up to the caller.                                     *)
MayRoll(r) ==
    /\ main[r] = "idle"
    /\ r[2] > 1 => \/ main[<<r[1], r[2] - 1>>] = "ok"
                   \/ RollAfterFailure /\ main[<<r[1], r[2] - 1>>] = "failed"

(* Roller.Roll: draw the secret, start both goroutines.                    *)
Roll(r) ==
    /\ MayRoll(r)
    /\ MainTo(r, "awaitSecret")
    /\ ExchangeTo(r, "sendCommitment")
    /\ UNCHANGED <<chan, taken, reading, commitIn, secretIn, computed, cancelled>>

(* Mutant of SendCommitment: the secret goes out before the peer's         *)
(* commitment has come in.                                                 *)
SecretGoesNext(r) ==
    /\ exch[r] = "sendCommitment"
    /\ Send(r, CommitmentMsg(r))
    /\ ExchangeTo(r, "sendSecret")
    /\ UNCHANGED <<main, commitIn, secretIn, computed, cancelled>>

(* Step 1 of startExchange. *)
SendCommitment(r) ==
    /\ exch[r] = "sendCommitment"
    /\ Send(r, CommitmentMsg(r))
    /\ ExchangeTo(r, "recvCommitment")
    /\ UNCHANGED <<main, commitIn, secretIn, computed, cancelled>>

Receiving(r) ==
    \/ exch[r] \in {"recvCommitment", "recvSecret"}
    \/ main[r] = "awaitConfirmation"

(* Recv returns an error to the goroutine that called it.                  *)
RecvFails(r) ==
    \/ /\ exch[r] \in {"recvCommitment", "recvSecret"}
       /\ ExchangeTo(r, "pushErr")
       /\ UNCHANGED main
    \/ /\ main[r] = "awaitConfirmation"
       /\ MainTo(r, "failed")
       /\ UNCHANGED exch

(* The first Read of ReadMessage: one byte.  Where another goroutine has   *)
(* begun the message it is a byte of data, whatever its value.             *)
ReadType(r) ==
    LET p == Owner(r)
    IN  /\ Link = "pipe" /\ Receiving(r)
        /\ reading[r] = None /\ chan[p] # << >>
        /\ Take(p, 1)
        /\ \/ /\ \E t \in IF taken[p] = 0 THEN {Head(chan[p]).type} ELSE MsgTypes :
                    reading' = [reading EXCEPT ![r] = [type |-> t, need |-> Width]]
              /\ UNCHANGED <<exch, main>>
           \/ taken[p] # 0 /\ RecvFails(r) /\ UNCHANGED reading
        /\ UNCHANGED <<commitIn, secretIn, computed, cancelled>>

(* A Read of io.ReadFull that gets less than is asked for: the rest will   *)
(* come from the next message.                                             *)
ReadPart(r) ==
    LET p == Owner(r)
    IN  /\ reading[r] # None /\ chan[p] # << >>
        /\ Left(p) < reading[r].need
        /\ Take(p, Left(p))
        /\ reading' = [reading EXCEPT ![r].need = @ - Left(p)]
        /\ UNCHANGED <<exch, main, commitIn, secretIn, computed, cancelled>>

(* Step 2: a message that is not a commitment is an error. *)
RecvCommitment(r) ==
    /\ exch[r] = "recvCommitment"
    /\ Recv(r)
    /\ LET m == Received(r)
       IN  \/ /\ m.type = "Commitment"
              /\ commitIn' = [commitIn EXCEPT ![r] = m.data]
              /\ ExchangeTo(r, "sendSecret")
           \/ /\ m.type # "Commitment"
              /\ ExchangeTo(r, "pushErr")
              /\ UNCHANGED commitIn
    /\ UNCHANGED <<main, secretIn, computed, cancelled>>

(* Step 3. *)
SendSecret(r) ==
    /\ exch[r] = "sendSecret"
    /\ Send(r, SecretMsg(r))
    /\ ExchangeTo(r, "recvSecret")
    /\ UNCHANGED <<main, commitIn, secretIn, computed, cancelled>>

(* Step 4: a message that is not a secret is an error. *)
RecvSecret(r) ==
    /\ exch[r] = "recvSecret"
    /\ Recv(r)
    /\ LET m == Received(r)
       IN  \/ /\ m.type = "Secret"
              /\ secretIn' = [secretIn EXCEPT ![r] = m.data]
              /\ ExchangeTo(r, "pushSecret")
           \/ /\ m.type # "Secret"
              /\ ExchangeTo(r, "pushErr")
              /\ UNCHANGED secretIn
    /\ UNCHANGED <<main, commitIn, computed, cancelled>>

(* A Send or Recv of the exchange that returns the context's error. *)
ExchangeIOFails(r) ==
    /\ CtxDone(r)
    /\ \/ SendSeesCancel /\ exch[r] \in {"sendCommitment", "sendSecret"}
       \/ RecvSeesCancel /\ exch[r] \in {"recvCommitment", "recvSecret"}
    /\ ExchangeTo(r, "pushErr")
    /\ UNCHANGED <<chan, taken, reading, main, commitIn, secretIn, computed, cancelled>>

(* Step 5: the two goroutines meet on secretCh ... *)
DeliverSecret(r) ==
    /\ exch[r] = "pushSecret" /\ main[r] = "awaitSecret"
    /\ ExchangeTo(r, "pushCommitment")
    /\ MainTo(r, "awaitCommitment")
    /\ UNCHANGED <<chan, taken, reading, commitIn, secretIn, computed, cancelled>>

(* Mutant of verifyCommitment: every secret is taken as the one promised.  *)
verifyNothing(secret, expectedCommit) == secret # None

verifyCommitment(secret, expectedCommit) ==
    calculateCommitment(secret) = expectedCommit

(* ... then on commitCh; the waiter verifies the commitment and works out  *)
(* the dice.                                                               *)
DeliverCommitment(r) ==
    /\ exch[r] = "pushCommitment" /\ main[r] = "awaitCommitment"
    /\ ExchangeTo(r, "done")
    /\ \/ /\ verifyCommitment(secretIn[r], commitIn[r])
          /\ computed' = [computed EXCEPT ![r] = rollOf(r, secretIn[r])]
          /\ MainTo(r, "confirm")
       \/ /\ ~ verifyCommitment(secretIn[r], commitIn[r])
          /\ MainTo(r, "failed")
          /\ UNCHANGED computed
    /\ UNCHANGED <<chan, taken, reading, commitIn, secretIn, cancelled>>

(* A push that takes the ctx.Done() branch and goes on to push the error. *)
PushSeesCancel(r) ==
    /\ CtxDone(r)
    /\ exch[r] \in {"pushSecret", "pushCommitment"}
    /\ ExchangeTo(r, "pushErr")
    /\ UNCHANGED <<chan, taken, reading, main, commitIn, secretIn, computed, cancelled>>

(* The goroutines meet on errCh, in either select of the waiter. *)
DeliverErr(r) ==
    /\ exch[r] = "pushErr" /\ main[r] \in {"awaitSecret", "awaitCommitment"}
    /\ ExchangeTo(r, "done")
    /\ MainTo(r, "failed")
    /\ UNCHANGED <<chan, taken, reading, commitIn, secretIn, computed, cancelled>>

(* The waiter takes its ctx.Done() branch and leaves the exchange behind. *)
WaiterSeesCancel(r) ==
    /\ CtxDone(r)
    /\ main[r] \in {"awaitSecret", "awaitCommitment"}
    /\ MainTo(r, "failed")
    /\ UNCHANGED <<chan, taken, reading, exch, commitIn, secretIn, computed, cancelled>>

(* confirmRoll, first half: send the dice. *)
SendConfirmation(r) ==
    /\ main[r] = "confirm"
    /\ Send(r, ConfirmationMsg(computed[r]))
    /\ MainTo(r, "awaitConfirmation")
    /\ UNCHANGED <<exch, commitIn, secretIn, computed, cancelled>>

(* Mutant of Confirms: whatever comes in is taken for the confirmation.    *)
ConfirmsAnything(m, v) == m.type \in MsgTypes

Confirms(m, v) == m.type = "RollConfirmation" /\ m.data = v

(* confirmRoll, second half: the peer must have the same dice. *)
RecvConfirmation(r) ==
    /\ main[r] = "awaitConfirmation"
    /\ Recv(r)
    /\ \/ Confirms(Received(r), computed[r]) /\ MainTo(r, "ok")
       \/ ~ Confirms(Received(r), computed[r]) /\ MainTo(r, "failed")
    /\ UNCHANGED <<exch, commitIn, secretIn, computed, cancelled>>

(* Mutant of ConfirmIOFails: the wait for the confirmation has no context. *)
OnlySendFails(r) ==
    /\ CtxDone(r)
    /\ SendSeesCancel /\ main[r] = "confirm"
    /\ MainTo(r, "failed")
    /\ UNCHANGED <<chan, taken, reading, exch, commitIn, secretIn, computed, cancelled>>

(* A Send or Recv of confirmRoll that returns the context's error. *)
ConfirmIOFails(r) ==
    /\ CtxDone(r)
    /\ \/ SendSeesCancel /\ main[r] = "confirm"
       \/ RecvSeesCancel /\ main[r] = "awaitConfirmation"
    /\ MainTo(r, "failed")
    /\ UNCHANGED <<chan, taken, reading, exch, commitIn, secretIn, computed, cancelled>>

(* The caller's context ends: a deadline, an interrupt, the RPC returning. *)
Cancel(r) ==
    /\ Owner(r) \in MayCancel
    /\ r \notin cancelled
    /\ main[r] # "idle"
    /\ ~ Returned(r) \/ Link = "stream"
    /\ cancelled' = cancelled \cup {r}
    /\ UNCHANGED <<chan, taken, reading, exch, main, commitIn, secretIn, computed>>

(* No goroutine is left and nobody rolls again: the program stops. *)
Finished ==
    /\ \A r \in RollIds : /\ exch[r] \in {"idle", "done"}
                          /\ main[r] \in {"idle", "ok", "failed"}
                          /\ ~ MayRoll(r)
    /\ UNCHANGED vars
-----------------------------------------------------------------------------
Exchange(r) ==
    \/ SendCommitment(r) \/ RecvCommitment(r)
    \/ SendSecret(r) \/ RecvSecret(r)
    \/ ExchangeIOFails(r) \/ PushSeesCancel(r)

Read(r) == ReadType(r) \/ ReadPart(r)

Meet(r) == DeliverSecret(r) \/ DeliverCommitment(r) \/ DeliverErr(r)

Main(r) ==
    \/ WaiterSeesCancel(r) \/ ConfirmIOFails(r)
    \/ SendConfirmation(r) \/ RecvConfirmation(r)

Next == \/ \E r \in RollIds :
             Roll(r) \/ Exchange(r) \/ Read(r) \/ Meet(r) \/ Main(r) \/ Cancel(r)
        \/ Finished

Spec == Init /\ [][Next]_vars

(* Go runs every goroutine that can run; the callers roll when they may.   *)
(* No fairness on Cancel: nothing makes a context end.                     *)
Fairness == \A r \in RollIds :
    /\ WF_vars(Roll(r)) /\ WF_vars(Exchange(r)) /\ WF_vars(Read(r))
    /\ WF_vars(Meet(r)) /\ WF_vars(Main(r))

FairSpec == Spec /\ Fairness
-----------------------------------------------------------------------------
(* The types of the variables: what a channel can carry, the states of the *)
(* goroutines, and what the roll variables can hold.                       *)
TypeOK ==
    /\ chan \in [Players -> Seq(Message)]
    /\ \A p \in Players : Len(chan[p]) <= Cap
    /\ taken \in [Players -> 0..Width]
    /\ reading \in [RollIds -> Readings \cup {None}]
    /\ exch \in [RollIds -> ExchStates]
    /\ main \in [RollIds -> MainStates]
    /\ commitIn \in [RollIds -> Commitments \cup {Torn, None}]
    /\ secretIn \in [RollIds -> RollIds \cup {Torn, None}]
    /\ computed \in [RollIds -> Outcomes \cup {None}]
    /\ cancelled \subseteq RollIds

(* A roll that Get returns without error has the dice that a roll of the   *)
(* peer worked out too, whatever was cancelled, left behind by an earlier  *)
(* roll or picked up by a goroutine nobody waits for (confirmRoll).        *)
RollAgreement ==
    \A r \in RollIds :
        main[r] = "ok" =>
            \E s \in RollIds : Owner(s) = Peer(r) /\ computed[s] = computed[r]

(* As long as nobody rolls again after an error, the players' k-th rolls   *)
(* belong together: no message of one roll is taken for a message of the   *)
(* next (startExchange and confirmRoll only check the type).               *)
RollsPairUp ==
    \A r \in RollIds :
        computed[r] # None => computed[r] = rollOf(r, <<Peer(r), r[2]>>)

(* The protocol never has more than two messages on their way to a player, *)
(* so a link with room for two per direction never blocks a Send.          *)
AtMostTwoInFlight == \A p \in Players : Len(chan[p]) <= 2

(* Every roll ends well, even on a link that holds one message per         *)
(* direction, unless a context ends: the two sides never wait for each     *)
(* other (RollSync, called by both players).                               *)
EveryRollSucceeds == \A r \in RollIds : <>(main[r] = "ok" \/ cancelled # {})

(* startExchange: "this function will block until the above goroutine      *)
(* finishes by pushing secret and commitment into the channels": when the  *)
(* roll has returned, its exchange goroutine is over, or will be.          *)
ExchangeEndsWithRoll ==
    \A r \in RollIds : Returned(r) ~> (exch[r] = "done")

(* The promise of a fair roll (AbstractRoll): each player is bound to its  *)
(* secret before the other's is known, and both accept the same dice.      *)
Fixed(r) == IF commitIn[r] \in {Torn, None} THEN commitIn[r] ELSE commitIn[r].sha256
Result(r) == CASE main[r] = "idle"   -> "none"
               [] main[r] = "ok"     -> "accepted"
               [] main[r] = "failed" -> "aborted"
               [] OTHER              -> "open"

Abstract == INSTANCE AbstractRoll WITH
    Rolls <- RollIds,
    opponent <- [r \in RollIds |-> Fixed(r)],
    outcome <- computed,
    result <- [r \in RollIds |-> Result(r)]

(* The goroutines, their channels and the link implement the fair roll.    *)
ImplementsFairRoll == Abstract!Spec
-----------------------------------------------------------------------------
(* The inductive invariant behind RollAgreement and ImplementsFairRoll.    *)

(* What a message says is true of a roll of the player who sent it.        *)
Vouched(p, m) ==
    \E s \in RollIds :
        /\ Owner(s) = Other(p)
        /\ \/ m = CommitmentMsg(s) /\ main[s] # "idle"
           \/ m = SecretMsg(s) /\ commitIn[s] # None
           \/ m = ConfirmationMsg(computed[s]) /\ computed[s] # None

LinkInv == \A p \in Players : \A i \in DOMAIN chan[p] : Vouched(p, chan[p][i])

(* How far the two goroutines of a roll are, and what they hold.           *)
ProgressInv ==
    \A r \in RollIds :
        /\ main[r] = "idle" => exch[r] = "idle"
        /\ exch[r] \in {"idle", "sendCommitment", "recvCommitment"}
               => commitIn[r] = None
        /\ exch[r] \in {"sendSecret", "recvSecret", "pushSecret", "pushCommitment"}
               => commitIn[r] # None
        /\ exch[r] \in {"pushSecret", "pushCommitment"} => secretIn[r] # None
        /\ main[r] \in {"confirm", "awaitConfirmation", "ok"} => computed[r] # None
        /\ main[r] \in {"idle", "awaitSecret", "awaitCommitment"}
               => computed[r] = None

(* What a roll received belongs to a roll of the peer that got that far.   *)
KnowledgeInv ==
    \A r \in RollIds :
        /\ commitIn[r] \notin {Torn, None} =>
               \E s \in RollIds : /\ Owner(s) = Peer(r) /\ main[s] # "idle"
                                  /\ commitIn[r] = calculateCommitment(s)
        /\ secretIn[r] \notin {Torn, None} =>
               Owner(secretIn[r]) = Peer(r) /\ commitIn[secretIn[r]] # None

(* Everything on the link and in the goroutines comes from a roll of the   *)
(* peer that had reached the point where the code sends it.                *)
Inductive ==
    /\ TypeOK
    /\ LinkInv
    /\ ProgressInv
    /\ KnowledgeInv
    /\ RollAgreement
-----------------------------------------------------------------------------
(* The inductive invariant behind RollsPairUp and AtMostTwoInFlight, where *)
(* nobody rolls again after an error.                                      *)

(* The messages of p, one roll after the other: m is the n-th of them.     *)
IsMessage(p, n, m) ==
    \E k \in 1..MaxRolls :
        \/ n = 3*k - 2 /\ m = CommitmentMsg(<<p, k>>)
        \/ n = 3*k - 1 /\ m = SecretMsg(<<p, k>>)
        \/ n = 3*k     /\ m = ConfirmationMsg(rollOf(<<p, k>>, <<Other(p), k>>))

(* The k-th roll of p is the one that is under way, has failed, or is the  *)
(* next to start.                                                          *)
InRoll(p, k) ==
    \A j \in 1..MaxRolls :
        /\ j < k => main[<<p, j>>] = "ok"
        /\ j = k => main[<<p, j>>] # "ok"
        /\ j > k => main[<<p, j>>] = "idle"

(* How many messages the goroutines of p's k-th roll have sent and         *)
(* received, with those of the rolls before.  A roll that gave up on an    *)
(* error sends and receives nothing more.                                  *)
Tally(p, k, sent, received) ==
    /\ received \in Nat /\ sent \in {received, received + 1}
    /\ k > MaxRolls => sent = 3*k - 3 /\ received = 3*k - 3
    /\ k <= MaxRolls =>
          LET r == <<p, k>>
          IN  /\ exch[r] \in {"idle", "sendCommitment"}
                     => sent = 3*k - 3 /\ received = 3*k - 3
              /\ exch[r] = "recvCommitment" => sent = 3*k - 2 /\ received = 3*k - 3
              /\ exch[r] = "sendSecret"     => sent = 3*k - 2 /\ received = 3*k - 2
              /\ exch[r] = "recvSecret"     => sent = 3*k - 1 /\ received = 3*k - 2
              /\ exch[r] \in {"pushSecret", "pushCommitment"} \/ main[r] = "confirm"
                     => sent = 3*k - 1 /\ received = 3*k - 1
              /\ main[r] = "awaitConfirmation" => sent = 3*k /\ received = 3*k - 1

Placed(p, sent, received) ==
    \E k \in 1..(MaxRolls + 1) : InRoll(p, k) /\ Tally(p, k, sent, received)

(* Each player has sent so many messages: the last of them, which the      *)
(* other has not received, are on the link in the order they were sent.    *)
Counted(sent) ==
    \A p \in Players :
        LET received == sent[Other(p)] - Len(chan[p])
        IN  /\ Placed(p, sent[p], received)
            /\ \A i \in DOMAIN chan[p] : IsMessage(Other(p), received + i, chan[p][i])

CountInv == \E sent \in [Players -> 0..(3 * MaxRolls)] : Counted(sent)

(* The exchange goroutine is over when the roll goroutine has left it, and *)
(* what a roll has received is of the peer's roll of the same number.      *)
PairInv ==
    \A r \in RollIds :
        /\ exch[r] = "idle" <=> main[r] = "idle"
        /\ exch[r] = "done" => main[r] \in {"confirm", "awaitConfirmation", "ok", "failed"}
        /\ main[r] \in {"confirm", "awaitConfirmation", "ok"} => exch[r] = "done"
        /\ commitIn[r] # None => commitIn[r] = calculateCommitment(<<Peer(r), r[2]>>)
        /\ secretIn[r] # None => secretIn[r] = <<Peer(r), r[2]>>

(* Of a player's goroutines one at a time is in ReadMessage, and it reads  *)
(* the data behind the type.                                               *)
ReadInv ==
    /\ \A p \in Players :
          /\ taken[p] \in {0, 1}
          /\ taken[p] = 1 => \E r \in RollIds : Owner(r) = p /\ reading[r] # None
    /\ \A r \in RollIds :
          reading[r] # None =>
              /\ Link = "pipe" /\ Receiving(r)
              /\ taken[Owner(r)] = 1 /\ chan[Owner(r)] # << >>
              /\ reading[r] = [type |-> Head(chan[Owner(r)]).type, need |-> Width]

InLockstep == PairInv /\ ReadInv /\ CountInv /\ RollsPairUp
=============================================================================
