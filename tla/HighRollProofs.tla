--------------------------- MODULE HighRollProofs ---------------------------
(***************************************************************************)
(* Theorems about HighRoll, for every die, every number of dice, every     *)
(* length of the hash and every largest word.                              *)
(***************************************************************************)
EXTENDS HighRoll, DiceRollProofs, FiniteSetTheorems, FunctionTheorems, WellFoundedInduction

USE PlayersAssumption, BoundsAssumption, NoneAssumption, StreamAssumption,
    DiceAssumption, HashAssumption

(* What holds before the first word and is kept by each word holds for all *)
(* words (the loop of Roller.roll).                                        *)
LEMMA WordByWord ==
    ASSUME NEW T, 0 \in T, \A i \in 1..Words : i - 1 \in T => i \in T
    PROVE  0..Words \subseteq T
<1> DEFINE Missing == {i \in 0..Words : i \notin T}
<1> SUFFICES ASSUME Missing # {} PROVE FALSE
  OBVIOUS
<1>1. Missing \subseteq Nat
  OBVIOUS
<1>2. PICK n \in Missing : \A m \in Missing : ~ <<m, n>> \in OpToRel(<, Nat)
  BY <1>1, WFMin, NatLessThanWellFounded
<1>3. \A m \in Missing : ~ m < n
  BY <1>1, <1>2 DEF OpToRel
<1>4. n \in 0..Words /\ n # 0 /\ n \notin T
  BY <1>2
<1>5. n - 1 \in 0..Words /\ n - 1 < n /\ n \in 1..Words
  BY <1>4
<1>6. n - 1 \in T
  BY <1>3, <1>5
<1> QED
  BY <1>4, <1>5, <1>6

(* One turn of the loop: the words kept so far, and the next one if it is  *)
(* below the limit.                                                        *)
KeepWord(s, i, k) == IF s[i] < rollValueLimit THEN Append(k, s[i]) ELSE k

(* The loop of Roller.roll keeps no word before the first, and then one    *)
(* word after the other.                                                   *)
LEMMA KeptWords ==
    ASSUME NEW s
    PROVE  /\ Kept(s)[0] = << >>
           /\ \A i \in 1..Words : Kept(s)[i] = KeepWord(s, i, Kept(s)[i - 1])
<1> DEFINE IsKept(g, n) ==
             g = [i \in 0..n |-> IF i = 0 THEN << >> ELSE KeepWord(s, i, g[i - 1])]
           T == {n \in 0..Words : \E g : IsKept(g, n)}
<1>1. 0 \in T
  <2>1. IsKept([i \in 0..0 |-> << >>], 0)
    OBVIOUS
  <2> HIDE DEF IsKept
  <2> QED
    BY <2>1
<1>2. ASSUME NEW n \in 1..Words, n - 1 \in T PROVE n \in T
  <2>1. PICK g : IsKept(g, n - 1)
    BY <1>2
  <2> DEFINE h == [i \in 0..n |-> IF i = n THEN KeepWord(s, n, g[n - 1]) ELSE g[i]]
  <2>2. ASSUME NEW i \in 0..n PROVE h[i] = IF i = 0 THEN << >> ELSE KeepWord(s, i, h[i - 1])
    <3>1. CASE i = 0
      BY <2>1, <3>1
    <3>2. CASE i # 0
      <4>1. i - 1 \in 0..(n - 1) /\ i - 1 \in 0..n /\ i - 1 # n
        BY <3>2
      <4>2. h[i - 1] = g[i - 1]
        BY <4>1
      <4>3. CASE i = n
        BY <4>2, <4>3, <3>2
      <4>4. CASE i # n
        <5>1. i \in 0..(n - 1)
          BY <4>4
        <5>2. g[i] = KeepWord(s, i, g[i - 1])
          BY <2>1, <3>2, <5>1
        <5> QED
          BY <4>2, <4>4, <5>2, <3>2
      <4> QED
        BY <4>3, <4>4
    <3> QED
      BY <3>1, <3>2
  <2>3. IsKept(h, n)
    BY <2>2
  <2> HIDE DEF IsKept, h
  <2> QED
    BY <2>3
<1>3. Words \in T
  <2> HIDE DEF T
  <2>1. 0..Words \subseteq T
    BY <1>1, <1>2, WordByWord
  <2> QED
    BY <2>1
<1>4. IsKept(Kept(s), Words)
  <2>1. Kept(s) = CHOOSE g : IsKept(g, Words)
    BY DEF Kept, KeepWord
  <2> QED
    BY <1>3, <2>1
<1> QED
  BY <1>4

(* The loop of Roller.roll starts with no words.                           *)
LEMMA NoWords == \A S : << >> \in Seq(S)
OBVIOUS

(* The words that are kept are words of the hash.                          *)
LEMMA KeptType ==
    ASSUME NEW s \in Sums
    PROVE  \A i \in 0..Words : Kept(s)[i] \in Seq(0..max)
<1> DEFINE Hashes == Seq(0..max)
           T == {i \in 0..Words : Kept(s)[i] \in Hashes}
<1>1. Kept(s)[0] \in Hashes
  BY KeptWords, NoWords
<1>2. ASSUME NEW i \in 1..Words, Kept(s)[i - 1] \in Hashes PROVE Kept(s)[i] \in Hashes
  <2>1. s[i] \in 0..max
    BY DEF Sums
  <2>2. Kept(s)[i] = KeepWord(s, i, Kept(s)[i - 1])
    BY KeptWords
  <2>3. Append(Kept(s)[i - 1], s[i]) \in Hashes
    BY <1>2, <2>1, AppendElements
  <2> HIDE DEF Hashes
  <2> QED
    BY <1>2, <2>2, <2>3 DEF KeepWord
<1> HIDE DEF Hashes
<1>3. 0 \in T /\ \A i \in 1..Words : i - 1 \in T => i \in T
  BY <1>1, <1>2
<1> HIDE DEF T
<1>4. 0..Words \subseteq T
  BY <1>3, WordByWord
<1> QED
  BY <1>4 DEF Hashes, T

(* A word and its face (the die that Roller.roll makes of it): the word is *)
(* so many times the sides, and the face less one.                         *)
LEMMA Faces ==
    ASSUME NEW v \in Nat
    PROVE  /\ v % Sides \in 0..(Sides - 1)
           /\ v \div Sides \in Nat
           /\ v = (v \div Sides) * Sides + (v % Sides)
OBVIOUS

(* ... and every word of that form has that face.                          *)
LEMMA FaceOf ==
    ASSUME NEW q \in Nat, NEW f \in 0..(Sides - 1)
    PROVE  (q * Sides + f) % Sides = f
OBVIOUS

(* A roll with enough usable words has all its dice, each with one of its  *)
(* faces (Roller.roll).                                                    *)
LEMMA RollValues ==
    ASSUME NEW s \in Sums, HasDice(s)
    PROVE  roll(s) \in DiceValues
<1>1. Usable(s) \in Seq(0..max) /\ NumDice <= Len(Usable(s))
  BY KeptType DEF Usable, HasDice
<1>2. ASSUME NEW i \in 1..NumDice PROVE (Usable(s)[i] % Sides) + 1 \in 1..Sides
  <2>1. Usable(s)[i] \in Nat
    BY <1>1
  <2>2. Usable(s)[i] % Sides \in 0..(Sides - 1)
    BY <2>1, Faces
  <2> QED
    BY <2>2
<1> QED
  BY <1>2 DEF roll, DiceValues
-----------------------------------------------------------------------------
(* Each player rolls once, with the other (Service.Challenge, Service.Roll)*)
LEMMA TheTwoRolls ==
    /\ RollIds = {RollOf(p) : p \in Players}
    /\ \A p \in Players :
          /\ RollOf(p) \in RollIds /\ Owner(RollOf(p)) = p /\ Peer(RollOf(p)) = Other(p)
          /\ Other(p) \in Players /\ Other(p) # p /\ Other(Other(p)) = p
          /\ \A q \in Players : RollOf(p) = RollOf(q) <=> p = q
    /\ Challenger \in Players /\ Opponent \in Players /\ Other(Challenger) = Opponent
BY DEF RollIds, Players, Other, RollOf, Owner, Peer, Challenger, Opponent

(* A handler that returns, a panic and the end of a context touch nothing  *)
(* of the rolls but which of them were cancelled.                          *)
OnlyCancels ==
    /\ cancelled' \subseteq RollIds
    /\ UNCHANGED <<chan, taken, reading, exch, main, commitIn, secretIn, computed>>

(* A gRPC stream hands over the first message on the link, whole           *)
(* (rollPeer.Recv).                                                        *)
LEMMA StreamRecv ==
    ASSUME NEW r \in RollIds, Recv(r)
    PROVE  /\ chan[Owner(r)] # << >> /\ Received(r) = Head(chan[Owner(r)])
           /\ chan' = [chan EXCEPT ![Owner(r)] = Tail(@)]
           /\ UNCHANGED <<taken, reading>>
BY DEF Recv, Received

(* A step of the game is one of the two rolls, a refused message, or the   *)
(* end of a context.                                                       *)
LEMMA StepsOfTheGame ==
    ASSUME TypeOK, [GameNext]_<<vars, gameVars>>
    PROVE  [Next]_vars \/ OnlyCancels \/ \E p \in Players : Refuse(p)
<1> USE DEF TypeOK
<1>1. CASE Handlers
  <2>1. CASE Challenge \/ Accept \/ OpponentReturns
    BY <2>1, TheTwoRolls DEF Challenge, Accept, OpponentReturns, Next
  <2>2. CASE Respond \/ ChallengeFails \/ EndReaches
    BY <2>2, TheTwoRolls DEF Respond, ChallengeFails, EndReaches, OnlyCancels
  <2> QED
    BY <1>1, <2>1, <2>2 DEF Handlers
<1>2. ASSUME NEW p \in Players, Step(p) PROVE Next
  BY <1>2, TheTwoRolls DEF Step, Next, Main
<1>3. ASSUME NEW p \in Players, WorkOut(p) PROVE [Next]_vars
  BY <1>3 DEF WorkOut
<1>4. ASSUME NEW p \in Players, Panic(p) PROVE OnlyCancels
  BY <1>4, TheTwoRolls DEF Panic, OnlyCancels
<1>5. ASSUME NEW p \in Players, ContextEnds(p) PROVE Next
  BY <1>5, TheTwoRolls DEF ContextEnds, Next
<1>6. CASE UNCHANGED <<vars, gameVars>>
  BY <1>6
<1> QED
  BY <1>1, <1>2, <1>3, <1>4, <1>5, <1>6 DEF GameNext, Rolling

(* The rolls of a game keep the invariant of the dice (DiceRollProofs):    *)
(* a message that is refused is lost, and an error reaches the goroutines. *)
LEMMA RollsStep ==
    ASSUME Inductive, [GameNext]_<<vars, gameVars>>
    PROVE  Inductive'
<1> USE DEF Inductive
<1>1. CASE [Next]_vars
  BY <1>1, TypeStep, LinkStep, ProgressStep, KnowledgeStep, AgreementStep
<1>2. CASE OnlyCancels
  BY <1>2 DEF OnlyCancels, TypeOK, LinkInv, Vouched, ProgressInv, KnowledgeInv, RollAgreement
<1>3. ASSUME NEW p \in Players, Refuse(p) PROVE Inductive'
  <2> DEFINE r == RollOf(p)
  <2>1. /\ r \in RollIds /\ Owner(r) = p
        /\ chan[p] \in Seq(Message) /\ chan[p] # << >> /\ chan' = [chan EXCEPT ![p] = Tail(@)]
        /\ UNCHANGED <<taken, reading, commitIn, secretIn, computed, cancelled>>
    BY <1>3, TheTwoRolls, StreamRecv DEF Refuse, TypeOK
  <2>2. \/ exch' = [exch EXCEPT ![r] = "pushErr"] /\ main' = main
           /\ exch[r] \in {"recvCommitment", "recvSecret"}
        \/ exch' = exch /\ main' = [main EXCEPT ![r] = "failed"]
           /\ main[r] = "awaitConfirmation"
    BY <1>3 DEF Refuse, RecvFails, ExchangeTo, MainTo
  <2>3. /\ Tail(chan[p]) \in Seq(Message) /\ Len(Tail(chan[p])) = Len(chan[p]) - 1
        /\ \A i \in DOMAIN Tail(chan[p]) : i + 1 \in DOMAIN chan[p] /\ Tail(chan[p])[i] = chan[p][i + 1]
    BY <2>1, TailElements
  <2> HIDE DEF r
  <2>4. TypeOK'
    <3>1. chan' \in [Players -> Seq(Message)] /\ \A q \in Players : Len(chan'[q]) <= Cap
      <4>1. chan \in [Players -> Seq(Message)] /\ \A q \in Players : Len(chan[q]) <= Cap
        BY DEF TypeOK
      <4>2. Len(chan[p]) \in Nat
        BY <2>1
      <4>3. Len(Tail(chan[p])) <= Cap
        BY <2>3, <4>1, <4>2
      <4> QED
        BY <2>1, <2>3, <4>1, <4>3
    <3>2. exch' \in [RollIds -> ExchStates] /\ main' \in [RollIds -> MainStates]
      BY <2>1, <2>2 DEF TypeOK, ExchStates, MainStates
    <3> QED
      BY <2>1, <3>1, <3>2 DEF TypeOK
  <2>5. ProgressInv'
    BY <2>1, <2>2 DEF TypeOK, ProgressInv
  <2>6. Keeps
    BY <2>1, <2>2 DEF TypeOK, Keeps
  <2>7. LinkInv'
    <3> SUFFICES ASSUME NEW q \in Players, NEW i \in DOMAIN chan'[q]
                 PROVE  VouchedNext(q, chan'[q][i])
      BY LinkInvNext
    <3>1. \E j \in DOMAIN chan[q] : chan'[q][i] = chan[q][j]
      <4>1. chan'[q] = IF q = p THEN Tail(chan[p]) ELSE chan[q]
        BY <2>1 DEF TypeOK
      <4>2. CASE q = p
        BY <2>3, <4>1, <4>2
      <4>3. CASE q # p
        BY <4>1, <4>3
      <4> QED
        BY <4>2, <4>3
    <3> QED
      BY <2>6, <3>1, VouchedStable DEF LinkInv
  <2>8. KnowledgeInv'
    BY <2>1, <2>6 DEF KnowledgeInv, Keeps, TypeOK
  <2>9. RollAgreement'
    <3>1. \A q \in RollIds : main'[q] = "ok" => main[q] = "ok"
      BY <2>1, <2>2 DEF TypeOK
    <3> QED
      BY <2>1, <3>1 DEF RollAgreement
  <2> QED
    BY <2>4, <2>5, <2>7, <2>8, <2>9
<1> QED
  BY <1>1, <1>2, <1>3, StepsOfTheGame

(* A roll that has sent its dice, or has given up, only waits for the      *)
(* confirmation and returns (confirmRoll).                                 *)
LEMMA LateStays ==
    ASSUME TypeOK, [GameNext]_<<vars, gameVars>>, NEW r \in RollIds,
           main[r] \in {"awaitConfirmation", "ok", "failed"}
    PROVE  /\ main'[r] \in {"awaitConfirmation", "ok", "failed"}
           /\ main[r] = "ok" => main'[r] = "ok"
<1>0. DOMAIN main = RollIds /\ main = [q \in RollIds |-> main[q]]
  BY DEF TypeOK
<1> USE DEF MainTo
<1>1. ASSUME NEW q \in RollIds, Roll(q) \/ Exchange(q) \/ Meet(q) \/ Cancel(q)
      PROVE  main'[r] = main[r]
  BY <1>0, <1>1 DEF Roll, MayRoll, Exchange, SendCommitment, RecvCommitment, SendSecret,
              RecvSecret, ExchangeIOFails, PushSeesCancel, Meet, DeliverSecret,
              DeliverCommitment, DeliverErr, Cancel
<1>2. ASSUME NEW q \in RollIds, Main(q)
      PROVE  main'[r] = main[r] \/ (main'[r] \in {"ok", "failed"} /\ main[r] # "ok")
  <2>1. CASE WaiterSeesCancel(q) \/ ConfirmIOFails(q)
    BY <1>0, <2>1 DEF WaiterSeesCancel, ConfirmIOFails
  <2>2. CASE SendConfirmation(q)
    BY <1>0, <2>2 DEF SendConfirmation
  <2>3. CASE RecvConfirmation(q)
    BY <1>0, <2>3 DEF RecvConfirmation
  <2> QED
    BY <1>2, <2>1, <2>2, <2>3 DEF Main
<1>3. CASE UNCHANGED vars \/ OnlyCancels
  BY <1>3 DEF vars, OnlyCancels
<1>4. ASSUME NEW p \in Players, Refuse(p)
      PROVE  main'[r] = main[r] \/ (main'[r] = "failed" /\ main[r] # "ok")
  <2>1. \/ main' = [main EXCEPT ![RollOf(p)] = "failed"] /\ main[RollOf(p)] = "awaitConfirmation"
        \/ main' = main
    BY <1>4 DEF Refuse, RecvFails
  <2> QED
    BY <1>0, <2>1
<1>5. ASSUME NEW q \in RollIds, Read(q) PROVE main' = main
  BY <1>5 DEF Read, ReadType, ReadPart
<1> QED
  BY <1>1, <1>2, <1>3, <1>4, <1>5, StepsOfTheGame DEF Next, Finished

(* What the game has worked out stays, and so does that it was sent.       *)
LEMMA SentStays ==
    ASSUME GameInductive, [GameNext]_<<vars, gameVars>>, NEW p \in Players
    PROVE  /\ HasSent(p) => HasSent(p)'
           /\ main[RollOf(p)] = "ok" => main'[RollOf(p)] = "ok"
           /\ dice[p] # None => dice'[p] = dice[p]
           /\ sum # None => sum' = sum
<1> USE DEF GameInductive, GameTypeOK
<1>1. /\ dice[p] # None => dice'[p] = dice[p]
      /\ sum # None => sum' = sum
  BY DEF GameNext, Handlers, Challenge, Accept, Respond, ChallengeFails, OpponentReturns,
         EndReaches, Rolling, Step, Refuse, WorkOut, Panic, Hash, ContextEnds, gameVars
<1>2. ASSUME main[RollOf(p)] \in {"awaitConfirmation", "ok", "failed"}
      PROVE  /\ main'[RollOf(p)] \in {"awaitConfirmation", "ok", "failed"}
             /\ main[RollOf(p)] = "ok" => main'[RollOf(p)] = "ok"
  BY <1>2, LateStays, TheTwoRolls
<1> QED
  BY <1>1, <1>2 DEF HasSent

(* The actions that a step of the game can be, with nothing expanded.      *)
LEMMA GameSteps ==
    ASSUME [GameNext]_<<vars, gameVars>>
    PROVE  \/ Challenge \/ Accept \/ Respond \/ ChallengeFails \/ OpponentReturns \/ EndReaches
           \/ \E p \in Players : Step(p) \/ Refuse(p) \/ WorkOut(p) \/ Panic(p) \/ ContextEnds(p)
           \/ UNCHANGED <<vars, gameVars>>
BY DEF GameNext, Handlers, Rolling

(* The variables of the game keep their types: whatever the words, a roll  *)
(* has all its dice (Roller.roll).                                         *)
LEMMA GameTypeStep ==
    ASSUME GameInductive, [GameNext]_<<vars, gameVars>>
    PROVE  GameTypeOK'
<1> USE DEF GameInductive, GameTypeOK, HandlerTo
<1>1. TypeOK'
  BY RollsStep DEF Inductive
<1>2. handler' \in [Players -> {"none", "rolling", "returned", "failed", "panicked"}]
  BY GameSteps, TheTwoRolls
     DEF Challenge, Accept, Respond, ChallengeFails, OpponentReturns,
         EndReaches, Step, Refuse, WorkOut, Panic, Hash, ContextEnds, gameVars
<1>3. sum' \in Sums \cup {None}
  BY GameSteps
     DEF Challenge, Accept, Respond, ChallengeFails, OpponentReturns,
         EndReaches, Step, Refuse, WorkOut, Panic, Hash, ContextEnds, gameVars
<1>4. dice' \in [Players -> DiceValues \cup {None}]
  <2>1. CASE dice' = dice
    BY <2>1
  <2>2. ASSUME NEW p \in Players, WorkOut(p)
        PROVE  dice' \in [Players -> DiceValues \cup {None}]
    <3>1. sum' \in Sums /\ HasDice(sum') /\ dice' = [dice EXCEPT ![p] = roll(sum')]
      BY <2>2 DEF WorkOut, Hash
    <3>2. roll(sum') \in DiceValues
      BY <3>1, RollValues
    <3> QED
      BY <3>1, <3>2
  <2>3. dice' = dice \/ \E p \in Players : WorkOut(p)
    BY GameSteps DEF Challenge, Accept, Respond, ChallengeFails, OpponentReturns, EndReaches,
                     Step, Refuse, Panic, ContextEnds, gameVars
  <2> QED
    BY <2>1, <2>2, <2>3
<1>5. response' \in [Win : BOOLEAN, Draw : BOOLEAN] \cup {None}
  <2>1. CASE Respond
    <3>1. dice[Challenger] \in DiceValues
      BY <2>1, TheTwoRolls DEF Respond, DiceInv
    <3>2. dice[Challenger][1] \in Nat /\ dice[Challenger][2] \in Nat
      BY <3>1 DEF DiceValues
    <3> QED
      BY <2>1, <3>2 DEF Respond, ResponseTo
  <2>2. response' = response \/ Respond
    BY GameSteps DEF Challenge, Accept, ChallengeFails, OpponentReturns, EndReaches, Step,
                     Refuse, WorkOut, Panic, ContextEnds, gameVars
  <2> QED
    BY <2>1, <2>2
<1> QED
  BY <1>1, <1>2, <1>3, <1>4, <1>5

(* A player whose process has gone down over the hash takes no step of its *)
(* roll any more (Roller.roll panics in the roll's own goroutine).         *)
LEMMA PanickedStays ==
    ASSUME GameInductive, [GameNext]_<<vars, gameVars>>, NEW p \in Players,
           handler'[p] = "panicked"
    PROVE  main'[RollOf(p)] = "confirm" /\ dice'[p] = None
<1> USE DEF GameInductive, GameTypeOK, HandlerTo
<1>1. ASSUME NEW q \in Players, Panic(q)
      PROVE  main'[RollOf(p)] = "confirm" /\ dice'[p] = None
  <2>1. /\ handler' = [handler EXCEPT ![q] = "panicked"] /\ main' = main /\ dice' = dice
        /\ main[RollOf(q)] = "confirm" /\ dice[q] = None
    BY <1>1 DEF Panic, Hash
  <2> QED
    BY <2>1 DEF DiceInv
<1>2. CASE handler[p] = "panicked"
  <2>1. main[RollOf(p)] = "confirm" /\ dice[p] = None
    BY <1>2 DEF DiceInv
  <2>2. ASSUME NEW q \in Players, q # p, Step(q) \/ Refuse(q) \/ WorkOut(q)
        PROVE  main'[RollOf(p)] = main[RollOf(p)] /\ dice'[p] = dice[p]
    <3>1. DOMAIN main = RollIds /\ RollOf(p) \in RollIds /\ RollOf(p) # RollOf(q)
      BY <2>2, TheTwoRolls DEF TypeOK
    <3>2. CASE Step(q)
      BY <3>1, <3>2
         DEF Step, gameVars, MainTo, Exchange, SendCommitment, RecvCommitment, SendSecret,
             RecvSecret, ExchangeIOFails, PushSeesCancel, Meet, DeliverSecret, DeliverCommitment,
             DeliverErr, WaiterSeesCancel, ConfirmIOFails, SendConfirmation, RecvConfirmation
    <3>3. CASE Refuse(q)
      BY <3>1, <3>3 DEF Refuse, RecvFails, MainTo, gameVars
    <3>4. CASE WorkOut(q)
      BY <2>2, <3>4 DEF WorkOut, vars
    <3> QED
      BY <2>2, <3>2, <3>3, <3>4
  <2>3. CASE Challenge \/ Accept
    <3>1. /\ dice' = dice
          /\ main' = main \/ \E q \in Players : main[RollOf(q)] = "idle"
                                /\ main' = [main EXCEPT ![RollOf(q)] = "awaitSecret"]
      BY <2>3, TheTwoRolls DEF Challenge, Accept, Roll, MayRoll, MainTo, vars
    <3>2. DOMAIN main = RollIds /\ RollOf(p) \in RollIds
      BY TheTwoRolls DEF TypeOK
    <3> QED
      BY <2>1, <3>1, <3>2
  <2>4. CASE Respond \/ ChallengeFails \/ OpponentReturns \/ EndReaches
    BY <2>1, <2>4 DEF Respond, ChallengeFails, OpponentReturns, EndReaches, gameVars, vars
  <2>5. ASSUME NEW q \in Players, ContextEnds(q) PROVE main' = main /\ dice' = dice
    BY <2>5 DEF ContextEnds, Cancel, gameVars
  <2>6. ~ Step(p) /\ ~ Refuse(p) /\ ~ WorkOut(p)
    BY <1>2 DEF Step, Refuse, WorkOut, Alive
  <2>7. CASE UNCHANGED <<vars, gameVars>>
    BY <2>1, <2>7 DEF vars, gameVars
  <2> QED
    BY <1>1, <2>1, <2>2, <2>3, <2>4, <2>5, <2>6, <2>7, GameSteps
<1>3. CASE handler[p] # "panicked"
  <2>1. \E q \in Players : Panic(q)
    BY <1>3, GameSteps
       DEF Challenge, Accept, Respond, ChallengeFails, OpponentReturns, EndReaches, Step,
           Refuse, WorkOut, ContextEnds, gameVars
  <2> QED
    BY <1>1, <2>1
<1> QED
  BY <1>2, <1>3

(* Dice are made of the one hash (Roller.roll).                            *)
LEMMA OneHash ==
    ASSUME GameInductive, [GameNext]_<<vars, gameVars>>, NEW p \in Players,
           dice'[p] # None
    PROVE  sum' # None /\ HasDice(sum') /\ dice'[p] = roll(sum')
<1> USE DEF GameInductive, GameTypeOK
<1>1. CASE dice[p] # None
  BY <1>1, SentStays DEF DiceInv
<1>2. CASE dice[p] = None
  <2>1. dice' = dice \/ \E q \in Players : WorkOut(q)
    BY GameSteps DEF Challenge, Accept, Respond, ChallengeFails, OpponentReturns, EndReaches,
                     Step, Refuse, Panic, ContextEnds, gameVars
  <2>2. PICK q \in Players : WorkOut(q)
    BY <1>2, <2>1
  <2>3. sum' \in Sums /\ HasDice(sum') /\ dice' = [dice EXCEPT ![q] = roll(sum')]
    BY <2>2 DEF WorkOut, Hash
  <2>4. p = q
    BY <1>2, <2>3
  <2> QED
    BY <2>3, <2>4
<1> QED
  BY <1>1, <1>2

(* How a roll comes to be past its exchange: its dice are sent, or the     *)
(* confirmation of the other has come in (confirmRoll).                    *)
LEMMA Sends ==
    ASSUME GameInductive, [GameNext]_<<vars, gameVars>>, NEW p \in Players,
           main'[RollOf(p)] # main[RollOf(p)],
           main'[RollOf(p)] \in {"awaitConfirmation", "ok"}
    PROVE  /\ dice[p] # None /\ dice'[p] = dice[p]
           /\ main'[RollOf(p)] = "ok" => RecvConfirmation(RollOf(p))
<1> USE DEF GameInductive, GameTypeOK
<1>0. DOMAIN main = RollIds /\ \A q \in Players : RollOf(q) \in RollIds
  BY TheTwoRolls DEF TypeOK
<1>1. ASSUME NEW q \in Players, Step(q)
      PROVE  /\ q = p
             /\ \/ SendConfirmation(RollOf(p)) /\ dice[p] # None
                \/ RecvConfirmation(RollOf(p))
  <2>1. CASE Exchange(RollOf(q))
    BY <2>1 DEF Exchange, SendCommitment, RecvCommitment, SendSecret, RecvSecret,
                ExchangeIOFails, PushSeesCancel
  <2>2. CASE Meet(RollOf(q)) \/ WaiterSeesCancel(RollOf(q)) \/ ConfirmIOFails(RollOf(q))
    BY <1>0, <2>2 DEF Meet, DeliverSecret, DeliverCommitment, DeliverErr, WaiterSeesCancel,
                      ConfirmIOFails, MainTo
  <2>3. CASE SendConfirmation(RollOf(q)) /\ dice[q] # None
    BY <1>0, <2>3, TheTwoRolls DEF SendConfirmation, MainTo
  <2>4. CASE RecvConfirmation(RollOf(q))
    BY <1>0, <2>4, TheTwoRolls DEF RecvConfirmation, MainTo
  <2> QED
    BY <1>1, <2>1, <2>2, <2>3, <2>4 DEF Step
<1>2. \E q \in Players : Step(q)
  <2>1. ASSUME NEW q \in Players, Refuse(q) PROVE FALSE
    BY <1>0, <2>1 DEF Refuse, RecvFails, MainTo
  <2>2. CASE Challenge \/ Accept
    BY <1>0, <2>2 DEF Challenge, Accept, Roll, MainTo, vars
  <2>3. CASE UNCHANGED main
    BY <2>3
  <2> QED
    BY <2>1, <2>2, <2>3, GameSteps
       DEF Respond, ChallengeFails, OpponentReturns, EndReaches, WorkOut, Panic, ContextEnds,
           Cancel, vars
<1>3. Step(p) /\ (SendConfirmation(RollOf(p)) \/ RecvConfirmation(RollOf(p)))
  BY <1>1, <1>2
<1>4. dice[p] # None
  BY <1>1, <1>3 DEF RecvConfirmation, DiceInv
<1>5. main'[RollOf(p)] = "ok" => RecvConfirmation(RollOf(p))
  BY <1>0, <1>3 DEF SendConfirmation, MainTo
<1> QED
  BY <1>4, <1>5, SentStays

(* A confirmation that is received comes from dice that were sent.         *)
LEMMA ConfirmedBySender ==
    ASSUME GameInductive, NEW p \in Players, RecvConfirmation(RollOf(p)),
           main'[RollOf(p)] = "ok"
    PROVE  HasSent(Other(p))
<1> USE DEF GameInductive, GameTypeOK
<1>1. /\ chan[p] \in Seq(Message) /\ chan[p] # << >>
      /\ Confirms(Head(chan[p]), computed[RollOf(p)])
  BY TheTwoRolls, StreamRecv DEF RecvConfirmation, MainTo, TypeOK
<1>2. 1 \in DOMAIN chan[p] /\ Head(chan[p]) = chan[p][1]
  BY <1>1, TailElements
<1> QED
  BY <1>1, <1>2 DEF DiceInv, Confirms

(* What is on its way to a player after a step was so before, but for what *)
(* the other has just sent.                                                *)
LEMMA OnTheWay ==
    ASSUME GameInductive, [GameNext]_<<vars, gameVars>>, NEW p \in Players,
           NEW i \in DOMAIN chan'[p], chan'[p][i].type = "RollConfirmation"
    PROVE  \/ \E j \in DOMAIN chan[p] : chan'[p][i] = chan[p][j]
           \/ SendConfirmation(RollOf(Other(p)))
<1> USE DEF GameInductive, GameTypeOK
<1>1. chan \in [Players -> Seq(Message)]
  BY DEF TypeOK
<1>2. ASSUME NEW q \in Players, Recv(RollOf(q))
      PROVE  \E j \in DOMAIN chan[p] : chan'[p][i] = chan[p][j]
  <2>1. chan' = [chan EXCEPT ![q] = Tail(@)] /\ chan[q] # << >>
    BY <1>2, TheTwoRolls, StreamRecv
  <2>2. chan'[p] = chan[p] \/ (chan'[p] = Tail(chan[p]) /\ chan[p] # << >>)
    BY <1>1, <2>1
  <2>3. CASE chan'[p] = Tail(chan[p]) /\ chan[p] # << >>
    <3>1. chan[p] \in Seq(Message) /\ i \in DOMAIN Tail(chan[p])
      BY <1>1, <2>3
    <3>2. i + 1 \in DOMAIN chan[p] /\ Tail(chan[p])[i] = chan[p][i + 1]
      BY <2>3, <3>1, TailElements
    <3> QED
      BY <2>3, <3>2
  <2> QED
    BY <2>2, <2>3
<1>3. ASSUME NEW q \in Players, NEW m \in Message, m.type # "RollConfirmation", Send(RollOf(q), m)
      PROVE  \E j \in DOMAIN chan[p] : chan'[p][i] = chan[p][j]
  <2>1. chan' = [chan EXCEPT ![Other(q)] = Append(@, m)] /\ Other(q) \in Players
    BY <1>3, TheTwoRolls DEF Send
  <2>2. chan'[p] = chan[p] \/ chan'[p] = Append(chan[p], m)
    BY <1>1, <2>1
  <2>3. chan'[p][i] = m \/ (i \in DOMAIN chan[p] /\ chan'[p][i] = chan[p][i])
    <3>1. chan[p] \in Seq(Message)
      BY <1>1
    <3> QED
      BY <2>2, <3>1, AppendElements
  <2> QED
    BY <1>3, <2>3
<1>4. CASE chan' = chan
  BY <1>4
<1>5. ASSUME NEW q \in Players, Step(q) \/ Refuse(q)
      PROVE  \/ Recv(RollOf(q)) \/ chan' = chan
             \/ Send(RollOf(q), CommitmentMsg(RollOf(q))) \/ Send(RollOf(q), SecretMsg(RollOf(q)))
             \/ SendConfirmation(RollOf(q))
  BY <1>5 DEF Step, Refuse, Exchange, SendCommitment, RecvCommitment, SendSecret, RecvSecret,
              ExchangeIOFails, PushSeesCancel, Meet, DeliverSecret, DeliverCommitment,
              DeliverErr, WaiterSeesCancel, ConfirmIOFails, RecvConfirmation
<1>6. chan' = chan \/ \E q \in Players : Step(q) \/ Refuse(q)
  BY GameSteps DEF Challenge, Accept, Roll, Respond, ChallengeFails, OpponentReturns,
                   EndReaches, WorkOut, Panic, ContextEnds, Cancel, vars
<1>7. ASSUME NEW q \in Players, SendConfirmation(RollOf(q)), q # Other(p)
      PROVE  chan'[p] = chan[p]
  BY <1>1, <1>7, TheTwoRolls DEF SendConfirmation, Send
<1>8. ASSUME NEW q \in Players
      PROVE  /\ CommitmentMsg(RollOf(q)).type # "RollConfirmation"
             /\ SecretMsg(RollOf(q)).type # "RollConfirmation"
             /\ CommitmentMsg(RollOf(q)) \in Message /\ SecretMsg(RollOf(q)) \in Message
  BY TheTwoRolls, Constructors DEF CommitmentMsg, SecretMsg
<1> QED
  BY <1>2, <1>3, <1>4, <1>5, <1>6, <1>7, <1>8

(* Every step keeps what is known of a player's dice.                      *)
LEMMA DiceInvStep ==
    ASSUME GameInductive, [GameNext]_<<vars, gameVars>>, NEW p \in Players
    PROVE  DiceInv(p)'
<1> USE DEF GameInductive
<1>0. Other(p) \in Players /\ Other(Other(p)) = p
  BY TheTwoRolls
<1>1. dice'[p] # None => sum' # None /\ HasDice(sum') /\ dice'[p] = roll(sum')
  BY OneHash
<1>2. main'[RollOf(p)] \in {"awaitConfirmation", "ok"} => dice'[p] # None
  <2>1. CASE main'[RollOf(p)] = main[RollOf(p)]
    BY <2>1, SentStays DEF DiceInv
  <2>2. CASE main'[RollOf(p)] # main[RollOf(p)]
    BY <2>2, Sends
  <2> QED
    BY <2>1, <2>2
<1>3. handler'[p] = "panicked" => main'[RollOf(p)] = "confirm" /\ dice'[p] = None
  BY PanickedStays
<1>4. main'[RollOf(p)] = "ok" => HasSent(Other(p))'
  <2>1. main'[RollOf(p)] = "ok" => HasSent(Other(p))
    BY Sends, ConfirmedBySender DEF DiceInv
  <2> QED
    BY <1>0, <2>1, SentStays
<1>5. ASSUME NEW i \in DOMAIN chan'[p], chan'[p][i].type = "RollConfirmation"
      PROVE  HasSent(Other(p))'
  <2>1. CASE \E j \in DOMAIN chan[p] : chan'[p][i] = chan[p][j]
    BY <1>0, <1>5, <2>1, SentStays DEF DiceInv
  <2>2. CASE SendConfirmation(RollOf(Other(p)))
    <3>1. main'[RollOf(Other(p))] = "awaitConfirmation" /\ main[RollOf(Other(p))] = "confirm"
      BY <1>0, <2>2, TheTwoRolls DEF SendConfirmation, MainTo, GameTypeOK, TypeOK
    <3> QED
      BY <1>0, <3>1, Sends DEF HasSent
  <2> QED
    BY <1>5, <2>1, <2>2, OnTheWay
<1> QED
  BY <1>1, <1>2, <1>3, <1>4, <1>5 DEF DiceInv

(* The invariant holds before the challenge and in every step of the game. *)
LEMMA GameInductiveInit == GameInit => GameInductive
<1> SUFFICES ASSUME GameInit PROVE GameInductive
  OBVIOUS
<1>1. Inductive
  BY InductiveInit DEF GameInit
<1>2. GameTypeOK
  BY <1>1 DEF GameInit, GameTypeOK, Inductive
<1>3. \A p \in Players : DiceInv(p)
  BY TheTwoRolls DEF GameInit, Init, DiceInv
<1> QED
  BY <1>1, <1>2, <1>3 DEF GameInductive, GameInit

(* What the players have is of one hash, and what they confirm was sent.   *)
THEOREM GameInvariant == GameSpec => []GameInductive
<1>1. GameInductive /\ [GameNext]_<<vars, gameVars>> => GameInductive'
  <2> SUFFICES ASSUME GameInductive, [GameNext]_<<vars, gameVars>> PROVE GameInductive'
    OBVIOUS
  <2>1. Inductive' /\ GameTypeOK'
    BY RollsStep, GameTypeStep DEF GameInductive
  <2>2. \A p \in Players : DiceInv(p)'
    BY DiceInvStep
  <2>3. response' # None => main'[RollOf(Challenger)] = "ok"
    <3>1. CASE Respond
      BY <3>1 DEF Respond
    <3>2. response' = response \/ Respond
      BY GameSteps DEF Challenge, Accept, ChallengeFails, OpponentReturns, EndReaches, Step,
                       Refuse, WorkOut, Panic, ContextEnds, gameVars
    <3> QED
      BY <3>1, <3>2, SentStays, TheTwoRolls DEF GameInductive
  <2> QED
    BY <2>1, <2>2, <2>3 DEF GameInductive
<1> QED
  BY <1>1, GameInductiveInit, PTL DEF GameSpec

(* A roll has all its dice and every die one of its faces, whatever the    *)
(* words of the hash (Roller.roll).                                        *)
THEOREM GameTypeCorrect == GameSpec => []GameTypeOK
<1>1. GameInductive => GameTypeOK
  BY DEF GameInductive
<1> QED
  BY <1>1, GameInvariant, PTL

(* The challenger is answered only for dice that the opponent has too, and *)
(* has sent (Service.Challenge).                                           *)
THEOREM Shared == GameSpec => []AnswerIsShared
<1>1. GameInductive => AnswerIsShared
  <2> SUFFICES ASSUME GameInductive, response # None
               PROVE  /\ dice[Opponent] = dice[Challenger]
                      /\ main[RollOf(Opponent)] \in {"awaitConfirmation", "ok", "failed"}
                      /\ \A p \in Players : Alive(p)
    BY DEF AnswerIsShared
  <2>1. main[RollOf(Challenger)] = "ok" /\ dice[Challenger] # None /\ HasSent(Opponent)
    BY TheTwoRolls DEF GameInductive, DiceInv
  <2>2. dice[Opponent] = dice[Challenger]
    BY <2>1, TheTwoRolls DEF GameInductive, DiceInv, HasSent
  <2>3. ASSUME NEW p \in Players PROVE Alive(p)
    <3>1. dice[p] # None
      BY <2>1, TheTwoRolls DEF HasSent, Players, Challenger, Opponent
    <3> QED
      BY <3>1 DEF GameInductive, DiceInv, Alive
  <2> QED
    BY <2>1, <2>2, <2>3 DEF HasSent
<1> QED
  BY <1>1, GameInvariant, PTL
-----------------------------------------------------------------------------
(* The hashes that make the dice d.                                        *)
Hashes(d) == {s \in Sums : HasDice(s) /\ roll(s) = d}

(* There are only so many hashes.                                          *)
LEMMA HashesAreFinite == IsFiniteSet(Sums)
<1> DEFINE Graph == [s \in Sums |-> {<<i, s[i]>> : i \in 1..Words}]
           Graphs == SUBSET ((1..Words) \X (0..max))
<1>1. Graph \in Injection(Sums, Graphs)
  <2>1. Graph \in [Sums -> Graphs]
    BY DEF Sums
  <2>2. ASSUME NEW s \in Sums, NEW u \in Sums, Graph[s] = Graph[u] PROVE s = u
    <3>1. ASSUME NEW i \in 1..Words PROVE s[i] = u[i]
      <4>1. <<i, s[i]>> \in {<<j, u[j]>> : j \in 1..Words}
        BY <2>2
      <4> QED
        BY <4>1
    <3> QED
      BY <3>1 DEF Sums
  <2> HIDE DEF Graph, Graphs
  <2> QED
    BY <2>1, <2>2, Fun_IsInj
<1>2. IsFiniteSet(Graphs)
  <2>1. IsFiniteSet(1..Words) /\ IsFiniteSet(0..max)
    BY FS_Interval
  <2> QED
    BY <2>1, FS_Product, FS_SUBSET
<1> HIDE DEF Graph, Graphs
<1> QED
  BY <1>1, <1>2, FS_Injection

(* Which of the dice a usable word makes: the number of usable words up to *)
(* it.                                                                     *)
Place(s, j) == Len(Kept(s)[j])

(* Each turn of the loop of Roller.roll makes the next die of a usable     *)
(* word, and nothing of another.                                           *)
LEMMA Places ==
    ASSUME NEW s \in Sums, NEW j \in 1..Words
    PROVE  /\ Place(s, 0) = 0 /\ Place(s, j) \in Nat /\ Place(s, j - 1) \in Nat
           /\ s[j] < rollValueLimit =>
                 /\ Place(s, j) = Place(s, j - 1) + 1
                 /\ \A i \in 1..Place(s, j) :
                       Kept(s)[j][i] = IF i = Place(s, j) THEN s[j] ELSE Kept(s)[j - 1][i]
           /\ ~ s[j] < rollValueLimit => Kept(s)[j] = Kept(s)[j - 1]
<1> DEFINE before == Kept(s)[j - 1]
<1>1. before \in Seq(0..max) /\ Kept(s)[j] \in Seq(0..max) /\ s[j] \in 0..max
  BY KeptType DEF Sums
<1>2. Kept(s)[0] = << >> /\ Kept(s)[j] = KeepWord(s, j, before)
  BY KeptWords
<1>3. Place(s, 0) = 0 /\ Place(s, j) \in Nat /\ Place(s, j - 1) \in Nat
  BY <1>1, <1>2 DEF Place
<1>4. ASSUME s[j] < rollValueLimit
      PROVE  /\ Place(s, j) = Place(s, j - 1) + 1
             /\ \A i \in 1..Place(s, j) :
                   Kept(s)[j][i] = IF i = Place(s, j) THEN s[j] ELSE before[i]
  <2>1. Kept(s)[j] = Append(before, s[j])
    BY <1>2, <1>4 DEF KeepWord
  <2> HIDE DEF before
  <2>2. Len(Append(before, s[j])) = Len(before) + 1
    BY <1>1
  <2>3. \A i \in 1..(Len(before) + 1) :
           Append(before, s[j])[i] = IF i = Len(before) + 1 THEN s[j] ELSE before[i]
    BY <1>1
  <2> QED
    BY <2>1, <2>2, <2>3 DEF Place, before
<1>5. ~ s[j] < rollValueLimit => Kept(s)[j] = before
  BY <1>2 DEF KeepWord
<1> QED
  BY <1>3, <1>4, <1>5

(* The words kept so far are the first of those kept in the end.           *)
LEMMA KeptStay ==
    ASSUME NEW s \in Sums, NEW j \in 0..Words
    PROVE  /\ Place(s, j) <= Place(s, Words)
           /\ \A i \in 1..Place(s, j) : Usable(s)[i] = Kept(s)[j][i]
<1> DEFINE Stay(n) == /\ Place(s, j) <= Place(s, n)
                      /\ \A i \in 1..Place(s, j) : Kept(s)[n][i] = Kept(s)[j][i]
           T == {n \in 0..Words : j <= n => Stay(n)}
<1>1. Place(s, j) \in Nat
  BY Places
<1>2. Stay(j)
  BY <1>1
<1>3. ASSUME NEW n \in 1..Words, n - 1 \in T PROVE n \in T
  <2>1. CASE j = n
    BY <1>2, <2>1
  <2>2. CASE j < n
    <3>1. Stay(n - 1)
      BY <1>3, <2>2
    <3>2. /\ Place(s, n) \in Nat /\ Place(s, n - 1) \in Nat
          /\ s[n] < rollValueLimit =>
                /\ Place(s, n) = Place(s, n - 1) + 1
                /\ \A i \in 1..Place(s, n) :
                      Kept(s)[n][i] = IF i = Place(s, n) THEN s[n] ELSE Kept(s)[n - 1][i]
          /\ ~ s[n] < rollValueLimit => Kept(s)[n] = Kept(s)[n - 1]
      BY Places
    <3>3. ASSUME s[n] < rollValueLimit PROVE Stay(n)
      BY <1>1, <3>1, <3>2, <3>3
    <3>4. ASSUME ~ s[n] < rollValueLimit PROVE Stay(n)
      BY <3>1, <3>2, <3>4 DEF Place
    <3>5. Stay(n)
      BY <3>3, <3>4
    <3> HIDE DEF Stay
    <3> QED
      BY <3>5
  <2>3. CASE j > n
    BY <2>3
  <2> QED
    BY <2>1, <2>2, <2>3
<1>4. 0 \in T
  <2>1. j <= 0 => Stay(0)
    BY <1>2
  <2> HIDE DEF Stay
  <2> QED
    BY <2>1
<1>5. Words \in T
  <2> HIDE DEF T
  <2>1. 0..Words \subseteq T
    BY <1>3, <1>4, WordByWord
  <2> QED
    BY <2>1
<1> QED
  BY <1>5 DEF Usable

(* The face that a word shows as a die. *)
Face(v) == (v % Sides) + 1

(* A usable word keeps another usable word of the same multiple of the     *)
(* sides for every face: that is what the limit is for (NewRoller).        *)
LEMMA OtherFace ==
    ASSUME NEW v \in 0..max, NEW f \in 1..Sides, NEW g \in 1..Sides,
           v < rollValueLimit, f = Face(v)
    PROVE  /\ (v - f) + g \in 0..max /\ (v - f) + g < rollValueLimit
           /\ Face((v - f) + g) = g
<1>0. v \in Nat /\ v % Sides \in 0..(Sides - 1)
  BY Faces
<1>1. PICK q \in Nat : v = q * Sides + (v % Sides)
  BY <1>0, Faces
<1>2. PICK n \in Nat : max = n * Sides + (max % Sides) /\ max % Sides \in 0..(Sides - 1)
  BY Faces
<1>3. /\ v = q * Sides + (f - 1) /\ f \in 1..Sides
      /\ rollValueLimit = n * Sides /\ rollValueLimit <= max
  <2>1. PICK r \in 0..(Sides - 1) : r = v % Sides
    BY <1>0
  <2>2. PICK u \in 0..(Sides - 1) : u = max % Sides
    BY <1>2
  <2>3. v = q * Sides + r /\ f = r + 1
    BY <1>1, <2>1 DEF Face
  <2>4. max = n * Sides + u /\ rollValueLimit = max - u
    BY <1>2, <2>2 DEF rollValueLimit
  <2>5. q * Sides \in Nat /\ n * Sides \in Nat
    OBVIOUS
  <2>6. PICK a \in Nat, b \in Nat : a = q * Sides /\ b = n * Sides
    BY <2>5
  <2>7. v = a + (f - 1)
    BY <2>3, <2>6
  <2>8. rollValueLimit = b /\ rollValueLimit <= max
    BY <2>4, <2>6
  <2> QED
    BY <2>6, <2>7, <2>8
<1>4. (v - f) + g = q * Sides + (g - 1) /\ g - 1 \in 0..(Sides - 1)
  <2>1. PICK a \in Nat : a = q * Sides
    OBVIOUS
  <2> QED
    BY <1>3, <2>1
<1>5. q * Sides + Sides <= n * Sides
  <2>1. q * Sides < n * Sides
    BY <1>3
  <2>2. q < n
    BY <2>1
  <2>3. PICK m \in Nat : n = q + 1 + m
    BY <2>2
  <2>4. n * Sides = q * Sides + Sides + m * Sides /\ m * Sides >= 0
    BY <2>3
  <2> QED
    BY <2>4
<1>6. q * Sides \in Nat
  OBVIOUS
<1>7. (v - f) + g \in 0..max /\ (v - f) + g < rollValueLimit
  BY <1>3, <1>4, <1>5, <1>6
<1>8. Face((v - f) + g) = g
  <2>1. PICK h \in 0..(Sides - 1) : h = g - 1
    BY <1>4
  <2>2. (q * Sides + h) % Sides = h
    BY FaceOf
  <2>3. (v - f) + g = q * Sides + h /\ g = h + 1
    BY <1>4, <2>1
  <2> QED
    BY <2>2, <2>3 DEF Face
<1> QED
  BY <1>7, <1>8

(* A word that makes one of the dice (the loop ends with the last die).    *)
Makes(s, j) == s[j] < rollValueLimit /\ Place(s, j) <= NumDice

(* The hash that makes the dice e where s makes the dice d: each word that *)
(* makes a die changes its face.                                           *)
Turn(s, d, e) ==
    [j \in 1..Words |-> IF Makes(s, j)
                        THEN (s[j] - d[Place(s, j)]) + e[Place(s, j)]
                        ELSE s[j]]

(* The die that a word makes shows the face of the word (Roller.roll).     *)
LEMMA MadeBy ==
    ASSUME NEW d \in DiceValues, NEW s \in Hashes(d), NEW j \in 1..Words, Makes(s, j)
    PROVE  /\ s \in Sums /\ s[j] \in 0..max /\ Place(s, j) \in 1..NumDice
           /\ d[Place(s, j)] = Face(s[j])
<1>1. s \in Sums /\ roll(s) = d /\ s[j] < rollValueLimit /\ Place(s, j) <= NumDice
  BY DEF Hashes, Makes
<1>2. s[j] \in 0..max
  BY <1>1 DEF Sums
<1>3. Place(s, j) \in 1..NumDice /\ Kept(s)[j][Place(s, j)] = s[j]
  BY <1>1, Places
<1>4. Usable(s)[Place(s, j)] = s[j]
  BY <1>1, <1>3, KeptStay
<1>5. d[Place(s, j)] = Face(Usable(s)[Place(s, j)])
  BY <1>1, <1>3 DEF roll, Face
<1> QED
  BY <1>1, <1>2, <1>3, <1>4, <1>5

(* Turning the faces leaves the words that are left out where they are:    *)
(* the loop of Roller.roll takes the same turns.                           *)
LEMMA TurnWord ==
    ASSUME NEW d \in DiceValues, NEW e \in DiceValues, NEW s \in Hashes(d),
           NEW j \in 1..Words
    PROVE  /\ Turn(s, d, e)[j] \in 0..max
           /\ Turn(s, d, e)[j] < rollValueLimit <=> s[j] < rollValueLimit
           /\ Makes(s, j) =>
                 /\ Face(Turn(s, d, e)[j]) = e[Place(s, j)]
                 /\ (Turn(s, d, e)[j] - e[Place(s, j)]) + d[Place(s, j)] = s[j]
           /\ ~ Makes(s, j) => Turn(s, d, e)[j] = s[j]
<1>1. CASE Makes(s, j)
  <2>1. /\ s[j] \in 0..max /\ Place(s, j) \in 1..NumDice
        /\ d[Place(s, j)] = Face(s[j])
    BY <1>1, MadeBy
  <2>2. e[Place(s, j)] \in 1..Sides
    BY <2>1 DEF DiceValues
  <2>3. s[j] < rollValueLimit
    BY <1>1 DEF Makes
  <2>4. Turn(s, d, e)[j] = (s[j] - d[Place(s, j)]) + e[Place(s, j)]
    BY <1>1 DEF Turn
  <2>5. /\ (s[j] - d[Place(s, j)]) + e[Place(s, j)] \in 0..max
        /\ (s[j] - d[Place(s, j)]) + e[Place(s, j)] < rollValueLimit
        /\ Face((s[j] - d[Place(s, j)]) + e[Place(s, j)]) = e[Place(s, j)]
    <3>1. PICK v \in 0..max : v = s[j]
      BY <2>1
    <3>2. PICK f \in 1..Sides : f = d[Place(s, j)] /\ f = Face(v)
      BY <2>1, <3>1 DEF DiceValues
    <3>3. PICK g \in 1..Sides : g = e[Place(s, j)]
      BY <2>2
    <3>4. /\ (v - f) + g \in 0..max /\ (v - f) + g < rollValueLimit
          /\ Face((v - f) + g) = g
      BY <2>3, <3>1, <3>2, OtherFace
    <3> QED
      BY <3>1, <3>2, <3>3, <3>4
  <2>6. (((s[j] - d[Place(s, j)]) + e[Place(s, j)]) - e[Place(s, j)]) + d[Place(s, j)] = s[j]
    <3>1. d[Place(s, j)] \in 1..Sides
      BY <2>1 DEF DiceValues
    <3> QED
      BY <2>1, <2>2, <3>1
  <2> QED
    BY <1>1, <2>3, <2>4, <2>5, <2>6
<1>2. CASE ~ Makes(s, j)
  <2>1. Turn(s, d, e)[j] = s[j]
    BY <1>2 DEF Turn
  <2>2. s[j] \in 0..max
    BY DEF Hashes, Sums
  <2> QED
    BY <1>2, <2>1, <2>2
<1> QED
  BY <1>1, <1>2

(* ... so that every word makes the same die as before, with the face that *)
(* it has been turned to (Roller.roll).                                    *)
LEMMA TurnKept ==
    ASSUME NEW d \in DiceValues, NEW e \in DiceValues, NEW s \in Hashes(d)
    PROVE  /\ Turn(s, d, e) \in Sums
           /\ \A j \in 0..Words :
                 /\ Place(Turn(s, d, e), j) = Place(s, j)
                 /\ \A i \in 1..Place(s, j) :
                       i <= NumDice => Face(Kept(Turn(s, d, e))[j][i]) = e[i]
<1>1. PICK t : t = Turn(s, d, e)
  OBVIOUS
<1>2. t \in Sums
  BY <1>1, TurnWord DEF Turn, Sums
<1>3. s \in Sums
  BY DEF Hashes
<1> DEFINE Same(j) == /\ Place(t, j) = Place(s, j)
                      /\ \A i \in 1..Place(s, j) :
                            i <= NumDice => Face(Kept(t)[j][i]) = e[i]
           T == {j \in 0..Words : Same(j)}
<1>4. Same(0)
  BY <1>2, <1>3, KeptWords DEF Place
<1>5. ASSUME NEW j \in 1..Words, Same(j - 1) PROVE Same(j)
  <2>1. /\ Place(s, j) \in Nat /\ Place(s, j - 1) \in Nat
        /\ s[j] < rollValueLimit => Place(s, j) = Place(s, j - 1) + 1
        /\ ~ s[j] < rollValueLimit => Kept(s)[j] = Kept(s)[j - 1]
    BY <1>3, Places
  <2>2. /\ t[j] < rollValueLimit =>
                 /\ Place(t, j) = Place(t, j - 1) + 1
                 /\ \A i \in 1..Place(t, j) :
                       Kept(t)[j][i] = IF i = Place(t, j) THEN t[j] ELSE Kept(t)[j - 1][i]
        /\ ~ t[j] < rollValueLimit => Kept(t)[j] = Kept(t)[j - 1]
    BY <1>2, Places
  <2>3. t[j] < rollValueLimit <=> s[j] < rollValueLimit
    BY <1>1, TurnWord
  <2>4. ASSUME ~ s[j] < rollValueLimit PROVE Same(j)
    BY <1>5, <2>1, <2>2, <2>3, <2>4 DEF Place
  <2>5. ASSUME s[j] < rollValueLimit PROVE Same(j)
    <3>1. Place(t, j) = Place(s, j) /\ Place(s, j) = Place(s, j - 1) + 1
      BY <1>5, <2>1, <2>2, <2>3, <2>5
    <3>2. ASSUME NEW i \in 1..Place(s, j), i <= NumDice
          PROVE  Face(Kept(t)[j][i]) = e[i]
      <4>1. CASE i = Place(s, j)
        <5>1. Makes(s, j)
          BY <2>5, <3>2, <4>1 DEF Makes
        <5>2. Face(t[j]) = e[i]
          BY <1>1, <4>1, <5>1, TurnWord
        <5>3. Kept(t)[j][i] = t[j]
          BY <2>2, <2>3, <2>5, <3>1, <4>1
        <5> QED
          BY <5>2, <5>3
      <4>2. CASE i # Place(s, j)
        <5>1. Kept(t)[j][i] = Kept(t)[j - 1][i]
          BY <2>2, <2>3, <2>5, <3>1, <4>2
        <5>2. i \in 1..Place(s, j - 1)
          BY <2>1, <3>1, <4>2
        <5> QED
          BY <1>5, <3>2, <5>1, <5>2
      <4> QED
        BY <4>1, <4>2
    <3> QED
      BY <3>1, <3>2
  <2> QED
    BY <2>4, <2>5
<1> HIDE DEF Same
<1>6. 0 \in T /\ \A j \in 1..Words : j - 1 \in T => j \in T
  BY <1>4, <1>5
<1> HIDE DEF T
<1>7. 0..Words \subseteq T
  BY <1>6, WordByWord
<1> QED
  BY <1>1, <1>2, <1>7 DEF T, Same

(* Of a hash that makes the dice d, turning the faces makes a hash for the *)
(* dice e, and turning them back makes the first one again (Roller.roll).  *)
LEMMA TurnBack ==
    ASSUME NEW d \in DiceValues, NEW e \in DiceValues, NEW s \in Hashes(d)
    PROVE  /\ Turn(s, d, e) \in Hashes(e)
           /\ Turn(Turn(s, d, e), e, d) = s
<1>1. PICK t : t = Turn(s, d, e)
  OBVIOUS
<1>2. /\ t \in Sums
      /\ \A j \in 0..Words :
            /\ Place(t, j) = Place(s, j)
            /\ \A i \in 1..Place(s, j) :
                  i <= NumDice => Face(Kept(t)[j][i]) = e[i]
  BY <1>1, TurnKept
<1>3. s \in Sums /\ HasDice(s)
  BY DEF Hashes
<1>4. Place(s, Words) >= NumDice /\ Place(t, Words) = Place(s, Words)
  BY <1>2, <1>3 DEF HasDice, Usable, Place
<1>5. HasDice(t)
  BY <1>4 DEF HasDice, Usable, Place
<1>6. roll(t) = e
  <2>1. ASSUME NEW i \in 1..NumDice PROVE Face(Usable(t)[i]) = e[i]
    <3>1. i \in 1..Place(s, Words)
      BY <1>2, <1>3, <1>4, Places
    <3> QED
      BY <1>2, <3>1 DEF Usable
  <2> QED
    BY <2>1 DEF roll, DiceValues, Face
<1>7. t \in Hashes(e)
  BY <1>2, <1>5, <1>6 DEF Hashes
<1>8. ASSUME NEW j \in 1..Words PROVE Turn(t, e, d)[j] = s[j]
  <2>1. Makes(t, j) <=> Makes(s, j)
    BY <1>1, <1>2, TurnWord DEF Makes
  <2>2. Place(t, j) = Place(s, j)
    BY <1>2
  <2>3. CASE Makes(s, j)
    BY <1>1, <2>1, <2>2, <2>3, TurnWord DEF Turn
  <2>4. CASE ~ Makes(s, j)
    <3>1. Turn(t, e, d)[j] = t[j]
      BY <2>1, <2>4 DEF Turn
    <3> QED
      BY <1>1, <2>4, <3>1, TurnWord
  <2> QED
    BY <2>3, <2>4
<1>9. Turn(t, e, d) = s
  BY <1>3, <1>8 DEF Turn, Sums
<1> QED
  BY <1>1, <1>7, <1>9

(* No dice are made by more hashes than others (rollValueLimit).           *)
LEMMA AtMostAsMany ==
    ASSUME NEW d \in DiceValues, NEW e \in DiceValues
    PROVE  Cardinality(Hashes(d)) <= Cardinality(Hashes(e))
<1> DEFINE turn == [s \in Hashes(d) |-> Turn(s, d, e)]
<1>1. turn \in [Hashes(d) -> Hashes(e)]
  BY TurnBack
<1>2. \A s, u \in Hashes(d) : turn[s] = turn[u] => s = u
  <2>1. ASSUME NEW s \in Hashes(d), NEW u \in Hashes(d), turn[s] = turn[u] PROVE s = u
    <3>1. Turn(s, d, e) = Turn(u, d, e)
      BY <2>1
    <3>2. Turn(Turn(s, d, e), e, d) = s /\ Turn(Turn(u, d, e), e, d) = u
      BY TurnBack
    <3> QED
      BY <3>1, <3>2
  <2> QED
    BY <2>1
<1> HIDE DEF turn
<1>3. turn \in Injection(Hashes(d), Hashes(e))
  BY <1>1, <1>2, Fun_IsInj
<1>4. IsFiniteSet(Hashes(e))
  BY HashesAreFinite, FS_Subset DEF Hashes
<1> QED
  BY <1>3, <1>4, FS_Injection

(* The limit on the words that Roller.roll uses makes every roll as likely *)
(* as any other, however many words a hash has and however large they are. *)
THEOREM Fair == GameSpec => []DiceAreFair
<1>1. ASSUME NEW d \in DiceValues, NEW e \in DiceValues
      PROVE  Cardinality(Hashes(d)) = Cardinality(Hashes(e))
  <2>1. /\ Cardinality(Hashes(d)) <= Cardinality(Hashes(e))
        /\ Cardinality(Hashes(e)) <= Cardinality(Hashes(d))
    BY AtMostAsMany
  <2>2. Cardinality(Hashes(d)) \in Nat /\ Cardinality(Hashes(e)) \in Nat
    BY HashesAreFinite, FS_Subset, FS_CardinalityType DEF Hashes
  <2> QED
    BY <2>1, <2>2
<1>2. \A l \in Likelihoods : \E d \in DiceValues : l[2] = Cardinality(Hashes(d))
  BY DEF Likelihoods, Hashes
<1>3. \A l, m \in Likelihoods : l[2] = m[2]
  BY <1>1, <1>2
<1>4. DiceAreFair
  BY <1>3 DEF DiceAreFair
<1> QED
  BY <1>4, PTL
=============================================================================
