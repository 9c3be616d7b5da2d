------------------------------ MODULE HighRoll ------------------------------
(***************************************************************************)
(* The game of High Roll (server/highroll): the challenger's server opens  *)
(* a stream to the opponent's, both roll once (DiceRoll), and the          *)
(* challenger wins if the first of its two dice is the higher one.         *)
(*                                                                         *)
(* DiceRoll has the two goroutines of either roll and the stream between   *)
(* them.  Here are the handlers that start the rolls and return, each of   *)
(* which ends the stream in its own way, and the dice themselves: words of *)
(* a hash, of which Roller.roll leaves out those that would make a face    *)
(* likelier than another.                                                  *)
(***************************************************************************)
EXTENDS DiceRoll, FiniteSets

CONSTANTS Sides,    \* of a die
          NumDice,  \* dice in a roll: 8
          Words,    \* words of a hash: 16
          max       \* the largest word: 2^16 - 1

ASSUME StreamAssumption == Link = "stream" /\ MaxRolls = 1 /\ MayCancel = {A, B}
ASSUME DiceAssumption ==
    /\ Sides \in Nat \ {0} /\ NumDice \in 2..Words
    /\ Words \in Nat /\ max \in Nat

VARIABLES handler,  \* handler[p]: where the handler of p is
          sum,      \* the hash of the secrets, once somebody has worked it out
          dice,     \* dice[p]: the dice of p
          response  \* the ChallengeResponse

gameVars == <<handler, sum, dice, response>>
-----------------------------------------------------------------------------
Challenger == A
Opponent   == B
RollOf(p)  == <<p, 1>>

(* Mutant of rollValueLimit: every word but the largest makes a die.       *)
NoLimit == max

(* NewRoller: the largest multiple of the sides that a word can reach.     *)
rollValueLimit == max - (max % Sides)

Sums == [1..Words -> 0..max]

(* Roller.roll reads one word after the other and keeps those below the    *)
(* limit: Kept(s)[i] are those of the first i words.                       *)
Kept(s) ==
    LET kept[i \in 0..Words] ==
            IF i = 0 THEN << >>
            ELSE IF s[i] < rollValueLimit THEN Append(kept[i - 1], s[i]) ELSE kept[i - 1]
    IN  kept

(* The words that make the dice. *)
Usable(s) == Kept(s)[Words]
HasDice(s) == Len(Usable(s)) >= NumDice

(* Mutant of roll: the faces are numbered from zero.                       *)
rollFromZero(s) == [i \in 1..NumDice |-> Usable(s)[i] % Sides]

roll(s) == [i \in 1..NumDice |-> (Usable(s)[i] % Sides) + 1]

ASSUME HashAssumption == None \notin Sums

Over(p) == handler[p] \in {"returned", "failed", "panicked"}
HandlerTo(p, state) == handler' = [handler EXCEPT ![p] = state]

GameInit ==
    /\ Init
    /\ handler = [p \in Players |-> "none"]
    /\ sum = None
    /\ dice = [p \in Players |-> None]
    /\ response = None
-----------------------------------------------------------------------------
(* Service.Challenge opens the stream, or cannot, and starts its roll. *)
Challenge ==
    /\ handler[Challenger] = "none"
    /\ \/ HandlerTo(Challenger, "failed") /\ UNCHANGED vars
       \/ HandlerTo(Challenger, "rolling") /\ Roll(RollOf(Challenger))
    /\ UNCHANGED <<sum, dice, response>>

(* Service.Roll, at the other end of the stream. *)
Accept ==
    /\ handler[Challenger] # "none" /\ main[RollOf(Challenger)] # "idle"
    /\ handler[Opponent] = "none"
    /\ HandlerTo(Opponent, "rolling")
    /\ Roll(RollOf(Opponent))
    /\ UNCHANGED <<sum, dice, response>>

Alive(p) == handler[p] # "panicked"

(* A step of the goroutines of p's roll. *)
Step(p) ==
    /\ Alive(p)
    /\ \/ Exchange(RollOf(p)) \/ Meet(RollOf(p)) \/ WaiterSeesCancel(RollOf(p))
       \/ dice[p] # None /\ (SendConfirmation(RollOf(p)) \/ ConfirmIOFails(RollOf(p)))
       \/ RecvConfirmation(RollOf(p))
    /\ UNCHANGED gameVars

(* The signature of what peer.Recv has received does not verify, for want  *)
(* of the signer's identity.                                               *)
Refuse(p) ==
    LET r == RollOf(p)
    IN  /\ Alive(p) /\ Recv(r) /\ RecvFails(r)
        /\ UNCHANGED <<commitIn, secretIn, computed, cancelled>>
        /\ UNCHANGED gameVars

(* The secrets are hashed, the same way on both sides. *)
Hash(p) ==
    /\ main[RollOf(p)] = "confirm" /\ dice[p] = None
    /\ sum' \in IF sum = None THEN Sums ELSE {sum}

(* The hash is cut into dice, which confirmRoll will send. *)
WorkOut(p) ==
    /\ Alive(p) /\ Hash(p)
    /\ HasDice(sum')
    /\ dice' = [dice EXCEPT ![p] = roll(sum')]
    /\ UNCHANGED <<vars, handler, response>>

(* Too few of the words are usable: roll panics, and with it the process.  *)
(* The connection breaks.                                                  *)
Panic(p) ==
    /\ Alive(p) /\ Hash(p)
    /\ ~ HasDice(sum')
    /\ HandlerTo(p, "panicked")
    /\ cancelled' = cancelled \cup {RollOf(p)}
    /\ UNCHANGED <<chan, taken, reading, exch, main, commitIn, secretIn, computed,
                   dice, response>>

(* The ChallengeResponse for two dice. *)
ResponseTo(d) == [Win |-> d[1] > d[2], Draw |-> d[1] = d[2]]

(* Mutant of Respond: the answer does not wait for the confirmation.       *)
RespondAtOnce ==
    /\ handler[Challenger] = "rolling"
    /\ main[RollOf(Challenger)] \in {"awaitConfirmation", "ok"}
    /\ response' = ResponseTo(dice[Challenger])
    /\ HandlerTo(Challenger, "returned")
    /\ cancelled' = cancelled \cup {RollOf(Challenger)}
    /\ UNCHANGED <<chan, taken, reading, exch, main, commitIn, secretIn, computed, sum, dice>>

(* RollSync has returned two dice: Challenge answers.  The context of the  *)
(* call ends, which resets the stream.                                     *)
Respond ==
    /\ handler[Challenger] = "rolling"
    /\ main[RollOf(Challenger)] = "ok"
    /\ response' = ResponseTo(dice[Challenger])
    /\ HandlerTo(Challenger, "returned")
    /\ cancelled' = cancelled \cup {RollOf(Challenger)}
    /\ UNCHANGED <<chan, taken, reading, exch, main, commitIn, secretIn, computed, sum, dice>>

(* RollSync has returned an error to Challenge. *)
ChallengeFails ==
    /\ handler[Challenger] = "rolling"
    /\ main[RollOf(Challenger)] = "failed"
    /\ HandlerTo(Challenger, "failed")
    /\ cancelled' = cancelled \cup {RollOf(Challenger)}
    /\ UNCHANGED <<chan, taken, reading, exch, main, commitIn, secretIn, computed,
                   sum, dice, response>>

(* RollSync has returned to Roll, which does not wait for the challenger:  *)
(* the stream ends for it behind the messages that are on their way ...    *)
OpponentReturns ==
    /\ handler[Opponent] = "rolling"
    /\ Returned(RollOf(Opponent))
    /\ HandlerTo(Opponent, IF main[RollOf(Opponent)] = "ok" THEN "returned" ELSE "failed")
    /\ UNCHANGED <<vars, sum, dice, response>>

(* ... where a Recv that finds nothing more, or a Send, meets it.          *)
EndReaches ==
    LET r == RollOf(Challenger)
    IN  /\ handler[Opponent] \in {"returned", "failed"}
        /\ r \notin cancelled
        /\ chan[Challenger] = << >> \/ exch[r] \in {"sendCommitment", "sendSecret"}
                                    \/ main[r] = "confirm"
        /\ cancelled' = cancelled \cup {r}
        /\ UNCHANGED <<chan, taken, reading, exch, main, commitIn, secretIn, computed>>
        /\ UNCHANGED gameVars

(* The owner's command has given up, or the connection breaks. *)
ContextEnds(p) == Cancel(RollOf(p)) /\ UNCHANGED gameVars
-----------------------------------------------------------------------------
Handlers == \/ Challenge \/ Accept \/ Respond \/ ChallengeFails \/ OpponentReturns
            \/ EndReaches

Rolling(p) == Step(p) \/ Refuse(p) \/ WorkOut(p) \/ Panic(p)

GameNext ==
    \/ Handlers
    \/ \E p \in Players : Rolling(p) \/ ContextEnds(p)

GameSpec == GameInit /\ [][GameNext]_<<vars, gameVars>>

(* gRPC calls the handler of a stream that has been opened and tells the   *)
(* ends of its end; the goroutines of the two processes run.  Nothing      *)
(* makes a context end.                                                    *)
FairGameSpec ==
    /\ GameSpec
    /\ WF_<<vars, gameVars>>(Handlers)
    /\ \A p \in Players : WF_<<vars, gameVars>>(Rolling(p))
-----------------------------------------------------------------------------
DiceValues == [1..NumDice -> 1..Sides]

(* The types of the variables: whatever the words of the hash, a roll has  *)
(* all its dice and every die one of its faces.                            *)
GameTypeOK ==
    /\ TypeOK
    /\ handler \in [Players -> {"none", "rolling", "returned", "failed", "panicked"}]
    /\ sum \in Sums \cup {None}
    /\ dice \in [Players -> DiceValues \cup {None}]
    /\ response \in [Win : BOOLEAN, Draw : BOOLEAN] \cup {None}

(* The challenger has an answer only if the opponent, who is never told,   *)
(* has worked out the same dice and sent them: it has not given up before, *)
(* nor has either process gone down over the hash (Service.Challenge).     *)
AnswerIsShared ==
    response # None =>
        /\ dice[Opponent] = dice[Challenger]
        /\ main[RollOf(Opponent)] \in {"awaitConfirmation", "ok", "failed"}
        /\ \A p \in Players : Alive(p)

(* Dice that are sent are as likely as any others, over all hashes: no     *)
(* face is favoured by the number of words that make it (rollValueLimit).  *)
Likelihoods == {<<d, Cardinality({s \in Sums : HasDice(s) /\ roll(s) = d})>> : d \in DiceValues}
DiceAreFair ==
    \A p \in Players : \A l, m \in Likelihoods :
        dice[p] = l[1] => l[2] = m[2]

(* When one side has returned, well or not, or a context has ended, both   *)
(* handlers return: nobody is left waiting for a message of the other      *)
(* (Challenge and Roll return as soon as their own roll is over).          *)
BothReturn ==
    (CtxDone(RollOf(Challenger)) \/ \E p \in Players : Over(p))
        ~> (Over(Challenger) /\ handler[Opponent] # "rolling")
-----------------------------------------------------------------------------
(* The inductive invariant behind GameTypeOK and AnswerIsShared.           *)

(* p has worked out its dice and sent them, or has given up sending them.  *)
HasSent(p) ==
    /\ dice[p] # None
    /\ main[RollOf(p)] \in {"awaitConfirmation", "ok", "failed"}

(* There are dice only where one hash has made them, a player confirms     *)
(* only dice of its own, and is confirmed only by dice of the other.       *)
DiceInv(p) ==
    /\ dice[p] # None => sum # None /\ HasDice(sum) /\ dice[p] = roll(sum)
    /\ main[RollOf(p)] \in {"awaitConfirmation", "ok"} => dice[p] # None
    /\ handler[p] = "panicked" => main[RollOf(p)] = "confirm" /\ dice[p] = None
    /\ main[RollOf(p)] = "ok" => HasSent(Other(p))
    /\ \A i \in DOMAIN chan[p] :
          chan[p][i].type = "RollConfirmation" => HasSent(Other(p))

GameInductive ==
    /\ Inductive
    /\ GameTypeOK
    /\ \A p \in Players : DiceInv(p)
    /\ response # None => main[RollOf(Challenger)] = "ok"
=============================================================================
