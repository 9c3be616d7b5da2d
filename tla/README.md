# ztg: a verification project

ztg (zero-trust games) lets two servers that do not trust each other play games
over gRPC. Dice are rolled together with a commit-reveal protocol, every message
is signed and chained, each side keeps its own copy of the board and checks the
other's moves, and a server's owner gives it commands signed with a key of their
own. This directory models that system in TLA+, checks the models with TLC on
small instances, and proves every safety property and both refinements with TLAPS for every
instance: the dice roll, High Roll, the game of Factor Fight and its strategy, the verification
of streams and the handling of requests. Liveness is model-checked.

## 1. Inventory

Paths are relative to `src/`.

| Component | State it keeps | Operations | What makes it correct |
|---|---|---|---|
| Dice roll, `dice/roller.go` | per roll: two goroutines, the peer's commitment and secret, the dice | `Roll`, `startExchange`, `confirmRoll`, `roll`, `RollSync` | nobody can choose a secret after seeing the other's; accepted dice are the peer's dice; no face is favoured; rolls never mix; every roll ends |
| Dice peers, `dice/channel_peer.go`, `dice/pipe_peer.go` | a bounded ordered channel per direction | `Send`, `Recv` | order and content are kept; how much room the protocol needs |
| Dice messages, `dice/message.go` | how far a message has been read | `ReadMessage`, `Bytes` | a message survives the pipe, or is taken for nobody's |
| Rules, `factorfight/move.go` | none | `generateMoves`, `allAllocations`, `pawnMoves`, `Eval` | there is always a move, no legal square is lost, bumps keep pawns apart |
| Session, `factorfight/game.go` | `State`: four pawns; the turn; the game log | `PlayWithInitiative`, `TakeTurn`, `OtherTurn`, `validateMove` | both boards are one board; honest moves are accepted; one winner, one loser |
| Strategy, `factorfight/strategy.go` | none | `ChooseMove` | picks the move closest to the goal |
| Channel peer, `factorfight/channel_peer.go` | a channel of one move per direction | `SendMove`, `RecvMove` | never full |
| Factor Fight service, `server/factorfight/` | the stream, hash chain counters | `Play`, `Challenge`, move and dice conversion | both sides return, both are told the result, moves survive the wire |
| High Roll service, `server/highroll/` | the stream, the roll | `Challenge`, `Roll` | the answer is about dice that both have; both sides return |
| Hash chain, `server/verifier.go` | last hash, sequence and expiry per peer | `VerifyAndAdd`, `Clear`, `Cleanup` | every honest stream is accepted, in order and without gaps |
| Identity cache, `server/verifier.go` | key and expiry per address, a RW mutex | `Get`, `GetWithAddressCheck`, `Set`, `SetPublicKey`, `Cleanup` | no expired entry is used, the owner's never expires |
| Verifier, `server/verifier.go`, `server/signer*.go` | cache, chain, store | `VerifyOrderedSignature`, `VerifyMessageSignature`, discovery through store and network | a peer that is known or reachable is verified, with its own key |
| Identity service and store, `server/identity_service.go`, `identity/store/`, `gen/go/sqlc/`, `migrations/` | a table with unique columns, which outlives the server | `GetIdentity`, `AddIdentity`, `ListIdentities`, `SetTrust` | what is reported done is in the table |
| Identity keys, `identity/*.go` | key files | load, sign, validate | library calls |
| Registry and game service, `server/registry.go`, `server/game_service.go` | games by id | `Register`, `Challenge` | the owner's challenge reaches the game, and ends with the command |
| Server, `server/server.go` | listener, store, context | `Run`, `Stop` | stops gracefully |
| Command line, `cmd/ztg`, `cmd/identity`, `cmd/trust`, `cmd/challenge` | none | single calls with a deadline | what is printed is true |
| `config/`, `cmd/key`, `ztg.go`, `example/`, `grpcutil/`, `gen/go/proto` | none | parsing, wiring, generated code | |

How they interact. A `Session` owns a `Roller` over its `Peer`: rolls and moves share
one ordered link. Over gRPC the link is the `Play` stream; `peer.go` signs and chains each
message and its verifier consults the identity cache, then the store, then the peer's
identity service. An owner's `Challenge` runs the whole game: the handler opens the stream
to the target from within its own RPC, so the stream lives only as long as that RPC, and the
RPC only as long as the owner's command waits. Handlers of one server run concurrently
and share the store only: every stream and every request has a verifier of its own.

What is hard here: two goroutines per roll that meet on unbuffered channels while a
context may end; messages without the identity of their roll, read in two steps from a
pipe that several goroutines may be reading; a link whose `Send` may or
may not block; a message refused in the middle of a roll; boards that change before a move is sent and after it is received; moves
computed by each side for the other; handlers that return while their last message is
under way, or go on when their client has left; unique columns written by several
handlers; a peer that is asked for its identity and never answers; a database that fails
or is closed under the handlers, and a process that is killed.
`PROJECT.json` lists each hazard at its line, with the properties that cover it.

## 2. Modules

| Module | Models | Used by |
|---|---|---|
| `AbstractRoll` | what a roll promises: bind, learn, accept or abort | refined by `DiceRoll` |
| `DiceRoll` | `dice/roller.go` over one of three links | `MCDiceRoll`, `HighRoll`, `DiceRollProofs` |
| `DiceRollProofs` | the theorems about `DiceRoll`, with failures and retries | `DicePairProofs`, `HighRollProofs` |
| `DicePairProofs` | the theorems about many rolls of players who stop at their first error | |
| `HighRoll` | `server/highroll` on top of `DiceRoll`: the handlers, the stream's two ends, the dice in the hash | `MCHighRoll`, `HighRollProofs` |
| `HighRollProofs` | the theorems about `HighRoll` | |
| `FactorFightRules` | `factorfight/move.go`, the methods of `State` | every Factor Fight module |
| `FactorFightStrategy` | the order of the moves, `ClosestMoveStrategy` | `MCFactorFightStrategy` |
| `AbstractGame` | the game on one board | refined by `FactorFightGame` |
| `FactorFightGame` | `factorfight/game.go`, the handlers of `server/factorfight` | `MCFactorFightGame` |
| `MCFactorFightRules`, `MCFactorFightStrategy` | one move from every legal board | runs |
| `FactorFightRulesProofs` | the lemmas about moves and boards | the next two |
| `FactorFightTurnsProofs`, `FactorFightGameProofs` | the theorems about one move, its list and the strategy; about two sessions, and that they play one game | |
| `VerifiedStreams` | `server/factorfight/peer.go`, the verifier of a stream, `identity/store`, `Stop` | `MCVerifiedStreams`, `VerifiedStreamsProofs` |
| `VerifiedStreamsProofs` | the theorems about `VerifiedStreams` | |
| `OwnerRequests` | the commands of `cmd/`, `identity_service.go`, `game_service.go`, the verifier of a request, the table, start, stop and crash | `MCOwnerRequests`, `OwnerRequestsProofs` |
| `OwnerRequestsProofs` | the theorems about `OwnerRequests` | |
| `MCVerifiedStreams`, `MCOwnerRequests` | which streams, players, addresses and requests there are | runs |
| `MCDiceRoll`, `MCHighRoll`, `MCFactorFightGame` | nothing of their own: the constants come from the cfg | runs |

### DiceRoll

A roll is `<<player, number>>`; its identity stands for its random secret, because
`rand.Read` gives fresh ones. SHA-256 is a constructor: `calculateCommitment` is injective
and the dice of two secrets are the unordered pair, which is what sorting and hashing
them amounts to. This makes "same dice" mean "same secrets"; two pairs of secrets that
happen to give equal numbers are not told apart by the code and need not be by the model.

`exch[r]` is the program counter of the exchange goroutine, `main[r]` that of the roll
goroutine. One action is one Send, one Recv, one meeting on a channel of the two
goroutines, or one branch of a `select`. `Link` says which peer is used:

- `"channel"`: `ChannelPeer`, `Cap` 1, looks at no context;
- `"pipe"`: `PipePeer`, `Cap` 1 (the message its writer goroutine holds), whose `Send`
  looks at its context and whose `Recv` does not, and reads a message in pieces;
- `"stream"`: a gRPC stream, both do, and the end of one side's context ends the other's.

`MayCancel` lets a context end at any time while its roll is running. `RollAfterFailure` lets a
player roll again on the same link after an error, as a caller of `RollSync` may: this is
where goroutines left behind take messages of the next roll. `Get` with an `n` out of range
is not modelled.

On a pipe they also tear them. `ReadMessage` reads the byte of the type and then, with
`io.ReadFull`, the 32 bytes of data, and `io.Pipe` gives each `Read` what is left of the
message that is being written. `taken[p]` counts the bytes of it that are read, `reading[r]`
is the type that the goroutine of `r` has read and how many bytes it still needs. `ReadType` is the
first `Read` and refuses an unknown type, `ReadPart` a `Read` that gets less than it asks for, and
`Recv` the last one. What was read in one piece behind a type of its own is the message; anything
else has the data `Torn`, which is the secret, the hash and the dice of nobody (`TornAssumption`). The
type that is read in the middle of a message is any type, or none. `Width` is 32 in the code.
A torn message is what `RollAgreement` and the refinement have to survive: `AbstractRoll` has a
step for it (`BindTorn`), after which a roll has nothing that a secret could open and only fails.

### HighRoll

The game is one roll, so the module extends `DiceRoll` with the handlers that start the two
rolls and return. The challenger's `Challenge` is the client of the stream: when it returns,
the context of its call ends and resets the stream at both ends (`Respond`, `ChallengeFails`).
The opponent's `Roll` is the server: its return ends the stream behind the messages that are
on their way (`OpponentReturns`, then `EndReaches`). `Refuse` is a message whose signature the
peer cannot verify. `Hash` chooses the words of the hash, the same for both sides;
`Kept` is the loop of `Roller.roll`, word by word, `Usable`, `HasDice` and `roll` what it makes of
the words, with `max` for 2^16 - 1, `Words` for 16
and `NumDice` for 8. `Panic` takes down the process of one player.

### FactorFightRules and FactorFightStrategy

Pure operators on boards and dice, with `Goal` and `Sides` as constants (101 and 10 in
the code). An expression tree is its value; a move is what `validateMove` compares and the
board uses: two results and two bumps. The set of the moves is in `FactorFightRules`; the list
in the order of the loops, on which the default strategy depends, in `FactorFightStrategy`.
That the one is the set of the other is the lemma `MovesListed` of `FactorFightTurnsProofs`.

### FactorFightGame

`pc[p]` is where `p`'s session is; `board[p]` its own `State`. A roll is two actions,
`RollFirst` and `RollSecond`: neither player has the dice before both have started the
roll, and one may go on before the other has them. That is what `DiceRoll` establishes
(`RollsPairUp`, `RollAgreement`, and `Roll` being needed from both sides for a commitment). The
strategy is any choice among the offered moves. `Wire = "grpc"` adds the conversion to
`int32` and the life of the stream: it breaks (`Disconnect`), it ends for both sides when a
handler returns an error, and it is reset when the challenger's handler returns, because the
stream was opened with the context of the `Challenge` RPC that is then over. The end of the
host's handler is delivered after the messages it sent. On a stream that is whole a receive
returns an error too, when the message does not verify (`MessageRefused`, with the bound
`MayRefuse`): the reasons are those of `VerifiedStreams`. The session ends with the error, the
message is not looked at, and what follows is the same as for any other error. Those facts about gRPC are external
to the repository; they are the definitions `Broken` and `Disconnect`, and what `Complete` does to
the variable `stream`.

`narrowed` is a history variable: a move has been sent that does not arrive as itself, because a
result is below the range of `int32`. From then on the boards may differ, and the properties of
the boards and the results say nothing more; over channels it stays false. `Inductive` describes a
game phase by phase (`InitiativePhase`, `RollPhase`, `ChoosePhase`, `SendPhase`, `SentPhase`,
`OverPhase`): what each session does and holds while one of them has the turn.

### VerifiedStreams

One server, the streams its peers have with it, and what happens to the messages that come
in. `sender[s]` is the `sequence` and `lastHash` of the peer's side; a hash stands for the
content of its message. `verifier[s]` is where the server's side of the stream is: waiting
in `Recv`, or in one of the three calls that take time, the look-up in the store, the
`GetIdentity` at the peer's server and the insert; between them other streams, `AddIdentity`,
`Stop` and the clock (`Tick`) may act. What is private to the stream (cache, chain) changes
in one step with the call before it. `cache[s]` is only the expiry of the entry: a stream
has one peer, and the peers are honest, so that the key is never wrong. `CreateSignerVerifierPair`
makes a verifier per stream; the one state that streams share is the table, `rows`. Its
columns `public_key` and `server_name` are UNIQUE. `verdict[s]` says why a message was
refused; the session then ends with that error. `heard` and the field `By` are history
variables.

`SameName` says that the peers share one `server_name`; nothing in the code or the
configuration keeps them apart (`config/config.cue` even suggests a default). With it, the
insert of a second peer that was fetched without trouble fails and its message is refused.
"New challengers are automatically added to the database" (`README.md:103`) therefore needs
distinct names; what holds in any case is `RefusedInsertHasRival`.

A look-up may fail on an open store and a row that is there; the verifier takes that for a
missing row, as it takes every error (`server/verifier.go:407`), and asks the peer's server.
`missed` is a history variable, the streams to which this has happened when the row was in the
table. Such a stream cannot get past it: the insert finds the row, so that `RefusedInsertHasRival`
lets a stream be refused for its own row in this case, and only in this. The insert may fail without a
rival as well, with the verdict `database`.

`Stop` closes the store before `GracefulStop` waits for the streams in flight. A stream whose
cache expires in between is refused with the same verdict, although its peer could be
reached; no property forbids that.

### OwnerRequests

The server's other side: unary calls, and the first message of a High Roll stream. A call has
two ends. `client[c]` is the command: it waits until the answer comes or its
`context.WithTimeout` ends (`GiveUp`). `handler[c]` is the handler with the context gRPC gives it,
which ends some time after the client has left (`Expire`, `expired`); in between it may still
write. A handler goes through the places of `VerifyMessageSignature` (cache, `lookup` in the
store, `fetch` over the network, `insert`) and then through its own statement; each is one step,
because other handlers, the two steps of `Stop` (`CloseStore`, after which calls are still taken, and
`GracefulStop`) and `Crash` may come between. A statement fails on a closed store, under a
context that has ended, or, with `MayFail`, for any reason; under an ended context it may have
been run all the same (`Ran`), and the client hears of neither. `AskPeer` is the question
to a peer's server (`Fetch`, `ComparePublicKey`): it is made with `context.Background()`, so nothing
here ends it. The verifier is made for the
request, so the cache holds the owner's key or nothing.

The table outlives the server: `Crash` kills the handlers and leaves `rows`; `Start` opens it
again. `server_address` is not UNIQUE: `Lookup` takes any row with the address (`LIMIT 1`),
`WithTrust` changes them all. `AnswersAt` says who answers at an address, which need not be who
gives it as their own. Keys are named after their holders and everybody is honest: a request is
refused because a key is the wrong one, because nobody was found, or because the insert failed.

`LastTrustHolds` is about a command that was given when the others about the address had come
to an end. A handler that outlives its command, given up at the deadline, can overwrite the
next; the property excepts it and the code has no rule against it.

A challenge or a roll in the place `play` stands for `FactorFightGame` or `HighRoll`; `opponent`
holds the challenges whose target is still in its handler. `then` in a request is history: whose
rows there were, and which trust commands were over, when it was made.

## 3. Runs

| Run | Instance | Shows |
|---|---|---|
| `DiceChannel` | channels with room for three, 4 rolls each, contexts that end, no roll after an error | `InLockstep`, `RollsPairUp`, `AtMostTwoInFlight`: two messages per direction, never three |
| `DiceRetry` | pipe, capacity 1, data of two bytes, 2 rolls, cancellation of one player's, retry of both | `TypeOK`, `RollAgreement`, `Inductive`, `ImplementsFairRoll`, `EveryRollSucceeds` where no context ends (fair) |
| `HighRoll` | 2 dice of 3 sides out of 3 words up to 7, contexts that end, refused messages | `GameTypeOK`, `AnswerIsShared`, `DiceAreFair`, `BothReturn` (fair) |
| `FactorFightRules` | goal 5, dice of 3, pawns from -1 | `EveryTurnHasAMove`, `SkippingLosesNothing`, `BumpsSeparate`, `GoalIsFinal`, `LastPawnGoesClosest` |
| `GameBoards` | goal 4, dice of 2, the host's pawns down to -1, channels | `BoardsMirror`, `Inductive` (which has `TypeOK`), `NoPawnsCollide`, `PlaysOneGame` |
| `GameStream` | goal 3, dice of 2, gRPC that may break, messages that may be refused, integers of 8 values, one pawn of the host down to -5 | `ResultsOpposite`, `HonestMovesAccepted`, `ChallengerHearsOfLoss`, `NobodyIsLeftWaiting` (fair) |
| `StreamsVerified` | two streams of one peer, one of them dialled, three messages each, a time to live of 1, two ticks, a second identity of the same name, a database that may fail, a peer that may not answer | `TypeOK`, `Inductive`, `ChainFollowsStream`, `RefusedInsertHasRival`, `RefusedOnlyAfterPause`, `KnownPeersNeedNoNetwork`, `EveryMessageJudged` (fair) |
| `OwnerRequests` | two calls out of fourteen, four identities, three addresses (two players share one, which dials the server itself; the table starts with one of the two), two starts, statements that fail | `TypeOK`, `Inductive`, `AddedIdentityIsStored`, `LastTrustHolds`, `OwnerIsObeyed`, `GivenUpGameEnds`, `StopEnds` (fair) |

Four more runs end in a counterexample, each a disagreement between the code and what a
comment or document of the repository says:

| Run | What the counterexample shows |
|---|---|
| `DiceLeak` | the waiter of `startExchange` "will block until the above goroutine finishes" (`dice/roller.go:291`), but it returns when the context ends and leaves the goroutine blocked on `errCh` |
| `StrategyClosest` | `ChooseMove` "chooses the move with one Pawn closest to the goal" (`factorfight/strategy.go:18`), but a later move that takes the other pawn further replaces it |
| `GameUnreported` | "OnGameComplete runs after your server receives a challenge" (`server/factorfight/service.go:26`), but the challenger's return may reset the stream before its winning move is received |
| `RegisteredPlayers` | registering "enables initiating challenges from a server without a remote IP/DNS" (`README.md:134`), but when two of them register one address, such as a local one, the look-up may take the other's row and refuse the signature |

Some remarks. `dice.Peer` asks that `Send` "should not block while waiting for the Peer to
receive" (`dice/roller.go:24`); on a channel or pipe of capacity 1 it does, and
`EveryRollSucceeds` shows that the protocol does not mind, while `AtMostTwoInFlight` says
that capacity 2 would keep the promise. A refused move, a broken stream or a lost last
move leave the two boards apart by design: nothing in the code reconciles them, the game is
over for both. A strategy may pick any move it is offered (`factorfight/strategy.go:9`), but a
result below the range of `int32` is changed on the wire (`server/factorfight/convert.go:14`),
and the peer refuses it: `HonestMovesAccepted` says that this is the only reason `validateMove`
rejects a move (the verifier may refuse the message before that). Worse, the move that arrives
may be another legal one: a pawn at -2^30 that is multiplied by 4 + 2 arrives at -2^31, where
4 - 2 would have taken it. The peer accepts it and the game goes on with two different boards. It takes a strategy that goes that far below zero.
The request that `trust create` prints is signed by the server over its own address,
where `SetTrust` wants the owner's signature over the address in the request: it is among the
requests of `OwnerRequests`, and it is refused.

### Bounds

- Dice: two rolls per player suffice for a goroutine left behind by the first to meet
  the messages of the second, in either direction; the theorems cover every number.
  Four rolls without failures let the two players drift one roll apart repeatedly.
  `DiceChannel` leaves room for three messages so that two is a fact about the protocol. That
  rolls end is the question of `DiceRetry`.
- `DiceRetry` lets the contexts of one player end (`MayCancel`), and both players roll again after an
  error. That puts two goroutines of that player, and by the errors that follow two of the other,
  in `ReadMessage` at once, and has torn commitments, secrets and confirmations. With contexts
  of both players ending the same instance is too large; where only their first rolls' contexts may
  end it has 7.3 million states, on which `RollAgreement` was found to hold, and the theorem
  `Agreement` is for every `MayCancel`. Two bytes of data (`Width`) are the least that
  can be split between two reads.
- `HighRoll`: `Sides` 3 does not divide the 8 values of a word, so that words are rejected;
  with three words for two dice one rejected word is made up for and two are a panic.
- Factor Fight: pawns may go below zero without limit in the code. `Depth`,
  `Pawn1Depth` and `Pawn2Depth` are the bounds: how far below zero a strategy goes.
  With `Sides` 2 or 3 every operation, division with and without remainder, both bumps, the
  bump of one's own pawn and moves that end on the goal exactly occur. The goal is large
  enough that a game takes several turns of each side, and that one die cannot reach it, as in the code.
- `IntRange` stands for 2^32, because TLC's integers have 32 bits themselves. In `GameBoards` and
  `GameUnreported` it is larger than any result; in `GameStream` it has 8 values, the host's
  first pawn leaves them, and moves that arrive as others are refused or accepted.
- `StreamsVerified`: the third message is the first whose link could have outlived the
  first link's lifetime, and two ticks with a time to live of 1 let the cache, which a hit does not
  renew, expire within a stream whose chain has not; a look-up that fails then meets the stream's
  own row. Two messages may be under way (`Window`),
  as many as `AtMostTwoInFlight` allows.
- `OwnerRequests`: every property is about one call, or one and another that gets in its way.
  `MaxStarts` bounds stops and crashes; two starts let each of them fall between the two calls.
  `MayFail` is off in `RegisteredPlayers`, whose counterexample needs no failing statement.
- `MayRefuse` is on where the properties are about the end of a stream (`GameStream`) and off in
  `GameUnreported`, whose counterexample needs no refused message; over channels nothing is verified.
- Deadlock is checked except where a roll may really hang: a `PipePeer` waits for a peer that
  was cancelled (`DiceRetry`), a goroutine is left behind (`DiceChannel`, `HighRoll`, `DiceLeak`), or the
  behaviour is a single move (rules and strategy). `Finished` stutters when everything is over.

### Fairness

Every goroutine that can run does: weak fairness per roll for its exchange, its waiter,
their reads and their meetings, per session for the game, per player and for the handlers in `HighRoll`. `Roll`
is fair because the callers (`OtherTurn`, `TakeTurn`) roll in a loop. In `VerifiedStreams` and
`OwnerRequests` the steps of the verifier and of the handlers are
fair, with the database answering, by an error if need be; no peer has to send, the
clock need not tick and nobody has to stop the server. The question to a peer's server
(`Fetch` in both modules, `ComparePublicKey`) has neither a deadline nor the caller's context
(`server/verifier.go:440`), and is not fair: the peer may never answer. The three properties that it can
break name it. `EveryMessageJudged` holds of a stream unless its verifier is in `fetch` for ever,
`GivenUpGameEnds` of a challenge unless its handler is and somebody else than the owner has signed the
request, and `StopEnds` unless one handler is held for ever, there or by a player that opened a
`Roll` stream, which has no deadline either (`Held`). A command gives up, because it has a deadline;
the handler's context ends after that, because gRPC passes it on. Nobody has to end a game (`handler[c] # "play"`): that `GivenUpGameEnds` comes from the
contexts alone. There is no fairness for `Cancel`, `ContextEnds`, `Disconnect` and `Crash`:
nothing makes a context end, a stream break or a process die.

## 4. Theorems

Each proof module extends the module it is about and assumes nothing but the named ASSUMEs of
its constants.

### DiceRollProofs

For all players `A # B`, every `Cap` of at least 1, every
`MaxRolls`, every kind of link, with or without cancellation and retries:

- `InductiveInvariant`: `Spec => []Inductive`;
- `TypeCorrect`: `Spec => []TypeOK`;
- `Agreement`: `Spec => []RollAgreement`;
- `FairRoll`: `Spec => Abstract!Spec`, the refinement of `AbstractRoll`.

With a pipe that includes every way in which the goroutines of all rolls of a player
can share its bytes, for data of any length (`WidthAssumption`).

Why an invariant is needed: `RollAgreement` speaks of dice accepted now and a peer's
computation that may lie far back. The bridge is what is under way. `LinkInv` says that
every message on the link is vouched for by a roll of its sender: a commitment by a roll that has started, a
secret by a roll that holds a commitment, a confirmation by a roll that has computed those
dice. `ProgressInv` ties the two program counters of a roll to what it holds,
`KnowledgeInv` lifts `LinkInv` to what was received, unless it is torn: then `TornAssumption` says
that no commitment is opened by it and no dice confirmed, which is all that the code's two
comparisons (`verifyCommitment`, `Confirms`) need. Nothing in it says which roll of the
peer it is: with retries the code cannot tell, and the theorem holds without it. Each conjunct has its
step lemma, with one case per action.

In the refinement a roll is bound when it holds a commitment, so `Learn` needs both sides
bound: the secret it received came from a roll that held a commitment (`KnowledgeInv`). A torn
commitment is `BindTorn`; the roll that holds it has no `Learn`.

### DicePairProofs

For the same links, capacities and numbers of rolls, with cancellation, and for players who
make no further roll on the link after an error (`~ RollAfterFailure`):

- `Lockstep`: `Spec => []InLockstep`;
- `PairedUp`: `Spec => []RollsPairUp`;
- `TwoInFlight`: `Spec => []AtMostTwoInFlight`.

No message says which roll it belongs to. The proof counts: `sent` tallies the messages
a player has sent in all its rolls, `Placed` reads off the two program counters of its
current roll how many it has sent and received, and what is on the link is the
difference (`Counted`), each message being the one of its number (`IsMessage`). `ReadInv` says that one
goroutine of a player at a time is in `ReadMessage`, so a pipe gives it the whole message
(`OneReader`, `WholeMessage`). A player has
therefore never received more than the other has sent, and cannot be more than two ahead. The
condition on errors is needed: where a roll is made after a failed one, the goroutine left
behind takes messages of the next, and the counts part; `DiceRetry` has such behaviours.

### HighRollProofs

For any number of sides, at least two dice, at least as many words as dice and any largest
word; `HashAssumption` says that a hash is not the value that stands for none:

- `GameInvariant`: `GameSpec => []GameInductive`;
- `GameTypeCorrect`: `GameSpec => []GameTypeOK`;
- `Shared`: `GameSpec => []AnswerIsShared`;
- `Fair`: `GameSpec => []DiceAreFair`.

`GameInductive` puts `DiceInv` on top of the invariant of the roll: a player's dice are those of
the one hash, whoever confirms has dice, and a confirmation on the link or accepted means that
the other has sent its own and has not panicked since. `Step` and `Refuse` change the roll as
`DiceRoll` allows, so `Inductive` is kept by the lemmas of `DiceRollProofs`.

`Fair` compares the numbers of hashes behind any two rolls `d` and `e`. `Turn` replaces, in
a hash that makes `d`, each word that makes a die by the word of the same multiple of
the sides with the face that `e` wants; the limit is a multiple of the sides, so that
word is usable too (`OtherFace`), the loop takes the same turns (`TurnKept`), and turning
back gives the first hash (`TurnBack`). There is an injection each way, and as many hashes on
either side.

### VerifiedStreamsProofs

For all peers and streams, any lifetime, any number and mix of messages, with and without a
store, while the server stops:

- `InductiveInvariant`, `TypeCorrect`;
- `ChainFollows`: `Spec => []ChainFollowsStream`;
- `InsertHasRival`: `Spec => []RefusedInsertHasRival`;
- `ExpiresAfterPause`: `Spec => RefusedOnlyAfterPause`, an action property;
- `KnownWithoutNetwork`: `Spec => KnownPeersNeedNoNetwork`, an action property.

`ChainInv` says that the messages on the wire continue, one by one, where the last accepted one
ended, and that the verifier's link is that one; `LifetimeInv` ties the link's expiry to when
the stream was last heard. `OwnRowInv` and `KnownInv` say whose row is in the table when
a stream's identity has been fetched or used; the refused insert then has another's row to
blame, or a look-up that failed (`missed`): the stream's own row can be in the open store while its
identity is fetched only then. The proof goes through the sequence of the wire by its tail and its last element
(`SequenceTheorems`).

### OwnerRequestsProofs

For any calls, players, addresses, names, network and table, and any number of stops and
crashes:

- `InductiveInvariant`, `TypeCorrect` (with it: the UNIQUE columns stay unique, whoever writes);
- `AddedIdentityStays`: `Spec => []AddedIdentityIsStored`;
- `TrustHolds`: `Spec => []LastTrustHolds`;
- `OwnerObeyed`: `Spec => []OwnerIsObeyed`.

`AddedIdentityIsStored` and `LastTrustHolds` speak of the client's answer; `CallInv` leads from it to
the handler, and `AddedInv` and `TrustInv` state the same of the handler. `TrustInv` is kept by a later insert because
a row that was known has its key in the table for good (`HistoryInv`), so the new row is not
one of those; and by another command because one that was over is never at work again. `HandlerInv`
keeps the owner's own requests out of the places where a signature is refused. `Steps` sorts the
steps into a call, a step of a handler (`HandlerEffect`: what it may do to the table and
where it may go) and the rest (`Quiet`), and each part of the invariant has a lemma with these
three cases.

### FactorFightRulesProofs, FactorFightTurnsProofs

For every goal, every die smaller than the goal (`RulesAssumption`) and pawns however far below zero:

- `PlayersCanMove`: `Spec => []EveryTurnHasAMove`. A pawn that is not at the goal can be moved:
  subtracting a die never passes the goal, and with two dice one can be given to each.
- `MovesSeparate`: `Spec => []BumpsSeparate`, from `MoveSeparates`, over the cases of who
  stands where;
- `PawnsStayHome`: `Spec => GoalIsFinal`;
- `NothingLost`: `Spec => []SkippingLosesNothing`. For each pair of operations whose second order is
  skipped, `OrdersAgree` names the pair that has its value in the first order;
- `LastPawnCloses`: `Spec => []LastPawnGoesClosest`. The strategy walks the list that the loops make:
  `Flattened` says what a list put together from lists contains, `EveryTurn` that the 32 turns of
  the three loops are all of them, and `MovesListed` that the list has the moves of the rules.
  With one pawn at the goal "further" is the order of the sums, and the loop keeps the largest (`KeepsTheFurthest`).

The lemmas that the game needs: `MirrorFacts` (`PeerMove` is `Move` seen from the other side, and
`validateMove` lists what `TakeTurn` offers on the mirrored board), `ListedMove` (what a listed move
does to the board) and `NoFirstMoveWins` (why the opening turn needs no test for a loss: to win at
once both pawns would have to reach the goal with one die each).

### FactorFightGameProofs

For every goal and die, for channels and gRPC, integers of any width, with and without a stream
that breaks, any depth of the pawns:

- `GameInvariant`, `GameTypeCorrect`: `Spec => []Inductive` and `[]TypeOK`;
- `BoardsStayMirrored`: `Spec => []BoardsMirror`;
- `MovesAccepted`: `Spec => []HonestMovesAccepted`, and over channels `Spec => [](~ Rejected)`;
- `PawnsApart`: `Spec => []NoPawnsCollide`;
- `ResultsDiffer`: `Spec => []ResultsOpposite`;
- `ChallengerHears`: `Spec => []ChallengerHearsOfLoss`;
- `OneGame`: `(Spec /\ [](~ narrowed)) => PlaysOneGame`, and over channels `Spec => PlaysOneGame`:
  the refinement of `AbstractGame`.

`BoardsMirror` says nothing of the dice, but a move is accepted only if both sessions hold
the same two. `Inductive` adds that: one player `p` has the turn, and the other, `q`, awaits its move
with the dice of the turn or has them to get (`Awaits`); a move that `p` has made is one that
`q` lists, and takes `q`'s board to the mirror image of `p`'s (`MovedBy`). Each step has a lemma
that leads from phase to phase (`RollFirstStep`, `RollSecondStep`, `ChooseStep`, `SendStep`,
`AcceptStep`); `ReceiveFacts` shows that `RejectMove` is never enabled. Why a session
has ended is a part of its own (`EndInv`): it has an error only where it blocks, and only if a
move was changed, a message was refused or the stream is no longer open; and only a challenger
that has told its result resets the stream. In the refinement the
board is that of the player whose turn it is, until its move has been accepted (`AbstractSeen`), so `ChooseMove` is the step of the
game, the roll of the first of the two its beginning, and every other step a stutter.

### Only model-checked

Liveness (`EveryRollSucceeds`, `BothReturn`, `NobodyIsLeftWaiting`, `EveryMessageJudged`,
`GivenUpGameEnds`, `StopEnds`): it needs fairness and ENABLED, which are outside what TLAPS
proves here. What the four counterexamples refute is of course not proved either. Loops over
words, lists and moves are recursive functions whose invariants are proved by the least
index that misses them (`WordByWord`, `ItemByItem`), since the library's rule of induction takes an
operator.

## 5. What is not modelled, and what could follow

Not modelled, with the reasons in `PROJECT.json`: configuration, key files and the `key` command
(parsing and files), the generated messages and stubs, the gRPC client helper, the game log
(printed, and read by nothing), `chain.go` and the methods `Clear`, `Size` and `Cleanup` (called
by tests only), the lock steps of the identity cache (no code shares a verifier between
goroutines), the listener and an error of `Serve`, encodings and malformed signatures.

What could follow:

1. The two sides of one stream composed: session, dice, signer and verifier, with a failed
   `Send` that leaves a gap in the chain.
2. `FactorFightGame` as an implementation of the same game with its dice from `DiceRoll` itself,
   instead of the two steps `RollFirst` and `RollSecond` that stand for it.

## 6. Running

    tlc -config OwnerRequests.cfg MCOwnerRequests.tla
    tlapm OwnerRequestsProofs.tla

Each cfg is named after its run; `PROJECT.json` names the module. The definitions whose
comment begins "Mutant of" are faults that someone could have put into the code: none of the
specifications uses them, and replacing the definition they belong to makes the property
that `PROJECT.json` pairs with them fail.
