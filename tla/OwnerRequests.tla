---------------------------- MODULE OwnerRequests ----------------------------
(***************************************************************************)
(* What a server does when it is asked: by the commands of its owner       *)
(* (cmd/identity, cmd/trust, cmd/challenge) and by the first message of a  *)
(* High Roll player.  Each call has a client, which waits for the answer   *)
(* until its deadline, and a handler (server/identity_service.go,          *)
(* server/game_service.go, server/highroll/service.go) with a context of   *)
(* its own, which hears of the client's leaving later.  The handlers share *)
(* the table of identities; the server may stop, crash and start again.    *)
(*                                                                         *)
(* Everybody is honest: a client signs with a key that it has, and says    *)
(* who it is.  A key is named after its holder.  The game that a challenge *)
(* starts is FactorFightGame or HighRoll: here it is under way or over at  *)
(* each of its two ends.                                                   *)
(***************************************************************************)
EXTENDS Naturals

CONSTANTS Calls,        \* the calls: numbers, in the order they are made
          Players,      \* other servers
          Self,         \* this server
          Owner,        \* the holder of the owner's key
          Addresses,
          AddressOf,    \* the server_address of Self and each player
          NameOf,       \* their server_name
          AnswersAt,    \* AnswersAt[a]: who answers when Self dials a, or None
          UrlAddresses, \* the addresses in which url.Parse finds a host
          Registered,   \* the games in the registry
          Requests,     \* bound: the commands and streams that are tried
          Tables,       \* bound: the tables of identities it starts with
          MaxStarts,    \* bound: how often the server starts
          MayFail,      \* bound: whether statements fail while the store is open
          None

Identities == Players \cup {Self}
Keys       == Identities \cup {Owner}

ASSUME CallAssumption ==
    Calls \subseteq Nat /\ MaxStarts \in Nat \ {0} /\ MayFail \in BOOLEAN
ASSUME IdentityAssumption ==
    /\ AddressOf \in [Identities -> Addresses]
    /\ AnswersAt \in [Addresses -> Identities \cup {None}]
    /\ UrlAddresses \subseteq Addresses
    /\ Owner \notin Identities /\ None \notin Keys /\ "owner" \notin Addresses

VARIABLES server,   \* "down", "running", "closing" or "draining"
          store,    \* "none" configured, "open" or "closed"
          rows,     \* its table of identities, which outlives the server
          request,  \* request[c]: what the client of c asked, or None
          client,   \* client[c]: "idle", "waiting", the answer, or "gaveUp"
          handler,  \* handler[c]: where the handler of c is
          expired,  \* the calls whose handler's context is done
          opponent, \* the challenges whose game the target is playing
          starts    \* how often the server has started

vars == <<server, store, rows, request, client, handler, expired, opponent, starts>>
-----------------------------------------------------------------------------
Answers == {"ok", "failed", "denied"}
Working == {"arrived", "lookup", "fetch", "insert", "verified", "compare", "exec", "play"}

Rpc(c) == IF request[c] = None THEN "none" ELSE request[c].rpc
Busy(c) == handler[c] \in Working
Serving == server \in {"running", "closing"}
HandlerTo(c, state) == handler' = [handler EXCEPT ![c] = state]

(* A row of the table, and the columns that are UNIQUE in it.              *)
Row(i) == [Key |-> i, Address |-> AddressOf[i], Name |-> NameOf[i], IsTrusted |-> FALSE]
Conflict(r, q) == r.Key = q.Key \/ r.Name = q.Name

(* Mutant of Conflicts: server_name is not UNIQUE.                         *)
ConflictsInKey(i) == \E r \in rows : r.Key = i

Conflicts(i) == \E r \in rows : Conflict(r, Row(i))

(* What earlier calls may have left. *)
ASSUME TableAssumption ==
    \A t \in Tables : /\ t \subseteq Players
                       /\ \A p, q \in t : p # q => NameOf[p] # NameOf[q]

Init ==
    /\ server = "running" /\ starts = 1
    /\ \/ store = "none" /\ rows = {}
       \/ store = "open" /\ rows \in {{Row(p) : p \in t} : t \in Tables}
    /\ request = [c \in Calls |-> None]
    /\ client = [c \in Calls |-> "idle"]
    /\ handler = [c \in Calls |-> "none"]
    /\ expired = {}
    /\ opponent = {}
-----------------------------------------------------------------------------
(* The clients.                                                            *)

(* SignMessage, SignProto: the hash of the message, signed.                *)
Signature(signer, key, message) ==
    [SignerAddress |-> signer, Key |-> key, Message |-> message]

TrustMessage(a, trusted) == <<"set-trust", a, trusted>>
ChallengeMessage(game) == <<"challenge", game>>
DiceMessage == <<"commitment">>

(* What a property needs to know of the time of the call: whose identity   *)
(* was in the table, and which calls were over.                            *)
History(r) ==
    [known |-> IF r.rpc \in {"SetTrust", "Roll"} THEN {q.Key : q \in rows} ELSE {},
     over  |-> {d \in Calls : /\ Rpc(d) = "SetTrust" /\ r.rpc = "SetTrust"
                              /\ client[d] # "waiting" /\ ~ Busy(d)}]

(* The call goes out, with a deadline. *)
Call(c, r) ==
    /\ client[c] = "idle" /\ \A d \in Calls : d < c => client[d] # "idle"
    /\ request' = [request EXCEPT ![c] =
           [content |-> r, rpc |-> r.rpc, then |-> History(r)]]
    /\ \/ /\ Serving
          /\ client' = [client EXCEPT ![c] = "waiting"]
          /\ HandlerTo(c, "arrived")
       \/ /\ ~ Serving
          /\ client' = [client EXCEPT ![c] = "failed"]
          /\ UNCHANGED handler
    /\ UNCHANGED <<server, store, rows, expired, opponent, starts>>

(* `identity add': sound if the key has the right size and the identity    *)
(* is not said to be trusted, which other clients may get wrong.           *)
addIdentity(p, sound) == [rpc |-> "AddIdentity", player |-> p, sound |-> sound]

(* `identity list'. *)
listIdentities == [rpc |-> "ListIdentities"]

(* `trust send', with the key in the file that it is given. *)
sendTrustRequest(a, trusted, key) ==
    [rpc |-> "SetTrust", address |-> a, trusted |-> trusted,
     signature |-> Signature("owner", key, TrustMessage(a, trusted))]

(* `trust create', whose output is sent by other means: signed as the      *)
(* server, about the server.                                               *)
createTrustRequest(a, trusted, key) ==
    [rpc |-> "SetTrust", address |-> a, trusted |-> trusted,
     signature |-> Signature(AddressOf[Self], key, TrustMessage(AddressOf[Self], trusted))]

(* `challenge send'. *)
sendChallenge(game, key) ==
    [rpc |-> "Challenge", game |-> game,
     signature |-> Signature("owner", key, ChallengeMessage(game))]

(* `challenge create': signed as the server. *)
createChallenge(game, key) ==
    [rpc |-> "Challenge", game |-> game,
     signature |-> Signature(AddressOf[Self], key, ChallengeMessage(game))]

(* A player's Service.Challenge opens a Roll stream, and its first message *)
(* arrives.                                                                *)
rollWith(p) ==
    [rpc |-> "Roll", signature |-> Signature(AddressOf[p], p, DiceMessage)]

Content(c) == request[c].content

(* The bound on the commands and streams takes its choice of these. *)
ASSUME RequestAssumption ==
    \A r \in Requests :
        \/ r = listIdentities
        \/ r.rpc = "AddIdentity" /\ \E p \in Players, sound \in BOOLEAN : r = addIdentity(p, sound)
        \/ r.rpc = "SetTrust" /\ \E a \in Addresses, t \in BOOLEAN, key \in Keys :
               r \in {sendTrustRequest(a, t, key), createTrustRequest(a, t, key)}
        \/ r.rpc = "Challenge" /\ \E key \in Keys :
               r \in {sendChallenge(r.game, key), createChallenge(r.game, key)}
        \/ r.rpc = "Roll" /\ \E p \in Players : r = rollWith(p)

(* What the handler takes for the signed message. *)
Message(c) ==
    IF Rpc(c) = "SetTrust" THEN TrustMessage(Content(c).address, Content(c).trusted)
    ELSE IF Rpc(c) = "Challenge" THEN ChallengeMessage(Content(c).game)
    ELSE DiceMessage

(* The answer reaches the client. *)
Answer(c) ==
    /\ client[c] = "waiting" /\ handler[c] \in Answers
    /\ client' = [client EXCEPT ![c] = handler[c]]
    /\ UNCHANGED <<server, store, rows, request, handler, expired, opponent, starts>>

(* The client's deadline, an interrupt or a lost connection: it does not   *)
(* learn what has become of its call.                                      *)
GiveUp(c) ==
    /\ client[c] = "waiting"
    /\ client' = [client EXCEPT ![c] = "gaveUp"]
    /\ UNCHANGED <<server, store, rows, request, handler, expired, opponent, starts>>

(* Some time later so does the context of the handler. *)
Expire(c) ==
    /\ client[c] = "gaveUp" /\ Busy(c)
    /\ c \notin expired
    /\ expired' = expired \cup {c}
    /\ UNCHANGED <<server, store, rows, request, client, handler, opponent, starts>>
-----------------------------------------------------------------------------
(* Verifying a signature: VerifyMessageSignature.                          *)

Signer(c) == Content(c).signature.SignerAddress

(* ed25519.Verify with the key, and what follows. *)
Judge(c, key) ==
    LET s == Content(c).signature
    IN  HandlerTo(c, IF s.Key = key /\ s.Message = Message(c) THEN "verified" ELSE "denied")

(* Mutant of OwnerIsCached: the owner's key expires at once.               *)
OwnerExpires(c) == FALSE

(* The handlers of the owner's requests have put the owner's key into the  *)
(* cache of a new verifier, to stay: its lifetime is 0.                    *)
OwnerIsCached(c) == Rpc(c) \in {"SetTrust", "Challenge"} /\ Signer(c) = "owner"

Verify(c) ==
    /\ handler[c] = "arrived" /\ Rpc(c) \in {"SetTrust", "Challenge", "Roll"}
    /\ \/ OwnerIsCached(c) /\ Judge(c, Owner)
       \/ ~ OwnerIsCached(c) /\ HandlerTo(c, IF store = "none" THEN "fetch" ELSE "lookup")
    /\ UNCHANGED <<server, store, rows, request, client, expired, opponent, starts>>

(* GetIdentityByAddress takes any one of the rows with the address; any    *)
(* error of it counts as not found.                                        *)
Lookup(c) ==
    LET found == {r \in rows : store = "open" /\ r.Address = Signer(c)}
    IN  /\ handler[c] = "lookup"
        /\ \/ \E r \in found : Judge(c, r.Key)
           \/ (found = {} \/ MayFail) /\ HandlerTo(c, "fetch")
        /\ UNCHANGED <<server, store, rows, request, client, expired, opponent, starts>>

(* The identity must be the signer's own. *)
JudgeFetched(c, i) ==
    IF AddressOf[i] = Signer(c) THEN Judge(c, i) ELSE HandlerTo(c, "denied")

Fetched(c) == IF Signer(c) \in Addresses THEN AnswersAt[Signer(c)] ELSE None

(* getPeerIdentity: a call without a deadline, of a server that may be out *)
(* of reach, or may never answer.                                          *)
Fetch(c) ==
    /\ handler[c] = "fetch"
    /\ \/ HandlerTo(c, "denied")
       \/ Fetched(c) # None /\ store = "none" /\ JudgeFetched(c, Fetched(c))
       \/ Fetched(c) # None /\ store # "none" /\ HandlerTo(c, "insert")
    /\ UNCHANGED <<server, store, rows, request, client, expired, opponent, starts>>

(* The identity is written through, before anything is checked. *)
Insert(c) ==
    /\ handler[c] = "insert"
    /\ \/ /\ store = "open" /\ ~ Conflicts(Fetched(c))
          /\ rows' = rows \cup {Row(Fetched(c))}
          /\ JudgeFetched(c, Fetched(c))
       \/ /\ store = "closed" \/ Conflicts(Fetched(c)) \/ MayFail
          /\ HandlerTo(c, "denied")
          /\ UNCHANGED rows
    /\ UNCHANGED <<server, store, request, client, expired, opponent, starts>>
-----------------------------------------------------------------------------
(* The handlers.                                                           *)

(* ExecContext and QueryContext under the handler's context: once that is  *)
(* done the statement returns an error, whether or not it has been run.    *)
StatementFails(c) == store # "open" \/ c \in expired \/ MayFail
Ran(c) == HandlerTo(c, IF c \in expired THEN "failed" ELSE "ok")

(* AddIdentity: refuse, compare with what the peer's server says, or go on.*)
AddIdentity(c) ==
    /\ handler[c] = "arrived" /\ Rpc(c) = "AddIdentity"
    /\ \/ /\ store = "none" \/ ~ Content(c).sound
          /\ HandlerTo(c, "failed")
       \/ /\ store # "none" /\ Content(c).sound
          /\ HandlerTo(c, IF AddressOf[Content(c).player] \in UrlAddresses
                          THEN "compare" ELSE "exec")
    /\ UNCHANGED <<server, store, rows, request, client, expired, opponent, starts>>

ComparePublicKey(c) ==
    /\ handler[c] = "compare"
    /\ \/ HandlerTo(c, "failed")
       \/ /\ AnswersAt[AddressOf[Content(c).player]] = Content(c).player
          /\ HandlerTo(c, "exec")
    /\ UNCHANGED <<server, store, rows, request, client, expired, opponent, starts>>

(* Mutant of InsertIdentity: a conflict is no error (ON CONFLICT DO        *)
(* NOTHING).                                                               *)
InsertIfNew(c) ==
    /\ handler[c] = "exec" /\ Rpc(c) = "AddIdentity"
    /\ \/ /\ store = "open"
          /\ rows' = IF Conflicts(Content(c).player) THEN rows
                     ELSE rows \cup {Row(Content(c).player)}
          /\ Ran(c)
       \/ StatementFails(c) /\ HandlerTo(c, "failed") /\ UNCHANGED rows
    /\ UNCHANGED <<server, store, request, client, expired, opponent, starts>>

InsertIdentity(c) ==
    LET p == Content(c).player
    IN  /\ handler[c] = "exec" /\ Rpc(c) = "AddIdentity"
        /\ \/ /\ store = "open" /\ ~ Conflicts(p)
              /\ rows' = rows \cup {Row(p)}
              /\ Ran(c)
           \/ /\ StatementFails(c) \/ Conflicts(p)
              /\ HandlerTo(c, "failed")
              /\ UNCHANGED rows
        /\ UNCHANGED <<server, store, request, client, expired, opponent, starts>>

ListIdentities(c) ==
    /\ handler[c] = "arrived" /\ Rpc(c) = "ListIdentities"
    /\ \/ store = "open" /\ Ran(c)
       \/ StatementFails(c) /\ HandlerTo(c, "failed")
    /\ UNCHANGED <<server, store, rows, request, client, expired, opponent, starts>>

(* Mutant of WithTrust: one of the rows is updated.                        *)
WithTrustInOne(a, trusted) ==
    LET first == CHOOSE r \in rows : r.Address = a
    IN  IF \A r \in rows : r.Address # a THEN rows
        ELSE (rows \ {first}) \cup {[first EXCEPT !.IsTrusted = trusted]}

(* SetTrustStatus updates every row with the address, none if need be. *)
WithTrust(a, trusted) ==
    {IF r.Address = a THEN [r EXCEPT !.IsTrusted = trusted] ELSE r : r \in rows}

(* SetTrust, the request being the owner's. *)
SetTrust(c) ==
    /\ handler[c] = "verified" /\ Rpc(c) = "SetTrust"
    /\ \/ /\ store = "open"
          /\ rows' = WithTrust(Content(c).address, Content(c).trusted)
          /\ Ran(c)
       \/ StatementFails(c) /\ HandlerTo(c, "failed") /\ UNCHANGED rows
    /\ UNCHANGED <<server, store, request, client, expired, opponent, starts>>

(* The registry has the game. *)
Found(c) == Content(c).game \in Registered

(* Challenge, the request being the owner's: the game's Challenge opens a  *)
(* stream to the target under the context of the call.                     *)
Challenge(c) ==
    /\ handler[c] = "verified" /\ Rpc(c) = "Challenge"
    /\ \/ HandlerTo(c, "failed") /\ UNCHANGED opponent
       \/ /\ Found(c) /\ c \notin expired
          /\ HandlerTo(c, "play")
          /\ opponent' = opponent \cup {c}
    /\ UNCHANGED <<server, store, rows, request, client, expired, starts>>

(* Roll, the player being who it says. *)
Roll(c) ==
    /\ handler[c] = "verified" /\ Rpc(c) = "Roll"
    /\ HandlerTo(c, "play")
    /\ UNCHANGED <<server, store, rows, request, client, expired, opponent, starts>>

(* Mutant of StreamEnded: the game has a context of its own.               *)
OpponentLeft(c) == Rpc(c) = "Challenge" /\ c \notin opponent

(* The stream of a game ends under its handler. *)
StreamEnded(c) == c \in expired \/ (Rpc(c) = "Challenge" /\ c \notin opponent)

(* The game is over, or its stream has ended. *)
GameOver(c) ==
    /\ handler[c] = "play"
    /\ HandlerTo(c, "ok")
    /\ UNCHANGED <<server, store, rows, request, client, expired, opponent, starts>>

GameFails(c) ==
    /\ handler[c] = "play"
    /\ StreamEnded(c)
    /\ HandlerTo(c, "failed")
    /\ UNCHANGED <<server, store, rows, request, client, expired, opponent, starts>>

(* The target's handler returns, when its game is over or when this side   *)
(* is gone, whose end resets the stream.                                   *)
OpponentReturns(c) ==
    /\ c \in opponent
    /\ opponent' = opponent \ {c}
    /\ UNCHANGED <<server, store, rows, request, client, handler, expired, starts>>
-----------------------------------------------------------------------------
(* The server.                                                             *)

(* NewSQLStore and Close, if there is to be a store. *)
NewSQLStore == IF store = "none" THEN "none" ELSE "open"
Close == IF store = "none" THEN "none" ELSE "closed"

(* Run and NewServer. *)
Start ==
    /\ server = "down" /\ starts < MaxStarts
    /\ server' = "running" /\ starts' = starts + 1
    /\ store' = NewSQLStore
    /\ UNCHANGED <<rows, request, client, handler, expired, opponent>>

(* Stop closes the store first; calls are still taken. *)
CloseStore ==
    /\ server = "running" /\ starts < MaxStarts
    /\ server' = "closing"
    /\ store' = Close
    /\ UNCHANGED <<rows, request, client, handler, expired, opponent, starts>>

(* Then no more calls are taken. *)
GracefulStop ==
    /\ server = "closing"
    /\ server' = "draining"
    /\ UNCHANGED <<store, rows, request, client, handler, expired, opponent, starts>>

(* GracefulStop has waited for every handler. *)
Stopped ==
    /\ server = "draining" /\ \A c \in Calls : ~ Busy(c)
    /\ server' = "down"
    /\ UNCHANGED <<store, rows, request, client, handler, expired, opponent, starts>>

(* The process is killed, and its handlers with it. *)
Crash ==
    /\ server # "down" /\ starts < MaxStarts
    /\ server' = "down"
    /\ handler' = [c \in Calls |-> IF Busy(c) THEN "killed" ELSE handler[c]]
    /\ UNCHANGED <<store, rows, request, client, expired, opponent, starts>>

(* Every call has been made and is over; the server runs on. *)
Finished ==
    /\ server = "running"
    /\ \A c \in Calls : client[c] \notin {"idle", "waiting"}
    /\ opponent = {}
    /\ UNCHANGED vars
-----------------------------------------------------------------------------
(* A handler asks a peer for its identity, with no deadline. *)
AskPeer(c) == Fetch(c) \/ ComparePublicKey(c)

(* What a handler does by itself. *)
Handle(c) ==
    \/ Verify(c) \/ Lookup(c) \/ Insert(c)
    \/ AddIdentity(c) \/ InsertIdentity(c) \/ ListIdentities(c) \/ SetTrust(c)
    \/ Challenge(c) \/ Roll(c) \/ GameFails(c)

Next ==
    \/ \E c \in Calls :
          \/ \E r \in Requests : Call(c, r)
          \/ Answer(c) \/ GiveUp(c) \/ Expire(c)
          \/ Handle(c) \/ AskPeer(c) \/ GameOver(c) \/ OpponentReturns(c)
    \/ Start \/ CloseStore \/ GracefulStop \/ Stopped \/ Crash \/ Finished

Spec == Init /\ [][Next]_vars

(* A command has a deadline (context.WithTimeout), of which the handler's  *)
(* context hears; handlers run, and the database answers them, with an     *)
(* error if need be.  The end of a stream ends the target's handler.  A    *)
(* peer that is asked for its identity need not answer, nor a player end   *)
(* its roll, nor anybody a game.                                           *)
FairSpec ==
    /\ Spec
    /\ \A c \in Calls :
          /\ WF_vars(Rpc(c) # "Roll" /\ GiveUp(c)) /\ WF_vars(Answer(c))
          /\ WF_vars(Expire(c)) /\ WF_vars(Handle(c))
          /\ WF_vars(handler[c] # "play" /\ OpponentReturns(c))
    /\ WF_vars(GracefulStop) /\ WF_vars(Stopped)
-----------------------------------------------------------------------------
Rpcs    == {"AddIdentity", "ListIdentities", "SetTrust", "Challenge", "Roll"}
Names   == {NameOf[i] : i \in Identities}
Rows    == {r \in [Key : Identities, Address : Addresses, Name : Names, IsTrusted : BOOLEAN] :
                r.Address = AddressOf[r.Key] /\ r.Name = NameOf[r.Key]}
Asked   == [content : Requests, rpc : Rpcs,
            then : [known : SUBSET Identities, over : SUBSET Calls]]

(* The types of the variables: what a call may be waiting for, and a table *)
(* in which no two rows agree in a UNIQUE column.                          *)
TypeOK ==
    /\ server \in {"down", "running", "closing", "draining"}
    /\ store \in {"none", "open", "closed"}
    /\ rows \subseteq Rows
    /\ \A r, q \in rows : r # q => ~ Conflict(r, q)
    /\ request \in [Calls -> Asked \cup {None}]
    /\ client \in [Calls -> {"idle", "waiting", "gaveUp"} \cup Answers]
    /\ handler \in [Calls -> {"none", "killed"} \cup Working \cup Answers]
    /\ expired \subseteq Calls /\ opponent \subseteq Calls
    /\ starts \in 1..MaxStarts

(* "Identity added successfully!" (cmd/identity/identity.go): the identity *)
(* is in the table, and stays there whatever is called, stopped or crashes *)
(* afterwards.                                                             *)
AddedIdentityIsStored ==
    \A c \in Calls :
        client[c] = "ok" /\ Rpc(c) = "AddIdentity" =>
            \E r \in rows : /\ r.Key = Content(c).player
                            /\ r.Address = AddressOf[Content(c).player]

(* Nobody else's command about the address can have come in between. *)
Undisturbed(c) ==
    \A d \in Calls \ {c} :
        Rpc(d) = "SetTrust" /\ Content(d).address = Content(c).address
            => d \in request[c].then.over

(* "Trust status updated successfully!" (cmd/trust/trust.go): every row    *)
(* that had the address when the command was given is as the command says, *)
(* if the other commands about the address were over by then.  A command   *)
(* that was given up is over only when its handler is: until then it may   *)
(* still undo a later one.                                                 *)
LastTrustHolds ==
    \A c \in Calls :
        client[c] = "ok" /\ Rpc(c) = "SetTrust" /\ Undisturbed(c) =>
           \A r \in rows :
              r.Address = Content(c).address /\ r.Key \in request[c].then.known
                  => r.IsTrusted = Content(c).trusted

(* A command that is sent with the owner's key is never refused for its    *)
(* signature, whatever the table holds and whether or not it can be read   *)
(* (the cache of Challenge and verifyOwnerSignatureBytes).                 *)
OwnerIsObeyed ==
    \A c \in Calls :
        client[c] = "denied" /\ Signer(c) = "owner" => Content(c).signature.Key # Owner

(* A command that gives up leaves no game behind: both ends of it return   *)
(* (one context from the command to the game's stream).  Only a challenge  *)
(* that names another signer than the owner may be stuck before its game,  *)
(* for ever asking that signer who it is (getPeerIdentity).                *)
GivenUpGameEnds ==
    \A c \in Calls :
        \/ (client[c] = "gaveUp" /\ Rpc(c) = "Challenge") ~> (~ Busy(c) /\ c \notin opponent)
        \/ <>[](handler[c] = "fetch" /\ Signer(c) # "owner")

(* The handlers that nothing on this side ends: those that wait for a peer *)
(* to say who it is, and the stream of a player, neither with a deadline.  *)
Held(c) ==
    \/ handler[c] \in {"fetch", "compare"}
    \/ handler[c] = "play" /\ Rpc(c) = "Roll"

(* The server stops (GracefulStop returns), a game that it has been told   *)
(* to play notwithstanding, unless one handler is held for ever.           *)
StopEnds ==
    \/ []<>(server \notin {"closing", "draining"})
    \/ \E c \in Calls : <>[]Held(c)

(* README.md: "The identity store allows a player to register their        *)
(* identity with a remote server, which enables initiating challenges from *)
(* a server without a remote IP/DNS": a player who was in the table when   *)
(* it called is not refused for its signature.                             *)
RegisteredPlayerIsKnown ==
    \A c \in Calls :
        client[c] = "denied" /\ Rpc(c) = "Roll"
            => Content(c).signature.Key \notin request[c].then.known
-----------------------------------------------------------------------------
(* The inductive invariant behind the safety properties.                   *)

(* A call that has not been made has no handler; an answer is its own.     *)
CallInv(c) ==
    /\ client[c] = "idle" => request[c] = None /\ handler[c] = "none"
    /\ client[c] \in {"ok", "denied"} => handler[c] = client[c]
    /\ request[c] # None => request[c].rpc = request[c].content.rpc

(* What the place of a handler says of its request.  The owner's own never *)
(* leaves the cache.                                                       *)
HandlerInv(c) ==
    /\ handler[c] = "insert" => Fetched(c) # None
    /\ handler[c] = "play" => Rpc(c) \in {"Challenge", "Roll"}
    /\ handler[c] \in {"lookup", "fetch", "insert", "denied"} =>
           /\ Rpc(c) \in {"SetTrust", "Challenge", "Roll"}
           /\ OwnerIsCached(c) => Content(c).signature.Key # Owner

(* An identity that has been added has its row. *)
AddedInv(c) ==
    handler[c] = "ok" /\ Rpc(c) = "AddIdentity" =>
        \E r \in rows : /\ r.Key = Content(c).player
                        /\ r.Address = AddressOf[Content(c).player]

(* The history of a command remains true: rows stay, and a command that    *)
(* was over does nothing any more.                                         *)
HistoryInv(c) ==
    Rpc(c) = "SetTrust" =>
        /\ \A k \in request[c].then.known : \E r \in rows : r.Key = k
        /\ \A d \in request[c].then.over : client[d] # "idle" /\ ~ Busy(d)

(* LastTrustHolds from the moment the handler is done. *)
TrustInv(c) ==
    handler[c] = "ok" /\ Rpc(c) = "SetTrust" /\ Undisturbed(c) =>
        \A r \in rows :
            r.Address = Content(c).address /\ r.Key \in request[c].then.known
                => r.IsTrusted = Content(c).trusted

(* What the handlers have done is in the table, whoever else is at work.   *)
Inductive ==
    /\ TypeOK
    /\ \A c \in Calls : /\ CallInv(c) /\ HandlerInv(c) /\ AddedInv(c)
                         /\ HistoryInv(c) /\ TrustInv(c)
=============================================================================
