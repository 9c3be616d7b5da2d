------------------------ MODULE OwnerRequestsProofs ------------------------
(***************************************************************************)
(* Theorems about OwnerRequests, for every number of calls, players and    *)
(* addresses, every table and network, and however often the server stops  *)
(* or crashes.                                                             *)
(***************************************************************************)
EXTENDS OwnerRequests, TLAPS

USE CallAssumption, IdentityAssumption

(* What the handlers need to know of a request: an identity to be added is *)
(* a player's, a player signs with an address of its own, and what is      *)
(* signed as the owner is the message that is sent (cmd/trust,             *)
(* cmd/challenge).                                                         *)
LEMMA RequestFacts ==
    ASSUME NEW r \in Requests
    PROVE  /\ r.rpc \in Rpcs
           /\ r.rpc = "AddIdentity" => r.player \in Players
           /\ r.rpc = "Roll" => r.signature.SignerAddress # "owner"
           /\ r.rpc = "SetTrust" => r.trusted \in BOOLEAN
           /\ (r.rpc = "SetTrust" /\ r.signature.SignerAddress = "owner")
                  => r.signature.Message = TrustMessage(r.address, r.trusted)
           /\ (r.rpc = "Challenge" /\ r.signature.SignerAddress = "owner")
                  => r.signature.Message = ChallengeMessage(r.game)
<1> USE DEF Rpcs
<1>0. Self \in Identities /\ \A i \in Identities : AddressOf[i] # "owner"
  BY DEF Identities
<1>1. CASE r = listIdentities
  BY <1>1 DEF listIdentities
<1>2. CASE r.rpc = "AddIdentity" /\ \E p \in Players, sound \in BOOLEAN : r = addIdentity(p, sound)
  BY <1>2 DEF addIdentity
<1>3. CASE r.rpc = "SetTrust" /\ \E a \in Addresses, t \in BOOLEAN, key \in Keys :
              r \in {sendTrustRequest(a, t, key), createTrustRequest(a, t, key)}
  <2>1. PICK a \in Addresses, t \in BOOLEAN, key \in Keys :
            r = sendTrustRequest(a, t, key) \/ r = createTrustRequest(a, t, key)
    BY <1>3
  <2>2. CASE r = sendTrustRequest(a, t, key)
    BY <1>3, <2>2 DEF sendTrustRequest, Signature
  <2>3. CASE r = createTrustRequest(a, t, key)
    BY <1>0, <1>3, <2>3 DEF createTrustRequest, Signature
  <2> QED
    BY <2>1, <2>2, <2>3
<1>4. CASE r.rpc = "Challenge" /\ \E key \in Keys :
              r \in {sendChallenge(r.game, key), createChallenge(r.game, key)}
  <2>1. PICK key \in Keys :
            r = sendChallenge(r.game, key) \/ r = createChallenge(r.game, key)
    BY <1>4
  <2>2. CASE r = sendChallenge(r.game, key)
    BY <1>4, <2>2 DEF sendChallenge, Signature
  <2>3. CASE r = createChallenge(r.game, key)
    BY <1>0, <1>4, <2>3 DEF createChallenge, Signature
  <2> QED
    BY <2>1, <2>2, <2>3
<1>5. CASE r.rpc = "Roll" /\ \E p \in Players : r = rollWith(p)
  BY <1>0, <1>5 DEF rollWith, Signature, Identities
<1> QED
  BY <1>1, <1>2, <1>3, <1>4, <1>5, RequestAssumption

(* A row is an identity's, trusted or not (rowToIdentity).                 *)
LEMMA RowFacts ==
    /\ \A i \in Identities : Row(i) \in Rows /\ Row(i).Key = i /\ Row(i).Name = NameOf[i]
    /\ \A r \in Rows :
          r.Key \in Identities /\ r.Address = AddressOf[r.Key] /\ r.Name = NameOf[r.Key]
    /\ \A r \in Rows, t \in BOOLEAN :
          /\ [r EXCEPT !.IsTrusted = t] \in Rows
          /\ [r EXCEPT !.IsTrusted = t].Key = r.Key
          /\ [r EXCEPT !.IsTrusted = t].Address = r.Address
          /\ [r EXCEPT !.IsTrusted = t].IsTrusted = t
<1>1. ASSUME NEW i \in Identities
      PROVE  Row(i) \in Rows /\ Row(i).Key = i /\ Row(i).Name = NameOf[i]
  BY DEF Rows, Row, Names
<1>2. \A r \in Rows :
         r.Key \in Identities /\ r.Address = AddressOf[r.Key] /\ r.Name = NameOf[r.Key]
  BY DEF Rows
<1>3. \A r \in Rows, t \in BOOLEAN :
         /\ [r EXCEPT !.IsTrusted = t] \in Rows
         /\ [r EXCEPT !.IsTrusted = t].Key = r.Key
         /\ [r EXCEPT !.IsTrusted = t].Address = r.Address
         /\ [r EXCEPT !.IsTrusted = t].IsTrusted = t
  BY DEF Rows
<1> QED
  BY <1>1, <1>2, <1>3

(* Whoever answers a call for an identity is an identity (GetIdentity).    *)
LEMMA FetchedIdentity ==
    ASSUME NEW c \in Calls, Fetched(c) # None
    PROVE  Fetched(c) \in Identities
BY DEF Fetched

-----------------------------------------------------------------------------
(* A command about a row's trust whose statement is run now, even if its   *)
(* handler is told of an error.                                            *)
Trusts(c) ==
    /\ Rpc(c) = "SetTrust"
    /\ rows' = WithTrust(Content(c).address, Content(c).trusted)

(* What a step of c's handler may do.                                      *)
Effect(c) ==
    /\ Busy(c) /\ handler'[c] \in Working \cup Answers
    /\ handler' = [handler EXCEPT ![c] = handler'[c]]
    /\ opponent' \subseteq Calls
    /\ UNCHANGED <<server, store, request, client, expired, starts>>

RowsEffect(c) ==
    \/ rows' = rows
    \/ \E i \in Identities : ~ Conflicts(i) /\ rows' = rows \cup {Row(i)}
    \/ Trusts(c)

Done(c) ==
    /\ handler'[c] = "ok" /\ Rpc(c) = "AddIdentity" =>
           \E r \in rows' : r.Key = Content(c).player
    /\ handler'[c] = "ok" /\ Rpc(c) = "SetTrust" => Trusts(c)

Place(c) ==
    /\ handler'[c] = "insert" => Fetched(c) # None
    /\ handler'[c] = "play" => Rpc(c) \in {"Challenge", "Roll"}
    /\ handler'[c] \in {"lookup", "fetch", "insert", "denied"} =>
           /\ Rpc(c) \in {"SetTrust", "Challenge", "Roll"}
           /\ OwnerIsCached(c) => Content(c).signature.Key # Owner

(* A handler that only goes on to another place (every step but those that *)
(* execute a statement).                                                   *)
LEMMA GoesOn ==
    ASSUME TypeOK, NEW c \in Calls, NEW x \in Working \cup Answers,
           Busy(c), HandlerTo(c, x),
           opponent' \subseteq Calls,
           UNCHANGED <<server, store, rows, request, client, expired, starts>>,
           x = "ok" => Rpc(c) \notin {"AddIdentity", "SetTrust"}
    PROVE  /\ handler'[c] = x
           /\ Effect(c) /\ RowsEffect(c) /\ Done(c)
<1>1. handler'[c] = x
  BY DEF TypeOK, HandlerTo
<1>2. handler' = [handler EXCEPT ![c] = handler'[c]]
  BY <1>1 DEF HandlerTo
<1> QED
  BY <1>1, <1>2 DEF Effect, RowsEffect, Done

(* A request is one of those that can be made (cmd/).                      *)
LEMMA RequestIsOne ==
    ASSUME TypeOK, NEW c \in Calls, CallInv(c), Rpc(c) # "none"
    PROVE  Content(c) \in Requests /\ Rpc(c) = Content(c).rpc
BY DEF TypeOK, CallInv, Rpc, Content, Asked

(* ed25519.Verify with a key, and what follows: a request that is signed   *)
(* as its handler expects is refused only if the key is another one.       *)
LEMMA Judged ==
    ASSUME TypeOK, NEW c \in Calls, NEW key,
           Busy(c), Judge(c, key), opponent' = opponent,
           UNCHANGED <<server, store, request, client, expired, starts>>
    PROVE  /\ Effect(c) /\ handler'[c] \in {"verified", "denied"}
           /\ handler'[c] = "denied" =>
                 \/ Content(c).signature.Key # key
                 \/ Content(c).signature.Message # Message(c)
<1> DEFINE x == IF Content(c).signature.Key = key /\ Content(c).signature.Message = Message(c)
                THEN "verified" ELSE "denied"
<1>1. handler' = [handler EXCEPT ![c] = x]
  BY DEF Judge, HandlerTo
<1>2. handler'[c] = x
  BY <1>1 DEF TypeOK
<1>3. x \in {"verified", "denied"}
  OBVIOUS
<1>4. opponent' \subseteq Calls
  BY DEF TypeOK
<1>5. handler'[c] \in Working \cup Answers
  BY <1>2, <1>3 DEF Working, Answers
<1>6. handler' = [handler EXCEPT ![c] = handler'[c]]
  BY <1>1, <1>2
<1>7. Effect(c)
  BY <1>4, <1>5, <1>6 DEF Effect
<1> QED
  BY <1>2, <1>3, <1>7

(* Verifying the signature (Verify, Lookup, Fetch, Insert in verifier.go): *)
(* the owner's own message never gets past the cache, nor is it refused.   *)
LEMMA VerifyEffect ==
    ASSUME TypeOK, NEW c \in Calls, CallInv(c), HandlerInv(c), Verify(c)
    PROVE  Effect(c) /\ RowsEffect(c) /\ Done(c) /\ Place(c)
<1> USE DEF Working
<1>1. Busy(c) /\ Rpc(c) \in {"SetTrust", "Challenge", "Roll"} /\ opponent' \subseteq Calls
  BY DEF Verify, Busy, TypeOK
<1>2. CASE OwnerIsCached(c) /\ Judge(c, Owner)
  <2>1. Effect(c) /\ handler'[c] \in {"verified", "denied"}
    BY <1>1, <1>2, Judged DEF Verify
  <2>2. Content(c) \in Requests /\ Rpc(c) = Content(c).rpc
    BY <1>1, RequestIsOne
  <2>3. Content(c).signature.Message = Message(c)
    BY <1>2, <2>2, RequestFacts DEF OwnerIsCached, Signer, Message
  <2>4. handler'[c] = "denied" => Content(c).signature.Key # Owner
    BY <1>1, <1>2, <2>3, Judged DEF Verify
  <2> QED
    BY <1>1, <2>1, <2>4 DEF Verify, RowsEffect, Done, Place
<1>3. CASE ~ OwnerIsCached(c) /\ HandlerTo(c, IF store = "none" THEN "fetch" ELSE "lookup")
  <2>1. PICK x \in {"fetch", "lookup"} : HandlerTo(c, x)
    BY <1>3
  <2>2. handler'[c] = x /\ Effect(c) /\ RowsEffect(c) /\ Done(c)
    BY <1>1, <2>1, GoesOn DEF Verify
  <2> QED
    BY <1>1, <1>3, <2>1, <2>2 DEF Place
<1> QED
  BY <1>2, <1>3 DEF Verify

(* Looking up the signer (GetIdentity in verifier.go) ends in a verdict on *)
(* the signature or goes on to the network.                                *)
LEMMA LookupEffect ==
    ASSUME TypeOK, NEW c \in Calls, CallInv(c), HandlerInv(c), Lookup(c)
    PROVE  Effect(c) /\ RowsEffect(c) /\ Done(c) /\ Place(c)
<1> USE DEF Working
<1>1. /\ Busy(c) /\ opponent' \subseteq Calls
      /\ Rpc(c) \in {"SetTrust", "Challenge", "Roll"}
      /\ OwnerIsCached(c) => Content(c).signature.Key # Owner
  BY DEF Lookup, Busy, TypeOK, HandlerInv
<1>2. ASSUME NEW key, Judge(c, key)
      PROVE  Effect(c) /\ RowsEffect(c) /\ Done(c) /\ Place(c)
  <2>1. Effect(c) /\ handler'[c] \in {"verified", "denied"}
    BY <1>1, <1>2, Judged DEF Lookup
  <2> QED
    BY <1>1, <2>1 DEF Lookup, RowsEffect, Done, Place
<1>3. CASE HandlerTo(c, "fetch")
  <2>1. handler'[c] = "fetch" /\ Effect(c) /\ RowsEffect(c) /\ Done(c)
    BY <1>1, <1>3, GoesOn DEF Lookup
  <2> QED
    BY <1>1, <2>1 DEF Place
<1> QED
  BY <1>2, <1>3 DEF Lookup

(* Asking the signer's server goes on with what it says, or refuses        *)
(* (getIdentityFromNetwork, AddIdentity).                                  *)
LEMMA FetchEffect ==
    ASSUME TypeOK, NEW c \in Calls, CallInv(c), HandlerInv(c), Fetch(c)
    PROVE  Effect(c) /\ RowsEffect(c) /\ Done(c) /\ Place(c)
<1> USE DEF Working
<1>1. /\ Busy(c) /\ opponent' \subseteq Calls
      /\ Rpc(c) \in {"SetTrust", "Challenge", "Roll"}
      /\ OwnerIsCached(c) => Content(c).signature.Key # Owner
  BY DEF Fetch, Busy, TypeOK, HandlerInv
<1>2. ASSUME NEW key, Judge(c, key)
      PROVE  Effect(c) /\ RowsEffect(c) /\ Done(c) /\ Place(c)
  <2>1. Effect(c) /\ handler'[c] \in {"verified", "denied"}
    BY <1>1, <1>2, Judged DEF Fetch
  <2> QED
    BY <1>1, <2>1 DEF Fetch, RowsEffect, Done, Place
<1>3. CASE HandlerTo(c, "denied")
  <2>1. handler'[c] = "denied" /\ Effect(c) /\ RowsEffect(c) /\ Done(c)
    BY <1>1, <1>3, GoesOn DEF Fetch, Answers
  <2> QED
    BY <1>1, <2>1 DEF Place
<1>4. CASE Fetched(c) # None /\ HandlerTo(c, "insert")
  <2>1. handler'[c] = "insert" /\ Effect(c) /\ RowsEffect(c) /\ Done(c)
    BY <1>1, <1>4, GoesOn DEF Fetch
  <2> QED
    BY <1>1, <1>4, <2>1 DEF Place
<1> QED
  BY <1>2, <1>3, <1>4 DEF Fetch, JudgeFetched

(* Storing what was fetched (Store.Create in sqlstore.go) is followed by   *)
(* the verdict on the signature, or the message is refused.                *)
LEMMA InsertEffect ==
    ASSUME TypeOK, NEW c \in Calls, CallInv(c), HandlerInv(c), Insert(c)
    PROVE  Effect(c) /\ RowsEffect(c) /\ Done(c) /\ Place(c)
<1> USE DEF Working
<1>1. /\ Busy(c) /\ opponent' \subseteq Calls
      /\ Rpc(c) \in {"SetTrust", "Challenge", "Roll"}
      /\ OwnerIsCached(c) => Content(c).signature.Key # Owner
      /\ Fetched(c) \in Identities
  BY FetchedIdentity DEF Insert, Busy, TypeOK, HandlerInv
<1>2. Effect(c) /\ handler'[c] \in {"verified", "denied"}
  <2>1. CASE HandlerTo(c, "denied")
    BY <1>1, <2>1 DEF Insert, HandlerTo, TypeOK, Effect, Answers
  <2>2. CASE Judge(c, Fetched(c))
    BY <1>1, <2>2, Judged DEF Insert
  <2> QED
    BY <2>1, <2>2 DEF Insert, JudgeFetched
<1>3. RowsEffect(c)
  BY <1>1 DEF Insert, RowsEffect
<1> QED
  BY <1>1, <1>2, <1>3 DEF Done, Place

(* The handlers (identity_service.go, game_service.go, highroll/service.go)*)
(* after the verification: what was said "ok" to has been done.            *)
LEMMA ServiceEffect ==
    ASSUME TypeOK, NEW c \in Calls, CallInv(c), HandlerInv(c),
           \/ AddIdentity(c) \/ ComparePublicKey(c) \/ InsertIdentity(c)
           \/ ListIdentities(c) \/ SetTrust(c) \/ Challenge(c) \/ Roll(c)
           \/ GameFails(c) \/ GameOver(c)
    PROVE  Effect(c) /\ RowsEffect(c) /\ Done(c) /\ Place(c)
<1> USE DEF Working
<1>1. ASSUME NEW x \in Working \cup Answers, Busy(c), HandlerTo(c, x), opponent' \subseteq Calls,
             UNCHANGED <<server, store, rows, request, client, expired, starts>>,
             x = "ok" => Rpc(c) \notin {"AddIdentity", "SetTrust"},
             x \notin {"lookup", "fetch", "insert", "denied"},
             x = "play" => Rpc(c) \in {"Challenge", "Roll"}
      PROVE  Effect(c) /\ RowsEffect(c) /\ Done(c) /\ Place(c)
  <2>1. handler'[c] = x /\ Effect(c) /\ RowsEffect(c) /\ Done(c)
    BY <1>1, GoesOn
  <2> QED
    BY <1>1, <2>1 DEF Place
<1>2. CASE AddIdentity(c)
  <2>1. PICK x \in {"failed", "compare", "exec"} : HandlerTo(c, x)
    BY <1>2 DEF AddIdentity
  <2> QED
    BY <1>1, <1>2, <2>1 DEF AddIdentity, Busy, Answers, TypeOK
<1>3. CASE ComparePublicKey(c)
  <2>1. PICK x \in {"failed", "exec"} : HandlerTo(c, x)
    BY <1>3 DEF ComparePublicKey
  <2> QED
    BY <1>1, <1>3, <2>1 DEF ComparePublicKey, Busy, Answers, TypeOK
<1>4. CASE InsertIdentity(c)
  <2>1. Effect(c) /\ handler'[c] \in {"ok", "failed"} /\ Rpc(c) = "AddIdentity"
    BY <1>4 DEF InsertIdentity, Ran, HandlerTo, TypeOK, Effect, Answers, Busy
  <2>2. Content(c).player \in Identities
    BY <2>1, RequestIsOne, RequestFacts DEF Identities
  <2>3. CASE /\ ~ Conflicts(Content(c).player)
             /\ rows' = rows \cup {Row(Content(c).player)}
    <3>1. Row(Content(c).player) \in rows' /\ Row(Content(c).player).Key = Content(c).player
      BY <2>2, <2>3, RowFacts
    <3> QED
      BY <2>1, <2>2, <2>3, <3>1 DEF RowsEffect, Done, Place
  <2>4. CASE HandlerTo(c, "failed") /\ rows' = rows
    BY <1>1, <1>4, <2>4 DEF InsertIdentity, Busy, Answers, TypeOK
  <2> QED
    BY <1>4, <2>3, <2>4 DEF InsertIdentity
<1>5. CASE ListIdentities(c)
  <2>1. PICK x \in {"ok", "failed"} : HandlerTo(c, x)
    BY <1>5 DEF ListIdentities, Ran
  <2> QED
    BY <1>1, <1>5, <2>1 DEF ListIdentities, Busy, Answers, TypeOK
<1>6. CASE SetTrust(c)
  <2>1. Effect(c) /\ handler'[c] \in {"ok", "failed"} /\ Rpc(c) = "SetTrust"
    BY <1>6 DEF SetTrust, Ran, HandlerTo, TypeOK, Effect, Answers, Busy
  <2>2. CASE rows' = WithTrust(Content(c).address, Content(c).trusted)
    <3>1. Trusts(c)
      BY <2>1, <2>2 DEF Trusts
    <3> QED
      BY <2>1, <3>1 DEF RowsEffect, Done, Place
  <2>3. CASE HandlerTo(c, "failed") /\ rows' = rows
    BY <1>1, <1>6, <2>3 DEF SetTrust, Busy, Answers, TypeOK
  <2> QED
    BY <1>6, <2>2, <2>3 DEF SetTrust
<1>7. CASE Challenge(c)
  <2>1. PICK x \in {"failed", "play"} : HandlerTo(c, x)
    BY <1>7 DEF Challenge
  <2> QED
    BY <1>1, <1>7, <2>1 DEF Challenge, Busy, Answers, TypeOK
<1>8. CASE Roll(c)
  BY <1>1, <1>8 DEF Roll, Busy, Answers, TypeOK
<1>9. CASE GameFails(c) \/ GameOver(c)
  <2>1. PICK x \in {"failed", "ok"} : HandlerTo(c, x)
    BY <1>9 DEF GameFails, GameOver
  <2> QED
    BY <1>1, <1>9, <2>1 DEF GameFails, GameOver, Busy, Answers, TypeOK, HandlerInv
<1> QED
  BY <1>2, <1>3, <1>4, <1>5, <1>6, <1>7, <1>8, <1>9

(* Every step of a handler.                                                *)
LEMMA HandlerEffect ==
    ASSUME TypeOK, NEW c \in Calls, CallInv(c), HandlerInv(c),
           Handle(c) \/ AskPeer(c) \/ GameOver(c)
    PROVE  Effect(c) /\ RowsEffect(c) /\ Done(c) /\ Place(c)
BY VerifyEffect, LookupEffect, FetchEffect, InsertEffect, ServiceEffect DEF Handle, AskPeer

(* A step that is neither a call nor a handler's: a client leaves or hears *)
(* its answer, a server starts, stops or is killed with its handlers.      *)
Quiet ==
    /\ UNCHANGED <<rows, request>>
    /\ \A c \in Calls :
          /\ \/ client'[c] = client[c]
             \/ client[c] = "waiting" /\ client'[c] = "gaveUp"
             \/ /\ client[c] = "waiting" /\ handler[c] \in Answers
                /\ client'[c] = handler[c] /\ handler'[c] = handler[c]
          /\ \/ handler'[c] = handler[c]
             \/ Busy(c) /\ handler'[c] = "killed"

(* Every step of the owner's commands and the servers is one of these.     *)
LEMMA Steps ==
    ASSUME TypeOK, [Next]_vars
    PROVE  \/ \E c \in Calls, r \in Requests : Call(c, r)
           \/ \E c \in Calls : Handle(c) \/ AskPeer(c) \/ GameOver(c)
           \/ Quiet
<1>1. ASSUME NEW c \in Calls, Answer(c) PROVE Quiet
  BY <1>1 DEF Answer, Quiet, TypeOK
<1>2. ASSUME NEW c \in Calls, GiveUp(c) PROVE Quiet
  BY <1>2 DEF GiveUp, Quiet, TypeOK
<1>3. ASSUME NEW c \in Calls, Expire(c) \/ OpponentReturns(c) PROVE Quiet
  BY <1>3 DEF Expire, OpponentReturns, Quiet
<1>4. CASE Start \/ CloseStore \/ GracefulStop \/ Stopped \/ Finished \/ UNCHANGED vars
  BY <1>4 DEF Start, CloseStore, GracefulStop, Stopped, Finished, vars, Quiet
<1>5. CASE Crash
  BY <1>5 DEF Crash, Quiet
<1> QED
  BY <1>1, <1>2, <1>3, <1>4, <1>5 DEF Next

-----------------------------------------------------------------------------
(* SetTrustStatus changes the trust of the rows with the address, and      *)
(* nothing else.                                                           *)
LEMMA WithTrustFacts ==
    ASSUME rows \subseteq Rows, NEW a, NEW t \in BOOLEAN
    PROVE  /\ \A q \in WithTrust(a, t) : \E r \in rows :
                 /\ q \in Rows /\ q.Key = r.Key
                 /\ IF q.Address = a THEN q.IsTrusted = t ELSE q = r
           /\ \A r \in rows : \E q \in WithTrust(a, t) : q.Key = r.Key
<1> DEFINE New(r) == IF r.Address = a THEN [r EXCEPT !.IsTrusted = t] ELSE r
<1>1. WithTrust(a, t) = {New(r) : r \in rows}
  BY DEF WithTrust
<1>2. ASSUME NEW r \in rows
      PROVE  /\ New(r) \in Rows /\ New(r).Key = r.Key
             /\ IF New(r).Address = a THEN New(r).IsTrusted = t ELSE New(r) = r
  <2>1. CASE r.Address = a
    <3>1. New(r) = [r EXCEPT !.IsTrusted = t]
      BY <2>1
    <3> HIDE DEF New
    <3> QED
      BY <2>1, <3>1, RowFacts
  <2>2. CASE r.Address # a
    BY <2>2
  <2> QED
    BY <2>1, <2>2
<1> HIDE DEF New
<1> QED
  BY <1>1, <1>2

(* Whatever a handler writes, the columns stay UNIQUE and no row goes.     *)
LEMMA TableStep ==
    ASSUME TypeOK, NEW c \in Calls, CallInv(c), RowsEffect(c)
    PROVE  /\ rows' \subseteq Rows
           /\ \A r, q \in rows' : r # q => ~ Conflict(r, q)
           /\ \A r \in rows : \E q \in rows' : q.Key = r.Key
<1>1. rows \subseteq Rows /\ \A r, q \in rows : r # q => ~ Conflict(r, q)
  BY DEF TypeOK
<1>2. CASE rows' = rows
  BY <1>1, <1>2
<1>3. ASSUME NEW i \in Identities, ~ Conflicts(i), rows' = rows \cup {Row(i)}
      PROVE  /\ rows' \subseteq Rows
             /\ \A r, q \in rows' : r # q => ~ Conflict(r, q)
             /\ \A r \in rows : \E q \in rows' : q.Key = r.Key
  BY <1>1, <1>3, RowFacts DEF Conflicts, Conflict
<1>4. CASE Trusts(c)
  <2> DEFINE a == Content(c).address
             t == Content(c).trusted
  <2>1. rows' = WithTrust(a, t)
    BY <1>4 DEF Trusts
  <2>2. t \in BOOLEAN
    BY <1>4, RequestIsOne, RequestFacts DEF Trusts
  <2>3. /\ \A q \in WithTrust(a, t) : \E r \in rows :
              /\ q \in Rows /\ q.Key = r.Key
              /\ IF q.Address = a THEN q.IsTrusted = t ELSE q = r
        /\ \A r \in rows : \E q \in WithTrust(a, t) : q.Key = r.Key
    BY <1>1, <2>2, WithTrustFacts
  <2> HIDE DEF a, t
  <2>4. ASSUME NEW r1 \in rows', NEW q1 \in rows', Conflict(r1, q1)
        PROVE  r1 = q1
    <3>1. PICK r \in rows : r1.Key = r.Key /\ IF r1.Address = a THEN r1.IsTrusted = t ELSE r1 = r
      BY <2>1, <2>3
    <3>2. PICK q \in rows : q1.Key = q.Key /\ IF q1.Address = a THEN q1.IsTrusted = t ELSE q1 = q
      BY <2>1, <2>3
    <3>3. r1 \in Rows /\ q1 \in Rows /\ r \in Rows /\ q \in Rows
      BY <1>1, <2>1, <2>3
    <3>4. Conflict(r, q)
      BY <2>4, <3>1, <3>2, <3>3, RowFacts DEF Conflict
    <3>5. r1.Key = q1.Key
      BY <1>1, <3>1, <3>2, <3>4
    <3>6. r1.Address = q1.Address /\ r1.Name = q1.Name
      BY <3>3, <3>5, RowFacts
    <3>7. r1.IsTrusted = q1.IsTrusted
      BY <1>1, <3>1, <3>2, <3>4, <3>6
    <3> QED
      BY <3>3, <3>5, <3>6, <3>7 DEF Rows
  <2> QED
    BY <2>1, <2>3, <2>4
<1> QED
  BY <1>2, <1>3, <1>4 DEF RowsEffect

(* A call is made: it concerns nobody else (rpc, cmd/).                    *)
LEMMA CallEffect ==
    ASSUME TypeOK, NEW c \in Calls, NEW r \in Requests, Call(c, r)
    PROVE  /\ client[c] = "idle" /\ client'[c] \in {"waiting", "failed"}
           /\ handler'[c] \in {"arrived", handler[c]}
           /\ request'[c] = [content |-> r, rpc |-> r.rpc, then |-> History(r)]
           /\ \A d \in Calls \ {c} : /\ request'[d] = request[d] /\ client'[d] = client[d]
                                      /\ handler'[d] = handler[d]
           /\ UNCHANGED <<rows, opponent>>
           /\ request' \in [Calls -> Asked \cup {None}]
           /\ client' \in [Calls -> {"idle", "waiting", "gaveUp"} \cup Answers]
           /\ handler' \in [Calls -> {"none", "killed"} \cup Working \cup Answers]
<1>1. History(r) \in [known : SUBSET Identities, over : SUBSET Calls]
  <2>1. {q.Key : q \in rows} \subseteq Identities
    BY RowFacts DEF TypeOK
  <2> DEFINE known == IF r.rpc \in {"SetTrust", "Roll"} THEN {q.Key : q \in rows} ELSE {}
             over == {d \in Calls : /\ Rpc(d) = "SetTrust" /\ r.rpc = "SetTrust"
                                    /\ client[d] # "waiting" /\ ~ Busy(d)}
  <2>2. known \in SUBSET Identities /\ over \in SUBSET Calls
    BY <2>1
  <2>3. History(r) = [known |-> known, over |-> over]
    BY DEF History
  <2> HIDE DEF known, over
  <2> QED
    BY <2>2, <2>3
<1> DEFINE new == [content |-> r, rpc |-> r.rpc, then |-> History(r)]
<1>2. new \in Asked
  BY <1>1, RequestFacts DEF Asked
<1>3. request' = [request EXCEPT ![c] = new]
  BY DEF Call
<1> HIDE DEF new
<1>4. /\ request'[c] = new /\ \A d \in Calls \ {c} : request'[d] = request[d]
      /\ request' \in [Calls -> Asked \cup {None}]
  BY <1>2, <1>3 DEF TypeOK
<1>5. /\ client[c] = "idle" /\ client'[c] \in {"waiting", "failed"}
      /\ handler'[c] \in {"arrived", handler[c]}
      /\ \A d \in Calls \ {c} : client'[d] = client[d] /\ handler'[d] = handler[d]
      /\ UNCHANGED <<rows, opponent>>
      /\ client' \in [Calls -> {"idle", "waiting", "gaveUp"} \cup Answers]
      /\ handler' \in [Calls -> {"none", "killed"} \cup Working \cup Answers]
  <2>1. CASE client' = [client EXCEPT ![c] = "waiting"] /\ HandlerTo(c, "arrived")
    BY <2>1 DEF Call, HandlerTo, TypeOK, Working
  <2>2. CASE client' = [client EXCEPT ![c] = "failed"] /\ UNCHANGED handler
    BY <2>2 DEF Call, TypeOK, Answers
  <2> QED
    BY <2>1, <2>2 DEF Call
<1> QED
  BY <1>4, <1>5 DEF new

-----------------------------------------------------------------------------
(* Every step keeps the types.                                             *)
LEMMA TypeStep ==
    ASSUME Inductive, [Next]_vars
    PROVE  TypeOK'
<1>0. TypeOK /\ \A c \in Calls : CallInv(c) /\ HandlerInv(c)
  BY DEF Inductive
<1>1. CASE UNCHANGED vars
  BY <1>0, <1>1 DEF vars, TypeOK, Conflict
<1>2. ASSUME NEW c \in Calls, NEW r \in Requests, Call(c, r) PROVE TypeOK'
  <2>1. /\ request' \in [Calls -> Asked \cup {None}]
        /\ client' \in [Calls -> {"idle", "waiting", "gaveUp"} \cup Answers]
        /\ handler' \in [Calls -> {"none", "killed"} \cup Working \cup Answers]
    BY <1>0, <1>2, CallEffect
  <2>2. UNCHANGED <<server, store, rows, expired, opponent, starts>>
    BY <1>2 DEF Call
  <2> QED
    BY <1>0, <2>1, <2>2 DEF TypeOK, Conflict
<1>3. ASSUME NEW c \in Calls, Handle(c) \/ AskPeer(c) \/ GameOver(c) PROVE TypeOK'
  <2>1. Effect(c) /\ RowsEffect(c)
    BY <1>0, <1>3, HandlerEffect
  <2>2. rows' \subseteq Rows /\ \A r, q \in rows' : r # q => ~ Conflict(r, q)
    BY <1>0, <2>1, TableStep
  <2> QED
    BY <1>0, <2>1, <2>2 DEF Effect, TypeOK, Conflict
<1>4. ASSUME NEW c \in Calls, Answer(c) \/ GiveUp(c) PROVE TypeOK'
  BY <1>0, <1>4 DEF Answer, GiveUp, TypeOK, Conflict
<1>5. ASSUME NEW c \in Calls, Expire(c) \/ OpponentReturns(c) PROVE TypeOK'
  BY <1>0, <1>5 DEF Expire, OpponentReturns, TypeOK, Conflict
<1>6. CASE Start
  BY <1>0, <1>6 DEF Start, NewSQLStore, TypeOK, Conflict
<1>7. CASE CloseStore \/ GracefulStop
  BY <1>0, <1>7 DEF CloseStore, GracefulStop, Close, TypeOK, Conflict
<1>8. CASE Stopped
  BY <1>0, <1>8 DEF Stopped, TypeOK, Conflict
<1>9. CASE Crash
  BY <1>0, <1>9 DEF Crash, TypeOK, Conflict
<1> QED
  BY <1>1, <1>2, <1>3, <1>4, <1>5, <1>6, <1>7, <1>8, <1>9 DEF Next, Finished

(* A row that is there stays: nothing deletes one.                         *)
LEMMA RowsStay ==
    ASSUME Inductive, [Next]_vars
    PROVE  rows' \subseteq Rows /\ \A r \in rows : \E q \in rows' : q.Key = r.Key
<1>0. TypeOK /\ \A c \in Calls : CallInv(c) /\ HandlerInv(c)
  BY DEF Inductive
<1>1. CASE UNCHANGED rows
  BY <1>0, <1>1 DEF TypeOK
<1>2. ASSUME NEW c \in Calls, Handle(c) \/ AskPeer(c) \/ GameOver(c)
      PROVE  rows' \subseteq Rows /\ \A r \in rows : \E q \in rows' : q.Key = r.Key
  BY <1>0, <1>2, HandlerEffect, TableStep
<1>3. ASSUME NEW c \in Calls, NEW r \in Requests, Call(c, r) PROVE UNCHANGED rows
  BY <1>3 DEF Call
<1> QED
  BY <1>0, <1>1, <1>2, <1>3, Steps DEF Quiet

(* A call keeps its request; one that has no handler yet has none to run.  *)
LEMMA CallStep ==
    ASSUME Inductive, [Next]_vars, NEW d \in Calls
    PROVE  CallInv(d)'
<1>0. TypeOK /\ \A c \in Calls : CallInv(c) /\ HandlerInv(c)
  BY DEF Inductive
<1>1. ASSUME NEW c \in Calls, NEW r \in Requests, Call(c, r) PROVE CallInv(d)'
  <2>1. /\ client'[c] \in {"waiting", "failed"}
        /\ request'[c] = [content |-> r, rpc |-> r.rpc, then |-> History(r)]
        /\ \A e \in Calls \ {c} : /\ request'[e] = request[e] /\ client'[e] = client[e]
                                   /\ handler'[e] = handler[e]
    BY <1>0, <1>1, CallEffect
  <2> QED
    BY <1>0, <2>1 DEF CallInv
<1>2. ASSUME NEW c \in Calls, Handle(c) \/ AskPeer(c) \/ GameOver(c) PROVE CallInv(d)'
  <2>1. Effect(c)
    BY <1>0, <1>2, HandlerEffect
  <2>2. CASE d = c
    <3>1. client[c] \notin {"idle", "ok", "denied"}
      BY <1>0, <2>1 DEF Effect, CallInv, Busy, Working
    <3> QED
      BY <1>0, <2>1, <2>2, <3>1 DEF Effect, CallInv
  <2>3. CASE d # c
    BY <1>0, <2>1, <2>3 DEF Effect, CallInv, TypeOK
  <2> QED
    BY <2>2, <2>3
<1>3. CASE Quiet
  BY <1>0, <1>3 DEF Quiet, CallInv, Busy, Working, Answers
<1> QED
  BY <1>0, <1>1, <1>2, <1>3, Steps

(* A handler gets to a place only with the request that belongs there.     *)
LEMMA HandlerStep ==
    ASSUME Inductive, [Next]_vars, NEW d \in Calls
    PROVE  HandlerInv(d)'
<1>0. TypeOK /\ \A c \in Calls : CallInv(c) /\ HandlerInv(c)
  BY DEF Inductive
<1>1. CASE handler'[d] \notin {"lookup", "fetch", "insert", "denied", "play"}
  BY <1>1 DEF HandlerInv
<1>2. CASE handler'[d] = handler[d] /\ request'[d] = request[d]
  BY <1>0, <1>2 DEF HandlerInv, Fetched, Rpc, OwnerIsCached, Signer, Content
<1>3. ASSUME NEW c \in Calls, NEW r \in Requests, Call(c, r) PROVE HandlerInv(d)'
  <2>1. CASE d = c
    <3>1. client[c] = "idle" /\ handler'[c] \in {"arrived", handler[c]}
      BY <1>0, <1>3, CallEffect
    <3> QED
      BY <1>0, <1>1, <2>1, <3>1 DEF CallInv
  <2>2. CASE d # c
    <3>1. request'[d] = request[d] /\ handler'[d] = handler[d]
      BY <1>0, <1>3, <2>2, CallEffect
    <3> QED
      BY <1>2, <3>1
  <2> QED
    BY <2>1, <2>2
<1>4. ASSUME NEW c \in Calls, Handle(c) \/ AskPeer(c) \/ GameOver(c) PROVE HandlerInv(d)'
  <2>1. Effect(c) /\ Place(c)
    BY <1>0, <1>4, HandlerEffect
  <2>2. CASE d = c
    BY <2>1, <2>2 DEF Effect, Place, HandlerInv, Fetched, Rpc, OwnerIsCached, Signer, Content
  <2>3. CASE d # c
    BY <1>0, <1>2, <2>1, <2>3 DEF Effect, TypeOK
  <2> QED
    BY <2>2, <2>3
<1>5. CASE Quiet
  BY <1>1, <1>2, <1>5 DEF Quiet
<1> QED
  BY <1>0, <1>3, <1>4, <1>5, Steps

(* An identity that is added stays.                                        *)
LEMMA AddedStep ==
    ASSUME Inductive, [Next]_vars, NEW d \in Calls
    PROVE  AddedInv(d)'
<1>0. TypeOK /\ \A c \in Calls : CallInv(c) /\ HandlerInv(c) /\ AddedInv(c)
  BY DEF Inductive
<1>1. /\ rows \subseteq Rows /\ rows' \subseteq Rows
      /\ \A r \in rows : \E q \in rows' : q.Key = r.Key
  BY <1>0, RowsStay DEF TypeOK
<1>2. CASE handler'[d] # "ok"
  BY <1>2 DEF AddedInv
<1>3. CASE handler'[d] = handler[d] /\ request'[d] = request[d]
  <2> SUFFICES ASSUME handler[d] = "ok", Rpc(d) = "AddIdentity"
               PROVE  \E q \in rows' : /\ q.Key = Content(d).player
                                       /\ q.Address = AddressOf[Content(d).player]
    BY <1>3 DEF AddedInv, Rpc, Content
  <2>1. PICK r \in rows : r.Key = Content(d).player
    BY <1>0 DEF AddedInv
  <2>2. PICK q \in rows' : q.Key = r.Key
    BY <1>1
  <2> QED
    BY <1>1, <2>1, <2>2, RowFacts
<1>4. ASSUME NEW c \in Calls, NEW r \in Requests, Call(c, r) PROVE AddedInv(d)'
  <2>1. CASE d = c
    <3>1. client[c] = "idle" /\ handler'[c] \in {"arrived", handler[c]}
      BY <1>0, <1>4, CallEffect
    <3> QED
      BY <1>0, <1>2, <2>1, <3>1 DEF CallInv
  <2>2. CASE d # c
    <3>1. request'[d] = request[d] /\ handler'[d] = handler[d]
      BY <1>0, <1>4, <2>2, CallEffect
    <3> QED
      BY <1>3, <3>1
  <2> QED
    BY <2>1, <2>2
<1>5. ASSUME NEW c \in Calls, Handle(c) \/ AskPeer(c) \/ GameOver(c) PROVE AddedInv(d)'
  <2>1. Effect(c) /\ Done(c)
    BY <1>0, <1>5, HandlerEffect
  <2>2. CASE d = c
    BY <1>1, <2>1, <2>2, RowFacts DEF Effect, Done, AddedInv, Rpc, Content
  <2>3. CASE d # c
    BY <1>0, <1>3, <2>1, <2>3 DEF Effect, TypeOK
  <2> QED
    BY <2>2, <2>3
<1>6. CASE Quiet
  BY <1>2, <1>3, <1>6 DEF Quiet
<1> QED
  BY <1>0, <1>4, <1>5, <1>6, Steps

(* What was over stays over, and what was known stays in the table.        *)
LEMMA HistoryStep ==
    ASSUME Inductive, [Next]_vars, NEW d \in Calls
    PROVE  HistoryInv(d)'
<1>0. TypeOK /\ \A c \in Calls : CallInv(c) /\ HandlerInv(c) /\ HistoryInv(c)
  BY DEF Inductive
<1>1. \A r \in rows : \E q \in rows' : q.Key = r.Key
  BY RowsStay
<1>2. ASSUME NEW e \in Calls, client[e] # "idle", ~ Busy(e)
      PROVE  client'[e] # "idle" /\ ~ Busy(e)'
  <2>1. CASE client'[e] = client[e] /\ handler'[e] = handler[e]
    BY <1>2, <2>1 DEF Busy
  <2>2. ASSUME NEW c \in Calls, NEW r \in Requests, Call(c, r)
        PROVE  client'[e] # "idle" /\ ~ Busy(e)'
    BY <1>0, <1>2, <2>1, <2>2, CallEffect
  <2>3. ASSUME NEW c \in Calls, Handle(c) \/ AskPeer(c) \/ GameOver(c)
        PROVE  client'[e] # "idle" /\ ~ Busy(e)'
    <3>1. Effect(c)
      BY <1>0, <2>3, HandlerEffect
    <3> QED
      BY <1>0, <1>2, <2>1, <3>1 DEF Effect, TypeOK
  <2>4. CASE Quiet
    BY <1>2, <2>4 DEF Quiet, Busy, Answers, Working
  <2> QED
    BY <1>0, <2>2, <2>3, <2>4, Steps
<1>3. CASE request'[d] = request[d]
  BY <1>0, <1>1, <1>2, <1>3 DEF HistoryInv, Rpc, TypeOK, Asked
<1>4. ASSUME NEW c \in Calls, NEW r \in Requests, Call(c, r) PROVE HistoryInv(d)'
  <2>1. CASE d = c
    <3>1. request'[c] = [content |-> r, rpc |-> r.rpc, then |-> History(r)]
      BY <1>0, <1>4, CallEffect
    <3>2. (Rpc(d)' = "SetTrust" => r.rpc = "SetTrust") /\ request'[d].then = History(r)
      BY <2>1, <3>1 DEF Rpc
    <3>3. ASSUME r.rpc = "SetTrust"
          PROVE  /\ \A k \in History(r).known : \E q \in rows' : q.Key = k
                 /\ \A e \in History(r).over : client'[e] # "idle" /\ ~ Busy(e)'
      <4>1. History(r).known = {q.Key : q \in rows}
        BY <3>3 DEF History
      <4>2. \A e \in History(r).over : e \in Calls /\ client[e] # "idle" /\ ~ Busy(e)
        BY <1>0 DEF History, CallInv, Rpc
      <4> QED
        BY <1>1, <1>2, <4>1, <4>2
    <3> QED
      BY <3>2, <3>3 DEF HistoryInv
  <2>2. CASE d # c
    BY <1>0, <1>3, <1>4, <2>2, CallEffect
  <2> QED
    BY <2>1, <2>2
<1>5. ASSUME NEW c \in Calls, Handle(c) \/ AskPeer(c) \/ GameOver(c) PROVE HistoryInv(d)'
  <2>1. Effect(c)
    BY <1>0, <1>5, HandlerEffect
  <2> QED
    BY <1>3, <2>1 DEF Effect
<1>6. CASE Quiet
  BY <1>3, <1>6 DEF Quiet
<1> QED
  BY <1>0, <1>4, <1>5, <1>6, Steps

(* A command that is done holds until another about the address is: a new  *)
(* row is not one that was known, and an earlier command that was over     *)
(* does not come back.                                                     *)
LEMMA TrustStep ==
    ASSUME Inductive, [Next]_vars, NEW d \in Calls
    PROVE  TrustInv(d)'
<1>0. /\ TypeOK
      /\ \A c \in Calls : CallInv(c) /\ HandlerInv(c) /\ HistoryInv(c) /\ TrustInv(c)
  BY DEF Inductive
<1>1. CASE handler'[d] # "ok"
  BY <1>1 DEF TrustInv
<1>2. CASE /\ handler'[d] = handler[d] /\ request' = request /\ rows' = rows
  BY <1>0, <1>2 DEF TrustInv, Undisturbed, Rpc, Content
<1>3. ASSUME NEW c \in Calls, NEW r \in Requests, Call(c, r) PROVE TrustInv(d)'
  <2>1. /\ client[c] = "idle" /\ handler'[c] \in {"arrived", handler[c]}
        /\ \A e \in Calls \ {c} : request'[e] = request[e] /\ handler'[e] = handler[e]
        /\ rows' = rows
    BY <1>0, <1>3, CallEffect
  <2>2. CASE d = c
    BY <1>0, <1>1, <2>1, <2>2 DEF CallInv
  <2>3. CASE d # c
    <3>1. request'[d] = request[d] /\ handler'[d] = handler[d]
      BY <2>1, <2>3
    <3>2. Rpc(c) = "none"
      BY <1>0, <2>1 DEF CallInv, Rpc
    <3>3. Undisturbed(d)' => Undisturbed(d)
      BY <2>1, <3>1, <3>2 DEF Undisturbed, Rpc, Content
    <3> QED
      BY <1>0, <2>1, <3>1, <3>3 DEF TrustInv, Rpc, Content
  <2> QED
    BY <2>2, <2>3
<1>4. ASSUME NEW c \in Calls, Handle(c) \/ AskPeer(c) \/ GameOver(c) PROVE TrustInv(d)'
  <2>1. Effect(c) /\ RowsEffect(c) /\ Done(c)
    BY <1>0, <1>4, HandlerEffect
  <2>2. request' = request /\ Busy(c) /\ handler' = [handler EXCEPT ![c] = handler'[c]]
    BY <2>1 DEF Effect
  <2>3. ASSUME Trusts(c)
        PROVE  \A q \in rows' : \E r \in rows :
                  /\ q.Key = r.Key
                  /\ IF q.Address = Content(c).address THEN q.IsTrusted = Content(c).trusted
                                                       ELSE q = r
    <3>1. Content(c).trusted \in BOOLEAN
      BY <1>0, <2>3, RequestIsOne, RequestFacts DEF Trusts
    <3> QED
      BY <1>0, <2>3, <3>1, WithTrustFacts DEF Trusts, TypeOK
  <2>4. CASE d = c
    <3>1. ASSUME handler'[d] = "ok", Rpc(d) = "SetTrust"
          PROVE  \A q \in rows' : q.Address = Content(d).address
                                     => q.IsTrusted = Content(d).trusted
      BY <2>1, <2>3, <2>4, <3>1 DEF Done
    <3> QED
      BY <2>2, <3>1 DEF TrustInv, Rpc, Content
  <2>5. CASE d # c
    <3>1. handler'[d] = handler[d]
      BY <1>0, <2>2, <2>5 DEF TypeOK
    <3>2. CASE rows' = rows
      BY <1>2, <2>2, <3>1, <3>2
    <3> SUFFICES ASSUME rows' # rows, handler[d] = "ok", Rpc(d) = "SetTrust", Undisturbed(d),
                        NEW q \in rows', q.Address = Content(d).address,
                        q.Key \in request[d].then.known
                 PROVE  q.IsTrusted = Content(d).trusted
      BY <2>2, <3>1, <3>2 DEF TrustInv, Undisturbed, Rpc, Content
    <3>3. ASSUME NEW r \in rows, r = q PROVE q.IsTrusted = Content(d).trusted
      BY <1>0, <3>3 DEF TrustInv
    <3>4. ASSUME NEW i \in Identities, ~ Conflicts(i), rows' = rows \cup {Row(i)}
          PROVE  q.IsTrusted = Content(d).trusted
      <4>1. \E r \in rows : r.Key = q.Key
        BY <1>0 DEF HistoryInv
      <4>2. q # Row(i)
        BY <3>4, <4>1, RowFacts DEF Conflicts, Conflict
      <4> QED
        BY <3>3, <3>4, <4>2
    <3>5. ASSUME Trusts(c) PROVE q.IsTrusted = Content(d).trusted
      <4>1. Content(c).address # Content(d).address
        BY <1>0, <2>2, <2>5, <3>5 DEF Undisturbed, HistoryInv, Trusts
      <4> QED
        BY <2>3, <3>3, <3>5, <4>1
    <3> QED
      BY <2>1, <3>4, <3>5 DEF RowsEffect
  <2> QED
    BY <2>4, <2>5
<1>5. CASE Quiet
  BY <1>1, <1>2, <1>5 DEF Quiet
<1> QED
  BY <1>0, <1>3, <1>4, <1>5, Steps

-----------------------------------------------------------------------------
(* The table that earlier calls have left, and no calls.                   *)
LEMMA InitInductive == Init => Inductive
<1> SUFFICES ASSUME Init PROVE Inductive
  OBVIOUS
<1>1. rows \subseteq Rows /\ \A r, q \in rows : r # q => ~ Conflict(r, q)
  <2>1. CASE rows = {}
    BY <2>1
  <2>2. ASSUME NEW t \in Tables, rows = {Row(p) : p \in t}
        PROVE  rows \subseteq Rows /\ \A r, q \in rows : r # q => ~ Conflict(r, q)
    <3>1. t \subseteq Identities /\ \A p, q \in t : p # q => NameOf[p] # NameOf[q]
      BY TableAssumption DEF Identities
    <3> QED
      BY <2>2, <3>1, RowFacts DEF Conflict
  <2> QED
    BY <2>1, <2>2 DEF Init
<1>2. TypeOK
  <2>1. /\ client = [c \in Calls |-> "idle"] /\ handler = [c \in Calls |-> "none"]
        /\ request = [c \in Calls |-> None]
        /\ expired = {} /\ opponent = {} /\ server = "running" /\ starts = 1
        /\ store \in {"none", "open"}
    BY DEF Init
  <2> QED
    BY <1>1, <2>1 DEF TypeOK
<1>3. ASSUME NEW c \in Calls
      PROVE  CallInv(c) /\ HandlerInv(c) /\ AddedInv(c) /\ HistoryInv(c) /\ TrustInv(c)
  <2>1. client[c] = "idle" /\ handler[c] = "none" /\ request[c] = None
    BY DEF Init
  <2>2. Rpc(c) = "none"
    BY <2>1 DEF Rpc
  <2> QED
    BY <2>1, <2>2 DEF CallInv, HandlerInv, AddedInv, HistoryInv, TrustInv
<1> QED
  BY <1>2, <1>3 DEF Inductive

(* In every state of every execution each handler is where its request may *)
(* be, and what the finished ones have answered is true of the table.      *)
THEOREM InductiveInvariant == Spec => []Inductive
<1>1. Inductive /\ [Next]_vars => Inductive'
  <2> SUFFICES ASSUME Inductive, [Next]_vars PROVE Inductive'
    OBVIOUS
  <2>1. TypeOK'
    BY TypeStep
  <2>2. \A c \in Calls :
            (CallInv(c) /\ HandlerInv(c) /\ AddedInv(c) /\ HistoryInv(c) /\ TrustInv(c))'
    BY CallStep, HandlerStep, AddedStep, HistoryStep, TrustStep
  <2> QED
    BY <2>1, <2>2 DEF Inductive
<1> QED
  BY <1>1, InitInductive, PTL DEF Spec

(* The columns that are UNIQUE have no two rows that agree, and every      *)
(* variable has its type, whatever is asked of the server.                 *)
THEOREM TypeCorrect == Spec => []TypeOK
<1>1. Inductive => TypeOK
  BY DEF Inductive
<1> QED
  BY <1>1, InductiveInvariant, PTL

(* "Identity added successfully!": the row is there, and no other call, no *)
(* restart and no crash removes it.                                        *)
THEOREM AddedIdentityStays == Spec => []AddedIdentityIsStored
<1>1. Inductive => AddedIdentityIsStored
  BY DEF Inductive, CallInv, AddedInv, AddedIdentityIsStored
<1> QED
  BY <1>1, InductiveInvariant, PTL

(* "Trust status updated successfully!": every row with the address is as  *)
(* the last command says, if the earlier ones were over when it was given. *)
THEOREM TrustHolds == Spec => []LastTrustHolds
<1>1. Inductive => LastTrustHolds
  BY DEF Inductive, CallInv, TrustInv, LastTrustHolds
<1> QED
  BY <1>1, InductiveInvariant, PTL

(* Whoever has the owner's key is never refused for its signature: its     *)
(* request is judged by the key in the cache, not by a row or the network. *)
THEOREM OwnerObeyed == Spec => []OwnerIsObeyed
<1>1. Inductive => OwnerIsObeyed
  <2> SUFFICES ASSUME Inductive, NEW c \in Calls, client[c] = "denied", Signer(c) = "owner"
               PROVE  Content(c).signature.Key # Owner
    BY DEF OwnerIsObeyed
  <2>1. TypeOK /\ CallInv(c) /\ HandlerInv(c)
    BY DEF Inductive
  <2>2. /\ Rpc(c) \in {"SetTrust", "Challenge", "Roll"}
        /\ OwnerIsCached(c) => Content(c).signature.Key # Owner
    BY <2>1 DEF CallInv, HandlerInv
  <2>3. Rpc(c) # "Roll"
    BY <2>1, <2>2, RequestIsOne, RequestFacts DEF Signer
  <2> QED
    BY <2>2, <2>3 DEF OwnerIsCached
<1> QED
  BY <1>1, InductiveInvariant, PTL
=============================================================================
