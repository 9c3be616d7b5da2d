--------------------------- MODULE VerifiedStreams ---------------------------
(***************************************************************************)
(* One server and the game streams its peers have with it.  The peer of a  *)
(* stream signs each message and chains it to the one before               *)
(* (server/factorfight/peer.go); the server has a Verifier per stream      *)
(* (server/verifier.go), with a cache of the peer's identity and the last  *)
(* link of its chain.  An identity that is not in the cache is looked up   *)
(* in the store that all streams share, else asked of the peer's own       *)
(* server and added to the store.  Stop closes the store while streams may *)
(* still be in flight (server/server.go).                                  *)
(*                                                                         *)
(* All peers are honest: their signatures match the key in their identity, *)
(* so a message is refused only for its chain or for want of an identity.  *)
(***************************************************************************)
EXTENDS Integers, Sequences

CONSTANTS Peers,
          Streams,      \* the streams: pairs of a peer and a number
          Dialled,      \* those the server opens itself (Service.Challenge)
          SameName,     \* have the peers all the same server_name?
          TTL,          \* DefaultVerifierTTL
          MaxTime,      \* bounds: the clock
          MaxMessages,  \*   messages per stream
          Window,       \*   messages under way per stream
          None

ASSUME StreamAssumption ==
    /\ Streams \subseteq Peers \X Nat
    /\ Dialled \subseteq Streams
    /\ SameName \in BOOLEAN
    /\ TTL \in Nat /\ MaxTime \in Nat
    /\ MaxMessages \in Nat \ {0} /\ Window \in Nat \ {0}

VARIABLES sender,    \* sender[s]: lastHash and sequence of the peer's side
          wire,      \* wire[s]: the messages on their way, in order
          verifier,  \* verifier[s]: what the server does for the stream
          cache,     \* cache[s]: when the cached identity expires, or None
          chain,     \* chain[s]: the last link of the peer's chain, or None
          verdict,   \* verdict[s]: why the stream's message was refused
          store,     \* the store: "none" configured, "open" or "closed"
          rows,      \* its table of identities
          heard,     \* history: when the stream's last message was accepted
          missed,    \* history: the streams that were told their peer's
                     \*   identity is not in the store when it was
          server,    \* the server, from "running" to "stopped"
          now        \* the time

vars == <<sender, wire, verifier, cache, chain, verdict, store, rows, heard,
          missed, server, now>>
-----------------------------------------------------------------------------
Peer(s) == s[1]

(* What a stream's Verifier does; a message is with it in the last three.  *)
Judging == {"lookup", "fetch", "insert"}
Active  == {"recv"} \cup Judging
States  == {"closed", "failed", "done"} \cup Active

(* The server_name of a peer's configuration, which nothing makes unique. *)
Name(p) == IF SameName THEN None ELSE p

(* A hash stands for the content of a message; two in a stream differ.     *)
Hash(kind, n) == <<kind, n>>
Kinds == {"move", "dice"}

Link(hash, n, expires) == [Hash |-> hash, Sequence |-> n, ExpiresAt |-> expires]

Expired(t) == now > t
Fresh == now + TTL
-----------------------------------------------------------------------------
(* A table without rows; a database may be configured or not. *)
Init ==
    /\ sender = [s \in Streams |-> [lastHash |-> None, sequence |-> 0]]
    /\ wire = [s \in Streams |-> << >>]
    /\ verifier = [s \in Streams |-> "closed"]
    /\ cache = [s \in Streams |-> None]
    /\ chain = [s \in Streams |-> None]
    /\ verdict = [s \in Streams |-> "none"]
    /\ store \in {"none", "open"}
    /\ rows = {}
    /\ heard = [s \in Streams |-> None]
    /\ missed = {}
    /\ server = "running"
    /\ now = 0

(* A peer calls Play, or Challenge does so at a peer and puts the peer's   *)
(* key into the cache first.  Until GracefulStop new streams are served.   *)
Open(s) ==
    /\ verifier[s] = "closed"
    /\ server \in {"running", "closing"}
    /\ verifier' = [verifier EXCEPT ![s] = "recv"]
    /\ cache' = [cache EXCEPT ![s] = IF s \in Dialled THEN Fresh ELSE None]
    /\ UNCHANGED <<sender, wire, chain, verdict, heard, missed, store, rows, server, now>>

(* Mutant of Signed: only moves take the chain further.                    *)
SignedByMoves(s, kind) ==
    LET n == sender[s].sequence + 1
    IN  [lastHash |-> IF kind = "move" THEN Hash(kind, n) ELSE sender[s].lastHash,
         sequence |-> n]

(* Mutant of Signed: the sequence is taken one further twice.              *)
SignedTwice(s, kind) ==
    [lastHash |-> Hash(kind, sender[s].sequence + 1), sequence |-> sender[s].sequence + 2]

(* The peer's state after it has signed a message. *)
Signed(s, kind) ==
    [lastHash |-> Hash(kind, sender[s].sequence + 1), sequence |-> sender[s].sequence + 1]

(* SendMove and Send: both sign a message and chain it to the last one.    *)
Send(s, kind) ==
    /\ verifier[s] \in Active
    /\ sender[s].sequence < MaxMessages /\ Len(wire[s]) < Window
    /\ sender' = [sender EXCEPT ![s] = Signed(s, kind)]
    /\ wire' = [wire EXCEPT ![s] =
           Append(@, [Hash |-> Hash(kind, sender[s].sequence + 1),
                      PreviousHash |-> sender[s].lastHash,
                      Sequence |-> sender'[s].sequence])]
    /\ UNCHANGED <<verifier, cache, chain, verdict, store, rows, heard, missed,
                   server, now>>
-----------------------------------------------------------------------------
(* VerifyAndAdd: the first reason to refuse m, or "none". *)
ChainError(s, m) ==
    IF m.Sequence = 1 THEN IF m.PreviousHash = None THEN "none" ELSE "mismatch"
    ELSE IF chain[s] = None THEN "missing"
    ELSE IF Expired(chain[s].ExpiresAt) THEN "expired"
    ELSE IF chain[s].Hash # m.PreviousHash THEN "mismatch"
    ELSE IF m.Sequence # chain[s].Sequence + 1 THEN "sequence"
    ELSE "none"

(* Mutant of NextLink: the link keeps the lifetime of the first.           *)
NextLinkAsOld(s, m) ==
    Link(m.Hash, m.Sequence, IF chain[s] = None THEN Fresh ELSE chain[s].ExpiresAt)

NextLink(s, m) == Link(m.Hash, m.Sequence, Fresh)

(* Recv and RecvMove return an error and the session ends. *)
Refuse(s, reason) ==
    /\ verifier' = [verifier EXCEPT ![s] = "failed"]
    /\ verdict' = [verdict EXCEPT ![s] = reason]

(* The identity is known, its signature right: the chain decides.  The     *)
(* game, hence the stream, ends with its last message.                     *)
CheckChain(s) ==
    LET m == Head(wire[s])
        reason == ChainError(s, m)
    IN  /\ wire' = [wire EXCEPT ![s] = Tail(@)]
        /\ \/ /\ reason = "none"
              /\ chain' = [chain EXCEPT ![s] = NextLink(s, m)]
              /\ heard' = [heard EXCEPT ![s] = now]
              /\ verifier' = [verifier EXCEPT ![s] =
                     IF m.Sequence = MaxMessages THEN "done" ELSE "recv"]
              /\ UNCHANGED verdict
           \/ /\ reason # "none"
              /\ chain' = [chain EXCEPT ![s] = IF reason = "expired" THEN None ELSE @]
              /\ Refuse(s, reason)
              /\ UNCHANGED heard

(* The message waits for the identity. *)
Await(s, state) ==
    /\ verifier' = [verifier EXCEPT ![s] = state]
    /\ UNCHANGED <<wire, chain, verdict, heard>>

(* GetWithAddressCheck finds the identity. *)
Cached(s) == cache[s] # None /\ ~ Expired(cache[s])

ReceiveKnown(s) ==
    /\ verifier[s] = "recv" /\ wire[s] # << >>
    /\ Cached(s)
    /\ CheckChain(s)
    /\ UNCHANGED <<sender, cache, missed, store, rows, server, now>>

(* The cache has no identity, or an expired one, which it drops. *)
ReceiveUnknown(s) ==
    /\ verifier[s] = "recv" /\ wire[s] # << >>
    /\ ~ Cached(s)
    /\ cache' = [cache EXCEPT ![s] = None]
    /\ Await(s, IF store = "none" THEN "fetch" ELSE "lookup")
    /\ UNCHANGED <<sender, missed, store, rows, server, now>>

(* Verified: the cache takes the identity, and the chain is checked. *)
Identified(s) == cache' = [cache EXCEPT ![s] = Fresh] /\ CheckChain(s)

(* Mutant of Stored: the store is not asked.                               *)
StoredNever(s) == FALSE

Stored(s) == store = "open" /\ \E r \in rows : r.Address = Peer(s)

(* GetIdentityByAddress: whatever goes wrong counts as not found, an error *)
(* of the open database that has the row included.                         *)
Lookup(s) ==
    /\ verifier[s] = "lookup"
    /\ \/ Stored(s) /\ Identified(s) /\ UNCHANGED missed
       \/ /\ Await(s, "fetch") /\ UNCHANGED cache
          /\ missed' = IF Stored(s) THEN missed \cup {s} ELSE missed
    /\ UNCHANGED <<sender, store, rows, server, now>>

(* getPeerIdentity: a call of GetIdentity at the peer's server, which may  *)
(* be out of reach.  Nothing bounds the time it takes.                     *)
Fetch(s) ==
    /\ verifier[s] = "fetch"
    /\ \/ Refuse(s, "unreachable") /\ UNCHANGED <<wire, chain, heard, cache>>
       \/ store = "none" /\ Identified(s)
       \/ store # "none" /\ Await(s, "insert") /\ UNCHANGED cache
    /\ UNCHANGED <<sender, missed, store, rows, server, now>>

Row(p, by) == [Address |-> p, Name |-> Name(p), By |-> by]

(* public_key and server_name are UNIQUE in the table; By is a history     *)
(* variable: which stream, if any, brought the row.                        *)
Conflicts(p) == \E r \in rows : r.Address = p \/ r.Name = Name(p)

(* Mutant of Insert: an identity is not written through.                   *)
InsertNothing(s) ==
    /\ verifier[s] = "insert"
    /\ Identified(s)
    /\ UNCHANGED <<sender, missed, store, rows, server, now>>

(* Mutant of Insert: a conflict is tried again.                            *)
InsertAgain(s) ==
    /\ verifier[s] = "insert"
    /\ \/ /\ store = "open" /\ ~ Conflicts(Peer(s))
          /\ rows' = rows \cup {Row(Peer(s), s)}
          /\ Identified(s)
       \/ /\ store = "closed" \/ Conflicts(Peer(s))
          /\ Await(s, "fetch")
          /\ UNCHANGED <<cache, rows>>
    /\ UNCHANGED <<sender, missed, store, server, now>>

(* InsertIdentity: when it fails, for a row that is there or any error of  *)
(* the database, be it closed or open, the message is refused, although    *)
(* the identity is at hand.                                                *)
Insert(s) ==
    /\ verifier[s] = "insert"
    /\ \/ /\ store = "open" /\ ~ Conflicts(Peer(s))
          /\ rows' = rows \cup {Row(Peer(s), s)}
          /\ Identified(s)
       \/ /\ \/ store = "open" /\ Conflicts(Peer(s)) /\ Refuse(s, "duplicate")
             \/ Refuse(s, "database")
          /\ UNCHANGED <<wire, chain, heard, cache, rows>>
    /\ UNCHANGED <<sender, missed, store, server, now>>
-----------------------------------------------------------------------------
(* AddIdentity of the identity service, for a peer with a local address.   *)
AddIdentity(p) ==
    /\ store = "open"
    /\ ~ Conflicts(p)
    /\ rows' = rows \cup {Row(p, None)}
    /\ UNCHANGED <<sender, wire, verifier, cache, chain, verdict, heard, missed,
                   store, server, now>>

Tick ==
    /\ now < MaxTime
    /\ now' = now + 1
    /\ UNCHANGED <<sender, wire, verifier, cache, chain, verdict, heard, missed,
                   store, rows, server>>

(* Stop: the store is closed first. *)
CloseStore ==
    /\ server = "running"
    /\ server' = "closing"
    /\ store' = IF store = "open" THEN "closed" ELSE store
    /\ UNCHANGED <<sender, wire, verifier, cache, chain, verdict, heard, missed, rows, now>>

(* GracefulStop: no new streams, then a wait for those in flight. *)
GracefulStop ==
    /\ \/ server = "closing" /\ server' = "draining"
       \/ /\ server = "draining" /\ server' = "stopped"
          /\ \A s \in Streams : verifier[s] \notin Active
    /\ UNCHANGED <<sender, wire, verifier, cache, chain, verdict, heard, missed,
                   store, rows, now>>

(* The server has stopped; so does the system. *)
Stopped == server = "stopped" /\ UNCHANGED vars
-----------------------------------------------------------------------------
(* What the server does for a stream by itself. *)
Handle(s) == ReceiveKnown(s) \/ ReceiveUnknown(s) \/ Lookup(s) \/ Insert(s)

Verify(s) == Handle(s) \/ Fetch(s)

Next ==
    \/ \E s \in Streams : Open(s) \/ Verify(s) \/ \E kind \in Kinds : Send(s, kind)
    \/ \E p \in Peers : AddIdentity(p)
    \/ Tick \/ CloseStore \/ GracefulStop \/ Stopped

Spec == Init /\ [][Next]_vars

(* The goroutine of a stream runs, and the database answers its calls,     *)
(* with an error if need be.  The peer's server need not: getPeerIdentity  *)
(* has no deadline.  Nobody has to send or to stop.                        *)
FairSpec == Spec /\ \A s \in Streams : WF_vars(Handle(s))
-----------------------------------------------------------------------------
Hashes   == {Hash(kind, n) : kind \in Kinds, n \in 1..MaxMessages}
Links    == [Hash : Hashes, Sequence : 1..MaxMessages, ExpiresAt : Nat]
Messages == [Hash : Hashes, PreviousHash : Hashes \cup {None}, Sequence : 1..MaxMessages]
Reasons  == {"none", "mismatch", "missing", "expired", "sequence", "unreachable",
             "duplicate", "database"}

ASSUME NoneAssumption == None \notin Nat \cup Streams \cup Links

(* The types of the variables: no peer signs beyond its last message, and  *)
(* a message under judgement is still there.                               *)
TypeOK ==
    /\ sender \in [Streams -> [lastHash : Hashes \cup {None}, sequence : 0..MaxMessages]]
    /\ wire \in [Streams -> Seq(Messages)]
    /\ verifier \in [Streams -> States]
    /\ cache \in [Streams -> Nat \cup {None}]
    /\ chain \in [Streams -> Links \cup {None}]
    /\ verdict \in [Streams -> Reasons]
    /\ store \in {"none", "open", "closed"}
    /\ rows \subseteq [Address : Peers, Name : Peers \cup {None}, By : Streams \cup {None}]
    /\ heard \in [Streams -> Nat \cup {None}]
    /\ missed \subseteq Streams
    /\ server \in {"running", "closing", "draining", "stopped"}
    /\ now \in 0..MaxTime
    /\ \A s \in Streams : verifier[s] \in Judging => wire[s] # << >>

(* The chains of the two sides fit whatever mix of moves and dice messages *)
(* is sent and however the identity is found: an honest peer is never      *)
(* refused for a hash or a sequence number (VerifyAndAdd against SendMove  *)
(* and Send, which count separately written but share their counters).     *)
ChainFollowsStream ==
    \A s \in Streams : verdict[s] \notin {"mismatch", "missing", "sequence"}

(* A game of any length is played on: the chain of a stream is dropped     *)
(* only when more than TTL has passed since its last accepted message, the *)
(* time the server itself took for the identity included.                  *)
RefusedOnlyAfterPause ==
    [][\A s \in Streams :
          (verdict[s] = "none" /\ verdict'[s] = "expired") => now > heard[s] + TTL]_vars

(* README.md, "Local Verification": once a stream that a peer brought to a *)
(* server with a store has been accepted, the peer's own server is asked   *)
(* again while the store is open only where the database fails to find the *)
(* row it has, whichever stream needs the identity and however often its   *)
(* cache expires (getPeerIdentityFromStoreOrRemote).                       *)
KnownPeersNeedNoNetwork ==
    [][\A s, t \in Streams :
          (verifier[s] # "fetch" /\ verifier'[s] = "fetch" /\ store = "open")
              => \/ ~ (Peer(t) = Peer(s) /\ t \notin Dialled /\ heard[t] # None)
                 \/ s \in missed']_vars

(* An identity that the server has fetched is refused by its own store as  *)
(* a duplicate only when something else has added the same peer, or one of *)
(* the same name, in the meantime, or a look-up has failed: no stream is   *)
(* in its own way when its cache has merely expired.  But a stream whose   *)
(* look-up has failed on a row that is there never gets past it            *)
(* (verifier.go:407 takes every error for a missing row, and               *)
(* InsertIdentity's error refuses the message).                            *)
RefusedInsertHasRival ==
    \A s \in Streams :
        /\ verdict[s] = "duplicate" =>
               \/ \E r \in rows : r.By # s /\ (r.Address = Peer(s) \/ r.Name = Name(Peer(s)))
               \/ s \in missed
        /\ s \in missed => verifier[s] \in {"fetch", "insert", "failed"}

(* A message that waits for its signer's identity is accepted or refused   *)
(* in the end, whatever the store and the other streams do, unless the     *)
(* signer's server never answers the question for its identity.            *)
EveryMessageJudged ==
    \A s \in Streams :
        \/ []<>(verifier[s] \notin Judging)
        \/ <>[](verifier[s] = "fetch")
-----------------------------------------------------------------------------
(* The inductive invariant behind the safety properties.                   *)

(* How many messages of a stream have been accepted, and the last of them. *)
Accepted(s) == sender[s].sequence - Len(wire[s])
LastAccepted(s) == IF chain[s] = None THEN None ELSE chain[s].Hash

(* The messages under way go on where the verifier's link ends, one by     *)
(* one, and the peer's own counters are those of the last of them.         *)
ChainInv(s) ==
    /\ Len(wire[s]) <= sender[s].sequence
    /\ \A i \in 1..Len(wire[s]) :
          /\ wire[s][i].Sequence = Accepted(s) + i
          /\ wire[s][i].PreviousHash =
                 IF i = 1 THEN LastAccepted(s) ELSE wire[s][i - 1].Hash
    /\ sender[s].lastHash =
           IF wire[s] = << >> THEN LastAccepted(s) ELSE wire[s][Len(wire[s])].Hash
    /\ chain[s] = None <=> Accepted(s) = 0
    /\ chain[s] # None => chain[s].Sequence = Accepted(s)

(* A link's lifetime begins with the last acceptance.                      *)
LifetimeInv(s) ==
    chain[s] # None => heard[s] # None /\ chain[s].ExpiresAt = heard[s] + TTL

(* Only a stream that asks for its peer's identity inserts it, and none of *)
(* its own rows can then be in the open store, unless the store has been   *)
(* asked for the row in vain.                                              *)
OwnRowInv(s) ==
    /\ verifier[s] \in {"lookup", "insert"} => store # "none"
    /\ (verifier[s] \in {"fetch", "insert"} /\ store = "open" /\ s \notin missed)
           => \A r \in rows : r.By # s
    /\ s \in missed => store # "none" /\ \E r \in rows : r.Address = Peer(s)
    /\ \A r \in rows : r.By = s => r.Address = Peer(s)

(* What a stream of a peer has in its cache, or has accepted, is due to a  *)
(* row of the store, if there is one.                                      *)
KnownInv(s) ==
    (store # "none" /\ s \notin Dialled /\ (cache[s] # None \/ heard[s] # None))
        => \E r \in rows : r.Address = Peer(s)

(* A stream that can still refuse a message is where its peer's counters   *)
(* and the table say, whatever the other streams do.                       *)
Inductive ==
    /\ TypeOK
    /\ ChainFollowsStream
    /\ RefusedInsertHasRival
    /\ \A s \in Streams :
          /\ verifier[s] \in {"closed"} \cup Active => ChainInv(s)
          /\ LifetimeInv(s) /\ OwnRowInv(s) /\ KnownInv(s)
=============================================================================
