----------------------- MODULE VerifiedStreamsProofs -----------------------
(***************************************************************************)
(* Theorems about VerifiedStreams, for every set of peers and streams,     *)
(* every lifetime and bound, with or without a store.                      *)
(***************************************************************************)
EXTENDS VerifiedStreams, SequenceTheorems, TLAPS

USE StreamAssumption, NoneAssumption

(* The peer of a stream is one of the peers, and its name can be a column  *)
(* of the table (Row).                                                     *)
LEMMA PeerOfStream ==
    \A s \in Streams : Peer(s) \in Peers /\ Name(Peer(s)) \in Peers \cup {None}
BY DEF Peer, Name

(* What a Verifier does with the message it has received: it judges the    *)
(* message by its chain, keeps it while it asks for the identity, or       *)
(* refuses it for want of one (VerifyOrderedSignature).                    *)
LEMMA VerifyEffect ==
    ASSUME TypeOK, NEW s \in Streams, Verify(s)
    PROVE  /\ wire[s] # << >> /\ verifier[s] \in Active
           /\ UNCHANGED <<sender, server, store, now>>
           /\ \/ CheckChain(s)
              \/ /\ UNCHANGED <<wire, chain, heard>>
                 /\ \/ \E state \in Judging :
                          /\ verifier' = [verifier EXCEPT ![s] = state]
                          /\ UNCHANGED verdict
                    \/ \E reason \in {"unreachable", "duplicate", "database"} :
                          Refuse(s, reason)
<1>1. wire[s] # << >> /\ verifier[s] \in Active
  BY DEF Verify, Handle, ReceiveKnown, ReceiveUnknown, Lookup, Fetch, Insert, TypeOK, Judging, Active
<1>2. CASE ReceiveKnown(s)
  BY <1>1, <1>2 DEF ReceiveKnown
<1>3. CASE ReceiveUnknown(s)
  BY <1>1, <1>3 DEF ReceiveUnknown, Await, Judging
<1>4. CASE Lookup(s)
  BY <1>1, <1>4 DEF Lookup, Identified, Await, Judging
<1>5. CASE Fetch(s)
  BY <1>1, <1>5 DEF Fetch, Identified, Await, Judging
<1>6. CASE Insert(s)
  BY <1>1, <1>6 DEF Insert, Identified
<1> QED
  BY <1>2, <1>3, <1>4, <1>5, <1>6 DEF Verify, Handle

(* The first message under way fits the verifier's link, so that only the  *)
(* age of the link can speak against it (VerifyAndAdd).                    *)
LEMMA ChainFits ==
    ASSUME TypeOK, NEW s \in Streams, wire[s] # << >>, ChainInv(s)
    PROVE  /\ Head(wire[s]) = wire[s][1] /\ wire[s][1] \in Messages
           /\ wire[s][1].Sequence = Accepted(s) + 1
           /\ \/ ChainError(s, Head(wire[s])) = "none"
              \/ /\ ChainError(s, Head(wire[s])) = "expired"
                 /\ chain[s] # None /\ Expired(chain[s].ExpiresAt)
<1> DEFINE m == Head(wire[s])
<1>1. /\ wire[s] \in Seq(Messages) /\ 1 \in 1..Len(wire[s])
      /\ m = wire[s][1] /\ m \in Messages
  BY DEF TypeOK
<1>2. m.Sequence = Accepted(s) + 1 /\ m.PreviousHash = LastAccepted(s)
  BY <1>1 DEF ChainInv
<1>3. m.Sequence \in Nat /\ Accepted(s) \in Int
  BY <1>1, <1>2 DEF TypeOK, Messages, Accepted
<1>4. CASE chain[s] = None
  <2>1. m.Sequence = 1 /\ m.PreviousHash = None
    BY <1>2, <1>4 DEF ChainInv, LastAccepted
  <2> QED
    BY <1>1, <1>2, <2>1 DEF ChainError
<1>5. CASE chain[s] # None
  <2>1. m.Sequence # 1 /\ m.PreviousHash = chain[s].Hash /\ m.Sequence = chain[s].Sequence + 1
    BY <1>2, <1>3, <1>5 DEF ChainInv, LastAccepted
  <2> QED
    BY <1>1, <1>2, <1>5, <2>1 DEF ChainError
<1> QED
  BY <1>4, <1>5

(* An honest peer's message is accepted, or it ends the session because    *)
(* the link has expired, which then goes (VerifyAndAdd, Recv).             *)
LEMMA CheckChainEffect ==
    ASSUME TypeOK, NEW s \in Streams, wire[s] # << >>, ChainInv(s), CheckChain(s)
    PROVE  /\ wire' = [wire EXCEPT ![s] = Tail(@)]
           /\ \/ /\ chain' = [chain EXCEPT ![s] = NextLink(s, wire[s][1])]
                 /\ heard' = [heard EXCEPT ![s] = now]
                 /\ UNCHANGED verdict
                 /\ \E state \in {"recv", "done"} :
                       verifier' = [verifier EXCEPT ![s] = state]
              \/ /\ chain' = [chain EXCEPT ![s] = None]
                 /\ chain[s] # None /\ Expired(chain[s].ExpiresAt)
                 /\ UNCHANGED heard
                 /\ Refuse(s, "expired")
BY ChainFits DEF CheckChain

(* The link of an accepted message can be the last of a chain.             *)
LEMMA NextLinkType ==
    ASSUME TypeOK, NEW s \in Streams, NEW m \in Messages
    PROVE  NextLink(s, m) \in Links
BY DEF TypeOK, NextLink, Link, Links, Messages, Fresh

(* Initially no stream is open and the table is empty.                     *)
LEMMA InductiveInit == Init => Inductive
<1> SUFFICES ASSUME Init PROVE Inductive
  OBVIOUS
<1> USE DEF Init
<1>1. TypeOK
  BY DEF TypeOK, States, Reasons, Judging
<1>2. ChainFollowsStream /\ RefusedInsertHasRival
  BY DEF ChainFollowsStream, RefusedInsertHasRival
<1>3. ASSUME NEW s \in Streams
      PROVE  ChainInv(s) /\ LifetimeInv(s) /\ OwnRowInv(s) /\ KnownInv(s)
  BY DEF ChainInv, LifetimeInv, OwnRowInv, KnownInv, Accepted, LastAccepted
<1> QED
  BY <1>1, <1>2, <1>3 DEF Inductive

(* The variables keep their types; a message under judgement stays.        *)
LEMMA TypeStep == Inductive /\ [Next]_vars => TypeOK'
<1> SUFFICES ASSUME Inductive, [Next]_vars PROVE TypeOK'
  OBVIOUS
<1>0. TypeOK
  BY DEF Inductive
<1>1. ASSUME NEW s \in Streams, Open(s) PROVE TypeOK'
  BY <1>0, <1>1 DEF TypeOK, Open, Fresh, States, Active, Judging
<1>2. ASSUME NEW s \in Streams, NEW kind \in Kinds, Send(s, kind) PROVE TypeOK'
  <2> DEFINE n == sender[s].sequence + 1
             m == [Hash |-> Hash(kind, n), PreviousHash |-> sender[s].lastHash,
                   Sequence |-> n]
  <2>1. n \in 1..MaxMessages /\ Hash(kind, n) \in Hashes
    BY <1>0, <1>2 DEF Send, TypeOK, Hashes
  <2>2. sender' = [sender EXCEPT ![s] = [lastHash |-> Hash(kind, n), sequence |-> n]]
    BY <1>2 DEF Send, Signed
  <2>3. wire' = [wire EXCEPT ![s] = Append(@, m)]
    <3>1. sender'[s].sequence = n
      BY <1>0, <2>2 DEF TypeOK
    <3> QED
      BY <1>2, <3>1 DEF Send
  <2>4. m \in Messages
    BY <1>0, <2>1 DEF TypeOK, Messages
  <2>5. sender' \in [Streams -> [lastHash : Hashes \cup {None}, sequence : 0..MaxMessages]]
    BY <1>0, <2>1, <2>2 DEF TypeOK
  <2>6. /\ wire' \in [Streams -> Seq(Messages)]
        /\ \A t \in Streams : wire[t] # << >> => wire'[t] # << >>
    BY <1>0, <2>3, <2>4 DEF TypeOK
  <2> QED
    BY <1>0, <1>2, <2>5, <2>6 DEF TypeOK, Send
<1>3. ASSUME NEW s \in Streams, Verify(s) PROVE TypeOK'
  <2>1. /\ wire[s] # << >> /\ verifier[s] \in Active /\ ChainInv(s)
        /\ UNCHANGED <<sender, server, store, now>>
    BY <1>0, <1>3, VerifyEffect DEF Inductive
  <2>2. cache' \in [Streams -> Nat \cup {None}]
    <3>1. \/ cache' = cache
          \/ cache' = [cache EXCEPT ![s] = None]
          \/ cache' = [cache EXCEPT ![s] = now + TTL]
      BY <1>3 DEF Verify, Handle, ReceiveKnown, ReceiveUnknown, Lookup, Fetch, Insert,
                  Identified, Fresh
    <3>2. now + TTL \in Nat /\ cache \in [Streams -> Nat \cup {None}]
      BY <1>0 DEF TypeOK
    <3> QED
      BY <3>1, <3>2
  <2>3. rows' \subseteq [Address : Peers, Name : Peers \cup {None}, By : Streams \cup {None}]
    BY <1>0, <1>3, PeerOfStream
       DEF TypeOK, Verify, Handle, ReceiveKnown, ReceiveUnknown, Lookup, Fetch, Insert, Row
  <2>m. missed' \subseteq Streams
    BY <1>0, <1>3 DEF TypeOK, Verify, Handle, ReceiveKnown, ReceiveUnknown, Lookup, Fetch, Insert
  <2>4. CASE CheckChain(s)
    <3>1. /\ wire' = [wire EXCEPT ![s] = Tail(@)]
          /\ \/ /\ chain' = [chain EXCEPT ![s] = NextLink(s, wire[s][1])]
                /\ heard' = [heard EXCEPT ![s] = now]
                /\ UNCHANGED verdict
             \/ /\ chain' = [chain EXCEPT ![s] = None]
                /\ UNCHANGED heard
                /\ verdict' = [verdict EXCEPT ![s] = "expired"]
          /\ \E state \in {"recv", "done", "failed"} :
                verifier' = [verifier EXCEPT ![s] = state]
      BY <1>0, <2>1, <2>4, CheckChainEffect DEF Refuse
    <3>2. wire' \in [Streams -> Seq(Messages)]
      BY <1>0, <2>1, <3>1 DEF TypeOK
    <3>3. NextLink(s, wire[s][1]) \in Links
      BY <1>0, <2>1, ChainFits, NextLinkType
    <3>4. chain' \in [Streams -> Links \cup {None}]
      <4>1. chain \in [Streams -> Links \cup {None}]
        BY <1>0 DEF TypeOK
      <4>2. \/ chain' = [chain EXCEPT ![s] = NextLink(s, wire[s][1])]
            \/ chain' = [chain EXCEPT ![s] = None]
        BY <3>1
      <4> QED
        BY <3>3, <4>1, <4>2
    <3>5. /\ heard' \in [Streams -> Nat \cup {None}]
          /\ verdict' \in [Streams -> Reasons]
      <4>1. /\ heard \in [Streams -> Nat \cup {None}] /\ now \in Nat
            /\ verdict \in [Streams -> Reasons] /\ "expired" \in Reasons
        BY <1>0 DEF TypeOK, Reasons
      <4>2. heard' = heard \/ heard' = [heard EXCEPT ![s] = now]
        BY <3>1
      <4>3. verdict' = verdict \/ verdict' = [verdict EXCEPT ![s] = "expired"]
        BY <3>1
      <4>4. heard' \in [Streams -> Nat \cup {None}]
        BY <4>1, <4>2
      <4>5. verdict' \in [Streams -> Reasons]
        BY <4>1, <4>3
      <4> QED
        BY <4>4, <4>5
    <3>6. PICK state \in {"recv", "done", "failed"} : verifier' = [verifier EXCEPT ![s] = state]
      BY <3>1
    <3>7. verifier' \in [Streams -> States]
      BY <1>0, <3>6 DEF TypeOK, States, Active
    <3>8. ASSUME NEW t \in Streams, verifier'[t] \in Judging
          PROVE  wire'[t] # << >>
      <4>1. t # s
        BY <1>0, <3>6, <3>8 DEF TypeOK, Judging
      <4> QED
        BY <1>0, <3>1, <3>6, <3>8, <4>1 DEF TypeOK
    <3> QED
      BY <1>0, <2>1, <2>2, <2>3, <2>m, <3>2, <3>4, <3>5, <3>7, <3>8 DEF TypeOK
  <2>5. CASE UNCHANGED <<wire, chain, heard, verdict>> /\
             \E state \in Judging : verifier' = [verifier EXCEPT ![s] = state]
    BY <1>0, <2>1, <2>2, <2>3, <2>m, <2>5 DEF TypeOK, States, Active
  <2>6. CASE UNCHANGED <<wire, chain, heard>> /\
             \E reason \in {"unreachable", "duplicate", "database"} : Refuse(s, reason)
    BY <1>0, <2>1, <2>2, <2>3, <2>m, <2>6 DEF TypeOK, Refuse, States, Reasons, Active, Judging
  <2> QED
    BY <1>0, <1>3, <2>4, <2>5, <2>6, VerifyEffect
<1>4. ASSUME NEW p \in Peers, AddIdentity(p) PROVE TypeOK'
  <2>1. Row(p, None) \in [Address : Peers, Name : Peers \cup {None}, By : Streams \cup {None}]
    BY DEF Row, Name
  <2> QED
    BY <1>0, <1>4, <2>1 DEF TypeOK, AddIdentity
<1>5. CASE Tick
  BY <1>0, <1>5 DEF TypeOK, Tick
<1>6. CASE CloseStore \/ GracefulStop \/ Stopped \/ UNCHANGED vars
  BY <1>0, <1>6 DEF TypeOK, CloseStore, GracefulStop, Stopped, vars
<1> QED
  BY <1>1, <1>2, <1>3, <1>4, <1>5, <1>6 DEF Next
-----------------------------------------------------------------------------
(* Appending keeps what is there and adds one element (Send).              *)
LEMMA AppendElements ==
    ASSUME NEW S, NEW q \in Seq(S), NEW m
    PROVE  /\ Len(q) \in Nat /\ Len(Append(q, m)) = Len(q) + 1 /\ Append(q, m) # << >>
           /\ Append(q, m)[Len(q) + 1] = m
           /\ \A i \in 1..Len(q) : Append(q, m)[i] = q[i]
OBVIOUS

(* A signed message takes the peer's counters and the messages under way   *)
(* further together (SendMove, Send).                                      *)
LEMMA ChainSend ==
    ASSUME TypeOK, NEW s \in Streams, NEW kind \in Kinds, Send(s, kind), ChainInv(s)
    PROVE  ChainInv(s)'
<1> DEFINE n == sender[s].sequence + 1
           q == wire[s]
           m == [Hash |-> Hash(kind, n), PreviousHash |-> sender[s].lastHash,
                 Sequence |-> n]
<1>1. /\ sender'[s] = [lastHash |-> Hash(kind, n), sequence |-> n]
      /\ chain' = chain
  BY DEF Send, Signed, TypeOK
<1>2. wire'[s] = Append(q, m)
  BY <1>1 DEF Send, TypeOK
<1>3. sender[s].sequence \in Nat /\ q \in Seq(Messages)
  BY DEF TypeOK
<1>4. /\ Len(wire'[s]) = Len(q) + 1 /\ wire'[s] # << >>
      /\ wire'[s][Len(q) + 1] = m
      /\ \A i \in 1..Len(q) : wire'[s][i] = q[i]
      /\ Len(q) \in Nat
  <2> HIDE DEF q, m
  <2>1. /\ Len(Append(q, m)) = Len(q) + 1 /\ Append(q, m) # << >>
        /\ Append(q, m)[Len(q) + 1] = m
        /\ \A i \in 1..Len(q) : Append(q, m)[i] = q[i]
        /\ Len(q) \in Nat
    BY <1>3, AppendElements
  <2> QED
    BY <1>2, <2>1
<1>5. Accepted(s)' = Accepted(s) /\ LastAccepted(s)' = LastAccepted(s)
  <2>1. sender'[s].sequence = sender[s].sequence + 1 /\ sender[s].sequence \in Int
    BY <1>1, <1>3
  <2>2. Len(wire'[s]) = Len(wire[s]) + 1 /\ Len(wire[s]) \in Int
    BY <1>4
  <2>3. \A k, l \in Int : (k + 1) - (l + 1) = k - l
    OBVIOUS
  <2>4. Accepted(s)' = Accepted(s)
    BY <2>1, <2>2, <2>3 DEF Accepted
  <2> QED
    BY <1>1, <2>4 DEF LastAccepted
<1>6. ASSUME NEW i \in 1..(Len(q) + 1)
      PROVE  /\ wire'[s][i].Sequence = Accepted(s) + i
             /\ wire'[s][i].PreviousHash =
                    IF i = 1 THEN LastAccepted(s) ELSE wire'[s][i - 1].Hash
  <2>1. CASE i \in 1..Len(q)
    <3>1. /\ q[i].Sequence = Accepted(s) + i
          /\ q[i].PreviousHash = IF i = 1 THEN LastAccepted(s) ELSE q[i - 1].Hash
      BY <2>1 DEF ChainInv
    <3>2. i # 1 => i - 1 \in 1..Len(q)
      BY <1>4, <2>1
    <3> QED
      BY <1>4, <2>1, <3>1, <3>2
  <2>2. CASE i = Len(q) + 1
    <3>1. n = Accepted(s) + i
      BY <1>3, <1>4, <2>2 DEF Accepted
    <3>2. CASE q = << >>
      BY <1>3, <1>4, <2>2, <3>1, <3>2 DEF ChainInv
    <3>3. CASE q # << >>
      BY <1>3, <1>4, <2>2, <3>1, <3>3 DEF ChainInv
    <3> QED
      BY <3>2, <3>3
  <2> QED
    BY <1>4, <2>1, <2>2
<1>7. sender'[s].lastHash =
         IF wire'[s] = << >> THEN LastAccepted(s)' ELSE wire'[s][Len(wire'[s])].Hash
  BY <1>1, <1>4
<1>8. Len(wire'[s]) <= sender'[s].sequence
  <2>1. Len(q) <= sender[s].sequence /\ sender'[s].sequence = sender[s].sequence + 1
    BY <1>1 DEF ChainInv
  <2> QED
    BY <1>3, <1>4, <2>1
<1>9. \A i \in 1..Len(wire'[s]) :
          /\ wire'[s][i].Sequence = Accepted(s)' + i
          /\ wire'[s][i].PreviousHash =
                 IF i = 1 THEN LastAccepted(s)' ELSE wire'[s][i - 1].Hash
  BY <1>4, <1>5, <1>6
<1>10. /\ chain'[s] = None <=> Accepted(s)' = 0
       /\ chain'[s] # None => chain'[s].Sequence = Accepted(s)'
  BY <1>1, <1>5 DEF ChainInv
<1> QED
  BY <1>7, <1>8, <1>9, <1>10 DEF ChainInv

(* An accepted message becomes the link that the next one must follow.     *)
LEMMA ChainTake ==
    ASSUME TypeOK, NEW s \in Streams, wire[s] # << >>, ChainInv(s),
           UNCHANGED sender, wire' = [wire EXCEPT ![s] = Tail(@)],
           chain' = [chain EXCEPT ![s] = NextLink(s, wire[s][1])]
    PROVE  ChainInv(s)'
<1> DEFINE q == wire[s]
<1>1. /\ q \in Seq(Messages) /\ sender[s].sequence \in Nat
      /\ wire'[s] = Tail(q) /\ chain'[s] = NextLink(s, q[1]) /\ sender'[s] = sender[s]
  BY DEF TypeOK
<1>2. /\ Len(q) \in Nat \ {0} /\ Len(wire'[s]) = Len(q) - 1
      /\ \A i \in 1..(Len(q) - 1) : wire'[s][i] = q[i + 1]
      /\ wire'[s] = << >> <=> Len(q) = 1
  <2>1. /\ Len(q) \in Nat \ {0} /\ Len(Tail(q)) = Len(q) - 1 /\ Tail(q) \in Seq(Messages)
        /\ \A i \in 1..(Len(q) - 1) : Tail(q)[i] = q[i + 1]
    BY <1>1
  <2>2. Tail(q) = << >> <=> Len(Tail(q)) = 0
    BY <2>1, EmptySeq
  <2>3. Len(Tail(q)) = 0 <=> Len(q) = 1
    BY <2>1
  <2>4. wire'[s] = Tail(q)
    BY <1>1
  <2> QED
    BY <2>1, <2>2, <2>3, <2>4
<1>3. q[1] \in Messages /\ q[1].Sequence = Accepted(s) + 1
  BY ChainFits
<1>4. NextLink(s, q[1]) \in Links
  BY <1>3, NextLinkType
<1>5. /\ chain'[s] # None /\ chain'[s].Sequence = Accepted(s) + 1
      /\ LastAccepted(s)' = q[1].Hash
  BY <1>1, <1>3, <1>4 DEF NextLink, Link, LastAccepted
<1>6. /\ Accepted(s)' = Accepted(s) + 1 /\ Accepted(s) \in Nat
      /\ Len(wire'[s]) <= sender'[s].sequence
  BY <1>1, <1>2 DEF Accepted, ChainInv
<1>7. ASSUME NEW i \in 1..Len(wire'[s])
      PROVE  /\ wire'[s][i].Sequence = Accepted(s)' + i
             /\ wire'[s][i].PreviousHash =
                    IF i = 1 THEN LastAccepted(s)' ELSE wire'[s][i - 1].Hash
  <2>1. /\ i + 1 \in 1..Len(q) /\ i \in 1..(Len(q) - 1) /\ wire'[s][i] = q[i + 1]
        /\ i # 1 => i - 1 \in 1..(Len(q) - 1) /\ wire'[s][i - 1] = q[i]
    BY <1>2
  <2>2. q[i + 1].Sequence = Accepted(s) + (i + 1) /\ q[i + 1].PreviousHash = q[i].Hash
    BY <1>2, <2>1 DEF ChainInv
  <2> QED
    BY <1>2, <1>5, <1>6, <2>1, <2>2
<1>8. sender'[s].lastHash =
         IF wire'[s] = << >> THEN LastAccepted(s)' ELSE wire'[s][Len(wire'[s])].Hash
  <2>1. sender[s].lastHash = q[Len(q)].Hash
    BY <1>2 DEF ChainInv
  <2>2. CASE Len(q) = 1
    BY <1>1, <1>2, <1>5, <2>1, <2>2
  <2>3. CASE Len(q) # 1
    <3>1. wire'[s] # << >> /\ Len(q) - 1 \in 1..(Len(q) - 1) /\ (Len(q) - 1) + 1 = Len(q)
      BY <1>2, <2>3
    <3>2. wire'[s][Len(wire'[s])] = q[Len(q)]
      BY <1>2, <3>1
    <3> QED
      BY <1>1, <2>1, <3>1, <3>2
  <2> QED
    BY <2>2, <2>3
<1>9. chain'[s] # None /\ Accepted(s)' # 0 /\ chain'[s].Sequence = Accepted(s)'
  BY <1>5, <1>6
<1> QED
  BY <1>6, <1>7, <1>8, <1>9 DEF ChainInv

(* A stream's chain is its own: what happens elsewhere leaves it alone.    *)
LEMMA ChainFrame ==
    ASSUME NEW s \in Streams,
           sender'[s] = sender[s], wire'[s] = wire[s], chain'[s] = chain[s],
           heard'[s] = heard[s]
    PROVE  /\ ChainInv(s) => ChainInv(s)'
           /\ LifetimeInv(s) => LifetimeInv(s)'
BY DEF ChainInv, LifetimeInv, Accepted, LastAccepted

Chained(s) ==
    /\ verifier[s] \in {"closed"} \cup Active => ChainInv(s)
    /\ LifetimeInv(s)
    /\ verdict[s] \notin {"mismatch", "missing", "sequence"}

(* Every step keeps the two ends of every chain together.                  *)
LEMMA ChainStep ==
    Inductive /\ [Next]_vars => \A t \in Streams : Chained(t)'
<1> SUFFICES ASSUME Inductive, [Next]_vars, NEW t \in Streams PROVE Chained(t)'
  OBVIOUS
<1>0. TypeOK /\ Chained(t)
  BY DEF Inductive, Chained, ChainFollowsStream
<1>1. ASSUME sender'[t] = sender[t], wire'[t] = wire[t], chain'[t] = chain[t],
             heard'[t] = heard[t], verdict'[t] = verdict[t],
             verifier'[t] \in {"closed"} \cup Active => verifier[t] \in {"closed"} \cup Active
      PROVE  Chained(t)'
  BY <1>0, <1>1, ChainFrame DEF Chained
<1>2. ASSUME NEW s \in Streams, Open(s) PROVE Chained(t)'
  <2>1. verifier'[t] \in {"closed"} \cup Active => verifier[t] \in {"closed"} \cup Active
    BY <1>0, <1>2 DEF Open, TypeOK, Active
  <2> QED
    BY <1>1, <1>2, <2>1 DEF Open
<1>3. ASSUME NEW s \in Streams, NEW kind \in Kinds, Send(s, kind) PROVE Chained(t)'
  <2>1. CASE t = s
    <3>1. ChainInv(t)'
      BY <1>0, <1>3, <2>1, ChainSend DEF Chained, Send
    <3> QED
      BY <1>0, <1>3, <3>1 DEF Chained, Send, LifetimeInv
  <2>2. CASE t # s
    BY <1>0, <1>1, <1>3, <2>2 DEF Send, TypeOK
  <2> QED
    BY <2>1, <2>2
<1>4. ASSUME NEW s \in Streams, Verify(s) PROVE Chained(t)'
  <2>1. /\ wire[s] # << >> /\ verifier[s] \in Active /\ ChainInv(s)
        /\ sender' = sender
    BY <1>0, <1>4, VerifyEffect DEF Inductive
  <2>2. CASE CheckChain(s)
    <3>1. CASE t # s
      <4>1. /\ wire'[t] = wire[t] /\ chain'[t] = chain[t] /\ heard'[t] = heard[t]
            /\ verdict'[t] = verdict[t] /\ verifier'[t] = verifier[t]
        BY <1>0, <2>2, <3>1 DEF CheckChain, Refuse, TypeOK
      <4> QED
        BY <1>1, <2>1, <4>1
    <3>2. CASE t = s
      <4>1. wire' = [wire EXCEPT ![s] = Tail(@)]
        BY <1>0, <2>1, <2>2, CheckChainEffect
      <4>2. CASE /\ chain' = [chain EXCEPT ![s] = NextLink(s, wire[s][1])]
                 /\ heard' = [heard EXCEPT ![s] = now]
                 /\ UNCHANGED verdict
        <5>1. ChainInv(s)'
          BY <1>0, <2>1, <4>1, <4>2, ChainTake
        <5>2. chain'[s].ExpiresAt = now + TTL /\ heard'[s] = now /\ now \in Nat
          BY <1>0, <4>2 DEF TypeOK, NextLink, Link, Fresh
        <5> QED
          BY <1>0, <3>2, <4>2, <5>1, <5>2 DEF Chained, LifetimeInv
      <4>3. CASE /\ chain' = [chain EXCEPT ![s] = None]
                 /\ UNCHANGED heard
                 /\ Refuse(s, "expired")
        <5>1. chain'[s] = None /\ verifier'[s] = "failed" /\ verdict'[s] = "expired"
          BY <1>0, <4>3 DEF TypeOK, Refuse
        <5> QED
          BY <3>2, <5>1 DEF Chained, LifetimeInv, Active, Judging
      <4> QED
        BY <1>0, <2>1, <2>2, <4>2, <4>3, CheckChainEffect
    <3> QED
      BY <3>1, <3>2
  <2>3. CASE /\ UNCHANGED <<wire, chain, heard, verdict>>
             /\ \E state \in Judging : verifier' = [verifier EXCEPT ![s] = state]
    <3>1. verifier'[t] \in {"closed"} \cup Active => verifier[t] \in {"closed"} \cup Active
      BY <1>0, <2>1, <2>3 DEF TypeOK
    <3> QED
      BY <1>1, <2>1, <2>3, <3>1
  <2>4. ASSUME UNCHANGED <<wire, chain, heard>>,
               NEW reason \in {"unreachable", "duplicate", "database"}, Refuse(s, reason)
        PROVE  Chained(t)'
    <3>1. CASE t = s
      <4>1. verifier'[t] = "failed" /\ verdict'[t] = reason
        BY <1>0, <2>4, <3>1 DEF TypeOK, Refuse
      <4> QED
        BY <1>0, <2>4, <4>1 DEF Chained, LifetimeInv, Active, Judging
    <3>2. CASE t # s
      <4>1. verifier'[t] = verifier[t] /\ verdict'[t] = verdict[t]
        BY <1>0, <2>4, <3>2 DEF TypeOK, Refuse
      <4> QED
        BY <1>1, <2>1, <2>4, <4>1
    <3> QED
      BY <3>1, <3>2
  <2> QED
    BY <1>0, <1>4, <2>2, <2>3, <2>4, VerifyEffect
<1>5. CASE Tick \/ CloseStore \/ GracefulStop \/ Stopped \/ UNCHANGED vars \/
           \E p \in Peers : AddIdentity(p)
  BY <1>1, <1>5 DEF Tick, CloseStore, GracefulStop, Stopped, AddIdentity, vars
<1> QED
  BY <1>2, <1>3, <1>4, <1>5 DEF Next
-----------------------------------------------------------------------------
Rival(s) == \E r \in rows : r.By # s /\ (r.Address = Peer(s) \/ r.Name = Name(Peer(s)))

Rowed(s) ==
    /\ OwnRowInv(s) /\ KnownInv(s)
    /\ verdict[s] = "duplicate" => Rival(s) \/ s \in missed
    /\ s \in missed => verifier[s] \in {"fetch", "insert", "failed"}

(* Rows are only added, and none of them by a stream but its own.          *)
LEMMA RowFrame ==
    ASSUME TypeOK, NEW s \in Streams, Rowed(s),
           rows \subseteq rows', \A r \in rows' \ rows : r.By # s,
           store' = store \/ (store' = "closed" /\ store # "none"),
           verifier'[s] = verifier[s], verdict'[s] = verdict[s],
           s \in missed' <=> s \in missed,
           cache'[s] = cache[s] \/ cache'[s] = None,
           heard'[s] = heard[s]
    PROVE  Rowed(s)'
<1>1. OwnRowInv(s)'
  BY DEF Rowed, OwnRowInv
<1>2. KnownInv(s)'
  BY DEF Rowed, KnownInv
<1>3. /\ verdict'[s] = "duplicate" => Rival(s)' \/ s \in missed'
      /\ s \in missed' => verifier'[s] \in {"fetch", "insert", "failed"}
  BY DEF Rowed, Rival
<1> QED
  BY <1>1, <1>2, <1>3 DEF Rowed

(* Every step keeps what the table says of the streams.                    *)
LEMMA RowStep ==
    Inductive /\ [Next]_vars => \A t \in Streams : Rowed(t)'
<1> SUFFICES ASSUME Inductive, [Next]_vars, NEW t \in Streams PROVE Rowed(t)'
  OBVIOUS
<1>0. TypeOK /\ Rowed(t)
  BY DEF Inductive, Rowed, Rival, RefusedInsertHasRival
<1>1. ASSUME NEW s \in Streams, Open(s) PROVE Rowed(t)'
  <2>1. /\ verifier'[t] = verifier[t] \/ verifier'[t] = "recv"
        /\ t \notin Dialled => cache'[t] = cache[t] \/ cache'[t] = None
        /\ UNCHANGED <<store, rows, heard, verdict, missed>>
        /\ verifier[t] = "closed" \/ verifier'[t] = verifier[t]
    BY <1>0, <1>1 DEF TypeOK, Open
  <2> QED
    BY <1>0, <2>1 DEF Rowed, OwnRowInv, KnownInv, Rival
<1>2. ASSUME NEW s \in Streams, NEW kind \in Kinds, Send(s, kind) PROVE Rowed(t)'
  BY <1>0, <1>2 DEF Send, Rowed, OwnRowInv, KnownInv, Rival
<1>3. ASSUME NEW s \in Streams, Verify(s), t # s PROVE Rowed(t)'
  <2>1. /\ verifier'[t] = verifier[t] /\ verdict'[t] = verdict[t]
        /\ cache'[t] = cache[t] /\ heard'[t] = heard[t] /\ (t \in missed' <=> t \in missed)
    BY <1>0, <1>3 DEF TypeOK, Verify, Handle, ReceiveKnown, ReceiveUnknown, Lookup, Fetch, Insert,
                      Identified, CheckChain, Await, Refuse
  <2>2. store' = store /\ rows \subseteq rows' /\ \A r \in rows' \ rows : r.By # t
    BY <1>3 DEF Verify, Handle, ReceiveKnown, ReceiveUnknown, Lookup, Fetch, Insert, Row
  <2> QED
    BY <1>0, <2>1, <2>2, RowFrame
<1>4. ASSUME Verify(t) PROVE Rowed(t)'
  <2> USE DEF TypeOK
  <2>1. wire[t] # << >> /\ ChainInv(t) /\ store' = store
    BY <1>0, <1>4, VerifyEffect DEF Inductive
  <2>2. ASSUME CheckChain(t)
        PROVE  /\ verifier'[t] \in {"recv", "done", "failed"}
               /\ verdict'[t] = verdict[t] \/ verdict'[t] # "duplicate"
    BY <1>0, <2>1, <2>2, CheckChainEffect DEF Refuse
  <2>m. verifier[t] \notin {"fetch", "insert", "failed"} => t \notin missed
    BY <1>0 DEF Rowed
  <2>3. CASE ReceiveKnown(t)
    <3>1. cache' = cache /\ rows' = rows /\ cache[t] # None /\ t \notin missed'
      BY <2>3, <2>m DEF ReceiveKnown, Cached
    <3> QED
      BY <1>0, <2>1, <2>2, <2>3, <3>1
         DEF ReceiveKnown, Rowed, OwnRowInv, KnownInv, Rival
  <2>4. CASE ReceiveUnknown(t)
    <3>1. /\ cache'[t] = None /\ UNCHANGED <<rows, heard, verdict>>
          /\ verifier'[t] = IF store = "none" THEN "fetch" ELSE "lookup"
          /\ t \notin missed'
      BY <1>0, <2>4, <2>m DEF ReceiveUnknown, Await
    <3>2. OwnRowInv(t)' /\ KnownInv(t)'
      BY <1>0, <2>1, <3>1 DEF Rowed, OwnRowInv, KnownInv
    <3>3. verdict'[t] = "duplicate" => Rival(t)'
      BY <1>0, <2>4, <2>m, <3>1 DEF ReceiveUnknown, Rowed, Rival
    <3> QED
      BY <3>1, <3>2, <3>3 DEF Rowed
  <2>5. CASE Lookup(t)
    <3>1. CASE Stored(t) /\ Identified(t) /\ UNCHANGED missed
      <4>1. t \notin missed'
        BY <2>5, <2>m, <3>1 DEF Lookup
      <4> QED
        BY <1>0, <2>1, <2>2, <2>5, <3>1, <4>1
           DEF Lookup, Identified, Stored, Rowed, OwnRowInv, KnownInv, Rival
    <3>2. CASE /\ Await(t, "fetch") /\ UNCHANGED cache
               /\ missed' = IF Stored(t) THEN missed \cup {t} ELSE missed
      <4>1. /\ verifier'[t] = "fetch" /\ UNCHANGED <<rows, heard, verdict, cache>>
            /\ t \in missed' => store = "open" /\ \E r \in rows : r.Address = Peer(t)
            /\ (store = "open" /\ t \notin missed') => \A r \in rows : r.Address # Peer(t)
        BY <1>0, <2>5, <2>m, <3>2 DEF Lookup, Await, Stored
      <4>2. OwnRowInv(t)' /\ KnownInv(t)'
        BY <1>0, <2>1, <4>1 DEF Rowed, OwnRowInv, KnownInv
      <4>3. verdict'[t] = "duplicate" => Rival(t)'
        BY <1>0, <2>5, <2>m, <4>1 DEF Lookup, Rowed, Rival
      <4> QED
        BY <4>1, <4>2, <4>3 DEF Rowed
    <3> QED
      BY <2>5, <3>1, <3>2 DEF Lookup
  <2>6. CASE Fetch(t)
    <3>1. CASE store = "none" /\ Identified(t)
      <4>1. t \notin missed /\ missed' = missed
        BY <1>0, <2>6, <3>1 DEF Fetch, Rowed, OwnRowInv
      <4> QED
        BY <1>0, <2>1, <2>2, <2>6, <3>1, <4>1
           DEF Fetch, Identified, Rowed, OwnRowInv, KnownInv, Rival
    <3>2. CASE store # "none" /\ Await(t, "insert") /\ UNCHANGED cache
      <4>1. verifier'[t] = "insert" /\ UNCHANGED <<rows, heard, verdict, cache, missed>>
        BY <1>0, <2>6, <3>2 DEF Fetch, Await
      <4> QED
        BY <1>0, <2>1, <2>6, <3>2, <4>1 DEF Fetch, Rowed, OwnRowInv, KnownInv, Rival
    <3>3. CASE Refuse(t, "unreachable") /\ UNCHANGED <<wire, chain, heard, cache>>
      <4>1. /\ verifier'[t] = "failed" /\ verdict'[t] = "unreachable"
            /\ UNCHANGED <<rows, missed>>
        BY <1>0, <2>6, <3>3 DEF Fetch, Refuse
      <4> QED
        BY <1>0, <2>1, <3>3, <4>1 DEF Rowed, OwnRowInv, KnownInv, Rival
    <3> QED
      BY <2>6, <3>1, <3>2, <3>3 DEF Fetch
  <2>7. CASE Insert(t)
    <3>1. CASE /\ store = "open" /\ ~ Conflicts(Peer(t))
               /\ rows' = rows \cup {Row(Peer(t), t)} /\ Identified(t)
      <4>1. Row(Peer(t), t) \in rows' /\ Row(Peer(t), t).Address = Peer(t)
        BY <3>1 DEF Row
      <4>m. t \notin missed /\ missed' = missed
        BY <1>0, <2>7, <3>1 DEF Insert, Rowed, OwnRowInv, Conflicts
      <4>2. verifier'[t] \in {"recv", "done", "failed"} /\ (verdict'[t] = "duplicate" => Rival(t))
        BY <1>0, <2>2, <3>1, <4>m DEF Identified, Rowed
      <4>3. OwnRowInv(t)' /\ KnownInv(t)'
        BY <1>0, <2>1, <3>1, <4>1, <4>2, <4>m DEF Rowed, OwnRowInv, KnownInv
      <4>4. Rival(t) => Rival(t)'
        BY <3>1 DEF Rival
      <4> QED
        BY <4>2, <4>3, <4>4, <4>m DEF Rowed
    <3>2. CASE /\ \/ store = "open" /\ Conflicts(Peer(t)) /\ Refuse(t, "duplicate")
                  \/ Refuse(t, "database")
               /\ UNCHANGED <<wire, chain, heard, cache, rows>>
      <4>1. verifier'[t] = "failed" /\ missed' = missed
        BY <1>0, <2>7, <3>2 DEF Insert, Refuse
      <4>2. verdict'[t] = "duplicate" => store = "open" /\ Conflicts(Peer(t))
        BY <1>0, <3>2 DEF Refuse
      <4>3. store = "open" /\ Conflicts(Peer(t)) => Rival(t) \/ t \in missed
        BY <1>0, <2>7 DEF Insert, Conflicts, Rowed, OwnRowInv, Rival
      <4>4. OwnRowInv(t)' /\ KnownInv(t)'
        BY <1>0, <2>1, <3>2, <4>1 DEF Rowed, OwnRowInv, KnownInv
      <4> QED
        BY <3>2, <4>1, <4>2, <4>3, <4>4 DEF Rowed, Rival
    <3> QED
      BY <2>7, <3>1, <3>2 DEF Insert
  <2> QED
    BY <1>4, <2>3, <2>4, <2>5, <2>6, <2>7 DEF Verify, Handle
<1>5. ASSUME NEW p \in Peers, AddIdentity(p) PROVE Rowed(t)'
  BY <1>0, <1>5, RowFrame DEF AddIdentity, Row
<1>6. CASE CloseStore
  BY <1>0, <1>6, RowFrame DEF CloseStore
<1>7. CASE Tick \/ GracefulStop \/ Stopped \/ UNCHANGED vars
  BY <1>0, <1>7 DEF Tick, GracefulStop, Stopped, vars, Rowed, OwnRowInv, KnownInv, Rival
<1> QED
  BY <1>1, <1>2, <1>3, <1>4, <1>5, <1>6, <1>7 DEF Next
-----------------------------------------------------------------------------
(* Every state of the server satisfies the inductive invariant: the        *)
(* messages of every stream go on where its verifier's link ends, and the  *)
(* table accounts for what the verifiers know (verifier.go with peer.go).  *)
THEOREM InductiveInvariant == Spec => []Inductive
<1>1. Inductive /\ [Next]_vars => Inductive'
  <2> SUFFICES ASSUME Inductive, [Next]_vars PROVE Inductive'
    OBVIOUS
  <2>1. TypeOK' /\ \A t \in Streams : Chained(t)' /\ Rowed(t)'
    BY TypeStep, ChainStep, RowStep
  <2>2. ChainFollowsStream' /\ RefusedInsertHasRival'
    BY <2>1 DEF Chained, Rowed, Rival, ChainFollowsStream, RefusedInsertHasRival
  <2> QED
    BY <2>1, <2>2 DEF Inductive, Chained, Rowed
<1> QED
  BY <1>1, InductiveInit, PTL DEF Spec

(* The variables always have their types, and a message that a verifier    *)
(* has put off is still there when the identity has been found.            *)
THEOREM TypeCorrect == Spec => []TypeOK
BY InductiveInvariant, PTL DEF Inductive

(* However long the games, however many streams share the store, and       *)
(* whatever the mix of moves and dice messages: no honest message is       *)
(* refused for a hash or a sequence number (VerifyAndAdd).                 *)
THEOREM ChainFollows == Spec => []ChainFollowsStream
BY InductiveInvariant, PTL DEF Inductive

(* The store refuses the identity of a peer as a duplicate only for a row  *)
(* that the stream has not brought itself, or after a look-up has failed   *)
(* on a row that is there, which no stream survives                        *)
(* (getPeerIdentityFromStoreOrRemote).                                     *)
THEOREM InsertHasRival == Spec => []RefusedInsertHasRival
BY InductiveInvariant, PTL DEF Inductive

(* The chain of a stream expires only when more than TTL has passed since  *)
(* its last accepted message (VerifyAndAdd renews the link's lifetime).    *)
THEOREM ExpiresAfterPause == Spec => RefusedOnlyAfterPause
<1>1. ASSUME Inductive, [Next]_vars, NEW t \in Streams,
             verdict[t] = "none", verdict'[t] = "expired"
      PROVE  now > heard[t] + TTL
  <2>0. TypeOK
    BY <1>1 DEF Inductive
  <2>1. \A s \in Streams : Verify(s) => s = t /\ CheckChain(t)
    <3> SUFFICES ASSUME NEW s \in Streams, Verify(s) PROVE s = t /\ CheckChain(t)
      OBVIOUS
    <3>1. s = t
      BY <1>1, <2>0 DEF TypeOK, Verify, Handle, ReceiveKnown, ReceiveUnknown, Lookup, Fetch, Insert,
                        Identified, CheckChain, Await, Refuse
    <3>2. ASSUME NEW reason \in {"unreachable", "duplicate", "database"}, Refuse(s, reason)
          PROVE  FALSE
      BY <1>1, <2>0, <3>1, <3>2 DEF TypeOK, Refuse
    <3> QED
      BY <1>1, <2>0, <3>1, <3>2, VerifyEffect
  <2>2. Verify(t) /\ CheckChain(t)
    BY <1>1, <2>1 DEF Next, Open, Send, AddIdentity, Tick, CloseStore, GracefulStop, Stopped, vars
  <2>3. wire[t] # << >> /\ ChainInv(t) /\ LifetimeInv(t)
    BY <1>1, <2>0, <2>2, VerifyEffect DEF Inductive
  <2>4. chain[t] # None /\ Expired(chain[t].ExpiresAt)
    BY <1>1, <2>0, <2>2, <2>3, CheckChainEffect
  <2> QED
    BY <2>3, <2>4 DEF LifetimeInv, Expired
<1>2. Inductive /\ [Next]_vars =>
          [\A s \in Streams :
              (verdict[s] = "none" /\ verdict'[s] = "expired") => now > heard[s] + TTL]_vars
  BY <1>1
<1> QED
  BY <1>2, InductiveInvariant, PTL DEF Spec, RefusedOnlyAfterPause

(* A peer that has brought itself to a server with a store is asked for    *)
(* its identity again while the store is open only after a look-up has     *)
(* failed to find its row (README.md, "Local Verification").               *)
THEOREM KnownWithoutNetwork == Spec => KnownPeersNeedNoNetwork
<1>1. ASSUME Inductive, [Next]_vars, NEW s \in Streams, NEW t \in Streams,
             verifier[s] # "fetch", verifier'[s] = "fetch", store = "open",
             Peer(t) = Peer(s), t \notin Dialled, heard[t] # None, s \notin missed'
      PROVE  FALSE
  <2>0. TypeOK /\ KnownInv(t)
    BY <1>1 DEF Inductive
  <2>1. \E r \in rows : r.Address = Peer(s)
    BY <1>1, <2>0 DEF KnownInv
  <2>2. Stored(s)
    BY <1>1, <2>1 DEF Stored
  <2>3. ASSUME NEW u \in Streams, Verify(u) PROVE FALSE
    <3>1. CASE CheckChain(u)
      BY <1>1, <2>0, <3>1 DEF TypeOK, CheckChain, Refuse
    <3>2. CASE \E reason \in {"unreachable", "duplicate", "database"} : Refuse(u, reason)
      BY <1>1, <2>0, <3>2 DEF TypeOK, Refuse
    <3>3. CASE Await(u, "fetch") /\ u = s /\ verifier[s] = "lookup"
      BY <1>1, <2>0, <2>2, <2>3, <3>1, <3>3
         DEF TypeOK, Verify, Handle, ReceiveKnown, ReceiveUnknown, Lookup, Fetch, Insert, Identified
    <3> QED
      BY <1>1, <2>0, <2>2, <2>3, <3>1, <3>2, <3>3
         DEF TypeOK, Verify, Handle, ReceiveKnown, ReceiveUnknown, Lookup, Fetch, Insert,
             Identified, Await
  <2>4. ASSUME NEW u \in Streams, Open(u) PROVE FALSE
    BY <1>1, <2>0, <2>4 DEF TypeOK, Open
  <2>5. verifier' = verifier
    BY <1>1, <2>3, <2>4
       DEF Next, Send, AddIdentity, Tick, CloseStore, GracefulStop, Stopped, vars
  <2> QED
    BY <1>1, <2>5
<1>2. Inductive /\ [Next]_vars =>
          [\A s, t \in Streams :
              (verifier[s] # "fetch" /\ verifier'[s] = "fetch" /\ store = "open")
                  => \/ ~ (Peer(t) = Peer(s) /\ t \notin Dialled /\ heard[t] # None)
                     \/ s \in missed']_vars
  BY <1>1
<1> QED
  BY <1>2, InductiveInvariant, PTL DEF Spec, KnownPeersNeedNoNetwork
=============================================================================
