--------------------------- MODULE MCOwnerRequests ---------------------------
(***************************************************************************)
(* OwnerRequests for TLC: b and c run their servers at one local address,  *)
(* where this server finds itself when it dials it; d can be reached, and  *)
(* has not changed the name that b has, too.                               *)
(***************************************************************************)
EXTENDS OwnerRequests, TLC

CONSTANTS b, c, d, me, local, remote, mine

Others == {b, c, d}
Places == {local, remote, mine}
Where  == (b :> local) @@ (c :> local) @@ (d :> remote) @@ (me :> mine)
Called == (b :> b) @@ (c :> c) @@ (d :> b) @@ (me :> me)
Dialled == (local :> me) @@ (remote :> d) @@ (mine :> me)

(* At the start the table has one of the two players at that address; the  *)
(* other, and d, come in by a request.                                     *)
SomeTables == {{c}}

SendsAndStreams ==
    {addIdentity(p, TRUE) : p \in {b, d}} \cup {addIdentity(b, FALSE), listIdentities}
    \cup {sendTrustRequest(local, t, Owner) : t \in BOOLEAN}
    \cup {sendTrustRequest(remote, TRUE, Owner), sendTrustRequest(local, TRUE, Self)}
    \cup {createTrustRequest(local, TRUE, Self)}
    \cup {sendChallenge("HighRoll", Owner), sendChallenge("other", Owner),
          createChallenge("HighRoll", Self)}
    \cup {rollWith(p) : p \in {b, d}}
=============================================================================
