---------------------------- MODULE AbstractRoll ----------------------------
(***************************************************************************)
(* What a dice roll between two peers promises (dice/roller.go, README):   *)
(* neither player can pick its secret after seeing the other's, and a      *)
(* player accepts dice only when the other has worked out the same.        *)
(*                                                                         *)
(* There are no messages, channels or goroutines here: a roll of one       *)
(* player is tied to a roll of the other, the dice become known, and the   *)
(* roll is accepted or aborted.                                            *)
(***************************************************************************)
CONSTANTS Rolls,            \* identities of rolls: <<player, number>>
          None,
          Torn,             \* a commitment that no secret opens
          Owner(_), Peer(_),
          rollOf(_, _)      \* the dice of two secrets

VARIABLES opponent,  \* opponent[r]: the peer's roll whose commitment r holds,
                     \* Torn, or None
          outcome,   \* outcome[r]: the dice r knows, or None
          result     \* result[r]: "none", "open", "accepted" or "aborted"

vars == <<opponent, outcome, result>>

Init ==
    /\ opponent = [r \in Rolls |-> None]
    /\ outcome = [r \in Rolls |-> None]
    /\ result = [r \in Rolls |-> "none"]

Start(r) ==
    /\ result[r] = "none"
    /\ result' = [result EXCEPT ![r] = "open"]
    /\ UNCHANGED <<opponent, outcome>>

(* r holds the commitment of a roll that the peer has started.  It may be  *)
(* received after r was given up.                                          *)
Bind(r, s) ==
    /\ result[r] # "none" /\ opponent[r] = None
    /\ Owner(s) = Peer(r) /\ result[s] # "none"
    /\ opponent' = [opponent EXCEPT ![r] = s]
    /\ UNCHANGED <<outcome, result>>

(* r holds what nobody committed to: it will not learn any dice.           *)
BindTorn(r) ==
    /\ result[r] # "none" /\ opponent[r] = None
    /\ opponent' = [opponent EXCEPT ![r] = Torn]
    /\ UNCHANGED <<outcome, result>>

(* The dice are known once both sides are bound: s gave its secret away    *)
(* only after it held a commitment itself.                                 *)
Learn(r) ==
    LET s == opponent[r]
    IN  /\ result[r] = "open" /\ outcome[r] = None
        /\ s \in Rolls /\ opponent[s] # None
        /\ outcome' = [outcome EXCEPT ![r] = rollOf(r, s)]
        /\ UNCHANGED <<opponent, result>>

(* The dice count only when the peer's roll has the same ones. *)
Accept(r) ==
    /\ result[r] = "open" /\ outcome[r] # None
    /\ \E s \in Rolls : Owner(s) = Peer(r) /\ outcome[s] = outcome[r]
    /\ result' = [result EXCEPT ![r] = "accepted"]
    /\ UNCHANGED <<opponent, outcome>>

Abort(r) ==
    /\ result[r] = "open"
    /\ result' = [result EXCEPT ![r] = "aborted"]
    /\ UNCHANGED <<opponent, outcome>>

Next == \E r \in Rolls :
    \/ Start(r) \/ Learn(r) \/ Accept(r) \/ Abort(r) \/ BindTorn(r)
    \/ \E s \in Rolls : Bind(r, s)

Spec == Init /\ [][Next]_vars
=============================================================================
