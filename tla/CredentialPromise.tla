------------------------- MODULE CredentialPromise --------------------------
(***************************************************************************)
(* What the session tables promise, without calls, tokens or hashes: a     *)
(* session is minted for the password generation in force or for none      *)
(* (Free), replacing the password ends every session of the user in the    *)
(* same step, and a session that has ended never comes back.               *)
(***************************************************************************)
EXTENDS Naturals

CONSTANTS Users, SessionIDs,
          Free          \* a session no password produced

VARIABLES generation,   \* password replacements of each user so far
          session

Unborn == [st |-> "unborn"]

PromiseInit ==
    /\ generation = [u \in Users |-> 0]
    /\ session = [i \in SessionIDs |-> Unborn]

\* The sessions of `ended` are over; the others are as they were.
Ending(ended) ==
    [i \in SessionIDs |-> IF i \in ended THEN [session[i] EXCEPT !.st = "dead"]
                          ELSE session[i]]

Live == {i \in SessionIDs : session[i].st = "live"}

Mint(i, u) ==
    /\ session[i] = Unborn
    /\ \E g \in {Free, generation[u]} :
          session' = [session EXCEPT ![i] = [st |-> "live", user |-> u, gen |-> g]]
    /\ UNCHANGED generation

Revoke ==
    /\ \E ended \in SUBSET Live : session' = Ending(ended)
    /\ UNCHANGED generation

Replace(u) ==
    /\ generation' = [generation EXCEPT ![u] = @ + 1]
    /\ session' = Ending({i \in Live : session[i].user = u})

PromiseNext ==
    \/ \E i \in SessionIDs, u \in Users : Mint(i, u)
    \/ \E u \in Users : Replace(u)
    \/ Revoke

PromiseSpec == PromiseInit /\ [][PromiseNext]_<<generation, session>>
=============================================================================
