--------------------------- MODULE AbilityTokens ---------------------------
(***************************************************************************)
(* The tokens that lend abilities to users the access list does not know   *)
(* (lib/storage/temporary_ability_token.py).  A token must be consumed     *)
(* within ConsumptionLifetime of its creation, by one user, who then has   *)
(* its abilities until AbilityLifetime after its creation.  Consuming      *)
(* reads the row FOR UPDATE, decides, and commits.                         *)
(***************************************************************************)
EXTENDS Integers

CONSTANTS Tokens, Users, Nobody, ConsumptionLifetime, AbilityLifetime, LastTime

VARIABLES
  now,      \* the time
  row,      \* row[t]: the token's row; created at 0 if there is none
  tx,       \* tx[u]: the user's call of consume
  answered  \* answered[u]: the tokens the user was told SUCCESS for

tokenVars == <<now, row, tx, answered>>

NoRow == [exists |-> FALSE, consumer |-> Nobody, created |-> 0]
NoCall == [token |-> Nobody, step |-> "idle", seen |-> NoRow, now |-> 0]

TokensInit ==
  /\ now = 0
  /\ row = [t \in Tokens |-> NoRow]
  /\ tx = [u \in Users |-> NoCall]
  /\ answered = [u \in Users |-> {}]

\* TemporaryAbilityToken.create
Create(t) ==
  /\ ~row[t].exists
  /\ row' = [row EXCEPT ![t] = [exists |-> TRUE, consumer |-> Nobody, created |-> now]]
  /\ UNCHANGED <<now, tx, answered>>

\* A user calls consume with a token.
Call(u, t) ==
  /\ tx[u].step = "idle"
  /\ tx' = [tx EXCEPT ![u] = [NoCall EXCEPT !.token = t, !.step = "start"]]
  /\ UNCHANGED <<now, row, answered>>

\* Faulty variant: the row is read without its lock.
GetTokenUnlocked(u) ==
  /\ tx[u].step = "start"
  /\ tx' = [tx EXCEPT ![u].step = "read", ![u].seen = row[tx[u].token]]
  /\ UNCHANGED <<now, row, answered>>
\* _get_ability_token_for_update: waits while another call has the row's lock.
GetTokenForUpdate(u) ==
  /\ tx[u].step = "start"
  /\ \A v \in Users : tx[v].token = tx[u].token => tx[v].step \notin {"read", "decided"}
  /\ tx' = [tx EXCEPT ![u].step = "read", ![u].seen = row[tx[u].token]]
  /\ UNCHANGED <<now, row, answered>>

Expired(seen) == seen.created + ConsumptionLifetime < now

\* The answers other than SUCCESS.
Refuses(u) ==
  \/ ~tx[u].seen.exists
  \/ tx[u].seen.consumer \notin {Nobody, u}
  \/ Expired(tx[u].seen)
Refuse(u) ==
  /\ tx[u].step = "read" /\ Refuses(u)
  /\ tx' = [tx EXCEPT ![u] = NoCall]
  /\ UNCHANGED <<now, row, answered>>

\* The consumer is set, the transaction commits later.
Decide(u) ==
  /\ tx[u].step = "read" /\ ~Refuses(u)
  /\ tx' = [tx EXCEPT ![u].step = "decided", ![u].now = now]
  /\ UNCHANGED <<now, row, answered>>
Commit(u) ==
  /\ tx[u].step = "decided"
  /\ row' = [row EXCEPT ![tx[u].token].consumer = u]
  /\ answered' = [answered EXCEPT ![u] = @ \cup {tx[u].token}]
  /\ tx' = [tx EXCEPT ![u] = NoCall]
  /\ UNCHANGED now
\* The process stops, or the commit fails: the row's lock is released.
Abandon(u) ==
  /\ tx[u].step \in {"read", "decided"}
  /\ tx' = [tx EXCEPT ![u] = NoCall]
  /\ UNCHANGED <<now, row, answered>>

Tick == now < LastTime /\ now' = now + 1 /\ UNCHANGED <<row, tx, answered>>

\* Faulty variant: a consumed token grants its abilities for ever.
GetAbilitiesForever(u) == {t \in Tokens : row[t].consumer = u}
\* The tokens whose abilities the user has.
GetAbilities(u) == {t \in Tokens : row[t].consumer = u /\ row[t].created + AbilityLifetime > now}

TokensNext ==
  \/ \E t \in Tokens : Create(t)
  \/ \E u \in Users : (\E t \in Tokens : Call(u, t)) \/ GetTokenForUpdate(u) \/ Refuse(u) \/ Decide(u) \/ Commit(u) \/ Abandon(u)
  \/ Tick

-----------------------------------------------------------------------------
\* A user who was told SUCCESS has the token, whatever other users do at the same
\* time: no token is told to two users (consume reads the row FOR UPDATE).
SuccessIsKept == \A u \in Users : \A t \in answered[u] : row[t].consumer = u

\* Abilities are lent only to users who were told SUCCESS in time, and lapse
\* (TemporaryAbilityToken.get_abilities).
AbilitiesLapse ==
  \A u \in Users : \A t \in GetAbilities(u) :
    /\ t \in answered[u]
    /\ now - row[t].created < AbilityLifetime
=============================================================================
