---------------------------- MODULE CookieTicket ----------------------------
(***************************************************************************)
(* What sec-mod's database promises about cookies, without entries,        *)
(* counters or accounting: a client that authenticated holds one ticket,   *)
(* the ticket opens sessions while some session is open and for            *)
(* cookie-timeout after the last one was closed, and a ticket that is      *)
(* withdrawn never comes back.                                             *)
(***************************************************************************)
EXTENDS Integers

CONSTANTS Sids, CookieTimeout

VARIABLES
  now,
  ticket,   \* ticket[sid]: the redeemable cookie of sid, 0 if there is none
  idle,     \* idle[sid]: since when a redeemable ticket has been out of use
  users,    \* users[sid]: open sessions
  issued    \* tickets handed out so far

vars == <<now, ticket, idle, users, issued>>

Init ==
  /\ now = 0
  /\ ticket = [sid \in Sids |-> 0]
  /\ idle = [sid \in Sids |-> 0]
  /\ users = [sid \in Sids |-> 0]
  /\ issued = 0

\* A ticket that was never seen before; its timeout counts from the start of
\* the authentication.
Issue(sid) ==
  /\ ticket[sid] = 0
  /\ users[sid] = 0
  /\ ticket' = [ticket EXCEPT ![sid] = issued + 1]
  /\ \E start \in 0 .. now : idle' = [idle EXCEPT ![sid] = start]
  /\ issued' = issued + 1
  /\ UNCHANGED <<now, users>>

Redeem(sid) ==
  /\ ticket[sid] # 0
  /\ users[sid] > 0 \/ now <= idle[sid] + CookieTimeout
  /\ users' = [users EXCEPT ![sid] = @ + 1]
  /\ idle' = [idle EXCEPT ![sid] = 0]
  /\ UNCHANGED <<now, ticket, issued>>

Release(sid) ==
  /\ users[sid] > 0
  /\ users' = [users EXCEPT ![sid] = @ - 1]
  /\ idle' = [idle EXCEPT ![sid] = IF ticket[sid] # 0 /\ users[sid] = 1 THEN now ELSE @]
  /\ UNCHANGED <<now, ticket, issued>>

\* The authentication behind the ticket is declared failed.
Revoke(sid) ==
  /\ ticket[sid] # 0
  /\ ticket' = [ticket EXCEPT ![sid] = 0]
  /\ idle' = [idle EXCEPT ![sid] = 0]
  /\ UNCHANGED <<now, users, issued>>

\* Tickets that nobody uses and nobody may redeem any more are dropped.
Expire(dead) ==
  /\ \A sid \in dead :
       ticket[sid] # 0 /\ users[sid] = 0 /\ now > idle[sid] + CookieTimeout
  /\ ticket' = [sid \in Sids |-> IF sid \in dead THEN 0 ELSE ticket[sid]]
  /\ idle' = [sid \in Sids |-> IF sid \in dead THEN 0 ELSE idle[sid]]
  /\ UNCHANGED <<now, users, issued>>

Pass == now' = now + 1 /\ UNCHANGED <<ticket, idle, users, issued>>

Next ==
  \/ Pass
  \/ \E dead \in SUBSET Sids : Expire(dead)
  \/ \E sid \in Sids : Issue(sid) \/ Redeem(sid) \/ Release(sid) \/ Revoke(sid)

Spec == Init /\ [][Next]_vars
=============================================================================
