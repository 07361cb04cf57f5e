-------------------------- MODULE SecModRefinement --------------------------
(***************************************************************************)
(* sec-mod's client database implements the promise of CookieTicket: every *)
(* step of SecMod is a step of the abstract specification or leaves the    *)
(* tickets, the idle clocks, the sessions of main and the number of issued *)
(* cookies alone.                                                          *)
(***************************************************************************)
EXTENDS SecModProofs

\* The ticket and the idle clock of each SID, as TicketSpec sees them.
tickets == [sid \in Sids |-> TicketOf(client_db[sid])]
clocks  == [sid \in Sids |-> IdleOf(client_db[sid])]

\* Rewriting one entry rewrites one ticket and one clock.
LEMMA OneTicket ==
  ASSUME SecModTypeOK, NEW sid \in Sids, NEW e,
         client_db' = [client_db EXCEPT ![sid] = e]
  PROVE  /\ tickets' = [tickets EXCEPT ![sid] = TicketOf(e)]
         /\ clocks' = [clocks EXCEPT ![sid] = IdleOf(e)]
<1>1. \A s \in Sids : client_db'[s] = IF s = sid THEN e ELSE client_db[s]
  BY DEF SecModTypeOK
<1>2. tickets' = [s \in Sids |-> TicketOf(client_db'[s])]
  BY DEF tickets, TicketOf
<1>3. clocks' = [s \in Sids |-> IdleOf(client_db'[s])]
  BY DEF clocks, IdleOf
<1>4. ASSUME NEW s \in Sids
      PROVE  /\ TicketOf(client_db'[s]) = [tickets EXCEPT ![sid] = TicketOf(e)][s]
             /\ IdleOf(client_db'[s]) = [clocks EXCEPT ![sid] = IdleOf(e)][s]
  <2>1. CASE s = sid
    BY <1>1, <2>1 DEF tickets, clocks
  <2>2. CASE s # sid
    BY <1>1, <2>2 DEF tickets, clocks
  <2> QED
    BY <2>1, <2>2
<1>5. /\ [tickets EXCEPT ![sid] = TicketOf(e)]
           = [s \in Sids |-> [tickets EXCEPT ![sid] = TicketOf(e)][s]]
      /\ [clocks EXCEPT ![sid] = IdleOf(e)]
           = [s \in Sids |-> [clocks EXCEPT ![sid] = IdleOf(e)][s]]
  BY DEF tickets, clocks
<1> QED
  BY <1>2, <1>3, <1>4, <1>5

\* A rewriting that shows in neither is a stuttering step.
LEMMA Stutters ==
  ASSUME SecModTypeOK, NEW sid \in Sids, NEW e,
         client_db' = [client_db EXCEPT ![sid] = e],
         TicketOf(e) = TicketOf(client_db[sid]), IdleOf(e) = IdleOf(client_db[sid]),
         UNCHANGED <<now, holders, cookies>>
  PROVE  UNCHANGED Ticket!vars
<1>1. tickets' = tickets /\ clocks' = clocks
  BY OneTicket DEF tickets, clocks
<1> QED
  BY <1>1 DEF Ticket!vars, tickets, clocks

\* An authenticated entry that is marked as failed gives up its ticket.
LEMMA Revokes ==
  ASSUME SecModInv, NEW sid \in Sids, NEW e,
         client_db' = [client_db EXCEPT ![sid] = e],
         client_db[sid].status = "completed", e.status = "failed",
         UNCHANGED <<now, holders, cookies>>
  PROVE  Ticket!Revoke(sid)
<1>1. TicketOf(client_db[sid]) # 0
  BY EntryFacts DEF EntryInv, TicketOf, ClientEntry
<1>2. TicketOf(e) = 0 /\ IdleOf(e) = 0
  BY DEF TicketOf, IdleOf
<1>3. tickets' = [tickets EXCEPT ![sid] = 0] /\ clocks' = [clocks EXCEPT ![sid] = 0]
  BY <1>2, OneTicket DEF SecModInv
<1>4. tickets[sid] # 0
  BY <1>1 DEF tickets
<1> QED
  BY <1>3, <1>4 DEF Ticket!Revoke, tickets, clocks

\* A failed authentication, of whatever entry, revokes a ticket or stutters.
LEMMA FailStep ==
  ASSUME SecModInv, NEW sid \in Sids, NEW e,
         client_db' = [client_db EXCEPT ![sid] = e], e.status = "failed",
         UNCHANGED <<now, holders, cookies>>
  PROVE  Ticket!Next \/ UNCHANGED Ticket!vars
<1>1. CASE client_db[sid].status = "completed"
  BY <1>1, Revokes DEF Ticket!Next
<1>2. CASE client_db[sid].status # "completed"
  <2>1. TicketOf(e) = TicketOf(client_db[sid]) /\ IdleOf(e) = IdleOf(client_db[sid])
    BY <1>2 DEF TicketOf, IdleOf
  <2> QED
    BY <2>1, Stutters DEF SecModInv
<1> QED
  BY <1>1, <1>2

\* A result of an authentication that is under way, of an entry without users.
LEMMA AuthResStep ==
  ASSUME SecModInv, NEW sid \in Sids, NEW e \in ClientEntry, NEW result,
         handle_sec_auth_res(sid, e, result), UNCHANGED <<now, holders>>,
         client_db[sid].status # "completed", holders[sid] = 0,
         e.status # "completed", e.time \in 0 .. now
  PROVE  Ticket!Next \/ UNCHANGED Ticket!vars
<1>1. TicketOf(client_db[sid]) = 0 /\ IdleOf(client_db[sid]) = 0
  BY DEF TicketOf, IdleOf
<1>2. CASE client_db' = [client_db EXCEPT ![sid] = e] /\ cookies' = cookies
  <2>1. TicketOf(e) = 0 /\ IdleOf(e) = 0
    BY DEF TicketOf, IdleOf
  <2> QED
    BY <1>1, <1>2, <2>1, Stutters DEF SecModInv
<1>3. CASE /\ cookies' = cookies + 1
           /\ client_db' = [client_db EXCEPT
                ![sid] = [e EXCEPT !.status = "completed", !.cookie = generate_cookie]]
  <2> DEFINE r == [e EXCEPT !.status = "completed", !.cookie = cookies + 1]
  <2>1. client_db' = [client_db EXCEPT ![sid] = r] /\ cookies \in Nat
    BY <1>3 DEF generate_cookie, SecModInv, SecModTypeOK
  <2>2. r.status = "completed" /\ r.cookie = cookies + 1 /\ r.time = e.time
    BY DEF ClientEntry
  <2> HIDE DEF r
  <2>3. TicketOf(r) = cookies + 1 /\ IdleOf(r) = e.time
    <3>1. e.time # -1
      BY DEF SecModInv, SecModTypeOK
    <3> QED
      BY <2>2, <3>1 DEF TicketOf, IdleOf
  <2>4. /\ tickets' = [tickets EXCEPT ![sid] = cookies + 1]
        /\ clocks' = [clocks EXCEPT ![sid] = e.time]
    <3>1. /\ tickets' = [tickets EXCEPT ![sid] = TicketOf(r)]
          /\ clocks' = [clocks EXCEPT ![sid] = IdleOf(r)]
      BY <2>1, OneTicket DEF SecModInv
    <3> QED
      BY <2>3, <3>1
  <2>5. tickets[sid] = 0
    BY <1>1 DEF tickets
  <2>6. Ticket!Issue(sid)
    BY <1>3, <2>4, <2>5 DEF Ticket!Issue, tickets, clocks
  <2> QED
    BY <2>6 DEF Ticket!Next
<1>4. CASE /\ client_db' = [client_db EXCEPT ![sid] = [e EXCEPT !.status = "failed"]]
           /\ cookies' = cookies
  <2>1. [e EXCEPT !.status = "failed"].status = "failed"
    BY DEF ClientEntry
  <2> QED
    BY <1>4, <2>1, FailStep
<1> QED
  BY <1>2, <1>3, <1>4 DEF handle_sec_auth_res

\* A new conversation is a step of the ticket or a stutter.
LEMMA AuthInitStep ==
  ASSUME SecModInv, NEW sid \in Sids, AuthInit(sid)
  PROVE  Ticket!Next \/ UNCHANGED Ticket!vars
<1>1. now \in Nat /\ UNCHANGED <<now, holders>> /\ client_db[sid].status = "absent"
  BY DEF SecModInv, SecModTypeOK, AuthInit, Present
<1>2. holders[sid] = 0
  BY <1>1, EntryFacts DEF EntryInv
<1> DEFINE e == [NewClient EXCEPT !.status = "init"]
<1>3. NewClient \in ClientEntry /\ NewClient.status = "inactive" /\ NewClient.time = now
  BY <1>1, NewClientFacts
<1>4. e \in ClientEntry /\ e.status = "init" /\ e.time = now
  BY <1>3 DEF Status, ClientEntry
<1>5. \/ \E result \in {"continue", "ok"} : handle_sec_auth_res(sid, e, result)
      \/ handle_sec_auth_res(sid, NewClient, "fail")
  BY DEF AuthInit
<1> HIDE DEF e
<1>6. e.time \in 0 .. now /\ NewClient.time \in 0 .. now
  BY <1>1, <1>3, <1>4
<1> QED
  BY <1>1, <1>2, <1>3, <1>4, <1>5, <1>6, AuthResStep

\* So is an answer in a conversation.
LEMMA AuthContStep ==
  ASSUME SecModInv, NEW sid \in Sids, AuthCont(sid)
  PROVE  Ticket!Next \/ UNCHANGED Ticket!vars
<1> DEFINE c == client_db[sid]
<1>1. /\ UNCHANGED <<now, holders>> /\ c \in ClientEntry /\ now \in Nat
      /\ holders[sid] \in Nat /\ EntryInv(c, holders[sid], acct[sid])
  BY EntryFacts DEF AuthCont, SecModInv, SecModTypeOK
<1>2. CASE c.status \in {"init", "cont"}
  <2> DEFINE e == [c EXCEPT !.status = "cont"]
  <2>1. e \in ClientEntry /\ e.status = "cont" /\ e.time = c.time
    BY <1>1 DEF Status, ClientEntry
  <2>2. \E result \in {"continue", "ok", "fail"} : handle_sec_auth_res(sid, e, result)
    BY <1>2 DEF AuthCont
  <2>3. c.in_use = 0 /\ holders[sid] = 0 /\ c.time # -1 /\ c.time <= now
    BY <1>1, <1>2 DEF EntryInv
  <2>4. c.time \in 0 .. now
    BY <1>1, <2>3 DEF ClientEntry
  <2> HIDE DEF e
  <2> QED
    BY <1>1, <1>2, <2>1, <2>2, <2>3, <2>4, AuthResStep
<1>3. CASE c.status \notin {"init", "cont"}
  <2>1. handle_sec_auth_res(sid, c, "fail")
    BY <1>3 DEF AuthCont
  <2>2. /\ client_db' = [client_db EXCEPT ![sid] = [c EXCEPT !.status = "failed"]]
        /\ cookies' = cookies
    BY <2>1 DEF handle_sec_auth_res
  <2>3. [c EXCEPT !.status = "failed"].status = "failed"
    BY <1>1 DEF ClientEntry
  <2> QED
    BY <1>1, <2>2, <2>3, FailStep
<1> QED
  BY <1>2, <1>3

\* A session that is opened redeems the ticket.
LEMMA SessionOpenStep ==
  ASSUME SecModInv, NEW sid \in Sids, NEW cookie, SessionOpen(sid, cookie)
  PROVE  Ticket!Redeem(sid)
<1> DEFINE c == client_db[sid]
           e == OpenedEntry(c)
<1>1. /\ c \in ClientEntry /\ holders[sid] \in Nat
      /\ EntryInv(c, holders[sid], acct[sid])
  BY EntryFacts
<1>2. /\ c.status = "completed" /\ Alive(c) /\ UNCHANGED <<now, cookies>>
      /\ client_db' = [client_db EXCEPT ![sid] = e]
      /\ holders' = [holders EXCEPT ![sid] = holders[sid] + 1]
  BY DEF SessionOpen, Redeems
<1>3. e.status = c.status /\ e.cookie = c.cookie /\ e.time = -1
  BY <1>1 DEF OpenedEntry, ClientEntry
<1> HIDE DEF e
<1>4. TicketOf(e) = c.cookie /\ TicketOf(c) = c.cookie /\ IdleOf(e) = 0 /\ c.cookie # 0
  BY <1>1, <1>2, <1>3 DEF TicketOf, IdleOf, EntryInv, ClientEntry
<1>5. holders[sid] > 0 \/ now <= IdleOf(c) + CookieTimeout
  BY <1>1, <1>2 DEF Alive, EntryInv, IdleOf
<1>6. tickets[sid] = c.cookie /\ clocks[sid] = IdleOf(c)
  BY <1>4 DEF tickets, clocks
<1>7. tickets' = [tickets EXCEPT ![sid] = c.cookie] /\ clocks' = [clocks EXCEPT ![sid] = 0]
  BY <1>2, <1>4, OneTicket DEF SecModInv
<1>8. [tickets EXCEPT ![sid] = c.cookie] = tickets
  BY <1>6 DEF tickets
<1> HIDE DEF c
<1> QED
  BY <1>2, <1>4, <1>5, <1>6, <1>7, <1>8 DEF Ticket!Redeem, tickets, clocks

\* One that is refused does not use it.
LEMMA SessionOpenDeniedStep ==
  ASSUME SecModInv, NEW sid \in Sids, NEW cookie, SessionOpenDenied(sid, cookie)
  PROVE  Ticket!Next \/ UNCHANGED Ticket!vars
<1> DEFINE c == client_db[sid]
<1>1. c \in ClientEntry
  BY EntryFacts
<1>2. UNCHANGED <<now, cookies, holders>>
  BY DEF SessionOpenDenied
<1>3. CASE OpenRevokes(sid, cookie)
  <2>1. client_db' = [client_db EXCEPT ![sid] = [c EXCEPT !.status = "failed"]]
    BY <1>3 DEF OpenRevokes
  <2>2. [c EXCEPT !.status = "failed"].status = "failed"
    BY <1>1 DEF ClientEntry
  <2> QED
    BY <1>2, <2>1, <2>2, FailStep
<1>4. CASE OpenUnconfigured(sid, cookie)
  <2> DEFINE e == [c EXCEPT !.session_is_open = AcctEnabled \/ @]
  <2>1. client_db' = [client_db EXCEPT ![sid] = e]
    BY <1>4 DEF OpenUnconfigured
  <2>2. e.status = c.status /\ e.cookie = c.cookie /\ e.time = c.time
    BY <1>1 DEF ClientEntry
  <2> HIDE DEF e
  <2>3. TicketOf(e) = TicketOf(c) /\ IdleOf(e) = IdleOf(c)
    BY <2>2 DEF TicketOf, IdleOf
  <2> QED
    BY <1>2, <2>1, <2>3, Stutters DEF SecModInv
<1>5. CASE UNCHANGED <<client_db, acct>>
  BY <1>2, <1>5 DEF Ticket!vars, TicketOf, IdleOf
<1> QED
  BY <1>3, <1>4, <1>5 DEF SessionOpenDenied

\* A session that is closed gives the ticket back.
LEMMA SessionCloseStep ==
  ASSUME SecModInv, NEW sid \in Sids, NEW bytes \in Nat, SessionClose(sid, bytes)
  PROVE  Ticket!Release(sid)
<1> DEFINE c == client_db[sid]
           r == ClosedEntry(c, bytes)
           idle == IF TicketOf(c) # 0 /\ holders[sid] = 1 THEN now ELSE IdleOf(c)
<1>1. /\ c \in ClientEntry /\ holders[sid] \in Nat /\ now \in Nat
      /\ EntryInv(c, holders[sid], acct[sid])
  BY EntryFacts DEF SecModInv, SecModTypeOK
<1>2. /\ holders[sid] > 0 /\ UNCHANGED <<now, cookies>>
      /\ client_db' = [client_db EXCEPT ![sid] = r]
      /\ holders' = [holders EXCEPT ![sid] = holders[sid] - 1]
  BY DEF SessionClose
<1>3. TicketOf(r) = TicketOf(c) /\ IdleOf(r) = idle
  <2>1. CASE c.status # "completed"
    <3>1. r = c
      BY <2>1 DEF ClosedEntry
    <3> QED
      BY <2>1, <3>1 DEF TicketOf, IdleOf
  <2>2. CASE c.status = "completed"
    <3> DEFINE left == IF c.in_use > 0 THEN c.in_use - 1 ELSE 0
    <3>1. /\ r.status = c.status /\ r.cookie = c.cookie
          /\ r.time = (IF left = 0 THEN now ELSE c.time)
      BY <1>1, <2>2, ClosedFacts
    <3>2. c.in_use = holders[sid] /\ c.time = -1 /\ c.cookie > 0
      BY <1>1, <1>2, <2>2 DEF EntryInv
    <3>3. left = 0 <=> holders[sid] = 1
      BY <1>1, <1>2, <3>2
    <3>4. c.cookie # 0
      BY <1>1, <3>2 DEF ClientEntry
    <3>5. TicketOf(r) = c.cookie /\ TicketOf(c) = c.cookie
      BY <2>2, <3>1 DEF TicketOf
    <3>6. CASE holders[sid] = 1
      <4>1. r.time = now
        BY <3>1, <3>3, <3>6
      <4> QED
        BY <1>1, <2>2, <3>1, <3>4, <3>5, <3>6, <4>1 DEF IdleOf
    <3>7. CASE holders[sid] # 1
      <4>1. r.time = -1
        BY <3>1, <3>2, <3>3, <3>7
      <4> QED
        BY <2>2, <3>1, <3>2, <3>5, <3>7, <4>1 DEF IdleOf
    <3> QED
      BY <3>6, <3>7
  <2> QED
    BY <2>1, <2>2
<1>4. tickets[sid] = TicketOf(c) /\ clocks[sid] = IdleOf(c)
  BY DEF tickets, clocks
<1>5. tickets' = [tickets EXCEPT ![sid] = TicketOf(r)] /\ clocks' = [clocks EXCEPT ![sid] = IdleOf(r)]
  BY <1>2, OneTicket DEF SecModInv
<1>6. tickets' = tickets
  BY <1>3, <1>4, <1>5 DEF tickets
<1>7. clocks' = [clocks EXCEPT ![sid] = idle]
  BY <1>3, <1>5
<1>8. clocks' = [clocks EXCEPT
                  ![sid] = IF tickets[sid] # 0 /\ holders[sid] = 1 THEN now ELSE clocks[sid]]
  BY <1>4, <1>7
<1> QED
  BY <1>2, <1>6, <1>8 DEF Ticket!Release, tickets, clocks

\* Statistics leave it alone.
LEMMA StatsStep ==
  ASSUME SecModInv, NEW sid \in Sids, NEW bytes \in Nat, Stats(sid, bytes)
  PROVE  UNCHANGED Ticket!vars
<1> DEFINE c == client_db[sid]
           e == [c EXCEPT !.stats = Larger(c.stats, bytes)]
<1>1. c \in ClientEntry
  BY EntryFacts
<1>2. client_db' = [client_db EXCEPT ![sid] = e] /\ UNCHANGED <<now, cookies, holders>>
  BY DEF Stats
<1>3. e.status = c.status /\ e.cookie = c.cookie /\ e.time = c.time
  BY <1>1 DEF ClientEntry
<1> HIDE DEF e
<1>4. TicketOf(e) = TicketOf(c) /\ IdleOf(e) = IdleOf(c)
  BY <1>3 DEF TicketOf, IdleOf
<1> QED
  BY <1>2, <1>4, Stutters DEF SecModInv

\* Maintenance drops only tickets that nobody uses and nobody may redeem.
LEMMA CleanupStep ==
  ASSUME SecModInv, cleanup_client_entries
  PROVE  \E dead \in SUBSET Sids : Ticket!Expire(dead)
<1> DEFINE dead == {s \in Sids : Expired(client_db[s]) /\ client_db[s].status = "completed"}
<1>1. UNCHANGED <<now, cookies, holders>> /\ now \in Nat
  BY DEF cleanup_client_entries, SecModInv, SecModTypeOK
<1>2. ASSUME NEW s \in dead
      PROVE  tickets[s] # 0 /\ holders[s] = 0 /\ now > clocks[s] + CookieTimeout
  <2> DEFINE c == client_db[s]
  <2>1. /\ c \in ClientEntry /\ holders[s] \in Nat /\ s \in Sids
        /\ EntryInv(c, holders[s], acct[s])
    BY EntryFacts
  <2>2. c.status = "completed" /\ c.time # -1 /\ c.in_use = 0
    BY DEF Expired
  <2>3. now - c.time > CookieTimeout + AuthSlack
    BY DEF Expired
  <2>4. c.time \in Nat /\ c.cookie \in Nat
    BY <2>1, <2>2 DEF ClientEntry
  <2>5. c.cookie # 0 /\ holders[s] = 0
    BY <2>1, <2>2, <2>4 DEF EntryInv
  <2>6. tickets[s] = c.cookie /\ clocks[s] = c.time
    BY <2>1, <2>2 DEF tickets, clocks, TicketOf, IdleOf
  <2>7. now > c.time + CookieTimeout
    BY <1>1, <2>3, <2>4, SecModAssumption
  <2> QED
    BY <2>5, <2>6, <2>7
<1>3. ASSUME NEW s \in Sids
      PROVE  /\ TicketOf(client_db'[s]) = IF s \in dead THEN 0 ELSE tickets[s]
             /\ IdleOf(client_db'[s]) = IF s \in dead THEN 0 ELSE clocks[s]
  <2>1. client_db'[s] = IF Expired(client_db[s]) THEN NoClient ELSE client_db[s]
    BY DEF cleanup_client_entries
  <2>2. tickets[s] = TicketOf(client_db[s]) /\ clocks[s] = IdleOf(client_db[s])
    BY DEF tickets, clocks
  <2>3. CASE ~Expired(client_db[s])
    BY <2>1, <2>2, <2>3
  <2>4. CASE Expired(client_db[s])
    <3>1. TicketOf(client_db'[s]) = 0 /\ IdleOf(client_db'[s]) = 0
      BY <2>1, <2>4 DEF TicketOf, IdleOf, NoClient
    <3>2. s \notin dead => tickets[s] = 0 /\ clocks[s] = 0
      BY <2>2, <2>4 DEF TicketOf, IdleOf
    <3> QED
      BY <3>1, <3>2
  <2> QED
    BY <2>3, <2>4
<1>4. /\ tickets' = [s \in Sids |-> TicketOf(client_db'[s])]
      /\ clocks' = [s \in Sids |-> IdleOf(client_db'[s])]
  BY DEF tickets, clocks, TicketOf, IdleOf
<1> HIDE DEF dead
<1>5. /\ tickets' = [s \in Sids |-> IF s \in dead THEN 0 ELSE tickets[s]]
      /\ clocks' = [s \in Sids |-> IF s \in dead THEN 0 ELSE clocks[s]]
  BY <1>3, <1>4
<1>6. Ticket!Expire(dead)
  BY <1>1, <1>2, <1>5 DEF Ticket!Expire, tickets, clocks
<1>7. dead \in SUBSET Sids
  BY DEF dead
<1> QED
  BY <1>6, <1>7

\* Time does.
LEMMA TickStep ==
  ASSUME SecModInv, Tick
  PROVE  Ticket!Pass
<1>1. UNCHANGED client_db
  BY DEF Tick
<1> QED
  BY <1>1 DEF Tick, Ticket!Pass, TicketOf, IdleOf

\* At the start there are no tickets.
LEMMA InitStep ==
  ASSUME SecModInit
  PROVE  Ticket!Init
<1>1. \A s \in Sids : TicketOf(client_db[s]) = 0 /\ IdleOf(client_db[s]) = 0
  BY DEF SecModInit, NoClient, TicketOf, IdleOf
<1> QED
  BY <1>1 DEF SecModInit, Ticket!Init

\* Every step of sec-mod is a step of the abstract specification or a stutter.
LEMMA NextStep ==
  ASSUME SecModInv, [SecModNext]_secmod_vars
  PROVE  [Ticket!Next]_(Ticket!vars)
<1>1. CASE Tick
  BY <1>1, TickStep DEF Ticket!Next
<1>2. CASE cleanup_client_entries
  BY <1>2, CleanupStep DEF Ticket!Next
<1>3. CASE \E sid \in Sids : AuthInit(sid)
  BY <1>3, AuthInitStep
<1>4. CASE \E sid \in Sids : AuthCont(sid)
  BY <1>4, AuthContStep
<1>5. CASE \E sid \in Sids, cookie \in 1 .. cookies : SessionOpen(sid, cookie)
  BY <1>5, SessionOpenStep DEF Ticket!Next
<1>6. CASE \E sid \in Sids, cookie \in 1 .. cookies : SessionOpenDenied(sid, cookie)
  BY <1>6, SessionOpenDeniedStep
<1>7. CASE \E sid \in Sids, bytes \in 0 .. MaxBytes : SessionClose(sid, bytes)
  <2>1. \A bytes \in 0 .. MaxBytes : bytes \in Nat
    BY SecModAssumption
  <2> QED
    BY <1>7, <2>1, SessionCloseStep DEF Ticket!Next
<1>8. CASE \E sid \in Sids, bytes \in 0 .. MaxBytes : Stats(sid, bytes)
  <2>1. \A bytes \in 0 .. MaxBytes : bytes \in Nat
    BY SecModAssumption
  <2> QED
    BY <1>8, <2>1, StatsStep
<1>9. CASE UNCHANGED secmod_vars
  BY <1>9 DEF secmod_vars, Ticket!vars, TicketOf, IdleOf
<1> QED
  BY <1>1, <1>2, <1>3, <1>4, <1>5, <1>6, <1>7, <1>8, <1>9 DEF SecModNext

\* The database with its entries, counters, clocks and accounting keeps the
\* promise of CookieTicket: a cookie opens sessions while one is open and for
\* cookie-timeout after the last was closed, and never comes back once lost.
THEOREM ImplementsTicket == SecModSpec => TicketSpec
<1>1. SecModInit => SecModInv
  BY InitInv
<1>2. SecModInv /\ [SecModNext]_secmod_vars => SecModInv'
  BY NextInv
<1>3. SecModInit => Ticket!Init
  BY InitStep
<1>4. SecModInv /\ [SecModNext]_secmod_vars => [Ticket!Next]_(Ticket!vars)
  BY NextStep
<1> QED
  BY <1>1, <1>2, <1>3, <1>4, PTL DEF SecModSpec, TicketSpec, Ticket!Spec

=============================================================================
