---------------------------- MODULE SecModProofs ----------------------------
(***************************************************************************)
(* Theorems about sec-mod's client database, for every set of session      *)
(* identifiers and every setting of the timeouts.                          *)
(*                                                                         *)
(* None of the invariants of SecMod is inductive alone: that a held entry  *)
(* is not reclaimed needs the use counter to cover the sessions of main,   *)
(* which needs the counter of an authenticated entry to be exact, which    *)
(* needs entries that are being authenticated to have no users, and the    *)
(* idle clock needs all of these.  SecModInv says it per entry.            *)
(***************************************************************************)
EXTENDS SecMod, TLAPS

\* A handler rewrites the entry of one SID, and perhaps what main holds and
\* what the accounting server has for that SID.
LEMMA OneEntry ==
  ASSUME SecModInv, NEW sid \in Sids, NEW e \in ClientEntry, NEW h \in Nat, NEW a \in Nat,
         client_db' = [client_db EXCEPT ![sid] = e],
         holders' = [holders EXCEPT ![sid] = h],
         acct' = [acct EXCEPT ![sid] = a],
         now' = now, cookies' \in Nat,
         EntryInv(e, h, a)
  PROVE  SecModInv'
<1>1. SecModTypeOK'
  BY DEF SecModInv, SecModTypeOK
<1>2. ASSUME NEW s \in Sids
      PROVE  EntryInv(client_db[s], holders[s], acct[s])'
  <2>1. CASE s = sid
    <3>1. client_db'[s] = e /\ holders'[s] = h /\ acct'[s] = a
      BY <2>1 DEF SecModInv, SecModTypeOK
    <3> QED
      BY <3>1 DEF EntryInv
  <2>2. CASE s # sid
    <3>1. client_db'[s] = client_db[s] /\ holders'[s] = holders[s] /\ acct'[s] = acct[s]
      BY <2>2 DEF SecModInv, SecModTypeOK
    <3>2. EntryInv(client_db[s], holders[s], acct[s])
      BY DEF SecModInv
    <3> QED
      BY <3>1, <3>2 DEF EntryInv
  <2> QED
    BY <2>1, <2>2
<1> QED
  BY <1>1, <1>2 DEF SecModInv

\* The parts of the invariant for one SID.
LEMMA EntryFacts ==
  ASSUME SecModInv, NEW sid \in Sids
  PROVE  /\ client_db[sid] \in ClientEntry
         /\ holders[sid] \in Nat
         /\ acct[sid] \in Nat
         /\ EntryInv(client_db[sid], holders[sid], acct[sid])
         /\ holders = [holders EXCEPT ![sid] = holders[sid]]
         /\ acct = [acct EXCEPT ![sid] = acct[sid]]
         /\ client_db = [client_db EXCEPT ![sid] = client_db[sid]]
BY DEF SecModInv, SecModTypeOK

\* The entry of an unused SID.
LEMMA NewClientFacts ==
  ASSUME now \in Nat
  PROVE  /\ NewClient \in ClientEntry
         /\ NewClient.status = "inactive"
         /\ NewClient.time = now
         /\ NewClient.in_use = 0
         /\ NewClient.session_is_open = FALSE
BY DEF NewClient, NoClient, ClientEntry, Status

\* A result of an authentication for an entry that satisfies the invariant.
\* Only an entry whose authentication is under way can be completed.
LEMMA AuthResInv ==
  ASSUME SecModInv, NEW sid \in Sids, NEW e \in ClientEntry, NEW result,
         handle_sec_auth_res(sid, e, result),
         UNCHANGED <<now, acct, holders>>,
         EntryInv(e, holders[sid], acct[sid]), e.status # "absent",
         result # "fail" => e.status \in {"init", "cont"}
  PROVE  SecModInv'
<1>1. cookies \in Nat /\ cookies + 1 \in Nat /\ cookies + 1 > 0
  BY DEF SecModInv, SecModTypeOK
<1>2. /\ holders[sid] \in Nat /\ acct[sid] \in Nat
      /\ holders' = [holders EXCEPT ![sid] = holders[sid]]
      /\ acct' = [acct EXCEPT ![sid] = acct[sid]]
  BY EntryFacts
<1>3. CASE result = "continue" /\ client_db' = [client_db EXCEPT ![sid] = e] /\ cookies' = cookies
  BY <1>1, <1>2, <1>3, OneEntry
<1>4. CASE /\ result = "ok" /\ cookies' = cookies + 1
           /\ client_db' = [client_db EXCEPT
                ![sid] = [e EXCEPT !.status = "completed", !.cookie = generate_cookie]]
  <2> DEFINE r == [e EXCEPT !.status = "completed", !.cookie = cookies + 1]
  <2>1. client_db' = [client_db EXCEPT ![sid] = r]
    BY <1>4 DEF generate_cookie
  <2>2. /\ r \in ClientEntry /\ r.status = "completed" /\ r.cookie = cookies + 1
        /\ r.time = e.time /\ r.in_use = e.in_use /\ r.session_is_open = e.session_is_open
    BY <1>1 DEF Status, ClientEntry
  <2> HIDE DEF r
  <2>3. e.in_use = 0 /\ holders[sid] = 0
    BY <1>2, <1>4 DEF EntryInv
  <2>4. EntryInv(r, holders[sid], acct[sid])
    BY <1>1, <2>2, <2>3 DEF EntryInv
  <2> QED
    BY <1>1, <1>2, <1>4, <2>1, <2>2, <2>4, OneEntry
<1>5. CASE /\ client_db' = [client_db EXCEPT ![sid] = [e EXCEPT !.status = "failed"]]
           /\ cookies' = cookies
  <2> DEFINE r == [e EXCEPT !.status = "failed"]
  <2>1. client_db' = [client_db EXCEPT ![sid] = r]
    BY <1>5
  <2>2. /\ r \in ClientEntry /\ r.status = "failed"
        /\ r.time = e.time /\ r.in_use = e.in_use /\ r.session_is_open = e.session_is_open
    BY DEF Status, ClientEntry
  <2> HIDE DEF r
  <2>3. EntryInv(r, holders[sid], acct[sid])
    BY <2>2 DEF EntryInv
  <2> QED
    BY <1>1, <1>2, <1>5, <2>1, <2>2, <2>3, OneEntry
<1> QED
  BY <1>3, <1>4, <1>5 DEF handle_sec_auth_res

\* A new conversation keeps the invariant.
LEMMA AuthInitInv ==
  ASSUME SecModInv, NEW sid \in Sids, AuthInit(sid)
  PROVE  SecModInv'
<1>1. now \in Nat /\ UNCHANGED <<now, acct, holders>> /\ client_db[sid].status = "absent"
  BY DEF SecModInv, SecModTypeOK, AuthInit, Present
<1>2. holders[sid] = 0 /\ acct[sid] = 0
  BY <1>1, EntryFacts DEF EntryInv
<1> DEFINE e == [NewClient EXCEPT !.status = "init"]
<1>3. /\ e \in ClientEntry /\ e.status = "init" /\ e.time = now
      /\ e.in_use = 0 /\ e.session_is_open = FALSE
  BY <1>1, NewClientFacts DEF Status, ClientEntry
<1>4. \/ \E result \in {"continue", "ok"} : handle_sec_auth_res(sid, e, result)
      \/ handle_sec_auth_res(sid, NewClient, "fail")
  BY DEF AuthInit
<1> HIDE DEF e
<1>5. EntryInv(e, holders[sid], acct[sid])
  BY <1>1, <1>2, <1>3 DEF EntryInv
<1>6. /\ NewClient \in ClientEntry /\ NewClient.status = "inactive"
      /\ NewClient.time = now /\ NewClient.in_use = 0 /\ NewClient.session_is_open = FALSE
  BY <1>1, NewClientFacts
<1>7. EntryInv(NewClient, holders[sid], acct[sid])
  BY <1>1, <1>2, <1>6 DEF EntryInv
<1> QED
  BY <1>1, <1>3, <1>4, <1>5, <1>6, <1>7, AuthResInv

\* An answer in a conversation keeps it.
LEMMA AuthContInv ==
  ASSUME SecModInv, NEW sid \in Sids, AuthCont(sid)
  PROVE  SecModInv'
<1>1. UNCHANGED <<now, acct, holders>> /\ client_db[sid].status # "absent"
  BY DEF AuthCont, Present
<1>2. CASE client_db[sid].status \in {"init", "cont"}
  <2> DEFINE e == [client_db[sid] EXCEPT !.status = "cont"]
  <2>0. client_db[sid] \in ClientEntry
    BY EntryFacts
  <2>1. /\ e \in ClientEntry /\ e.status = "cont" /\ e.time = client_db[sid].time
        /\ e.in_use = client_db[sid].in_use
        /\ e.session_is_open = client_db[sid].session_is_open
    BY <2>0 DEF Status, ClientEntry
  <2>2. \E result \in {"continue", "ok", "fail"} : handle_sec_auth_res(sid, e, result)
    BY <1>2 DEF AuthCont
  <2> HIDE DEF e
  <2>3. EntryInv(e, holders[sid], acct[sid])
    BY <1>2, <2>1, EntryFacts DEF EntryInv
  <2> QED
    BY <1>1, <2>1, <2>2, <2>3, AuthResInv
<1>3. CASE client_db[sid].status \notin {"init", "cont"}
  <2>1. handle_sec_auth_res(sid, client_db[sid], "fail")
    BY <1>3 DEF AuthCont
  <2> QED
    BY <1>1, <2>1, EntryFacts, AuthResInv
<1> QED
  BY <1>2, <1>3

\* The accounting session of an entry after AcctOpened.
LEMMA AcctOpenedFacts ==
  ASSUME SecModInv, NEW sid \in Sids, AcctOpened(sid)
  PROVE  \E a \in Nat :
           /\ acct' = [acct EXCEPT ![sid] = a]
           /\ a = IF AcctEnabled \/ client_db[sid].session_is_open THEN 1 ELSE 0
<1>1. /\ acct[sid] = IF client_db[sid].session_is_open THEN 1 ELSE 0
      /\ acct = [acct EXCEPT ![sid] = acct[sid]]
  BY EntryFacts DEF EntryInv
<1>2. CASE AcctEnabled /\ ~client_db[sid].session_is_open
  <2>1. acct' = [acct EXCEPT ![sid] = 1]
    BY <1>1, <1>2 DEF AcctOpened
  <2> QED
    BY <1>2, <2>1
<1>3. CASE ~(AcctEnabled /\ ~client_db[sid].session_is_open)
  <2>1. acct' = [acct EXCEPT ![sid] = acct[sid]]
    BY <1>1, <1>3 DEF AcctOpened
  <2> QED
    BY <1>1, <1>3, <2>1
<1> QED
  BY <1>2, <1>3

\* A session that is opened keeps it.
LEMMA SessionOpenInv ==
  ASSUME SecModInv, NEW sid \in Sids, NEW cookie, SessionOpen(sid, cookie)
  PROVE  SecModInv'
<1> DEFINE c == client_db[sid]
           open == AcctEnabled \/ c.session_is_open
           n == c.in_use + 1
           e == [c EXCEPT !.session_is_open = open, !.time = -1, !.in_use = n]
<1>1. /\ c \in ClientEntry /\ holders[sid] \in Nat
      /\ EntryInv(c, holders[sid], acct[sid])
  BY EntryFacts
<1>2. /\ c.status = "completed" /\ AcctOpened(sid) /\ now' = now /\ cookies' = cookies
      /\ holders' = [holders EXCEPT ![sid] = holders[sid] + 1]
  BY DEF SessionOpen, Redeems
<1>3. client_db' = [client_db EXCEPT ![sid] = e]
  BY Zenon DEF SessionOpen, OpenedEntry
<1>4. PICK a \in Nat : /\ acct' = [acct EXCEPT ![sid] = a]
                       /\ a = IF open THEN 1 ELSE 0
  BY <1>2, AcctOpenedFacts
<1>5. open \in BOOLEAN /\ n \in Nat
  BY <1>1, SecModAssumption DEF ClientEntry
<1>6. /\ now \in Nat /\ cookies \in Nat
      /\ c.in_use = holders[sid] /\ c.cookie > 0 /\ n = holders[sid] + 1
  BY <1>1, <1>2 DEF EntryInv, SecModInv, SecModTypeOK
<1> HIDE DEF c, open, n
<1>7. /\ e \in ClientEntry /\ e.status = c.status /\ e.cookie = c.cookie
      /\ e.time = -1 /\ e.in_use = n /\ e.session_is_open = open
  BY <1>1, <1>5 DEF ClientEntry
<1> HIDE DEF e
<1>8. EntryInv(e, holders[sid] + 1, a)
  BY <1>1, <1>2, <1>4, <1>6, <1>7 DEF EntryInv
<1>9. holders[sid] + 1 \in Nat /\ cookies' \in Nat
  BY <1>1, <1>2, <1>6
<1> QED
  BY <1>2, <1>3, <1>4, <1>7, <1>8, <1>9, OneEntry

\* One that is refused does.
LEMMA SessionOpenDeniedInv ==
  ASSUME SecModInv, NEW sid \in Sids, NEW cookie, SessionOpenDenied(sid, cookie)
  PROVE  SecModInv'
<1> DEFINE c == client_db[sid]
<1>1. /\ c \in ClientEntry /\ holders[sid] \in Nat /\ acct[sid] \in Nat
      /\ EntryInv(c, holders[sid], acct[sid])
      /\ holders = [holders EXCEPT ![sid] = holders[sid]]
      /\ acct = [acct EXCEPT ![sid] = acct[sid]]
      /\ cookies \in Nat
  BY EntryFacts DEF SecModInv, SecModTypeOK
<1>2. UNCHANGED <<now, cookies, holders>>
  BY DEF SessionOpenDenied
<1>3. CASE OpenRevokes(sid, cookie)
  <2> DEFINE e == [c EXCEPT !.status = "failed"]
  <2>1. client_db' = [client_db EXCEPT ![sid] = e] /\ acct' = acct /\ c.status = "completed"
    BY <1>3 DEF OpenRevokes
  <2>2. /\ e \in ClientEntry /\ e.status = "failed" /\ e.time = c.time
        /\ e.in_use = c.in_use /\ e.session_is_open = c.session_is_open
    BY <1>1 DEF ClientEntry, Status
  <2> HIDE DEF c, e
  <2>3. EntryInv(e, holders[sid], acct[sid])
    BY <1>1, <2>1, <2>2 DEF EntryInv
  <2> QED
    BY <1>1, <1>2, <2>1, <2>2, <2>3, OneEntry
<1>4. CASE OpenUnconfigured(sid, cookie)
  <2> DEFINE e == [c EXCEPT !.session_is_open = AcctEnabled \/ @]
  <2>1. /\ client_db' = [client_db EXCEPT ![sid] = e] /\ AcctOpened(sid)
        /\ c.status = "completed"
    BY <1>4 DEF OpenUnconfigured, Redeems
  <2>2. PICK a \in Nat : /\ acct' = [acct EXCEPT ![sid] = a]
                         /\ a = IF AcctEnabled \/ c.session_is_open THEN 1 ELSE 0
    BY <2>1, AcctOpenedFacts
  <2>3. /\ e \in ClientEntry /\ e.status = c.status /\ e.cookie = c.cookie
        /\ e.time = c.time /\ e.in_use = c.in_use
        /\ e.session_is_open = (AcctEnabled \/ c.session_is_open)
    BY <1>1, SecModAssumption DEF ClientEntry
  <2> HIDE DEF c, e
  <2>4. EntryInv(e, holders[sid], a)
    BY <1>1, <2>1, <2>2, <2>3 DEF EntryInv
  <2> QED
    BY <1>1, <1>2, <2>1, <2>2, <2>3, <2>4, OneEntry
<1>5. CASE UNCHANGED <<client_db, acct>>
  BY <1>2, <1>5 DEF SecModInv, SecModTypeOK, EntryInv
<1> QED
  BY <1>3, <1>4, <1>5 DEF SessionOpenDenied

\* What handle_sec_auth_session_close makes of an authenticated entry.
LEMMA ClosedFacts ==
  ASSUME NEW c \in ClientEntry, c.status = "completed", NEW bytes \in Nat, now \in Nat
  PROVE  LET r == ClosedEntry(c, bytes)
             left == IF c.in_use > 0 THEN c.in_use - 1 ELSE 0
         IN  /\ r \in ClientEntry /\ r.status = c.status /\ r.cookie = c.cookie
             /\ r.in_use = left
             /\ r.time = IF left = 0 THEN now ELSE c.time
             /\ r.session_is_open = c.session_is_open
             /\ r.stats = 0 /\ r.saved_stats = c.saved_stats + Larger(c.stats, bytes)
<1> DEFINE total == c.saved_stats + Larger(c.stats, bytes)
           d == [c EXCEPT !.saved_stats = total, !.stats = 0]
           left == IF d.in_use > 0 THEN d.in_use - 1 ELSE 0
           t == IF left = 0 THEN now ELSE d.time
           r == [d EXCEPT !.in_use = left, !.time = t]
<1>1. total \in Nat
  BY DEF Larger, ClientEntry
<1>2. ClosedEntry(c, bytes) = r
  BY Zenon DEF ClosedEntry, expire_client_entry
<1> HIDE DEF total
<1>3. /\ d \in ClientEntry /\ d.status = c.status /\ d.cookie = c.cookie
      /\ d.in_use = c.in_use /\ d.time = c.time /\ d.session_is_open = c.session_is_open
      /\ d.stats = 0 /\ d.saved_stats = total
  BY <1>1 DEF ClientEntry
<1> HIDE DEF d
<1>4. left \in Nat /\ t \in Nat \cup {-1}
  BY <1>3 DEF ClientEntry
<1>5. /\ left = (IF c.in_use > 0 THEN c.in_use - 1 ELSE 0)
      /\ t = (IF left = 0 THEN now ELSE c.time)
  BY <1>3
<1> HIDE DEF left, t
<1>6. /\ r \in ClientEntry /\ r.status = d.status /\ r.cookie = d.cookie
      /\ r.in_use = left /\ r.time = t /\ r.session_is_open = d.session_is_open
      /\ r.stats = d.stats /\ r.saved_stats = d.saved_stats
  BY <1>3, <1>4 DEF ClientEntry
<1> HIDE DEF r
<1> QED
  BY <1>2, <1>3, <1>5, <1>6 DEF total

\* A session that is closed does.
LEMMA SessionCloseInv ==
  ASSUME SecModInv, NEW sid \in Sids, NEW bytes \in Nat, SessionClose(sid, bytes)
  PROVE  SecModInv'
<1> DEFINE c == client_db[sid]
           r == ClosedEntry(c, bytes)
<1>1. /\ c \in ClientEntry /\ holders[sid] \in Nat /\ acct[sid] \in Nat
      /\ EntryInv(c, holders[sid], acct[sid])
      /\ acct = [acct EXCEPT ![sid] = acct[sid]]
      /\ now \in Nat /\ cookies \in Nat
  BY EntryFacts DEF SecModInv, SecModTypeOK
<1>2. /\ holders[sid] > 0 /\ now' = now /\ cookies' = cookies /\ acct' = acct
      /\ client_db' = [client_db EXCEPT ![sid] = r]
      /\ holders' = [holders EXCEPT ![sid] = holders[sid] - 1]
  BY DEF SessionClose
<1>3. holders[sid] - 1 \in Nat
  BY <1>1, <1>2
<1>4. r \in ClientEntry /\ EntryInv(r, holders[sid] - 1, acct[sid])
  <2>1. CASE c.status # "completed"
    <3>1. r = c
      BY <2>1 DEF ClosedEntry
    <3> QED
      BY <1>1, <1>2, <2>1, <3>1 DEF EntryInv, ClientEntry
  <2>2. CASE c.status = "completed"
    <3> DEFINE left == IF c.in_use > 0 THEN c.in_use - 1 ELSE 0
    <3>1. /\ r \in ClientEntry /\ r.status = c.status /\ r.cookie = c.cookie
          /\ r.in_use = left /\ r.time = (IF left = 0 THEN now ELSE c.time)
          /\ r.session_is_open = c.session_is_open
      BY <1>1, <2>2, ClosedFacts
    <3>2. c.in_use = holders[sid] /\ c.time = -1 /\ c.cookie > 0
      BY <1>1, <1>2, <2>2 DEF EntryInv
    <3>3. left = holders[sid] - 1
      BY <1>1, <1>2, <3>2
    <3> HIDE DEF c, r, left
    <3> QED
      BY <1>1, <1>2, <1>3, <2>2, <3>1, <3>2, <3>3 DEF EntryInv
  <2> QED
    BY <2>1, <2>2
<1> HIDE DEF c, r
<1> QED
  BY <1>1, <1>2, <1>3, <1>4, OneEntry

\* A report of statistics does.
LEMMA StatsInv ==
  ASSUME SecModInv, NEW sid \in Sids, NEW bytes \in Nat, Stats(sid, bytes)
  PROVE  SecModInv'
<1> DEFINE c == client_db[sid]
           n == Larger(c.stats, bytes)
           r == [c EXCEPT !.stats = n]
<1>1. /\ c \in ClientEntry /\ holders[sid] \in Nat /\ acct[sid] \in Nat
      /\ EntryInv(c, holders[sid], acct[sid])
      /\ acct = [acct EXCEPT ![sid] = acct[sid]]
      /\ holders = [holders EXCEPT ![sid] = holders[sid]]
      /\ cookies \in Nat
  BY EntryFacts DEF SecModInv, SecModTypeOK
<1>2. /\ UNCHANGED <<now, cookies, acct, holders>>
      /\ client_db' = [client_db EXCEPT ![sid] = r]
  BY DEF Stats
<1>3. n \in Nat
  BY <1>1 DEF Larger, ClientEntry
<1> HIDE DEF n
<1>4. /\ r \in ClientEntry /\ r.status = c.status /\ r.cookie = c.cookie
      /\ r.in_use = c.in_use /\ r.time = c.time /\ r.session_is_open = c.session_is_open
  BY <1>1, <1>3 DEF ClientEntry
<1> HIDE DEF r
<1>5. EntryInv(r, holders[sid], acct[sid])
  BY <1>1, <1>4 DEF EntryInv
<1> QED
  BY <1>1, <1>2, <1>4, <1>5, OneEntry

\* Maintenance does.
LEMMA CleanupInv ==
  ASSUME SecModInv, cleanup_client_entries
  PROVE  SecModInv'
<1>1. UNCHANGED <<now, cookies, holders>> /\ now \in Nat
  BY DEF cleanup_client_entries, SecModInv, SecModTypeOK
<1>2. /\ NoClient \in ClientEntry /\ NoClient.status = "absent" /\ NoClient.time = 0
      /\ NoClient.in_use = 0 /\ NoClient.session_is_open = FALSE
  BY DEF NoClient, ClientEntry, Status
<1>3. ASSUME NEW sid \in Sids
      PROVE  /\ client_db'[sid] \in ClientEntry /\ acct'[sid] \in Nat
             /\ EntryInv(client_db[sid], holders[sid], acct[sid])'
  <2>1. /\ client_db[sid] \in ClientEntry /\ holders[sid] \in Nat /\ acct[sid] \in Nat
        /\ EntryInv(client_db[sid], holders[sid], acct[sid])
    BY EntryFacts
  <2>2. CASE Expired(client_db[sid])
    <3>1. client_db'[sid] = NoClient /\ acct'[sid] = AcctClosed(sid)
      BY <2>2 DEF cleanup_client_entries
    <3>2. holders[sid] = 0
      BY <2>1, <2>2 DEF Expired, EntryInv
    <3>3. AcctClosed(sid) = 0
      BY <2>1 DEF AcctClosed, EntryInv
    <3> QED
      BY <1>1, <1>2, <3>1, <3>2, <3>3 DEF EntryInv
  <2>3. CASE ~Expired(client_db[sid])
    <3>1. client_db'[sid] = client_db[sid] /\ acct'[sid] = acct[sid]
      BY <2>3 DEF cleanup_client_entries
    <3> QED
      BY <1>1, <2>1, <3>1 DEF EntryInv
  <2> QED
    BY <2>2, <2>3
<1>4. SecModTypeOK'
  BY <1>1, <1>3 DEF cleanup_client_entries, SecModInv, SecModTypeOK
<1> QED
  BY <1>3, <1>4 DEF SecModInv

\* Time does.
LEMMA TickInv ==
  ASSUME SecModInv, Tick
  PROVE  SecModInv'
<1>1. now \in Nat /\ now' = now + 1 /\ UNCHANGED <<client_db, cookies, acct, holders>>
  BY DEF Tick, SecModInv, SecModTypeOK
<1>2. SecModTypeOK'
  BY <1>1 DEF SecModInv, SecModTypeOK
<1>3. ASSUME NEW sid \in Sids
      PROVE  EntryInv(client_db[sid], holders[sid], acct[sid])'
  <2>1. client_db[sid] \in ClientEntry /\ EntryInv(client_db[sid], holders[sid], acct[sid])
    BY EntryFacts
  <2>2. client_db[sid].time <= now'
    BY <1>1, <2>1 DEF EntryInv, ClientEntry
  <2> QED
    BY <1>1, <2>1, <2>2 DEF EntryInv
<1> QED
  BY <1>2, <1>3 DEF SecModInv

(***************************************************************************)
(* The invariant                                                           *)
(***************************************************************************)

\* The invariant holds at the start.
LEMMA InitInv == SecModInit => SecModInv
<1> SUFFICES ASSUME SecModInit PROVE SecModInv
  OBVIOUS
<1>1. /\ NoClient \in ClientEntry /\ NoClient.status = "absent" /\ NoClient.time = 0
      /\ NoClient.in_use = 0 /\ NoClient.session_is_open = FALSE
  BY DEF NoClient, ClientEntry, Status
<1>2. SecModTypeOK
  BY <1>1 DEF SecModInit, SecModTypeOK
<1>3. ASSUME NEW sid \in Sids
      PROVE  EntryInv(client_db[sid], holders[sid], acct[sid])
  <2>1. client_db[sid] = NoClient /\ holders[sid] = 0 /\ acct[sid] = 0 /\ now = 0
    BY DEF SecModInit
  <2> QED
    BY <1>1, <2>1 DEF EntryInv
<1> QED
  BY <1>2, <1>3 DEF SecModInv

\* Every step keeps it.
LEMMA NextInv == SecModInv /\ [SecModNext]_secmod_vars => SecModInv'
<1> SUFFICES ASSUME SecModInv, [SecModNext]_secmod_vars PROVE SecModInv'
  OBVIOUS
<1>1. \A bytes \in 0 .. MaxBytes : bytes \in Nat
  BY SecModAssumption
<1>2. CASE UNCHANGED secmod_vars
  BY <1>2 DEF secmod_vars, SecModInv, SecModTypeOK, EntryInv
<1>3. CASE SecModNext
  BY <1>1, <1>3, TickInv, CleanupInv, AuthInitInv, AuthContInv, SessionOpenInv,
     SessionOpenDeniedInv, SessionCloseInv, StatsInv DEF SecModNext
<1> QED
  BY <1>2, <1>3

\* What the invariant says about the properties of SecMod.
LEMMA InvImplies ==
  SecModInv => /\ SecModTypeOK /\ IdleClock /\ HeldNotReclaimed
               /\ CompletedCountExact /\ AcctBalanced
<1> SUFFICES ASSUME SecModInv
             PROVE  /\ SecModTypeOK /\ IdleClock /\ HeldNotReclaimed
                    /\ CompletedCountExact /\ AcctBalanced
  OBVIOUS
<1>1. SecModTypeOK
  BY DEF SecModInv
<1>2. IdleClock
  BY EntryFacts DEF IdleClock, EntryInv, Present
<1>3. HeldNotReclaimed
  BY EntryFacts DEF HeldNotReclaimed, EntryInv, Present
<1>4. CompletedCountExact
  BY EntryFacts DEF CompletedCountExact, EntryInv
<1>5. AcctBalanced
  BY EntryFacts DEF AcctBalanced, EntryInv
<1> QED
  BY <1>1, <1>2, <1>3, <1>4, <1>5

\* The database always has its type: no counter of it goes below zero.
THEOREM Typing == SecModSpec => []SecModTypeOK
BY InitInv, NextInv, InvImplies, PTL DEF SecModSpec

\* An entry without a running idle clock is one that is in use.
THEOREM IdleClockRight == SecModSpec => []IdleClock
BY InitInv, NextInv, InvImplies, PTL DEF SecModSpec

\* No session that main holds open loses its entry to the maintenance or to
\* another authentication.
THEOREM HeldIsNotReclaimed == SecModSpec => []HeldNotReclaimed
BY InitInv, NextInv, InvImplies, PTL DEF SecModSpec

\* The use counter of an authenticated entry is the number of sessions of main.
THEOREM CountIsExact == SecModSpec => []CompletedCountExact
BY InitInv, NextInv, InvImplies, PTL DEF SecModSpec

\* Accounting sessions are opened once and closed with their entry.
THEOREM AccountingBalances == SecModSpec => []AcctBalanced
BY InitInv, NextInv, InvImplies, PTL DEF SecModSpec

(***************************************************************************)
(* Statistics                                                              *)
(***************************************************************************)

\* What an entry has recorded, current and saved together, and that no entry
\* that stays has less of it after the step.
Recorded(e) == e.saved_stats + e.stats

Grows ==
  \A sid \in Sids :
    Present(sid) /\ Present(sid)' => Recorded(client_db'[sid]) >= Recorded(client_db[sid])

\* A handler that rewrites one entry need only look at that one.
LEMMA OneGrows ==
  ASSUME SecModInv, NEW sid \in Sids, NEW e,
         client_db' = [client_db EXCEPT ![sid] = e],
         Present(sid) => Recorded(e) >= Recorded(client_db[sid])
  PROVE  Grows
<1> SUFFICES ASSUME NEW s \in Sids, Present(s)
             PROVE  Recorded(client_db'[s]) >= Recorded(client_db[s])
  BY DEF Grows
<1>1. client_db[s] \in ClientEntry
  BY EntryFacts
<1>2. CASE s = sid
  BY <1>2 DEF SecModInv, SecModTypeOK
<1>3. CASE s # sid
  <2>1. client_db'[s] = client_db[s]
    BY <1>3 DEF SecModInv, SecModTypeOK
  <2>2. Recorded(client_db[s]) \in Nat
    BY <1>1 DEF Recorded, ClientEntry
  <2> QED
    BY <2>1, <2>2
<1> QED
  BY <1>2, <1>3

\* An entry that keeps both numbers keeps their sum.
LEMMA SameRecorded ==
  ASSUME SecModInv, NEW sid \in Sids, NEW e,
         client_db' = [client_db EXCEPT ![sid] = e],
         Present(sid) => /\ e.stats = client_db[sid].stats
                         /\ e.saved_stats = client_db[sid].saved_stats
  PROVE  Grows
<1>1. Recorded(client_db[sid]) \in Nat
  BY EntryFacts DEF Recorded, ClientEntry
<1>2. Present(sid) => Recorded(e) >= Recorded(client_db[sid])
  BY <1>1 DEF Recorded
<1> QED
  BY <1>2, OneGrows

\* Authentication does not touch the statistics of an entry.
LEMMA AuthGrows ==
  ASSUME SecModInv, NEW sid \in Sids, AuthInit(sid) \/ AuthCont(sid)
  PROVE  Grows
<1>1. client_db[sid] \in ClientEntry
  BY EntryFacts
<1>2. CASE AuthInit(sid)
  <2>1. \E e : client_db' = [client_db EXCEPT ![sid] = e]
    BY <1>2 DEF AuthInit, handle_sec_auth_res
  <2> QED
    BY <1>2, <2>1, SameRecorded DEF AuthInit
<1>3. CASE AuthCont(sid)
  <2> DEFINE c == client_db[sid]
             d == [c EXCEPT !.status = "cont"]
  <2>1. PICK e \in {c, d} : \E result : handle_sec_auth_res(sid, e, result)
    BY <1>3 DEF AuthCont
  <2>2. /\ d.stats = c.stats /\ d.saved_stats = c.saved_stats /\ d \in ClientEntry
    BY <1>1 DEF ClientEntry, Status
  <2>3. e.stats = c.stats /\ e.saved_stats = c.saved_stats /\ e \in ClientEntry
    BY <1>1, <2>1, <2>2
  <2> HIDE DEF d
  <2>4. \E f \in {e, [e EXCEPT !.status = "completed", !.cookie = generate_cookie],
                  [e EXCEPT !.status = "failed"]} :
          client_db' = [client_db EXCEPT ![sid] = f]
    BY <2>1 DEF handle_sec_auth_res
  <2>5. \A f \in {e, [e EXCEPT !.status = "completed", !.cookie = generate_cookie],
                  [e EXCEPT !.status = "failed"]} :
          f.stats = c.stats /\ f.saved_stats = c.saved_stats
    BY <2>3 DEF ClientEntry
  <2> QED
    BY <2>4, <2>5, SameRecorded
<1> QED
  BY <1>2, <1>3

\* Nor does the opening of a session.
LEMMA OpenGrows ==
  ASSUME SecModInv, NEW sid \in Sids, NEW cookie,
         SessionOpen(sid, cookie) \/ SessionOpenDenied(sid, cookie)
  PROVE  Grows
<1> DEFINE c == client_db[sid]
           Same == {OpenedEntry(c), [c EXCEPT !.status = "failed"],
                    [c EXCEPT !.session_is_open = AcctEnabled \/ @], c}
<1>1. c \in ClientEntry /\ client_db = [client_db EXCEPT ![sid] = c]
  BY EntryFacts
<1>2. \E e \in Same : client_db' = [client_db EXCEPT ![sid] = e]
  BY <1>1 DEF SessionOpen, SessionOpenDenied, OpenRevokes, OpenUnconfigured, OpenedEntry
<1>3. \A e \in Same : e.stats = c.stats /\ e.saved_stats = c.saved_stats
  BY <1>1 DEF OpenedEntry, ClientEntry
<1> QED
  BY <1>2, <1>3, SameRecorded

\* A close moves the larger of both counts to the saved ones.
LEMMA CloseGrows ==
  ASSUME SecModInv, NEW sid \in Sids, NEW bytes \in Nat, SessionClose(sid, bytes)
  PROVE  Grows
<1> DEFINE c == client_db[sid]
           d == [c EXCEPT !.saved_stats = @ + Larger(c.stats, bytes), !.stats = 0]
<1>1. c \in ClientEntry /\ now \in Nat
  BY EntryFacts DEF SecModInv, SecModTypeOK
<1>2. client_db' = [client_db EXCEPT ![sid] = ClosedEntry(c, bytes)]
  BY DEF SessionClose
<1>3. ClosedEntry(c, bytes) \in {c, expire_client_entry(d)}
  BY DEF ClosedEntry
<1>4. Recorded(c) \in Nat
  BY <1>1 DEF Recorded, ClientEntry
<1>5. Recorded(expire_client_entry(d)) >= Recorded(c)
  <2>1. d.saved_stats = c.saved_stats + Larger(c.stats, bytes) /\ d.stats = 0
    BY <1>1 DEF ClientEntry
  <2>2. expire_client_entry(d).saved_stats = d.saved_stats /\ expire_client_entry(d).stats = d.stats
    BY <1>1 DEF ClientEntry, expire_client_entry
  <2> HIDE DEF d
  <2> QED
    BY <1>1, <2>1, <2>2 DEF Recorded, Larger, ClientEntry
<1>6. Recorded(ClosedEntry(c, bytes)) >= Recorded(c)
  BY <1>3, <1>4, <1>5
<1> HIDE DEF c
<1> QED
  BY <1>2, <1>6, OneGrows DEF c

\* A report only raises the current ones.
LEMMA StatsGrows ==
  ASSUME SecModInv, NEW sid \in Sids, NEW bytes \in Nat, Stats(sid, bytes)
  PROVE  Grows
<1> DEFINE e == [client_db[sid] EXCEPT !.stats = Larger(@, bytes)]
<1>1. client_db[sid] \in ClientEntry
  BY EntryFacts
<1>2. client_db' = [client_db EXCEPT ![sid] = e]
  BY DEF Stats
<1>3. Recorded(e) >= Recorded(client_db[sid])
  BY <1>1 DEF Recorded, Larger, ClientEntry
<1> QED
  BY <1>2, <1>3, OneGrows

\* Maintenance deletes entries and leaves the others alone; the clock none.
LEMMA RestGrows ==
  ASSUME SecModInv, cleanup_client_entries \/ Tick \/ UNCHANGED secmod_vars
  PROVE  Grows
<1>1. ASSUME NEW sid \in Sids, Present(sid)'
      PROVE  client_db'[sid] = client_db[sid]
  BY <1>1 DEF cleanup_client_entries, Tick, secmod_vars, Present, NoClient
<1>2. \A sid \in Sids : Recorded(client_db[sid]) \in Nat
  BY EntryFacts DEF Recorded, ClientEntry
<1>3. ASSUME NEW sid \in Sids, Present(sid)'
      PROVE  Recorded(client_db'[sid]) >= Recorded(client_db[sid])
  BY <1>1, <1>2, <1>3
<1> QED
  BY <1>3 DEF Grows

\* No step lowers what an entry has recorded, whatever order the reports of
\* workers and the closes of main come in (handle_sec_auth_stats_cmd,
\* handle_sec_auth_session_close).
THEOREM TotalsAreKept == SecModSpec => TotalsKept
<1>1. SecModInv /\ [SecModNext]_secmod_vars => Grows
  <2> SUFFICES ASSUME SecModInv, [SecModNext]_secmod_vars PROVE Grows
    OBVIOUS
  <2>1. \A bytes \in 0 .. MaxBytes : bytes \in Nat
    BY SecModAssumption
  <2> QED
    BY <2>1, AuthGrows, OpenGrows, CloseGrows, StatsGrows, RestGrows DEF SecModNext
<1>2. Grows => \A sid \in Sids :
                 Present(sid) /\ Present(sid)'
                   => client_db'[sid].saved_stats + client_db'[sid].stats
                        >= client_db[sid].saved_stats + client_db[sid].stats
  BY DEF Grows, Recorded
<1> QED
  BY <1>1, <1>2, InitInv, NextInv, PTL DEF SecModSpec, TotalsKept

=============================================================================
