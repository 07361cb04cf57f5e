------------------------------- MODULE SecMod -------------------------------
(***************************************************************************)
(* The security module's client database (sec-mod-db.c) and the handlers   *)
(* that move an entry through it (sec-mod-auth.c): authentication requests *)
(* from workers, session open and close from the main process, statistics  *)
(* from workers, and the maintenance alarm.                                *)
(*                                                                         *)
(* sec-mod serves one request at a time, so a handler is one action.  What *)
(* an authentication module, the accounting server, the per-user           *)
(* configuration, the ban reply or a socket answers is a nondeterministic  *)
(* choice.  The three counters of stats_st are treated alike by the code   *)
(* and are one number here.                                                *)
(***************************************************************************)
EXTENDS Integers, FiniteSets

CONSTANTS
  Sids,           \* session identifiers
  CookieTimeout,  \* cookie-timeout
  AuthSlack,      \* AUTH_SLACK_TIME
  AcctEnabled,    \* the accounting module has open_session and close_session
  MaxTime,        \* bound: last instant of the clock
  MaxUsers,       \* bound: sessions main holds open under one SID
  MaxCookies,     \* bound: cookies generated
  MaxBytes,       \* bound: one statistics report
  MaxTotal        \* bound: statistics saved in an entry

ASSUME SecModAssumption ==
  /\ CookieTimeout \in Nat /\ AuthSlack \in Nat /\ AcctEnabled \in BOOLEAN
  /\ MaxTime \in Nat /\ MaxUsers \in Nat /\ MaxCookies \in Nat
  /\ MaxBytes \in Nat /\ MaxTotal \in Nat

VARIABLES
  now,        \* time(0)
  client_db,  \* client_db[sid], status "absent" when there is no entry
  cookies,    \* cookies generated so far; a cookie is its number
  acct,       \* acct[sid]: sessions the accounting server holds open
  holders     \* holders[sid]: procs of main with active_sid set for sid

secmod_vars == <<now, client_db, cookies, acct, holders>>

Status == {"absent", "inactive", "init", "cont", "completed", "failed"}

\* client_entry_st.  Cookie 0 is the null cookie, time -1 means "in use".
ClientEntry ==
  [status : Status, cookie : Nat, time : Nat \cup {-1}, in_use : Nat,
   session_is_open : BOOLEAN, stats : Nat, saved_stats : Nat]

NoClient ==
  [status |-> "absent", cookie |-> 0, time |-> 0, in_use |-> 0,
   session_is_open |-> FALSE, stats |-> 0, saved_stats |-> 0]

SecModTypeOK ==
  /\ now \in Nat
  /\ client_db \in [Sids -> ClientEntry]
  /\ cookies \in Nat
  /\ acct \in [Sids -> Nat]
  /\ holders \in [Sids -> Nat]

Present(sid)  == client_db[sid].status # "absent"

Larger(a, b) == IF a > b THEN a ELSE b

(***************************************************************************)
(* Authentication                                                          *)
(***************************************************************************)

\* new_client_entry: talloc_zero and the current time.
NewClient == [NoClient EXCEPT !.status = "inactive", !.time = now]

\* generate_cookie: a fresh ciphertext that no earlier cookie equals.
generate_cookie == cookies + 1

\* handle_sec_auth_res for the entry e of sid.  Every result may end in
\* failure: the module refuses, the reply is not sent, or main answers the
\* charge for a wrong password with a ban.  (The cookie of a failed entry is
\* never looked at.)
handle_sec_auth_res(sid, e, result) ==
  \/ /\ result = "continue"
     /\ client_db' = [client_db EXCEPT ![sid] = e]
     /\ UNCHANGED cookies
  \/ /\ result = "ok"
     /\ cookies < MaxCookies
     /\ client_db' = [client_db EXCEPT
          ![sid] = [e EXCEPT !.status = "completed", !.cookie = generate_cookie]]
     /\ cookies' = cookies + 1
  \/ /\ client_db' = [client_db EXCEPT ![sid] = [e EXCEPT !.status = "failed"]]
     /\ UNCHANGED cookies

\* handle_sec_auth_init, after new_client_entry found an unused SID.
AuthInit(sid) ==
  /\ ~Present(sid)
  /\ \/ \E result \in {"continue", "ok"} :
          handle_sec_auth_res(sid, [NewClient EXCEPT !.status = "init"], result)
     \/ handle_sec_auth_res(sid, NewClient, "fail")
  /\ UNCHANGED <<now, acct, holders>>

\* handle_sec_auth_cont: in any state but INIT and CONT the request counts as
\* a failed authentication of the entry.
AuthCont(sid) ==
  /\ Present(sid)
  /\ IF client_db[sid].status \in {"init", "cont"}
       THEN \E result \in {"continue", "ok", "fail"} :
              handle_sec_auth_res(sid, [client_db[sid] EXCEPT !.status = "cont"], result)
       ELSE handle_sec_auth_res(sid, client_db[sid], "fail")
  /\ UNCHANGED <<now, acct, holders>>

(***************************************************************************)
(* Sessions                                                                *)
(***************************************************************************)

\* The cookie may still be redeemed.
Alive(e) == e.time = -1 \/ now <= e.time + CookieTimeout

\* Slip: the expiry of an idle entry is not looked at.
Redeems_NoExpiry(e, cookie) == e.status = "completed" /\ e.cookie = cookie

\* The checks of handle_sec_auth_session_open.
Redeems(e, cookie) ==
  /\ e.status = "completed"
  /\ Alive(e)
  /\ e.cookie = cookie

\* The accounting session is opened once for an entry.
AcctOpened(sid) ==
  IF AcctEnabled /\ ~client_db[sid].session_is_open
    THEN acct' = [acct EXCEPT ![sid] = @ + 1]
    ELSE UNCHANGED acct

\* The clock of an entry stops while it is in use.
OpenedEntry(e) ==
  [e EXCEPT !.session_is_open = AcctEnabled \/ @, !.time = -1, !.in_use = @ + 1]

\* handle_sec_auth_session_open, answered with success.
SessionOpen(sid, cookie) ==
  /\ Redeems(client_db[sid], cookie)
  /\ holders[sid] < MaxUsers
  /\ AcctOpened(sid)
  /\ client_db' = [client_db EXCEPT ![sid] = OpenedEntry(@)]
  /\ holders' = [holders EXCEPT ![sid] = @ + 1]
  /\ UNCHANGED <<now, cookies>>

\* The entry is marked failed by an expired or foreign cookie and by the
\* accounting server's refusal.
OpenRevokes(sid, cookie) ==
  /\ client_db[sid].status = "completed"
  /\ \/ ~Redeems(client_db[sid], cookie)
     \/ AcctEnabled /\ ~client_db[sid].session_is_open
  /\ client_db' = [client_db EXCEPT ![sid].status = "failed"]
  /\ UNCHANGED acct

\* The per-user configuration cannot be read: the accounting session stays.
OpenUnconfigured(sid, cookie) ==
  /\ Redeems(client_db[sid], cookie)
  /\ AcctOpened(sid)
  /\ client_db' = [client_db EXCEPT ![sid].session_is_open = AcctEnabled \/ @]

\* handle_sec_auth_session_open, answered with failure.
SessionOpenDenied(sid, cookie) ==
  /\ \/ OpenRevokes(sid, cookie)
     \/ OpenUnconfigured(sid, cookie)
     \/ /\ client_db[sid].status # "completed"
        /\ UNCHANGED <<client_db, acct>>
  /\ UNCHANGED <<now, cookies, holders>>

\* Slip: the counter is not lowered by the last user.
expire_client_entry_KeepsLast(e) ==
  LET left == IF e.in_use > 1 THEN e.in_use - 1 ELSE e.in_use IN
  [e EXCEPT !.in_use = left, !.time = IF left = 0 THEN now ELSE @]

\* expire_client_entry
expire_client_entry(e) ==
  LET left == IF e.in_use > 0 THEN e.in_use - 1 ELSE 0 IN
  [e EXCEPT !.in_use = left, !.time = IF left = 0 THEN now ELSE @]

\* Slip: the counters main sends replace those the worker reported.
ClosedEntry_MainOnly(e, bytes) ==
  IF e.status # "completed"
    THEN e
    ELSE expire_client_entry([e EXCEPT !.saved_stats = @ + bytes, !.stats = 0])

\* handle_sec_auth_session_close: the session's statistics move to the saved
\* ones.  An entry that is missing or no longer completed only gets a reply.
ClosedEntry(e, bytes) ==
  IF e.status # "completed"
    THEN e
    ELSE expire_client_entry(
           [e EXCEPT !.saved_stats = @ + Larger(e.stats, bytes), !.stats = 0])

SessionClose(sid, bytes) ==
  /\ holders[sid] > 0
  /\ ClosedEntry(client_db[sid], bytes).saved_stats <= MaxTotal
  /\ client_db' = [client_db EXCEPT ![sid] = ClosedEntry(@, bytes)]
  /\ holders' = [holders EXCEPT ![sid] = @ - 1]
  /\ UNCHANGED <<now, cookies, acct>>

\* handle_sec_auth_stats_cmd: a worker's report; statistics only increase.
Stats(sid, bytes) ==
  /\ client_db[sid].status = "completed"
  /\ client_db' = [client_db EXCEPT ![sid].stats = Larger(@, bytes)]
  /\ UNCHANGED <<now, cookies, acct, holders>>

(***************************************************************************)
(* Maintenance                                                             *)
(***************************************************************************)

\* Slip: maintenance does not ask whether the entry is in use.
Expired_InUse(e) == e.status # "absent" /\ now - e.time > CookieTimeout + AuthSlack

\* The entries cleanup_client_entries deletes.
Expired(e) ==
  /\ e.status # "absent"
  /\ e.time # -1
  /\ now - e.time > CookieTimeout + AuthSlack
  /\ e.in_use = 0

\* Slip: clean_entry frees the entry without ending the accounting session.
AcctClosed_Forgotten(sid) == acct[sid]

\* Slip: close_session is called for an accounting session that never began.
AcctClosed_Always(sid) == acct[sid] - 1

\* sec_auth_user_deinit: closes the accounting session of a deleted entry.
AcctClosed(sid) ==
  IF client_db[sid].session_is_open THEN acct[sid] - 1 ELSE acct[sid]

\* cleanup_client_entries
cleanup_client_entries ==
  /\ \E sid \in Sids : Expired(client_db[sid])
  /\ client_db' = [sid \in Sids |->
       IF Expired(client_db[sid]) THEN NoClient ELSE client_db[sid]]
  /\ acct' = [sid \in Sids |->
       IF Expired(client_db[sid]) THEN AcctClosed(sid) ELSE acct[sid]]
  /\ UNCHANGED <<now, cookies, holders>>

Tick ==
  /\ now < MaxTime
  /\ now' = now + 1
  /\ UNCHANGED <<client_db, cookies, acct, holders>>

SecModInit ==
  /\ now = 0
  /\ client_db = [sid \in Sids |-> NoClient]
  /\ cookies = 0
  /\ acct = [sid \in Sids |-> 0]
  /\ holders = [sid \in Sids |-> 0]

SecModNext ==
  \/ Tick
  \/ cleanup_client_entries
  \/ \E sid \in Sids :
       \/ AuthInit(sid)
       \/ AuthCont(sid)
       \/ \E cookie \in 1 .. cookies :
            \/ SessionOpen(sid, cookie)
            \/ SessionOpenDenied(sid, cookie)
       \/ \E bytes \in 0 .. MaxBytes :
            \/ SessionClose(sid, bytes)
            \/ Stats(sid, bytes)

SecModSpec == SecModInit /\ [][SecModNext]_secmod_vars

(***************************************************************************)
(* Properties                                                              *)
(***************************************************************************)

\* The idle clock and the use counter of an entry agree: an entry without a
\* running clock is one that is in use, whatever order opens, closes, failed
\* opens and late authentication requests came in.
IdleClock ==
  \A sid \in Sids :
    Present(sid) => (client_db[sid].time = -1 <=> client_db[sid].in_use > 0)

\* No session that main holds open loses its entry under it: the entry is in
\* the database and counts at least the sessions main holds.
HeldNotReclaimed ==
  \A sid \in Sids :
    holders[sid] > 0 => Present(sid) /\ client_db[sid].in_use >= holders[sid]

\* As long as an entry is authenticated its counter is exactly the number of
\* sessions main holds, so that the last close starts its cookie timeout.
CompletedCountExact ==
  \A sid \in Sids :
    client_db[sid].status = "completed" => client_db[sid].in_use = holders[sid]

\* Every accounting session that was started is still owed by exactly one
\* entry: open_session is not repeated on a reconnect and close_session is
\* called when the entry goes.
AcctBalanced ==
  \A sid \in Sids :
    acct[sid] = IF client_db[sid].session_is_open THEN 1 ELSE 0

\* "stats only increase" (handle_sec_auth_stats_cmd): whatever order reports
\* and closes come in, no step of an entry's life lowers what it has recorded,
\* current and saved together.
TotalsKept ==
  [][\A sid \in Sids :
       Present(sid) /\ Present(sid)'
         => client_db'[sid].saved_stats + client_db'[sid].stats
              >= client_db[sid].saved_stats + client_db[sid].stats]_secmod_vars

\* sec-mod's handlers implement the promise of CookieTicket, where the users of
\* a ticket are the sessions main really holds and not the in_use counter.
TicketOf(e) == IF e.status = "completed" THEN e.cookie ELSE 0
IdleOf(e)   == IF e.status = "completed" /\ e.time # -1 THEN e.time ELSE 0

Ticket ==
  INSTANCE CookieTicket WITH
    ticket <- [sid \in Sids |-> TicketOf(client_db[sid])],
    idle   <- [sid \in Sids |-> IdleOf(client_db[sid])],
    users  <- holders,
    issued <- cookies

TicketSpec == Ticket!Spec

\* What the proofs need to know of one entry e, of the sessions h that main
\* holds under it and of the accounting sessions a of its SID.
EntryInv(e, h, a) ==
  /\ e.status # "absent" => (e.time = -1 <=> e.in_use > 0)
  /\ h > 0 => e.status # "absent" /\ e.in_use >= h
  /\ e.status = "completed" => e.in_use = h /\ e.cookie > 0
  /\ a = IF e.session_is_open THEN 1 ELSE 0
  /\ e.status = "absent" => ~e.session_is_open
  /\ e.status \in {"inactive", "init", "cont"} => e.in_use = 0
  /\ e.time <= now

SecModInv ==
  /\ SecModTypeOK
  /\ \A sid \in Sids : EntryInv(client_db[sid], holders[sid], acct[sid])

==============================================================================
