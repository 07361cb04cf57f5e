------------------------------- MODULE BanList -------------------------------
(***************************************************************************)
(* The ban list of the main process (main-ban.c) and the processes that    *)
(* feed it: the accept loop, sec-mod's wrong-password reports, the points  *)
(* a worker collects for KKDCP posts, occtl's unban and the maintenance    *)
(* alarm.                                                                  *)
(*                                                                         *)
(* Time is the absolute clock the code reads with time(0); it only moves   *)
(* in Tick, because every handler below runs within one turn of main's     *)
(* event loop.                                                             *)
(***************************************************************************)
EXTENDS Integers

CONSTANTS
  IPs,             \* remote addresses
  MaxBanScore,     \* max-ban-score, 0 disables banning
  MinReauthTime,   \* min-reauth-time
  BanResetTime,    \* ban-reset-time
  PointsConnect,   \* ban-points-connection
  PointsPassword,  \* ban-points-wrong-password
  PointsKkdcp,     \* ban-points-kkdcp
  MaxTime,         \* bound: last instant of the clock
  MaxScore,        \* bound: no entry is charged beyond this score
  MaxPosts         \* bound: KKDCP points one worker may hold

ASSUME BanAssumption ==
  /\ MaxBanScore \in Nat /\ MinReauthTime \in Nat /\ BanResetTime \in Nat
  /\ PointsConnect \in Nat /\ PointsPassword \in Nat /\ PointsKkdcp \in Nat
  /\ MaxTime \in Nat /\ MaxScore \in Nat /\ MaxPosts \in Nat

VARIABLES
  now,        \* time(0)
  ban_db,     \* the hash table, ban_db[ip].in_db says whether ip has an entry
  ws_points,  \* ws->ban_points of the worker serving ip
  main_up,    \* FALSE once the main process has crashed
  verdict     \* outcome of the last check_if_banned: "none", "admit", "refuse"

vars == <<now, ban_db, ws_points, main_up, verdict>>

Entry == [in_db : BOOLEAN, score : Nat, last_reset : Nat, expires : Nat]

NoEntry == [in_db |-> FALSE, score |-> 0, last_reset |-> 0, expires |-> 0]

TypeOK ==
  /\ now \in Nat
  /\ ban_db \in [IPs -> Entry]
  /\ ws_points \in [IPs -> Nat]
  /\ main_up \in BOOLEAN
  /\ verdict \in {"none", "admit", "refuse"}

(***************************************************************************)
(* add_ip_to_ban_list                                                      *)
(***************************************************************************)

\* The scoring window of an entry is over: the next points start from zero.
WindowOver(ip) == now > ban_db[ip].last_reset + BanResetTime

\* The entry as add_ip_to_ban_list sees it before it adds the points: a fresh
\* one, or the old one, emptied when its window is over.
Current(ip) ==
  IF ~ban_db[ip].in_db
    THEN [NoEntry EXCEPT !.in_db = TRUE, !.last_reset = now]
    ELSE IF WindowOver(ip)
      THEN [ban_db[ip] EXCEPT !.score = 0, !.last_reset = now]
      ELSE ban_db[ip]

\* Slip: the expiration moves on every attempt.
Charged_AlwaysExtends(ip, points) ==
  [Current(ip) EXCEPT !.expires = now + MinReauthTime, !.score = @ + points]

\* Slip: a new ban is appended to what is left of the old expiration.
Charged_Cumulative(ip, points) ==
  LET e == Current(ip) IN
  [e EXCEPT !.expires = IF e.score < MaxBanScore THEN @ + now + MinReauthTime ELSE @,
            !.score   = @ + points]

\* Slip: the score restarts at every attempt instead of adding up.
Charged_Overwrites(ip, points) ==
  LET e == Current(ip) IN
  [e EXCEPT !.expires = IF e.score < MaxBanScore THEN now + MinReauthTime ELSE @,
            !.score   = IF e.score < MaxBanScore THEN @ + points ELSE points]

\* The entry after `points` are charged.  The expiration only moves while the
\* address is not banned yet.
Charged(ip, points) ==
  LET e == Current(ip) IN
  [e EXCEPT !.expires = IF e.score < MaxBanScore THEN now + MinReauthTime ELSE @,
            !.score   = @ + points]

add_ip_to_ban_list(ip, points) ==
  IF MaxBanScore = 0
    THEN UNCHANGED ban_db
    ELSE /\ Charged(ip, points).score <= MaxScore
         /\ ban_db' = [ban_db EXCEPT ![ip] = Charged(ip, points)]

(***************************************************************************)
(* Actions of the main loop                                                *)
(***************************************************************************)

\* An entry whose score and expiration refuse a connection right now.
Refuses(e) ==
  /\ MaxBanScore > 0
  /\ e.in_db
  /\ e.score >= MaxBanScore
  /\ now <= e.expires

InForce(ip) == Refuses(ban_db[ip])

\* accept() followed by check_if_banned: the connection itself is charged,
\* then the entry decides.
Connect(ip) ==
  /\ main_up
  /\ add_ip_to_ban_list(ip, PointsConnect)
  /\ verdict' = IF Refuses(ban_db'[ip]) THEN "refuse" ELSE "admit"
  /\ UNCHANGED <<now, ws_points, main_up>>

\* handle_sec_mod_commands, SM_CMD_AUTH_BAN_IP: sec-mod reports a wrong
\* password.
WrongPassword(ip) ==
  /\ main_up
  /\ add_ip_to_ban_list(ip, PointsPassword)
  /\ UNCHANGED <<now, ws_points, main_up, verdict>>

\* handle_commands, CMD_BAN_IP: the points are charged, then the reply is sent
\* to the worker of a null proc and the main process dies.
WorkerReport(ip, points) ==
  /\ add_ip_to_ban_list(ip, points)
  /\ main_up' = FALSE

\* post_kkdcp_handler -> ws_add_score_to_ip(points, 0): small charges stay in
\* the worker, only a charge as large as a wrong password is sent at once.
KkdcpPost(ip) ==
  /\ main_up
  /\ MaxBanScore > 0
  /\ ws_points[ip] + PointsKkdcp <= MaxPosts
  /\ ws_points' = [ws_points EXCEPT ![ip] = @ + PointsKkdcp]
  /\ IF PointsKkdcp < PointsPassword
       THEN UNCHANGED <<ban_db, main_up>>
       ELSE WorkerReport(ip, PointsKkdcp)
  /\ UNCHANGED <<now, verdict>>

\* exit_worker -> ws_add_score_to_ip(0, 1): what is sent is the argument, 0,
\* and not the points collected.
WorkerExit(ip) ==
  /\ main_up
  /\ ws_points' = [ws_points EXCEPT ![ip] = 0]
  /\ IF ws_points[ip] > 0
       THEN WorkerReport(ip, 0)
       ELSE UNCHANGED <<ban_db, main_up>>
  /\ UNCHANGED <<now, verdict>>

\* remove_ip_from_ban_list, called by occtl's unban.
Unban(ip) ==
  /\ main_up
  /\ ban_db[ip].in_db
  /\ ban_db' = [ban_db EXCEPT ![ip].score = 0, ![ip].expires = 0]
  /\ UNCHANGED <<now, ws_points, main_up, verdict>>

\* An entry cleanup_banned_entries deletes.
Stale(ip) ==
  /\ ban_db[ip].in_db
  /\ now >= ban_db[ip].expires
  /\ WindowOver(ip)

\* cleanup_banned_entries, from the maintenance alarm.
Cleanup ==
  /\ main_up
  /\ \E ip \in IPs : Stale(ip)
  /\ ban_db' = [ip \in IPs |-> IF Stale(ip) THEN NoEntry ELSE ban_db[ip]]
  /\ UNCHANGED <<now, ws_points, main_up, verdict>>

Tick ==
  /\ now < MaxTime
  /\ now' = now + 1
  /\ UNCHANGED <<ban_db, ws_points, main_up, verdict>>

Init ==
  /\ now = 0
  /\ ban_db = [ip \in IPs |-> NoEntry]
  /\ ws_points = [ip \in IPs |-> 0]
  /\ main_up = TRUE
  /\ verdict = "none"

Next ==
  \/ Tick
  \/ Cleanup
  \/ \E ip \in IPs :
       \/ Connect(ip)
       \/ WrongPassword(ip)
       \/ KkdcpPost(ip)
       \/ WorkerExit(ip)
       \/ Unban(ip)

Spec == Init /\ [][Next]_vars

\* time(0) keeps moving, whatever the clients do.
FairSpec == Spec /\ WF_vars(Tick)

(***************************************************************************)
(* Properties                                                              *)
(***************************************************************************)

\* No entry of add_ip_to_ban_list locks an address out for longer than
\* min-reauth-time from now on, and no scoring window starts in the future,
\* after any mixture of charges, resets, unbans and maintenance.
LockoutBounded ==
  \A ip \in IPs :
    /\ ban_db[ip].expires <= now + MinReauthTime
    /\ ban_db[ip].last_reset <= now

\* While the scoring window of a banned address lasts, nothing but occtl's
\* unban and the passing of its expiration ends the ban: neither further
\* charges nor cleanup_banned_entries.
BanStands ==
  [][\A ip \in IPs :
       InForce(ip) /\ ~WindowOver(ip)
         => InForce(ip)' \/ now' > ban_db[ip].expires \/ Unban(ip)]_vars

\* main-ban.c says of the expiration "if the user is already banned, don't
\* increase the expiration time on further attempts": no step moves it.
BanNotExtended ==
  [][\A ip \in IPs :
       InForce(ip) /\ ~WindowOver(ip)
         => ban_db'[ip].expires <= ban_db[ip].expires]_vars

\* A banned address that connects within its scoring window is turned away,
\* up to and including the last second of the ban.
BannedRefused ==
  [][\A ip \in IPs :
       InForce(ip) /\ ~WindowOver(ip) /\ Connect(ip) => verdict' = "refuse"]_vars

\* "... or the user will never be unbanned if he periodically polls the
\* server": every ban that fits in the modelled time ends, although the
\* address keeps connecting and failing.
BanEnds ==
  \A ip \in IPs :
    (InForce(ip) /\ now + MinReauthTime < MaxTime) ~> ~InForce(ip)

==============================================================================
