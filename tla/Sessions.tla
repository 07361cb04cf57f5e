------------------------------ MODULE Sessions ------------------------------
(***************************************************************************)
(* The life of a VPN session across the three kinds of process: main       *)
(* (main.c, main-misc.c, main-auth.c, main-user.c, proc-search.c), which   *)
(* keeps one proc_st per worker; the workers; and sec-mod, whose database  *)
(* is module SecMod.                                                       *)
(*                                                                         *)
(* main and a worker talk over the worker's command socket, main and       *)
(* sec-mod over a blocking request/reply socket: session_open and          *)
(* session_close are one step with sec-mod's handler.  (What happens when  *)
(* that socket carries a ban request at the same time is the subject of    *)
(* module CmdChannel.)  Workers report statistics to sec-mod over a socket *)
(* of their own, which sec-mod reads at its own pace.                      *)
(***************************************************************************)
EXTENDS SecMod, Sequences

CONSTANTS
  Procs,           \* slots for proc_st
  NoProc,          \* no proc
  Users,           \* user names
  Pool,            \* addresses that may be leased
  NoIP,            \* no lease
  MaxClients,      \* max-clients, 0 for unlimited
  MaxSameClients,  \* max-same-clients, 0 for unlimited
  DenyRoaming,     \* deny-roaming
  ConnectScript,   \* a connect-script is configured
  MaxReports       \* bound: statistics reports waiting at sec-mod's socket

ASSUME SessionsAssumption ==
  /\ MaxClients \in Nat /\ MaxSameClients \in Nat /\ MaxReports \in Nat
  /\ DenyRoaming \in BOOLEAN /\ ConnectScript \in BOOLEAN
  /\ NoProc \notin Procs /\ NoIP \notin Pool
  /\ IsFiniteSet(Procs)

VARIABLES
  proc,            \* proc[p], status "free" when p is not in proc_list
  active_clients,  \* s->active_clients
  ip_leases,       \* addresses in the lease hash table
  minted,          \* minted[c]: what cookie c says when it is decrypted
  reports,         \* statistics messages in the backlog of sec-mod's socket
  removing         \* proc whose command failed: main removes it next

main_vars == <<proc, active_clients, ip_leases, minted, reports, removing>>

vars == <<now, client_db, cookies, acct, holders,
          proc, active_clients, ip_leases, minted, reports, removing>>

(***************************************************************************)
(* proc_st, together with what is left of its worker:                      *)
(*   cookie      the cookie it presented, 0 before AUTH_COOKIE_REQ         *)
(*   active_sid  session_open succeeded, session_close is owed             *)
(*   in_table    linked in the SID hash table                              *)
(*   lease       its address                                               *)
(*   script      its connect script is running                             *)
(*   connected   user_connected was called                                 *)
(*   killed      main sent SIGTERM to the worker                           *)
(*   worker      the worker runs, or left in order, or died                *)
(*   bytes       traffic of the tunnel                                     *)
(*   sid_set     the worker knows its SID                                  *)
(***************************************************************************)
Proc ==
  [status : {"free", "inactive", "failed", "completed"}, cookie : Nat,
   active_sid : BOOLEAN, in_table : BOOLEAN, lease : Pool \cup {NoIP},
   script : BOOLEAN, connected : BOOLEAN, killed : BOOLEAN,
   worker : {"running", "left", "died"}, bytes : Nat, sid_set : BOOLEAN]

FreeProc ==
  [status |-> "free", cookie |-> 0, active_sid |-> FALSE, in_table |-> FALSE,
   lease |-> NoIP, script |-> FALSE, connected |-> FALSE, killed |-> FALSE,
   worker |-> "running", bytes |-> 0, sid_set |-> FALSE]

TypeOK ==
  /\ SecModTypeOK
  /\ proc \in [Procs -> Proc]
  /\ active_clients \in Nat
  /\ ip_leases \subseteq Pool
  /\ minted \in Seq([sid : Sids, user : Users])
  /\ reports \in Seq([sid : Sids, bytes : Nat])
  /\ removing \in Procs \cup {NoProc}

Listed == {p \in Procs : proc[p].status # "free"}

Sid(p)  == minted[proc[p].cookie].sid
User(p) == minted[proc[p].cookie].user

HasCookie(p) == p \in Listed /\ proc[p].cookie # 0

\* main is between two turns of its loop.
Idle == removing = NoProc

(***************************************************************************)
(* Accepting a connection                                                  *)
(***************************************************************************)

\* main's accept loop: max_clients, fork, new_proc.
Accept(p) ==
  /\ Idle
  /\ proc[p].status = "free"
  /\ MaxClients > 0 => active_clients < MaxClients
  /\ proc' = [proc EXCEPT ![p] = [FreeProc EXCEPT !.status = "inactive"]]
  /\ active_clients' = active_clients + 1
  /\ UNCHANGED <<secmod_vars, ip_leases, minted, reports, removing>>

(***************************************************************************)
(* AUTH_COOKIE_REQ                                                         *)
(***************************************************************************)

\* The reply goes to the worker.  If the worker is gone it is lost: the
\* command fails and main removes the proc before anything else.
Answered(p, r) ==
  IF r.worker = "running" THEN r ELSE [r EXCEPT !.status = "failed"]

NextRemoval(p) == IF proc[p].worker = "running" THEN NoProc ELSE p

\* The cookie cannot be decrypted, or sec-mod refuses to open the session.
Rejected(p, cookie) ==
  /\ proc' = [proc EXCEPT ![p].status = "failed", ![p].cookie = cookie]
  /\ removing' = NextRemoval(p)
  /\ UNCHANGED <<active_clients, ip_leases, minted, reports>>

CookieGarbage(p) ==
  /\ Idle
  /\ proc[p].status = "inactive"
  /\ Rejected(p, 0)
  /\ UNCHANGED secmod_vars

CookieDenied(p, cookie) ==
  /\ Idle
  /\ proc[p].status = "inactive"
  /\ SessionOpenDenied(minted[cookie].sid, cookie)
  /\ Rejected(p, cookie)

\* The session is open but the cookie was issued to another address.
CookieRoams(p, cookie) ==
  /\ Idle
  /\ DenyRoaming
  /\ proc[p].status = "inactive"
  /\ SessionOpen(minted[cookie].sid, cookie)
  /\ proc' = [proc EXCEPT ![p].status = "failed", ![p].cookie = cookie,
                          ![p].active_sid = TRUE]
  /\ removing' = NextRemoval(p)
  /\ UNCHANGED <<active_clients, ip_leases, minted, reports>>

\* proc_search_sid: the hash table returns one proc with that SID, the one its
\* probe order meets first.  The result is the empty set when there is none.
proc_search_sid(sid) ==
  LET found == {q \in Listed : proc[q].in_table /\ Sid(q) = sid}
  IN  IF found = {} THEN {{}} ELSE {{q} : q \in found}

\* Slip: the old worker is not told to leave.
Robbed_NotKilled(q) == [proc[q] EXCEPT !.lease = NoIP]

\* steal_ip_leases and SIGTERM for the old proc of a resumed session.
Robbed(q) == [proc[q] EXCEPT !.lease = NoIP, !.killed = TRUE]

\* The lease the thief ends up with.
Stolen(old) == IF old = {} THEN NoIP ELSE proc[CHOOSE q \in old : TRUE].lease

\* Slip: one client too many.
check_multiple_users_OffByOne(p, user) ==
  \/ MaxSameClients = 0
  \/ Cardinality({q \in Procs \ {p} : HasCookie(q) /\ User(q) = user}) <= MaxSameClients

\* check_multiple_users: p itself and the listed procs of the same user.
check_multiple_users(p, user) ==
  \/ MaxSameClients = 0
  \/ 1 + Cardinality({q \in Procs \ {p} : HasCookie(q) /\ User(q) = user})
       <= MaxSameClients

\* get_ip_leases: a stolen lease is kept; else an address that is not in the
\* table, or none if the tries did not hit one.
get_ip_leases(held) ==
  IF held # NoIP THEN {held} ELSE (Pool \ ip_leases) \cup {NoIP}

\* accept_user for the registered proc r: its possible results.
Accepted(p, r, ip) ==
  IF ip = NoIP
    THEN {[r EXCEPT !.status = "failed"]}
    ELSE {[r EXCEPT !.status = "failed", !.lease = ip],            \* no tun device
          IF ConnectScript
            THEN [r EXCEPT !.status = "failed", !.lease = ip,      \* wait for script
                           !.connected = TRUE, !.script = TRUE]
            ELSE [r EXCEPT !.status = "completed", !.lease = ip, !.connected = TRUE]}

\* The cookie opens the session: an old proc with the same SID is robbed and
\* told to leave, p is linked in the table and the user is accepted or not.
CookieAccepted(p, cookie) ==
  LET sid  == minted[cookie].sid
      user == minted[cookie].user
  IN
  /\ Idle
  /\ proc[p].status = "inactive"
  /\ SessionOpen(sid, cookie)
  /\ \E old \in proc_search_sid(sid), known \in BOOLEAN :
       LET r == [proc[p] EXCEPT !.cookie = cookie, !.active_sid = TRUE,
                                !.in_table = TRUE, !.lease = Stolen(old),
                                !.sid_set = known]
           Install(q) ==
             /\ proc' = [x \in Procs |-> IF x = p THEN Answered(p, q)
                                         ELSE IF x \in old THEN Robbed(x) ELSE proc[x]]
             /\ ip_leases' = ip_leases \cup ({q.lease} \ {NoIP})
             /\ removing' = IF q.script THEN NoProc ELSE NextRemoval(p)
       IN IF check_multiple_users(p, user)
            THEN \E ip \in get_ip_leases(r.lease) :
                   \E q \in Accepted(p, r, ip) : Install(q)
            ELSE Install([r EXCEPT !.status = "failed"])
  /\ UNCHANGED <<active_clients, minted, reports>>

(***************************************************************************)
(* The connect script                                                      *)
(***************************************************************************)

\* cleanup_children: the script of p ended, handle_script_exit answers.
ScriptExit(p, ok) ==
  /\ Idle
  /\ proc[p].script
  /\ proc' = [proc EXCEPT ![p].script = FALSE,
                          ![p].status = IF ok THEN "completed" ELSE @]
  /\ removing' = NextRemoval(p)
  /\ UNCHANGED <<secmod_vars, active_clients, ip_leases, minted, reports>>

(***************************************************************************)
(* remove_proc                                                             *)
(***************************************************************************)

\* Slip: the session is closed only for authenticated procs.
CloseSession_Completed(p) ==
  IF proc[p].active_sid /\ proc[p].status = "completed"
    THEN SessionClose(Sid(p), 0)
    ELSE UNCHANGED secmod_vars

\* session_close, owed once session_open succeeded.  main has no byte counters
\* of its own to send.
CloseSession(p) ==
  IF proc[p].active_sid
    THEN SessionClose(Sid(p), 0)
    ELSE UNCHANGED secmod_vars

\* The report a worker that is told to leave will still send: it goes to the
\* SID the worker knows, if it knows one.
FinalReport(p) ==
  IF proc[p].status = "completed" /\ proc[p].sid_set
    THEN Append(reports, [sid |-> Sid(p), bytes |-> proc[p].bytes])
    ELSE reports

\* Slip: the lease stays in the table.
Released_Kept(p) == ip_leases

\* remove_ip_leases: the destructor takes the address out of the table.
Released(p) == ip_leases \ {proc[p].lease}

\* remove_proc: unlink, close the session, drop the script waiter, report the
\* disconnection of an authenticated user, release leases and table links.  A
\* worker that still runs gets SIGTERM and reports its statistics later.
remove_proc(p) ==
  /\ CloseSession(p)
  /\ reports' = IF proc[p].worker = "running" THEN FinalReport(p) ELSE reports
  /\ Len(reports') <= MaxReports
  /\ proc' = [proc EXCEPT ![p] = FreeProc]
  /\ active_clients' = active_clients - 1
  /\ ip_leases' = Released(p)
  /\ removing' = NoProc
  /\ UNCHANGED minted

\* The command that just failed: main's loop removes the proc at once.
RemoveFailed(p) == removing = p /\ remove_proc(p)

\* End of file on the command socket.
WorkerGone(p) ==
  /\ Idle
  /\ p \in Listed
  /\ proc[p].worker # "running"
  /\ remove_proc(p)

\* handle_commands returns an error for a command the state of proc forbids.
BadCommand(p) ==
  /\ Idle
  /\ p \in Listed
  /\ proc[p].worker = "running"
  /\ remove_proc(p)

\* occtl disconnect: terminate_proc.
Disconnect(p) ==
  /\ Idle
  /\ p \in Listed
  /\ ~proc[p].killed
  /\ proc' = [proc EXCEPT ![p].killed = TRUE]
  /\ UNCHANGED <<secmod_vars, active_clients, ip_leases, minted, reports, removing>>

(***************************************************************************)
(* Workers                                                                 *)
(***************************************************************************)

\* exit_worker, by itself or on SIGTERM: an authenticated worker sends its
\* statistics to sec-mod and exits.
WorkerLeaves(p) ==
  /\ p \in Listed
  /\ proc[p].worker = "running"
  /\ Len(FinalReport(p)) <= MaxReports
  /\ reports' = FinalReport(p)
  /\ proc' = [proc EXCEPT ![p].worker = "left"]
  /\ UNCHANGED <<secmod_vars, active_clients, ip_leases, minted, removing>>

\* The worker is killed or crashes.
WorkerDies(p) ==
  /\ p \in Listed
  /\ proc[p].worker = "running"
  /\ proc' = [proc EXCEPT ![p].worker = "died"]
  /\ UNCHANGED <<secmod_vars, active_clients, ip_leases, minted, reports, removing>>

Traffic(p) ==
  /\ proc[p].status = "completed"
  /\ proc[p].worker = "running"
  /\ proc[p].bytes < MaxBytes
  /\ proc' = [proc EXCEPT ![p].bytes = @ + 1]
  /\ UNCHANGED <<secmod_vars, active_clients, ip_leases, minted, reports, removing>>

\* periodic_check: stats-report-time has passed.
PeriodicStats(p) ==
  /\ proc[p].status = "completed"
  /\ proc[p].worker = "running"
  /\ proc[p].sid_set
  /\ Len(FinalReport(p)) <= MaxReports
  /\ reports' = FinalReport(p)
  /\ UNCHANGED <<secmod_vars, proc, active_clients, ip_leases, minted, removing>>

(***************************************************************************)
(* sec-mod                                                                 *)
(***************************************************************************)

\* A client authenticates; the cookie it is given carries its SID and name.
Authenticate ==
  /\ \E sid \in Sids :
       /\ AuthInit(sid) \/ AuthCont(sid)
       /\ IF cookies' = cookies
            THEN UNCHANGED minted
            ELSE \E user \in Users : minted' = Append(minted, [sid |-> sid, user |-> user])
  /\ UNCHANGED <<proc, active_clients, ip_leases, reports, removing>>

\* sec-mod accepts the next statistics connection of its backlog.
ServeStats ==
  /\ reports # <<>>
  /\ LET m == Head(reports) IN
       \/ Stats(m.sid, m.bytes)
       \/ client_db[m.sid].status # "completed" /\ UNCHANGED secmod_vars
  /\ reports' = Tail(reports)
  /\ UNCHANGED <<proc, active_clients, ip_leases, minted, removing>>

Maintenance == (cleanup_client_entries \/ Tick) /\ UNCHANGED main_vars

Init ==
  /\ SecModInit
  /\ proc = [p \in Procs |-> FreeProc]
  /\ active_clients = 0
  /\ ip_leases = {}
  /\ minted = <<>>
  /\ reports = <<>>
  /\ removing = NoProc

Next ==
  \/ Authenticate
  \/ ServeStats
  \/ Maintenance
  \/ \E p \in Procs :
       \/ Accept(p)
       \/ CookieGarbage(p)
       \/ \E cookie \in 1 .. cookies :
            \/ CookieDenied(p, cookie)
            \/ CookieRoams(p, cookie)
            \/ CookieAccepted(p, cookie)
       \/ \E ok \in BOOLEAN : ScriptExit(p, ok)
       \/ RemoveFailed(p)
       \/ WorkerGone(p)
       \/ BadCommand(p)
       \/ Disconnect(p)
       \/ WorkerLeaves(p)
       \/ WorkerDies(p)
       \/ Traffic(p)
       \/ PeriodicStats(p)

Spec == Init /\ [][Next]_vars

\* A worker that was sent SIGTERM leaves and sec-mod serves its backlog.  Every
\* turn of main's loop looks at all command sockets, so a closed one is not
\* passed over for ever while main is busy with others: that is strong fairness.
\* (The worker needs it only because MaxReports may hold it up, which the real
\* backlog does not.)  Nothing is assumed of connect scripts.
Fairness ==
  /\ WF_vars(ServeStats)
  /\ \A p \in Procs :
       /\ SF_vars(proc[p].killed /\ WorkerLeaves(p))
       /\ WF_vars(RemoveFailed(p))
       /\ SF_vars(WorkerGone(p))

FairSpec == Spec /\ Fairness

(***************************************************************************)
(* Properties                                                              *)
(***************************************************************************)

\* The procs main would call session_close for.
Holding(sid) == {p \in Listed : proc[p].active_sid /\ Sid(p) = sid}

\* sec-mod's view of main's sessions is main's own: every open is matched by a
\* proc that will close it, however it came to its end.
HoldersAreProcs ==
  \A sid \in Sids : holders[sid] = Cardinality(Holding(sid))

\* The sessions main has under each SID.
opened == [sid \in Sids |-> Cardinality(Holding(sid))]

\* The promise of CookieTicket is kept for the sessions of main, which sec-mod does
\* not see: a cookie opens sessions while a proc of main has one and for
\* cookie-timeout after the last of them was removed, also when it failed between
\* session_open and its answer, was robbed or died.
Served ==
  INSTANCE CookieTicket WITH
    ticket <- [sid \in Sids |-> TicketOf(client_db[sid])],
    idle   <- [sid \in Sids |-> IdleOf(client_db[sid])],
    users  <- opened,
    issued <- cookies

CookiesServed == Served!Spec

\* A leased address belongs to exactly one proc and is in the lease table, and
\* the table holds no address that no proc has: none is lent twice, none leaks,
\* however leases are stolen, refused and released.
LeasesExclusive ==
  /\ \A p, q \in Procs : proc[p].lease # NoIP /\ proc[p].lease = proc[q].lease => p = q
  /\ ip_leases = {proc[p].lease : p \in Procs} \ {NoIP}

\* A connected client whose worker was not told to leave has an address.
ConnectedHasLease ==
  \A p \in Listed : proc[p].status = "completed" /\ ~proc[p].killed => proc[p].lease # NoIP

\* max-same-clients: never more connected sessions of one user, counting those
\* whose connect script still runs.
SameClientsBounded ==
  MaxSameClients > 0 =>
    \A user \in Users :
      Cardinality({p \in Listed : proc[p].connected /\ User(p) = user}) <= MaxSameClients

\* A proc whose worker was sent SIGTERM by occtl, and one whose address went to
\* the proc that resumed its session, is eventually removed and its session
\* with it.
KilledIsRemoved ==
  \A p \in Procs :
    proc[p].killed \/ (proc[p].status = "completed" /\ proc[p].lease = NoIP)
      ~> proc[p].status = "free"

(***************************************************************************)
(* The inductive invariant                                                 *)
(***************************************************************************)

\* What a proc may look like: a free slot is blank, a proc that has not sent its
\* cookie has nothing to give back, a session, a table link and a connected user
\* come with a cookie, and who is or may yet become authenticated is connected and
\* has an address unless its worker was told to leave.
ProcInv(r) ==
  /\ r.status = "free" => r = FreeProc
  /\ r.status = "inactive" =>
       /\ r.cookie = 0 /\ r.lease = NoIP
       /\ ~r.active_sid /\ ~r.in_table /\ ~r.connected /\ ~r.script
  /\ r.cookie <= Len(minted)
  /\ r.active_sid \/ r.in_table \/ r.connected => r.cookie # 0
  /\ r.status = "completed" \/ r.script => r.connected /\ (r.killed \/ r.lease # NoIP)
  /\ r.bytes <= MaxBytes

\* The parts that say what each proc and each message is ...
ShapeInv ==
  /\ TypeOK /\ SecModInv
  /\ Len(minted) = cookies
  /\ \A p \in Procs : ProcInv(proc[p])
  /\ \A i \in 1 .. Len(reports) : reports[i].bytes <= MaxBytes
  /\ removing # NoProc => removing \in Listed

\* ... and those that count procs and addresses.
CountInv ==
  /\ active_clients = Cardinality(Listed)
  /\ HoldersAreProcs /\ LeasesExclusive /\ SameClientsBounded

SessionsInv == ShapeInv /\ CountInv

==============================================================================
