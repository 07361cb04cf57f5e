--------------------------- MODULE WorkerChannel ---------------------------
(***************************************************************************)
(* The command socket between main and each worker, and what main does for *)
(* a worker over it: the TLS session cache (main-resume.c,                 *)
(* worker-resume.c), the answer to the cookie (main-misc.c, worker-auth.c) *)
(* and the UDP sockets main passes on (forward_udp_to_owner in main.c,     *)
(* proc-search.c, handle_worker_commands in worker-misc.c).                *)
(*                                                                         *)
(* The socket is a stream in each direction.  main pushes a UDP socket     *)
(* onto it whenever a packet of the client comes in, also when the worker  *)
(* waits for an answer; a worker that reads the header of a message it did *)
(* not wait for leaves the body in the stream.                             *)
(*                                                                         *)
(* Times are ages that stop growing once they are past the only limit they *)
(* are compared with.                                                      *)
(***************************************************************************)
EXTENDS Integers, Sequences, SequencesExt

CONSTANTS
  Procs,                   \* proc_st slots and their workers
  Addrs,                   \* addresses of clients
  Ids,                     \* TLS session IDs
  None,                    \* no session data
  UDP_FD_RESEND_TIME,      \* seconds between two UDP sockets for a worker
  ACTIVE_SESSION_TIMEOUT,  \* silence after which a UDP session may be replaced
  SessionExpiration,       \* TLS_SESSION_EXPIRATION_TIME
  MaxCache,                \* MAX(2 * max-clients, 64) TLS sessions
  ConnectScript,           \* a connect-script is configured
  MaxQueue                 \* bound: messages waiting in one direction

ASSUME WorkerChannelAssumption ==
  /\ UDP_FD_RESEND_TIME \in Nat /\ ACTIVE_SESSION_TIMEOUT \in Nat \ {0}
  /\ SessionExpiration \in Nat /\ MaxCache \in Nat \ {0} /\ MaxQueue \in Nat \ {0}
  /\ ConnectScript \in BOOLEAN

VARIABLES
  proc,     \* what main knows of each worker
  worker,   \* what the worker knows
  up, down, \* the streams to main and to the worker
  cache,    \* the TLS session cache, in the order of its hash chain
  entries,  \* tls_db.entries
  client,   \* client[p]: "data" or "hello", what it sends over UDP
  shared    \* another host uses the address of a client; fixed

vars == <<proc, worker, up, down, cache, entries, client, shared>>

(***************************************************************************)
(* proc_st: status, remote_addr, whether it is in the hash tables of       *)
(* proc-search.c, resume_reqs > 0, the age of udp_fd_receive_time, and     *)
(* whether its connect script runs.                                        *)
(***************************************************************************)
Proc ==
  [status : {"free", "inactive", "failed", "completed"}, addr : Addrs, in_table : BOOLEAN,
   fetched : BOOLEAN, fd_age : 0 .. UDP_FD_RESEND_TIME + 1, script : BOOLEAN]

(***************************************************************************)
(* worker_st: where it is, udp_state (UP_ACTIVE and UP_INACTIVE are        *)
(* "active", UP_SETUP and UP_HANDSHAKE are "setup"), whether its UDP       *)
(* socket is connected to where its own client now sends from, the age of  *)
(* last_msg_udp, and the TLS session its last handshake resumed.           *)
(***************************************************************************)
Entry == [id : Ids, addr : Addrs, age : 0 .. SessionExpiration + 1]

Worker ==
  [pc : {"none", "handshake", "wait_resume", "http", "wait_cookie", "tunnel",
         "rehandshake", "left"},
   udp : {"wait", "setup", "active"}, own : BOOLEAN,
   udp_age : 0 .. ACTIVE_SESSION_TIMEOUT,
   offered : Ids \cup {None}, resumed : Entry \cup {None}]

Down ==
  [cmd : {"RESUME_FETCH_REP"}, data : Entry \cup {None}]
    \cup [cmd : {"AUTH_COOKIE_REP"}, ok : BOOLEAN]
    \cup [cmd : {"CMD_UDP_FD"}, hello : BOOLEAN, own : BOOLEAN]
    \cup [cmd : {"body"}]

Up ==
  [cmd : {"RESUME_FETCH_REQ", "RESUME_STORE_REQ", "RESUME_DELETE_REQ"}, id : Ids]
    \cup [cmd : {"AUTH_COOKIE_REQ", "CMD_TUN_MTU"}]

TypeOK ==
  /\ proc \in [Procs -> Proc] /\ worker \in [Procs -> Worker]
  /\ up \in [Procs -> Seq(Up)] /\ down \in [Procs -> Seq(Down)]
  /\ cache \in Seq(Entry) /\ entries \in Nat
  /\ client \in [Procs -> {"data", "hello"}] /\ shared \in BOOLEAN

NewProc(a) ==
  [status |-> "inactive", addr |-> a, in_table |-> FALSE, fetched |-> FALSE,
   fd_age |-> UDP_FD_RESEND_TIME + 1, script |-> FALSE]

NewWorker(pc) ==
  [pc |-> pc, udp |-> "wait", own |-> FALSE, udp_age |-> 0, offered |-> None, resumed |-> None]

Init ==
  /\ \E a \in Addrs : proc = [p \in Procs |-> [NewProc(a) EXCEPT !.status = "free"]]
  /\ worker = [p \in Procs |-> NewWorker("none")]
  /\ up = [p \in Procs |-> <<>>] /\ down = [p \in Procs |-> <<>>]
  /\ cache = <<>> /\ entries = 0
  /\ client = [p \in Procs |-> "data"] /\ shared \in BOOLEAN

Listed(p) == proc[p].status # "free"

Running(p) == worker[p].pc \notin {"none", "left"}

(***************************************************************************)
(* main                                                                    *)
(***************************************************************************)

\* accept, fork and new_proc.
Accept(p, a) ==
  /\ ~Listed(p) /\ worker[p].pc = "none"
  /\ proc' = [proc EXCEPT ![p] = NewProc(a)]
  /\ worker' = [worker EXCEPT ![p] = NewWorker("handshake")]
  /\ client' = [client EXCEPT ![p] = "data"]
  /\ UNCHANGED <<up, down, cache, entries, shared>>

\* remove_proc: out of the list and of the hash tables; main's end is closed.
\* A worker that still runs is killed or finds the socket closed.
Removed(p) ==
  /\ proc' = [proc EXCEPT ![p] = [NewProc(@.addr) EXCEPT !.status = "free"]]
  /\ up' = [up EXCEPT ![p] = <<>>]
  /\ worker' = [worker EXCEPT ![p] = IF @.pc = "left" THEN NewWorker("none") ELSE @]
  /\ down' = [down EXCEPT ![p] = IF worker[p].pc = "left" THEN <<>> ELSE @]

\* main writes a message for p and goes on with p in state r; a worker that
\* has left cannot be written to, and its proc is removed.
Reply(p, r, msg) ==
  IF worker[p].pc = "left" THEN Removed(p)
  ELSE /\ proc' = [proc EXCEPT ![p] = r]
       /\ down' = [down EXCEPT ![p] = Append(@, msg)]
       /\ up' = [up EXCEPT ![p] = Tail(@)]
       /\ UNCHANGED worker

\* The request is served without an answer.
Served(p) ==
  /\ up' = [up EXCEPT ![p] = Tail(@)]
  /\ UNCHANGED <<proc, worker, down>>

\* The order of commands main insists on: it removes the proc of a worker that
\* sends a second cookie, or an MTU before its login.  LoginAgreed says that no
\* worker does.
InPlace(p) ==
  /\ Head(up[p]).cmd = "AUTH_COOKIE_REQ" => proc[p].status = "inactive"
  /\ Head(up[p]).cmd = "CMD_TUN_MTU" => proc[p].status = "completed"

Request(p, cmd) == Listed(p) /\ up[p] # <<>> /\ Head(up[p]).cmd = cmd

\* Slip: the address of the client is not compared.
handle_resume_fetch_req_AnyAddr(id, a) ==
  LET k == SelectInSeq(cache, LAMBDA e : e.id = id)
  IN  IF k = 0 THEN None ELSE cache[k]

\* handle_resume_fetch_req: the first entry with that ID from that address.
handle_resume_fetch_req(id, a) ==
  LET k == SelectInSeq(cache, LAMBDA e : e.id = id /\ e.addr = a)
  IN  IF k = 0 THEN None ELSE cache[k]

\* RESUME_FETCH_REQ: one per worker; a miss is answered like a hit, without data.
ResumeFetch(p) ==
  /\ Request(p, "RESUME_FETCH_REQ")
  /\ IF proc[p].fetched THEN Removed(p)
     ELSE Reply(p, [proc[p] EXCEPT !.fetched = TRUE],
                [cmd |-> "RESUME_FETCH_REP",
                 data |-> handle_resume_fetch_req(Head(up[p]).id, proc[p].addr)])
  /\ UNCHANGED <<cache, entries, client, shared>>

\* handle_resume_store_req: refused when the cache is full; an entry of the
\* same ID is not looked for.
ResumeStore(p) ==
  /\ Request(p, "RESUME_STORE_REQ")
  /\ IF entries >= MaxCache THEN UNCHANGED <<cache, entries>>
     ELSE /\ cache' = Append(cache, [id |-> Head(up[p]).id, addr |-> proc[p].addr, age |-> 0])
          /\ entries' = entries + 1
  /\ Served(p)
  /\ UNCHANGED <<client, shared>>

\* handle_resume_delete_req: the first entry of that ID, whoever stored it.
ResumeDelete(p) ==
  /\ Request(p, "RESUME_DELETE_REQ")
  /\ LET k == SelectInSeq(cache, LAMBDA e : e.id = Head(up[p]).id)
     IN  IF k = 0 THEN UNCHANGED <<cache, entries>>
         ELSE cache' = RemoveAt(cache, k) /\ entries' = entries - 1
  /\ Served(p)
  /\ UNCHANGED <<client, shared>>

\* What is left when the first n entries of the chain were looked at.
Unexpired ==
  LET kept[n \in 0 .. Len(cache)] ==
        IF n = 0 THEN <<>>
        ELSE IF cache[n].age <= SessionExpiration THEN Append(kept[n - 1], cache[n])
        ELSE kept[n - 1]
  IN  kept

\* expire_tls_sessions, at every maintenance.
expire_tls_sessions ==
  LET kept == Unexpired[Len(cache)]
  IN  /\ kept # cache
      /\ cache' = kept
      /\ entries' = entries - (Len(cache) - Len(kept))
      /\ UNCHANGED <<proc, worker, up, down, client, shared>>

\* AUTH_COOKIE_REQ is refused: before or after the proc entered the tables.
CookieRefused(p) ==
  /\ Request(p, "AUTH_COOKIE_REQ") /\ InPlace(p)
  /\ \E t \in BOOLEAN :
       Reply(p, [proc[p] EXCEPT !.status = "failed", !.in_table = t],
             [cmd |-> "AUTH_COOKIE_REP", ok |-> FALSE])
  /\ UNCHANGED <<cache, entries, client, shared>>

\* It is accepted; with a connect script the answer waits for the script, and
\* the proc is listed as failed until the script has ended well.
CookieAccepted(p) ==
  /\ Request(p, "AUTH_COOKIE_REQ") /\ InPlace(p)
  /\ IF ConnectScript
     THEN /\ proc' = [proc EXCEPT ![p].in_table = TRUE, ![p].script = TRUE, ![p].status = "failed"]
          /\ up' = [up EXCEPT ![p] = Tail(@)]
          /\ UNCHANGED <<worker, down>>
     ELSE Reply(p, [proc[p] EXCEPT !.in_table = TRUE, !.status = "completed"],
                [cmd |-> "AUTH_COOKIE_REP", ok |-> TRUE])
  /\ UNCHANGED <<cache, entries, client, shared>>

\* CMD_TUN_MTU and CMD_SESSION_INFO.
TunMtu(p) ==
  /\ Request(p, "CMD_TUN_MTU") /\ InPlace(p)
  /\ Served(p)
  /\ UNCHANGED <<cache, entries, client, shared>>

\* handle_script_exit: the delayed answer, good or bad.  If it cannot be sent
\* main removes the proc; after a bad one the worker is left to go.
ScriptExit(p, ok) ==
  /\ proc[p].script
  /\ IF worker[p].pc = "left" THEN Removed(p)
     ELSE /\ proc' = [proc EXCEPT ![p].script = FALSE,
                                  ![p].status = IF ok THEN "completed" ELSE @]
          /\ down' = [down EXCEPT ![p] = Append(@, [cmd |-> "AUTH_COOKIE_REP", ok |-> ok])]
          /\ UNCHANGED <<up, worker>>
  /\ UNCHANGED <<cache, entries, client, shared>>

\* The worker closed its end and everything it wrote was read.
WorkerGone(p) ==
  /\ Listed(p) /\ worker[p].pc = "left" /\ up[p] = <<>>
  /\ Removed(p)
  /\ UNCHANGED <<cache, entries, client, shared>>

(***************************************************************************)
(* forward_udp_to_owner                                                    *)
(***************************************************************************)

\* Slip: a packet that comes too soon starts the time anew.
Forward_Restarts(p, hello, own) ==
  /\ proc[p].in_table /\ Len(down[p]) < MaxQueue /\ worker[p].pc # "left"
  /\ proc' = [proc EXCEPT ![p].fd_age = 0]
  /\ down' = IF proc[p].fd_age <= UDP_FD_RESEND_TIME THEN down
             ELSE [down EXCEPT ![p] = Append(@, [cmd |-> "CMD_UDP_FD", hello |-> hello, own |-> own])]
  /\ UNCHANGED <<worker, up, cache, entries, client, shared>>

\* A UDP socket is passed to p unless one was passed a short time ago; if the
\* worker is gone the write fails and the packet is dropped.
Forward(p, hello, own) ==
  /\ proc[p].in_table /\ Len(down[p]) < MaxQueue
  /\ proc[p].fd_age > UDP_FD_RESEND_TIME /\ worker[p].pc # "left"
  /\ proc' = [proc EXCEPT ![p].fd_age = 0]
  /\ down' = [down EXCEPT ![p] = Append(@, [cmd |-> "CMD_UDP_FD", hello |-> hello, own |-> own])]
  /\ UNCHANGED <<worker, up, cache, entries, client, shared>>

\* A client hello carries the DTLS session ID main gave to this client.
HelloPacket(p) ==
  /\ client[p] = "hello"
  /\ Forward(p, TRUE, TRUE)

\* proc_search_ip: any other packet goes to a proc with that address, the one
\* the hash table meets first.  The sender is its client on a new port, or not.
DataPacket(p) ==
  \/ client[p] = "data" /\ Forward(p, FALSE, TRUE)
  \/ shared /\ Forward(p, FALSE, FALSE)

(***************************************************************************)
(* The worker                                                              *)
(***************************************************************************)

Send(p, msg) ==
  IF Listed(p) THEN up' = [up EXCEPT ![p] = Append(@, msg)] ELSE UNCHANGED up

At(p, pcs) == worker[p].pc \in pcs

\* resume_db_fetch, in the first handshake or a later one: a handshake resumes
\* nothing but what its own request brings.
Fetch(p, id) ==
  /\ At(p, {"tunnel"}) \/ (At(p, {"handshake"}) /\ worker[p].offered = None)
  /\ Len(up[p]) < MaxQueue
  /\ worker' = [worker EXCEPT ![p].pc = IF @ = "handshake" THEN "wait_resume" ELSE "rehandshake",
                              ![p].offered = id, ![p].resumed = None]
  /\ Send(p, [cmd |-> "RESUME_FETCH_REQ", id |-> id])
  /\ UNCHANGED <<proc, down, cache, entries, client, shared>>

\* Slip: an answer of another kind is taken for the one that is due.
Answers_Any(p, cmd) == TRUE

\* recv_socket_msg: the header that comes next is of the command waited for.
Answers(p, cmd) == Head(down[p]).cmd = cmd

\* recv_socket_msg found another command: its body stays in the stream.
LeaveBody(p) == down' = [down EXCEPT ![p][1] = [cmd |-> "body"]]

\* recv_resume_fetch_reply: without usable data the handshake is a full one.
RecvResume(p) ==
  /\ At(p, {"wait_resume", "rehandshake"}) /\ down[p] # <<>>
  /\ LET next == IF At(p, {"wait_resume"}) THEN "handshake" ELSE "tunnel"
         hit  == /\ Answers(p, "RESUME_FETCH_REP") /\ Head(down[p]).data # None
                 /\ Head(down[p]).data.age <= SessionExpiration
     IN  /\ worker' = [worker EXCEPT ![p].pc = next,
                                     ![p].resumed = IF hit THEN Head(down[p]).data ELSE @]
         /\ IF Answers(p, "RESUME_FETCH_REP")
            THEN down' = [down EXCEPT ![p] = Tail(@)] ELSE LeaveBody(p)
  /\ UNCHANGED <<proc, up, cache, entries, client, shared>>

\* The handshake is over: a new TLS session is stored.
Handshaken(p) ==
  /\ At(p, {"handshake"}) /\ Len(up[p]) < MaxQueue
  /\ worker' = [worker EXCEPT ![p].pc = "http"]
  /\ IF worker[p].resumed # None THEN UNCHANGED up
     ELSE \E id \in Ids : Send(p, [cmd |-> "RESUME_STORE_REQ", id |-> id])
  /\ UNCHANGED <<proc, down, cache, entries, client, shared>>

\* resume_db_delete, when the TLS session fails.
Delete(p, id) ==
  /\ At(p, {"handshake"}) /\ worker[p].offered = id /\ Len(up[p]) < MaxQueue
  /\ worker' = [worker EXCEPT ![p].pc = "left"]
  /\ Send(p, [cmd |-> "RESUME_DELETE_REQ", id |-> id])
  /\ UNCHANGED <<proc, down, cache, entries, client, shared>>

\* auth_cookie.
AuthCookie(p) ==
  /\ At(p, {"http"}) /\ Len(up[p]) < MaxQueue
  /\ worker' = [worker EXCEPT ![p].pc = "wait_cookie"]
  /\ Send(p, [cmd |-> "AUTH_COOKIE_REQ"])
  /\ UNCHANGED <<proc, down, cache, entries, client, shared>>

\* recv_cookie_auth_reply: anything but the good answer ends the worker.
RecvCookie(p) ==
  /\ At(p, {"wait_cookie"}) /\ down[p] # <<>>
  /\ LET good == /\ Answers(p, "AUTH_COOKIE_REP")
                 /\ "ok" \in DOMAIN Head(down[p]) => Head(down[p]).ok
     IN  /\ worker' = [worker EXCEPT ![p].pc = IF good THEN "tunnel" ELSE "left"]
         /\ IF good THEN down' = [down EXCEPT ![p] = Tail(@)] ELSE LeaveBody(p)
  /\ UNCHANGED <<proc, up, cache, entries, client, shared>>

\* mtu_send.
SendMtu(p) ==
  /\ At(p, {"tunnel"}) /\ up[p] = <<>> /\ Listed(p)
  /\ Send(p, [cmd |-> "CMD_TUN_MTU"])
  /\ UNCHANGED <<proc, worker, down, cache, entries, client, shared>>

\* handle_worker_commands, CMD_UDP_FD: a hello starts a new DTLS session; any
\* other packet only replaces a socket that has been silent.
handle_worker_commands(p) ==
  /\ At(p, {"tunnel"}) /\ down[p] # <<>> /\ Head(down[p]).cmd = "CMD_UDP_FD"
  /\ LET m == Head(down[p])
         w == worker[p]
     IN  worker' = [worker EXCEPT ![p] =
           IF m.hello THEN [w EXCEPT !.udp = "setup", !.own = m.own]
           ELSE IF w.udp # "active" \/ w.udp_age < ACTIVE_SESSION_TIMEOUT THEN w
           ELSE [w EXCEPT !.own = m.own]]
  /\ down' = [down EXCEPT ![p] = Tail(@)]
  /\ UNCHANGED <<proc, up, cache, entries, client, shared>>

\* An unknown command, or a header that makes no sense: exit_worker.
BadDown(p) ==
  /\ At(p, {"tunnel"}) /\ down[p] # <<>> /\ Head(down[p]).cmd # "CMD_UDP_FD"
  /\ worker' = [worker EXCEPT ![p].pc = "left"]
  /\ UNCHANGED <<proc, up, down, cache, entries, client, shared>>

\* The worker leaves: its client is gone, its alarm goes off, or main is.
Leave(p) ==
  /\ Running(p)
  /\ worker' = [worker EXCEPT ![p] = IF Listed(p) THEN [@ EXCEPT !.pc = "left"]
                                     ELSE NewWorker("none")]
  /\ down' = IF Listed(p) THEN down ELSE [down EXCEPT ![p] = <<>>]
  /\ UNCHANGED <<proc, up, cache, entries, client, shared>>

(***************************************************************************)
(* The client's UDP, and time                                              *)
(***************************************************************************)

\* The client gives its UDP session up and starts a new one, or its packets
\* begin to come from another port.
ClientRestarts(p) ==
  /\ At(p, {"tunnel"}) /\ client[p] = "data"
  /\ client' = [client EXCEPT ![p] = "hello"]
  /\ UNCHANGED <<proc, worker, up, down, cache, entries, shared>>

PortChanges(p) ==
  /\ At(p, {"tunnel"}) /\ worker[p].own /\ worker[p].udp = "active"
  /\ worker' = [worker EXCEPT ![p].own = FALSE]
  /\ UNCHANGED <<proc, up, down, cache, entries, client, shared>>

\* The DTLS handshake with the client over the socket main passed.
DtlsUp(p) ==
  /\ At(p, {"tunnel"}) /\ worker[p].udp = "setup" /\ worker[p].own
  /\ worker' = [worker EXCEPT ![p].udp = "active", ![p].udp_age = 0]
  /\ client' = [client EXCEPT ![p] = "data"]
  /\ UNCHANGED <<proc, up, down, cache, entries, shared>>

DtlsData(p) ==
  /\ At(p, {"tunnel"}) /\ worker[p].udp = "active" /\ worker[p].own
  /\ client[p] = "data" /\ worker[p].udp_age > 0
  /\ worker' = [worker EXCEPT ![p].udp_age = 0]
  /\ UNCHANGED <<proc, up, down, cache, entries, client, shared>>

Older(age, limit) == IF age < limit THEN age + 1 ELSE limit

Tick ==
  /\ proc' = [p \in Procs |-> [proc[p] EXCEPT !.fd_age = Older(@, UDP_FD_RESEND_TIME + 1)]]
  /\ worker' = [p \in Procs |-> [worker[p] EXCEPT !.udp_age = Older(@, ACTIVE_SESSION_TIMEOUT)]]
  /\ cache' = [k \in DOMAIN cache |-> [cache[k] EXCEPT !.age = Older(@, SessionExpiration + 1)]]
  /\ UNCHANGED <<up, down, entries, client, shared>>

MainServes(p) ==
  \/ ResumeFetch(p) \/ ResumeStore(p) \/ ResumeDelete(p)
  \/ CookieRefused(p) \/ CookieAccepted(p) \/ TunMtu(p) \/ WorkerGone(p)

WorkerReads(p) ==
  RecvResume(p) \/ RecvCookie(p) \/ handle_worker_commands(p) \/ BadDown(p)

Next ==
  \/ \E p \in Procs, a \in Addrs : Accept(p, a)
  \/ \E p \in Procs, id \in Ids : Fetch(p, id) \/ Delete(p, id)
  \/ \E p \in Procs :
       \/ MainServes(p) \/ HelloPacket(p) \/ DataPacket(p)
       \/ \E ok \in BOOLEAN : ScriptExit(p, ok)
       \/ WorkerReads(p) \/ DtlsUp(p) \/ Handshaken(p) \/ AuthCookie(p) \/ SendMtu(p) \/ Leave(p)
       \/ ClientRestarts(p) \/ PortChanges(p) \/ DtlsData(p)
  \/ expire_tls_sessions
  \/ Tick

(***************************************************************************)
(* main and the workers read what is in their sockets, time goes on, and a *)
(* client that wants a UDP session repeats its hello.  A connect script    *)
(* need not end.                                                           *)
(***************************************************************************)
Spec ==
  /\ Init /\ [][Next]_vars
  /\ WF_vars(Tick)
  /\ \A p \in Procs : /\ WF_vars(MainServes(p)) /\ WF_vars(WorkerReads(p))
                       /\ WF_vars(HelloPacket(p)) /\ WF_vars(DtlsUp(p))

(***************************************************************************)
(* Properties                                                              *)
(***************************************************************************)

\* main and a worker agree on the login although UDP sockets are pushed between
\* question and answer: a worker is in its tunnel only when main completed the
\* login, when nothing is under way the worker of a completed login is there, and
\* no command a worker sends is out of place for main.
LoginAgreed ==
  \A p \in Procs : Listed(p) =>
    /\ up[p] # <<>> => InPlace(p)
    /\ At(p, {"tunnel", "rehandshake"}) => proc[p].status = "completed"
    /\ /\ proc[p].status = "completed" /\ Running(p)
       /\ up[p] = <<>> /\ down[p] = <<>>
       => At(p, {"tunnel"})

\* The count of cached TLS sessions is exact and bounded whatever is stored,
\* deleted and expired, and a worker resumes only what a client at the same
\* address stored under the ID its client offered.
CacheSound ==
  /\ entries = Len(cache) /\ entries <= MaxCache
  /\ \A p \in Procs : Listed(p) /\ worker[p].resumed # None =>
       worker[p].resumed.id = worker[p].offered /\ worker[p].resumed.addr = proc[p].addr

\* A client that repeats its hello gets a UDP session although stray packets of
\* its own used up the time of its proc, unless other hosts share its address.
UdpComesBack ==
  \A p \in Procs :
    At(p, {"tunnel"}) /\ client[p] = "hello" /\ ~shared
      ~> (worker[p].udp = "active" /\ worker[p].own) \/ ~At(p, {"tunnel"})

(***************************************************************************)
(* The inductive invariant                                                 *)
(***************************************************************************)

\* The positions of the messages of a kind in a stream.
Of(stream, cmd) == {i \in 1 .. Len(stream) : stream[i].cmd = cmd}

\* The next thing the worker reads is the body of a message it refused: from then
\* on it understands nothing.
Stuck(d) == d # <<>> /\ Head(d).cmd = "body"

\* The TLS session cache seen by a slot, that is by a proc r, its worker w and the
\* streams u and d: one question is under way at a time and only while the worker
\* waits, it is about what its client offered, the answer is an entry stored from
\* its address, and so is what was resumed.
FetchInv(r, w, u, d) ==
  LET asked    == Of(u, "RESUME_FETCH_REQ")
      answered == Of(d, "RESUME_FETCH_REP")
  IN  /\ ~Stuck(d) /\ w.pc # "left" =>
           /\ w.pc \notin {"wait_resume", "rehandshake"} => asked = {} /\ answered = {}
           /\ asked = {} \/ answered = {}
           /\ \A i, j \in asked : i = j
           /\ \A i, j \in answered : i = j
           /\ \A i \in asked : u[i].id = w.offered
           /\ \A i \in answered : d[i].data # None =>
                d[i].data.id = w.offered /\ d[i].data.addr = r.addr
      /\ w.resumed # None => w.resumed.id = w.offered /\ w.resumed.addr = r.addr

\* The login of a slot: the cookie is the last thing the worker sends before it
\* waits, the good answer goes out only when main completed the login, and a worker
\* that waits has what it waits for on the way.
LoginInv(r, w, u, d) ==
  LET asked    == Of(u, "AUTH_COOKIE_REQ")
      answered == Of(d, "AUTH_COOKIE_REP")
  IN  /\ w.pc \in {"handshake", "wait_resume", "http"} =>
           r.status = "inactive" /\ ~r.script /\ asked = {}
      /\ \A i \in asked : /\ i = Len(u) /\ w.pc \in {"wait_cookie", "left"}
                         /\ r.status = "inactive" /\ ~r.script
      /\ Of(u, "CMD_TUN_MTU") # {} => r.status = "completed"
      /\ w.pc \in {"tunnel", "rehandshake"} => r.status = "completed"
      /\ r.script => r.status = "failed"
      /\ \A i \in answered : d[i].ok => r.status = "completed"
      /\ w.pc = "wait_cookie" /\ r.status = "completed" => answered # {}
      /\ w.pc = "rehandshake" => d # <<>> \/ Of(u, "RESUME_FETCH_REQ") # {}

SlotInv(r, w, u, d) ==
  /\ r.status = "free" => u = <<>> /\ ~r.in_table /\ ~r.script
  /\ w.pc = "none" => r.status = "free" /\ d = <<>>
  /\ r.status # "free" => FetchInv(r, w, u, d) /\ LoginInv(r, w, u, d)

WorkerChannelInv ==
  /\ TypeOK
  /\ entries = Len(cache) /\ entries <= MaxCache
  /\ \A p \in Procs : SlotInv(proc[p], worker[p], up[p], down[p])

=============================================================================
