------------------------------- MODULE Login -------------------------------
(***************************************************************************)
(* Logging in: the HTTP front end of a worker (vpn_server, worker-http.c,  *)
(* worker-auth.c), the conversation it holds with sec-mod over a socket of *)
(* its own for every message (handle_sec_auth_init, handle_sec_auth_cont)  *)
(* and the authentication modules behind it (auth/).                       *)
(*                                                                         *)
(* The worker keeps auth_state, the selected method and the session ID;    *)
(* sec-mod keeps the entry.  They are told apart on purpose: a client may  *)
(* carry its session ID to another connection, name any ID or cookie in a  *)
(* header, change the method half way, or leave while sec-mod works.       *)
(*                                                                         *)
(* A charge is one point; a score is counted up to the ban, and its window *)
(* does not end within a behaviour.  sec-mod serves one message at a time, *)
(* its question to main about the score included.  Under which name PAM    *)
(* and GSSAPI finally know the user (auth_user) is left out.  A PAM stack  *)
(* is external: it may prompt several times, and go on after a wrong       *)
(* answer; it succeeds only with a right one.                              *)
(***************************************************************************)
EXTENDS Integers, FiniteSets, FiniteSetsExt, Sequences

CONSTANTS
  Workers,       \* connections, each with its worker process
  Sids,          \* bound: conversations
  Users,         \* user names
  Registered,    \* the users whose password some module knows
  Addrs,         \* addresses of clients
  CertUsers,     \* the users that have a certificate
  Configs,       \* the configurations to look at
  MaxTries,      \* MAX_PASSWORD_TRIES
  PamPrompts,    \* how often a PAM stack prompts in one conversation, at most
  MaxBanScore,   \* max-ban-score, in wrong passwords; 0 disables bans
  MaxRequests,   \* MAX_HTTP_REQUESTS of one connection
  CiscoCompat,   \* cisco-client-compat
  Keep,          \* the request does not have the header
  None           \* nothing, or a header that cannot be decoded

Kinds == {"pass", "cert", "gssapi"}

\* What each module asks for; a radius module retries like plain.
Checks ==
  [plain |-> {"pass"}, pam |-> {"pass"}, gssapi |-> {"gssapi"}, null |-> {}]

\* A method figure_auth_funcs accepts: the credentials it asks for, and at most
\* one module, beside which there may be a certificate.
Method ==
  {m \in [type : (SUBSET Kinds) \ {{}}, module : DOMAIN Checks] :
     m.type \ {"cert"} = Checks[m.module]}

ASSUME LoginAssumption ==
  /\ IsFiniteSet(Workers) /\ IsFiniteSet(Sids)
  /\ Registered \subseteq Users /\ CertUsers \subseteq Users
  /\ \A c \in Configs : c.auth \in Seq(Method) \ {<<>>} /\ c.timeout \in BOOLEAN
  /\ MaxTries \in Nat \ {0} /\ PamPrompts \in Nat \ {0}
  /\ MaxBanScore \in Nat /\ MaxRequests \in Nat \ {0}
  /\ CiscoCompat \in BOOLEAN

VARIABLES
  config,   \* the methods and whether auth-timeout is set; fixed
  worker,   \* worker_st of each connection
  sock,     \* what is in a worker's socket to sec-mod: a request or an answer
  entry,    \* sec-mod's client entries
  score,    \* main's score of each address
  wrong,    \* history: wrong answers sec-mod looked at, per entry
  proved    \* history: credentials shown in each conversation

vars == <<config, worker, sock, entry, score, wrong, proved>>

AuthState == {"inactive", "init", "req", "cookie", "complete"}

Worker ==
  [pc : {"left", "http", "wait", "wait_main", "tunnel"}, addr : Addrs \cup {None},
   cert : Users \cup {None}, state : AuthState, sel : Nat \ {0}, gss_off : BOOLEAN,
   token : BOOLEAN, sid : Sids \cup {None}, cookie : Sids \cup {None},
   requests : 0 .. MaxRequests, alarm : BOOLEAN, terminate : BOOLEAN]

Entry ==
  [status : {"unused", "init", "cont", "completed", "failed"}, method : Nat,
   addr : Addrs \cup {None}, user : Users \cup {None},
   tries : Nat, issued : BOOLEAN]

\* No process.
Left ==
  [pc |-> "left", addr |-> None, cert |-> None, state |-> "inactive", sel |-> 1,
   gss_off |-> FALSE, token |-> FALSE, sid |-> None, cookie |-> None,
   requests |-> 0, alarm |-> FALSE, terminate |-> FALSE]

Init ==
  /\ config \in Configs
  /\ worker = [w \in Workers |-> Left]
  /\ entry = [s \in Sids |->
       [status |-> "unused", method |-> 0, addr |-> None, user |-> None,
        tries |-> 0, issued |-> FALSE]]
  /\ sock = [w \in Workers |-> None]
  /\ score = [a \in Addrs |-> 0]
  /\ wrong = [s \in Sids |-> 0]
  /\ proved = [s \in Sids |-> {}]

methods == config.auth

Running(w) == worker[w].pc # "left"

Put(w, r) == worker' = [worker EXCEPT ![w] = r]

Banned(a) == MaxBanScore > 0 /\ score[a] >= MaxBanScore

Asks(r) == methods[r.sel].type

Configured(t) == \E k \in DOMAIN methods : t \in methods[k].type

(***************************************************************************)
(* The worker: requests                                                    *)
(***************************************************************************)

\* ws_switch_auth_to: the method to use so that t is asked for, or 0.
ws_switch_auth_to(r, t) ==
  LET fits == {k \in DOMAIN methods : /\ t \in methods[k].type
                                      /\ ~(r.gss_off /\ "gssapi" \in methods[k].type)}
  IN  IF r.sel \in fits THEN r.sel ELSE IF fits = {} THEN 0 ELSE Min(fits)

Switched(r, t) ==
  [r EXCEPT !.sel = IF ws_switch_auth_to(r, t) = 0 THEN @ ELSE ws_switch_auth_to(r, t)]

\* The start of vpn_server, after check_if_banned let the connection in: the
\* alarm, the TLS handshake with or without a certificate, the first method.
Accept(w, a, c) ==
  /\ ~Running(w) /\ sock[w] = None /\ ~Banned(a)
  /\ Configured("cert") \/ c = None
  /\ LET r == [Left EXCEPT !.pc = "http", !.addr = a, !.cert = c,
                           !.requests = MaxRequests, !.alarm = config.timeout]
     IN  Put(w, IF c = None THEN r ELSE Switched(r, "cert"))
  /\ UNCHANGED <<config, sock, entry, score, wrong, proved>>

\* The IDs clients were told, and the cookies.
Told == {s \in Sids : entry[s].status # "unused"}
Issued == {s \in Sids : entry[s].issued}

\* The headers of a request that the login depends on: those of SPNEGO, which
\* nothing looks at without GSSAPI, and a session ID or a cookie.
Headers ==
  LET negotiate == IF Configured("gssapi") THEN BOOLEAN ELSE {FALSE}
  IN  [spnego : negotiate, token : negotiate, sid : Told \cup {None}, cookie : {Keep}]
        \cup [spnego : negotiate, token : negotiate, sid : {Keep}, cookie : Issued \cup {Keep, None}]

\* header_value_check for each header, then http_header_complete_cb.  The
\* Authorization of an earlier request stays when this one has none.
Received(r0, h) ==
  LET r1 == IF h.spnego THEN Switched(r0, "gssapi") ELSE r0
      r2 == [r1 EXCEPT !.token = @ \/ h.token, !.requests = @ - 1,
                       !.sid = IF h.sid = Keep THEN @ ELSE h.sid,
                       !.cookie = IF h.cookie = Keep THEN @ ELSE h.cookie,
                       !.state = IF h.cookie \in Sids THEN "cookie" ELSE @]
  IN  IF "gssapi" \in Asks(r2) /\ r2.state = "inactive" /\ ~h.spnego
      THEN Switched(r2, "pass") ELSE r2

Requests(w) == worker[w].pc = "http" /\ worker[w].requests > 0

\* get_auth_handler2 goes on to post_auth_handler for GSSAPI.
GetAuthenticates(r) ==
  "gssapi" \in Asks(r) /\ r.state \notin {"cookie", "complete"} /\ r.token

\* post_auth_handler takes a session ID for a conversation that goes on.
Begun(r) == IF r.sid # None /\ r.state = "inactive" THEN [r EXCEPT !.state = "init"] ELSE r

\* The handlers that only answer: a GET, and a POST that get_auth_handler2 or
\* basic_auth_handler answer because something is missing to begin.
Form(w, h) ==
  /\ Requests(w)
  /\ ~GetAuthenticates(Received(worker[w], h))
  /\ Put(w, Received(worker[w], h))
  /\ UNCHANGED <<config, sock, entry, score, wrong, proved>>

Unused == {s \in Sids : entry[s].status = "unused"}
Waiting == {w \in Workers : sock[w] # None /\ sock[w].cmd = "init"}

\* post_auth_handler in S_AUTH_INACTIVE: SM_CMD_AUTH_INIT with the credentials
\* of the selected method.
PostInit(w, h) ==
  /\ Requests(w)
  /\ Cardinality(Waiting) < Cardinality(Unused)
  /\ LET r == Begun(Received(worker[w], h)) IN
       /\ r.state = "inactive"
       /\ "gssapi" \in Asks(r) => r.token
       /\ "cert" \in Asks(r) => r.cert # None
       /\ \E u \in IF "pass" \in Asks(r) THEN Users ELSE {None},
            good \in IF "gssapi" \in Asks(r) THEN BOOLEAN ELSE {FALSE} :
            sock' = [sock EXCEPT ![w] =
              [cmd |-> "init", ip |-> r.addr, asked |-> Asks(r), user |-> u, good |-> good,
               cert |-> IF "cert" \in Asks(r) THEN r.cert ELSE None]]
       /\ Put(w, [r EXCEPT !.state = "init", !.pc = "wait"])
  /\ UNCHANGED <<config, entry, score, wrong, proved>>

\* post_auth_handler later: SM_CMD_AUTH_CONT with a password or a token.
PostCont(w, h, good) ==
  /\ Requests(w)
  /\ LET r == Begun(Received(worker[w], h)) IN
       /\ r.state \in {"init", "req"}
       /\ IF "gssapi" \in Asks(r) THEN r.token ELSE "pass" \in Asks(r)
       /\ sock' = [sock EXCEPT ![w] =
            [cmd |-> "cont", sid |-> r.sid, good |-> good,
             kind |-> IF "gssapi" \in Asks(r) THEN "gssapi" ELSE "pass"]]
       /\ Put(w, [r EXCEPT !.state = "req", !.pc = "wait"])
  /\ UNCHANGED <<config, entry, score, wrong, proved>>

\* auth_fail in post_auth_handler before anything is sent: no certificate, no
\* answer, or a POST after the cookie.
PostRefused(w, h) ==
  /\ Requests(w)
  /\ LET r == Begun(Received(worker[w], h)) IN
       /\ \/ r.state = "inactive" /\ "cert" \in Asks(r) /\ r.cert = None
          \/ r.state \in {"init", "req"} /\ ("gssapi" \in Asks(r) => ~r.token)
          \/ r.state \in {"cookie", "complete"}
       /\ Put(w, Left)
  /\ UNCHANGED <<config, sock, entry, score, wrong, proved>>

\* connect_handler up to the question to main: a cookie, and a certificate
\* when the selected method has one.
Connect(w, h) ==
  /\ Requests(w)
  /\ LET r == Received(worker[w], h)
         ok == /\ r.state = "cookie" /\ r.cookie # None
               /\ "cert" \in Asks(r) /\ ~CiscoCompat => r.cert # None
     IN  Put(w, IF ok THEN [r EXCEPT !.pc = "wait_main"] ELSE Left)
  /\ UNCHANGED <<config, sock, entry, score, wrong, proved>>

\* main's answer to the cookie; it takes one whose entry is still completed.
\* Then the alarm is turned off, unless the request was not for the tunnel.
Connected(w) ==
  /\ worker[w].pc = "wait_main"
  /\ \/ /\ entry[worker[w].cookie].status = "completed"
        /\ Put(w, [worker[w] EXCEPT !.pc = "tunnel", !.state = "complete",
                                    !.alarm = @ /\ ~config.timeout])
     \/ Put(w, Left)
  /\ UNCHANGED <<config, sock, entry, score, wrong, proved>>

(***************************************************************************)
(* sec-mod                                                                 *)
(***************************************************************************)

\* Slip: the refusal of the ban list is not looked at.
sec_mod_add_score_to_ip_Ignored(a) == FALSE

\* sec_mod_add_score_to_ip: one more point; main says whether that is enough.
sec_mod_add_score_to_ip(a) == MaxBanScore > 0 /\ score[a] + 1 >= MaxBanScore

\* set_module: the first method that asks for everything the worker asked for.
set_module(asked) ==
  LET fits == {k \in DOMAIN methods : asked \subseteq methods[k].type}
  IN  IF fits = {} THEN 0 ELSE Min(fits)

Module(e) == IF e.method = 0 THEN "null" ELSE methods[e.method].module

\* check_user_group_status: the certificate is that of the user, or names him
\* when no module did.  A GSSAPI entry still has the token for a name here.
check_user_group_status(e, cert) ==
  "cert" \in methods[e.method].type =>
    cert # None /\ (Module(e) # "null" => e.user = cert)

\* Slip: a user the password file does not know has an empty hash, and any
\* password fits it.
plain_auth_pass_Empty(e, good) ==
  IF e.user \notin Registered \/ good THEN {"ok"}
  ELSE IF e.tries < MaxTries - 1 THEN {"continue"} ELSE {"fail"}

\* plain_auth_pass and radius_auth_pass.
plain_auth_pass(e, good) ==
  IF e.user \in Registered /\ good THEN {"ok"}
  ELSE IF e.tries < MaxTries - 1 THEN {"continue"} ELSE {"fail"}

\* pam_auth_pass: what the stack says of the answer, or ERR_AUTH_CONTINUE when it
\* has another prompt.  A required module lets the stack go on after a wrong one.
pam_auth_pass(e, good) ==
  {"fail"} \cup (IF e.user \in Registered /\ good THEN {"ok"} ELSE {})
           \cup (IF e.tries < PamPrompts - 1 THEN {"continue"} ELSE {})

\* The answers that did not end a conversation with a password: the retries plain
\* and radius count, and the prompts a PAM stack has made.
Tried(e, r) ==
  [e EXCEPT !.tries = IF Module(e) \in {"plain", "pam"} /\ r # "ok" THEN @ + 1 ELSE @]

\* auth_pass of the module: GSSAPI may want more of a good token and ends at a
\* bad one.
auth_pass(e, kind, good) ==
  CASE Module(e) = "plain"  -> plain_auth_pass(e, good /\ kind = "pass")
    [] Module(e) = "pam"    -> pam_auth_pass(e, good /\ kind = "pass")
    [] Module(e) = "gssapi" -> IF good /\ kind = "gssapi" THEN {"ok", "continue"} ELSE {"fail"}
    [] OTHER                -> {"fail"}

\* auth_init of the module and auth_group, which may refuse the group.
auth_init(e, good) ==
  CASE Module(e) \in {"plain", "pam"} -> {"continue", "fail"}
    [] Module(e) = "gssapi" -> IF good THEN {"ok", "continue"} ELSE {"fail"}
    [] OTHER -> {"ok", "fail"}

\* The answer leaves if the worker is still there; if it is not, the entry of a
\* good answer is spoilt.
Answer(w, s, e, rep) ==
  LET there == worker[w].pc = "wait" /\ rep # "eof"
  IN  /\ sock' = [sock EXCEPT ![w] =
                    IF worker[w].pc = "wait" THEN [cmd |-> rep, sid |-> s] ELSE None]
      /\ entry' = [entry EXCEPT ![s] = IF there THEN [e EXCEPT !.issued = @ \/ rep = "ok"]
                                       ELSE [e EXCEPT !.status = "failed"]]

\* handle_sec_auth_res: what the entry, the score and the answer become.  A
\* module that retries has each wrong password charged as it comes; PAM does not
\* retry, and a wrong answer before another prompt goes uncharged.
handle_sec_auth_res(w, s, e, result) ==
  LET retry   == result = "continue" /\ e.status = "cont" /\ Module(e) = "plain"
      failed  == result = "fail" \/ (retry /\ sec_mod_add_score_to_ip(e.addr))
      \* GSSAPI may have no text to send; PAM may end before its first prompt.
      replies == CASE failed -> {"failed"}
                   [] ~failed /\ result = "ok" -> {"ok"}
                   [] OTHER -> {"msg"} \cup (IF Module(e) = "gssapi" THEN {"empty"} ELSE {})
                                 \cup (IF Module(e) = "pam" /\ e.status = "init" THEN {"eof"} ELSE {})
      status  == CASE failed -> "failed"
                   [] ~failed /\ result = "ok" -> "completed"
                   [] OTHER -> e.status
  IN  /\ score' = [score EXCEPT ![e.addr] =
                     IF (retry \/ result = "fail") /\ @ < MaxBanScore THEN @ + 1 ELSE @]
      /\ \E rep \in replies : Answer(w, s, [e EXCEPT !.status = status], rep)

Asked(w, cmd) == sock[w] # None /\ sock[w].cmd = cmd

\* handle_sec_auth_init, in a new entry; which unused ID it gets is all the same.
SecAuthInit(w) ==
  /\ Asked(w, "init")
  /\ LET m  == sock[w]
         s  == CHOOSE sid \in Unused : TRUE
         k  == set_module(m.asked)
         e0 == [entry[s] EXCEPT !.method = k, !.addr = m.ip, !.status = "init"]
         e  == [e0 EXCEPT !.user = CASE Module(e0) \in {"plain", "pam"} -> m.user
                                     [] Module(e0) = "gssapi" -> None
                                     [] OTHER -> m.cert]
     IN  /\ \E r \in IF k # 0 /\ check_user_group_status(e, m.cert)
                      THEN auth_init(e, m.good) ELSE {"fail"} :
              handle_sec_auth_res(w, s, e, r)
         /\ proved' = [proved EXCEPT ![s] =
              (IF m.cert = None THEN {} ELSE {<<"cert", m.cert>>})
                \cup (IF "gssapi" \in m.asked /\ m.good THEN {<<"gssapi", None>>} ELSE {})]
  /\ UNCHANGED <<config, worker, wrong>>

\* handle_sec_auth_cont goes on only with a conversation that is under way.
Continues(s) == entry[s].status \in {"init", "cont"}

\* handle_sec_auth_cont: any connection that names the entry may answer.
SecAuthCont(w) ==
  /\ Asked(w, "cont") /\ sock[w].sid # None
  /\ LET m == sock[w]
         s == m.sid
         e == [entry[s] EXCEPT !.status = IF Continues(s) THEN "cont" ELSE @]
         right == m.good /\ IF Module(e) = "gssapi" THEN m.kind = "gssapi"
                             ELSE m.kind = "pass" /\ e.user \in Registered
     IN  /\ \E r \in IF Continues(s) THEN auth_pass(e, m.kind, m.good) ELSE {"fail"} :
              handle_sec_auth_res(w, s, IF Continues(s) THEN Tried(e, r) ELSE e, r)
         /\ wrong' = [wrong EXCEPT ![s] = IF Continues(s) /\ ~right THEN @ + 1 ELSE @]
         /\ proved' = [proved EXCEPT ![s] = @ \cup IF Continues(s) /\ right
                                                  THEN {<<m.kind, e.user>>} ELSE {}]
  /\ UNCHANGED <<config, worker>>

\* handle_sec_auth_cont without an ID: the socket is closed.
SecAuthContNoSid(w) ==
  /\ Asked(w, "cont") /\ sock[w].sid = None
  /\ sock' = [sock EXCEPT ![w] = IF worker[w].pc = "wait" THEN [cmd |-> "eof", sid |-> None]
                                 ELSE None]
  /\ UNCHANGED <<config, worker, entry, score, wrong, proved>>

(***************************************************************************)
(* The worker: answers, signals                                            *)
(***************************************************************************)

\* recv_auth_reply and the rest of post_auth_handler.  After GSSAPI failed the
\* worker starts anew with a password, if there is such a method.
RecvReply(w) ==
  /\ worker[w].pc = "wait" /\ sock[w] # None
  /\ sock[w].cmd \in {"msg", "ok", "empty", "failed", "eof"}
  /\ LET m == sock[w]
         r == [worker[w] EXCEPT !.pc = "http"]
         f == [r EXCEPT !.gss_off = TRUE]
     IN  Put(w, CASE m.cmd = "msg" -> [r EXCEPT !.state = "req", !.sid = m.sid]
                  [] m.cmd = "ok"  -> [r EXCEPT !.state = "cookie", !.sid = m.sid, !.cookie = m.sid]
                  [] OTHER -> IF "gssapi" \in Asks(r) /\ ws_switch_auth_to(f, "pass") # 0
                              THEN [Switched(f, "pass") EXCEPT !.state = "inactive", !.sid = None]
                              ELSE Left)
  /\ sock' = [sock EXCEPT ![w] = None]
  /\ UNCHANGED <<config, entry, score, wrong, proved>>

\* Slip: the worker only takes note and waits for the loop of the tunnel.
handle_term_NoAlarm(r) == [r EXCEPT !.terminate = TRUE]

\* handle_term: the note for the loop, and an alarm for everywhere else.
handle_term(r) == [r EXCEPT !.terminate = TRUE, !.alarm = TRUE]

Term(w) ==
  /\ Running(w) /\ ~worker[w].terminate
  /\ Put(w, handle_term(worker[w]))
  /\ UNCHANGED <<config, sock, entry, score, wrong, proved>>

\* An answer that nobody reads is gone with the socket; a request is not.
Drop(w) ==
  sock' = [sock EXCEPT ![w] = IF sock[w] # None /\ sock[w].cmd \in {"init", "cont"} THEN @ ELSE None]

\* handle_alarm.
Alarm(w) ==
  /\ Running(w) /\ worker[w].alarm
  /\ Put(w, Left) /\ Drop(w)
  /\ UNCHANGED <<config, entry, score, wrong, proved>>

\* The client hangs up, asks for too much, or for what is not there.
Leave(w) ==
  /\ worker[w].pc = "http"
  /\ Put(w, Left)
  /\ UNCHANGED <<config, sock, entry, score, wrong, proved>>

\* The loop of the tunnel looks at terminate; other ends of it are in Tunnel.
TunnelEnds(w) ==
  /\ worker[w].pc = "tunnel" /\ worker[w].terminate
  /\ Put(w, Left)
  /\ UNCHANGED <<config, sock, entry, score, wrong, proved>>

SecMod(w) == SecAuthInit(w) \/ SecAuthCont(w) \/ SecAuthContNoSid(w)

Next ==
  \/ \E w \in Workers, a \in Addrs, c \in CertUsers \cup {None} : Accept(w, a, c)
  \/ \E w \in Workers : \E h \in Headers :
       \/ Form(w, h) \/ PostInit(w, h) \/ PostRefused(w, h) \/ Connect(w, h)
       \/ \E good \in BOOLEAN : PostCont(w, h, good)
  \/ \E w \in Workers :
       SecMod(w) \/ RecvReply(w) \/ Connected(w) \/ Term(w) \/ Alarm(w) \/ Leave(w) \/ TunnelEnds(w)

(***************************************************************************)
(* Signals are delivered and the loop of a tunnel turns.  Nothing is       *)
(* assumed of the client, of sec-mod or of main.                           *)
(***************************************************************************)
Spec ==
  /\ Init /\ [][Next]_vars
  /\ \A w \in Workers : WF_vars(Alarm(w)) /\ WF_vars(TunnelEnds(w))

TypeOK ==
  /\ config \in Configs
  /\ worker \in [Workers -> Worker] /\ entry \in [Sids -> Entry]
  /\ score \in [Addrs -> Nat] /\ wrong \in [Sids -> Nat]
  /\ proved \in [Sids -> SUBSET (Kinds \X (Users \cup {None}))]

(***************************************************************************)
(* Properties                                                              *)
(***************************************************************************)

\* One configured method was satisfied in full in the conversation of s.
Satisfied(s) ==
  \E k \in DOMAIN methods : \A t \in methods[k].type : <<t, entry[s].user>> \in proved[s]

\* A cookie is given only when one configured method was satisfied in full,
\* for the name the conversation began with, however the conversation moved
\* between connections, methods and modules.
CookieProven == \A s \in Issued : Satisfied(s)

\* The sum of the values of f on S.
Total(f, S) == MapThenSumSet(LAMBDA s : f[s], S)

\* The wrong answers one conversation can hold.
Limit(e) == IF Module(e) = "pam" THEN PamPrompts ELSE MaxTries

\* The conversations begun from an address in which every wrong answer is charged,
\* those of them that failed, and the wrong answers in them.
From(a) == {s \in Told : entry[s].addr = a /\ Module(entry[s]) # "pam"}
Failed(a) == {s \in From(a) : entry[s].status = "failed"}
Guesses(a) == Total(wrong, From(a))

\* The wrong answers sec-mod looks at stay bounded: MaxTries in a conversation, or
\* as many as the PAM stack prompts for, and once an address is banned one in each
\* conversation it had begun, from whatever address and connection the answers
\* come.  The second bound is not for PAM, which is charged once, when it fails.
GuessesBounded ==
  /\ \A s \in Sids : wrong[s] <= Limit(entry[s])
  /\ \A a \in Addrs :
       MaxBanScore > 0 /\ From(a) # {} => Guesses(a) < MaxBanScore + Cardinality(From(a))

\* No client holds a worker: with auth-timeout set a worker ends or reaches the
\* tunnel, and a worker told to stop ends, also when the login turns the alarm
\* off that was to end it.
LoginEnds ==
  \A w \in Workers :
    /\ config.timeout /\ Running(w) ~> worker[w].pc \in {"left", "tunnel"}
    /\ worker[w].terminate ~> ~worker[w].terminate

(***************************************************************************)
(* The inductive invariant                                                 *)
(***************************************************************************)

Replies == {"msg", "ok", "empty", "failed", "eof"}

\* What is in a socket: credentials fit what was asked for, and an ID is one
\* that sec-mod told.
Message ==
  {m \in [cmd : {"init"}, ip : Addrs \cup {None}, asked : SUBSET Kinds,
           user : Users \cup {None}, good : BOOLEAN, cert : Users \cup {None}] :
     m.good => "gssapi" \in m.asked}
    \cup [cmd : {"cont"}, sid : Told \cup {None}, good : BOOLEAN, kind : {"pass", "gssapi"}]
    \cup [cmd : Replies, sid : Told \cup {None}]

\* Every request that begins a conversation will find an unused entry.
ChannelInv ==
  /\ sock \in [Workers -> Message \cup {None}]
  /\ \A w \in Workers : /\ worker[w].sid \in Told \cup {None}
                        /\ worker[w].sel \in DOMAIN methods
  /\ Cardinality(Waiting) <= Cardinality(Unused)

\* A conversation under way has its certificate checked, and its wrong answers
\* are among its tries; one that has a cookie was satisfied.
EntryInv(s) ==
  LET e == entry[s] IN
  /\ e.status = "unused" => wrong[s] = 0 /\ ~e.issued /\ e.tries = 0
  /\ Continues(s) =>
       /\ e.method \in DOMAIN methods
       /\ "cert" \in methods[e.method].type => <<"cert", e.user>> \in proved[s]
       /\ wrong[s] <= e.tries /\ e.tries < Limit(e)
  /\ e.issued => Satisfied(s)
  /\ wrong[s] <= Limit(e)

\* Wrong answers are charged one by one until the ban, and from then on each
\* one ends its conversation.
ScoreInv(a) ==
  MaxBanScore > 0 =>
    /\ score[a] <= MaxBanScore
    /\ score[a] < MaxBanScore => Guesses(a) <= score[a]
    /\ score[a] = MaxBanScore => Guesses(a) < MaxBanScore + Cardinality(Failed(a))

LoginInv ==
  /\ TypeOK /\ ChannelInv
  /\ \A s \in Sids : EntryInv(s)
  /\ \A a \in Addrs : ScoreInv(a)

=============================================================================
