# Verification of ocserv (MyVPS-Config)

The repository is the configuration of a private server together with a full
copy of **ocserv 0.10.1**, the OpenConnect VPN server, under
`src/ocserv/Ocserv`. The program's own logic is in `src/ocserv/Ocserv/src`;
`gl/`, `libopts/`, `src/ccan`, `src/protobuf`, `src/http-parser` and the
`*.pb-c.*` files are vendored or generated, `src/Shadowsocks`, `src/ocserv/CA`
and `src/ocserv/Config` are data. File names below are relative to
`src/ocserv/Ocserv/src`.

## The system

ocserv is three kinds of process that share no memory:

* **main** (`main.c`, `main-*.c`, `ip-lease.c`, `tun.c`, `proc-search.c`):
  root; a `select` loop over the listening sockets, one command socket per
  worker, the socket to sec-mod and the control socket. It keeps the list and
  hash tables of `proc_st`, the lease table, the ban list and the TLS session
  cache.
* **worker** (`worker-*.c`): one unprivileged process per connection; HTTP
  authentication, then the tunnel over TLS and DTLS.
* **sec-mod** (`sec-mod*.c`, `auth/`, `acct/`, `sup-config/`): private keys,
  authentication modules, accounting, and the client database that outlives
  connections.

They talk over: the worker's command socket (worker <-> main), one socket pair
main <-> sec-mod on which *both* ends start requests, and sec-mod's UNIX socket
(worker -> sec-mod, one connection per request). Time enters through `time(0)`
and the maintenance alarms.

| component | state | operations | what makes it correct |
|---|---|---|---|
| ban list (`main-ban.c`) | `ban_db`: score, window start, expiration per address; `ws->ban_points` | charge, check, unban, cleanup | bans start, stand, are not prolonged, end |
| client database (`sec-mod-db.c`, `sec-mod-auth.c`) | `client_db`: status, cookie, idle clock, `in_use`, accounting flag, statistics | authenticate, session open / close, stats, cleanup | an entry lives as long as its sessions and cookie do, and no longer; accounting balances |
| sessions (`main.c`, `main-misc.c`, `main-auth.c`, `main-user.c`) | `proc_list`, SID table, `active_clients`, leases, script list | accept, cookie request, script exit, removal, occtl disconnect | every open is closed once, leases are exclusive and released, limits hold, killed procs go |
| command channel (`common.c`, `main-sec-mod-cmd.c`, `sec-mod.c`) | two byte streams | request, reply, ban charge | replies match requests, nobody waits for ever, lost synchronisation is fatal |
| IP leases (`ip-lease.c`, `icmp-ping.c`) | lease table | choose, steal, release | no address lent twice, leases in the user's network, the same address for a returning user |
| TLS session cache (`main-resume.c`) | `tls_db` | store, fetch, delete, expire | bounded, answers only what is stored |
| UDP forwarding (`main.c`) | `udp_fd_receive_time` | forward | a client that needs a new UDP session gets it |
| worker tunnel (`worker-vpn.c`) | TLS/DTLS state, DPD and MTU counters, bandwidth | packets, periodic check | dead peers are noticed, live ones kept |
| worker login (`worker-auth.c`, `worker-http.c`, `auth/`) | `auth_state`, method, SID, cookie; sec-mod's entry | HTTP dialogue, AUTH_INIT, AUTH_CONT | a cookie takes all credentials of a method, guesses are bounded, no worker is held for ever |
| processes (`main.c`, `sec-mod.c`) | who is alive, pending signals, configuration | start, SIGHUP, SIGTERM, SIGCHLD | the server stops as a whole, a reload reaches everyone, children are reaped |
| control (`main-ctl-*.c`, `occtl*.c`) | none | list, disconnect, unban, reload, stop | |

What is hard about it: steps of the three processes interleave at every
message; a worker may die at any moment; statistics travel on another socket
than the close of their session; a connection may be resumed while the old one
is still there; both ends of one socket start conversations and read it without
a timeout; clocks (scoring window, ban, cookie, slack) end in any order. The
hazards are listed, line by line, in `PROJECT.json`.

## Modules

| module | models |
|---|---|
| `BanList` | `main-ban.c` and its callers |
| `BanListProofs` | its theorems |
| `SecMod` | sec-mod's client database and the handlers that change it |
| `CookieTicket` | abstract specification of a redeemable cookie |
| `SecModProofs` | inductive invariant of `SecMod` |
| `SecModRefinement` | `SecMod` implements `CookieTicket` |
| `Sessions` | main, workers and (by extending `SecMod`) sec-mod together |
| `SessionsProofs` | inductive invariant of `Sessions` and its theorems |
| `CmdChannel` | the socket between main and sec-mod as a byte stream |
| `Tunnel` | the loop of a connected client's worker: DPD, DTLS, MTU discovery |
| `TunnelProofs` | inductive invariant of `Tunnel` and its theorems |
| `IpLease` | `ip-lease.c`: the search for addresses, theft, release |
| `LeasePool` | abstract specification of a pool of leases |
| `IpLeaseProofs` | inductive invariant of `IpLease`; it implements `LeasePool` |
| `WorkerChannel` | the socket between main and a worker: TLS session cache, cookie answer, UDP sockets |
| `WorkerChannelProofs` | inductive invariant of `WorkerChannel` and its theorems |
| `Login` | the login dialogue of worker, sec-mod and authentication modules |
| `LoginProofs` | inductive invariant of `Login` and its theorems |
| `Server` | the processes: start, reload, stop, reaping |
| `MC...` | instances for TLC |

**BanList.** `ban_db[ip]` is the hash table entry (`in_db` tells whether there is
one), `ws_points` the points in the worker, `verdict` the last answer of
`check_if_banned`. Each handler runs within one turn of main's loop, so each is
one action; the clock moves in `Tick` only. `main_up` becomes FALSE where
`CMD_BAN_IP` is answered through a null proc.

**SecMod.** One record per SID with the fields of `client_entry_st`. sec-mod
serves one request at a time; what a password module, the accounting server, the
per-user configuration or a socket answers is a nondeterministic choice. The
three counters of `stats_st` are treated alike by the code and are one number.
A cookie is the number of its generation: encryption makes each one different.
`holders[sid]` is not a variable of sec-mod: it counts the sessions main really
holds, and is what the counter `in_use` is compared with.

**Sessions.** `proc[p]` is a `proc_st` with what is left of its worker.
`session_open`/`session_close` block main, hence they are one step with sec-mod's
handler. Statistics go through the queue `reports`. A command that fails leaves
the proc in `removing`, which disables every other action of main until
`remove_proc` ran: main's loop does nothing in between, while workers and
sec-mod go on. Of the hash table's several procs with one SID,
`proc_search_sid` may return any.

**CmdChannel.** A message is a header and a body in one stream each way; a reader
that meets a header it does not wait for consumes the header only, and later
takes pieces of the body for headers. Bodies are counted in header-sized reads;
four are the shortest `BAN_IP` body, of about eleven bytes. `Turn` is `select`,
`ready` what it reported; main serves any number of worker commands in a turn, as
the code does. That number decides what a left-over body does: each request made
while the body is still there misses its answer and eats a read of it. The
properties speak of main's first `BodyReads` misses, for which some of the body
is left (`StillLost`). When a longer burst eats it up within one turn, they
say nothing, and the run goes through both outcomes: the stream falls back in step
with every answer one request behind, or sec-mod took the left-over bytes together
with the request for garbage, dropped them, and main waits for ever in
`recv_socket_msg`, which has no timeout there. Bytes of a ban's body never equal a
command main waits for, so a miss is always noticed; the last read of a
body may reach into the next header. What a garbled read drops is
over-approximated in `ServeGarbage`.

**Tunnel.** One worker after `connect_handler` entered its loop. A turn is a
`Wake` (`pselect` returned and `periodic_check` ran, one action per way it ends)
that puts the reported descriptors into `rfds`, and one step per handler, in the
code's order: tun, TLS, DTLS, command socket. Time stamps are modelled by their
ages, which saturate above the largest value any test distinguishes, so time is
unbounded; `gettime` is called once per turn, so ages grow in `pselect` and in a
stalled write only. `cstp_send` repeats a write until the client's end takes it:
`stalled` (it goes on afterwards) and `leaving` (it exits afterwards) are the
worker inside that loop, and only the client or TCP end it (`Unstall`). SIGTERM
is delivered inside `pselect` alone; afterwards SIGALRM ends the worker within
two seconds, which `Unstall` permits. The path may refuse a packet as too large
whenever it likes, and the record layer may take less after the handshake than
`DtlsSetup` asked for, but (assumed) no less than the least MTU. A session freed by `mtu_not_ok` stays in `ws->dtls_session`
(`dtls = "closed"`); any use of it is undefined, and the model then goes on or
becomes `crashed`. Whether a packet passes the bandwidth limit, is compressed or
renegotiates TLS is a choice. The code for GnuTLS up to 3.2.16 (`UP_DISABLED`
after 1000 discarded records) is not built.

**IpLease.** An address is a number, a network a block of them, so masking is a
remainder. `Candidates` is the walk of the search: the seed of the cookie, then
each time the hash of the last candidate; the hash is a constant the instance
chooses. A search is one step, as main does nothing else during it, ping
included. `is_ipv4_ok` takes the broadcast address from the bytes of a pointer;
`junk` is whatever that gives. An explicit address has no entry in the table
(`db = FALSE`). The search of `Sessions` (any free address, or failure) is what
`IpLease` allows it to be.

**WorkerChannel.** One stream each way between main and a worker. Every
operation of either end is an action; a reader that meets a message it does not
wait for leaves its body in the stream (`LeaveBody`) and the next read fails. The
cache is a sequence in the order of its hash chain, because entries of one ID
may be stored twice and only the first is found. A proc whose cookie was taken is
listed as failed while its connect script runs (the handler returned
`ERR_WAIT_FOR_SCRIPT`); a script that fails makes main answer the worker with a
refusal, and the proc stays listed until its worker left. A UDP packet is a hello, which
names its session, or data, which is given to the first proc with that address.

**Login.** The worker's `auth_state`, selected method, session ID and cookie on
one side and sec-mod's entry on the other, with one socket per message between
them. Every request may carry any session ID or cookie. The modules are `plain`
(radius counts its tries alike), `pam`, `gssapi` and none; a method is what
`figure_auth_funcs` accepts, at most one module and perhaps a certificate
(`Method`). What PAM or GSSAPI want next is a choice. Passwords and tokens are
right or wrong. A PAM stack may answer a wrong password with its next prompt
(`pam.c:251`), and sec-mod charges retries of `plain` and radius only
(`sec-mod-auth.c:328`): such an answer costs nothing. How many prompts a stack has
is its configuration, the constant `PamPrompts`. The bound on one conversation is
therefore `MaxTries`, or `PamPrompts` for PAM (`Limit`), and the bound on one
address leaves PAM's answers out. A worker may die while sec-mod works; its
answer is then lost and the entry fails.

**Server.** main's loop is cut at the points where a signal may arrive: `pselect`
lets pending signals become flags, `check_other_work` serves them in its order.
A child runs with main's handlers until it installs its own; what comes before
is lost. When main is gone, with every worker and script that inherited its end, sec-mod's
command socket is at its end of file (`CmdEof`): it is readable in every round,
`serve_request` returns -1 where only `ERR_BAD_COMMAND` ends the process
(`sec-mod.c:399`, `sec-mod.c:664`), and `pselect` with a ready descriptor need not
deliver a pending signal. From then on sec-mod may stop but need not
(`SecModTurn`). `crashed` records that main ended through a failure, not by its
final wait for the children; the kernel then sends sec-mod a SIGTERM.

## Runs

| run | shows |
|---|---|
| `ban_list` | `LockoutBounded`, `BanStands`, `BanNotExtended`, and that bans end (`BanEnds`) |
| `sec_mod` | held entries stay, counters are exact, accounting balances, totals only grow, refinement of `CookieTicket` |
| `sessions` | with a connect script and accounting: the cookie promise holds for main's own sessions (`CookiesServed`), leases are exclusive, procs told to leave are removed |
| `session_leases` | three procs under one cookie: opens and procs match, leases exclusive and never leaked, connected clients have one, `max-same-clients` |
| `ip_lease` | refinement of `LeasePool`, leases in their network, the same address again (`predictable-ips`) |
| `cmd_channel` | while a left-over ban body is not used up: no endless wait, replies are never taken for those of another request, a lost place ends the server |
| `worker_channel` | main and worker agree on the login, the TLS session cache is counted and scoped right, a broken UDP session is replaced |
| `login` | a cookie takes all credentials of one method, wrong answers that are counted are bounded, workers are not held for ever |
| `server` | SIGTERM stops main and the workers, and sec-mod and scripts too unless main crashed; SIGHUP reaches main and sec-mod; dead workers, scripts and sec-mod are reaped |
| `tunnel` | silence on TLS is bounded, clients are asked before they are dropped, a dead UDP path is left |
| `tunnel_mtu` | the MTU stays as agreed, every packet that is too large lowers it or ends DTLS, the search ends; no state uses a closed session |
| `tunnel_closed` | a violation: when the MTU search gives up, the freed DTLS session is used again, by the restarted handshake, by the next MTU change, by the loop after a new client hello |

**Bounds.** `ban_list`: one address (addresses do not interact), clock to 9 with a
ban of 2 and a window of 3, so that window and ban end in every order and a
second ban follows the first. `sec_mod`: two SIDs, timeout and slack 1, clock to
4, two sessions per SID, two cookies: an entry can expire, be in its slack, be
reclaimed and be created again. `sessions`: two procs, one address, a cookie
that expires, accounting, roaming checks and a connect script; reports carry no
bytes, since totals are the subject of `sec_mod`. `session_leases`: three procs
for two addresses and one cookie, `max-same-clients` 2: theft chains and
exhaustion happen. With `MaxTotal = 0` a session whose report was served is not
closed again within the bound. `ip_lease`: 8 addresses, two users in overlapping
networks, one with an explicit IPv6 address, three procs, three candidates per
search, a hash that reaches every address and one that runs into a cycle: full
networks, exhausted searches and half-failed ones happen. `cmd_channel`: six
requests against three charges and bodies of four reads, so that the body is used
up and the edge of what the properties promise is crossed. `worker_channel`: one slot used again and again
by clients of two addresses, queues of two messages, two session IDs, a cache of one
session, all times 1. One slot is enough for `LoginAgreed` and `UdpComesBack`, which are
about one worker; the cache outlives the slot's workers. Duplicates in the cache and
deletions that cross are out of this run: `CacheIsSound` is proved for caches
of any size. `login`: one connection
after another, two conversations, two lists of methods, two tries, two PAM prompts,
a ban after two wrong answers, three requests on a connection: both bounds on
wrong answers are reached exactly. `server`: one worker, one script, two
changes of the file, one of them possibly a bad one, three rounds of waiting.
Statistics are bounded by `MaxBytes`, `MaxTotal`, `MaxReports`. `tunnel`: DPD
period, check interval and select timeout 1, so that the two DPD limits, the
check and a stalled write end in every order; one MTU. `tunnel_mtu`: an agreed
MTU of a few units above the least one, so that the search has good, bad and
unknown sizes on both sides. Every bound is a constant named in a guard; ages
(`Tunnel`, `WorkerChannel`) saturate instead. Where deadlock is not checked the
bounded clocks and counters come to their end, or main does terminate.

**Fairness.** `BanList`: the clock moves. `CmdChannel`: main and sec-mod keep
running while they have something to read (weak fairness). `Sessions`: a
SIGTERMed worker leaves, sec-mod serves its backlog, main removes a failed proc,
and a closed command socket is eventually served: strong fairness, because every
turn of main's loop visits all sockets that `select` reported, however busy the
others are. The worker needs the strong form only because of `MaxReports`.
That a SIGTERMed worker leaves is an assumption there: it blocks SIGTERM outside
of `pselect`, so one whose write stalls leaves when TCP gives up. `Tunnel`: the
loop and its handlers go on (weak fairness of `Wake`, `Serve`, `Leave`) and time
passes in `pselect` however often it returns (strong fairness of `Tick`); nothing
is assumed of `Unstall`. `WorkerChannel`: main and workers read what is in their
sockets, time passes, and a client that wants UDP repeats its hello; a connect
script need not end. `Login`: alarms go off and the tunnel's loop turns; nothing
is assumed of sec-mod, main or the client. `Server`: main is scheduled and gets to
see a signal (its descriptors are not ready in every single round), sec-mod likewise while
its command socket is not at end of file, and a worker that was told to leave does (its alarm of two seconds, or
the closed command socket); no script need ever end. Apart from the repeated
hello nothing is assumed of clients.

## Proofs

The theorems hold for every value of the constants that the named assumptions of
the modules allow (`BanAssumption`, `SecModAssumption`, `LoginAssumption`, ...):
times, points and bounds are natural numbers, the sets are arbitrary, and finite
where something is counted in them (procs, workers, SIDs). No bound of a run is
used; where a bound such as `MaxReports` appears in a guard it is any number.

* `BanListProofs`: the type invariant with `LockoutBounded` is inductive; the
  action properties follow step by step, using that `Charged` neither moves the
  expiration nor lowers the score of an entry in force.
* `SecModProofs`: the four invariants are not inductive alone. `SecModInv` ties
  one entry, main's sessions and accounting together (`EntryInv`): clock stopped
  iff in use; main's sessions at most `in_use`, exactly that while the entry is
  authenticated; accounting sessions equal the flag; entries under
  authentication have no users; clocks do not lie in the future. One lemma per
  handler shows that it is preserved.
* `SecModRefinement`: under `SecModInv` every step is a step of `CookieTicket`
  or a stutter. The users of a ticket are main's sessions, not `in_use`, which is
  why the exactness of the counter is needed; that a ticket dropped by maintenance
  could not be redeemed needs `AuthSlack >= 0` and the clock part.
* `TunnelProofs`: for all timeouts, MTUs and segment sizes (`TunnelAssumption`;
  `MaxAge` lies above what the tests distinguish). `SilenceBounded` is not
  inductive: `ClockInv` adds that the check is overdue by no more than the turn
  has lasted and that at the last check the silence was within two DPD periods,
  or within three if a DPD was sent. `MtuInv` keeps good, bad and current MTU
  between the least and the agreed one; the good and bad ones only while DTLS is
  set up, since they are 0 before. `mtu_ok` and `mtu_not_ok` have a lemma each.
* `IpLeaseProofs`: `IpLeaseInv` says that the lease table is the disjoint union of
  the entries of the procs, that every lease in it lies in its user's network, and
  (`Remembered`) that what a user had last is what the search gave under the
  conditions recorded with it. `PoolSpec` needs the first part: a search that
  finds an address not in the table found one nobody holds. `StaysTheSame` needs
  the last, and that the walk of candidates is a function of its seed.
* `SessionsProofs`: `SessionsInv` extends `SecModInv` by the state of each proc
  (`ProcInv`: what a proc in each phase holds), of the tables (`ShapeInv`) and by
  counts (`CountInv`: the sessions open for a SID are the procs that hold one,
  `active_clients` is the number of listed procs). Counts are cardinalities of sets
  of procs, so that each step adds or removes one element. `CookiesAreServed` says of
  main's sessions what `ImplementsTicket` says of the sessions sec-mod was asked for: it
  takes the equality of the two (`OpenedAreHeld`), which fails as soon as one path of
  main forgets a `session_close`.
* `WorkerChannelProofs`: `WorkerChannelInv` says slot by slot which messages can be
  in the two streams in each state of worker and main (`SlotInv`), what an answer
  from the cache and an answer to the cookie are worth, and that the cache is as
  long as it is counted. Lemmas about appending to and reading from a stream do the
  rest.
* `LoginProofs`: `LoginInv` says of an entry under way that its certificate was
  shown for its name and that its wrong answers are among its tries or prompts
  (`EntryInv`), of an address that wrong answers, those given to PAM aside, are charged one by one until the ban and end their
  conversation from then on (`ScoreInv`), and of the sockets that they name entries
  sec-mod made (`ChannelInv`). The sum of wrong answers, a fold over the
  conversations of an address, is shown to be the size of a set with one element
  per wrong answer (`SumIsCount`). `CookieProven` needs that a method has at most
  one module (`Method`): it is false for lists `figure_auth_funcs` does not build.
* `TotalsKept` (`SecModProofs`) is proved handler by handler.

Where a proof needs induction over numbers (the walk of candidates, the fold, the
expiry of the cache), it takes a least counterexample
(`NatLessThanWellFounded`, `WFMin`), since induction schemes cannot be
instantiated by the provers.

Only model-checked: liveness (`BanEnds`, `KilledIsRemoved`, `WaitsEnd`,
`DesyncStops`, `UdpFallback`, `MtuSettles`, `UdpComesBack`, `LoginEnds`,
`ServerStops`, `ReloadReaches`, `ZombiesReaped`), which the prover does not
handle, and everything about `CmdChannel` and `Server`. Theorems without a
property of a run state an inductive invariant, a type, or a consequence worth
having by itself (`BannedRefused`, `IdleClock`, `AddressLentOnce`,
`ActiveClientsExact`).

## Where the code differs from its documents

`tunnel_closed` exhibits one difference as a run (`findings` in `PROJECT.json`
quotes it). The models contain these too; no property asserts the contrary:

* `doc/sample.config` (255-257) says that an address over the limit is banned for
  `min-reauth-time` seconds. The score is emptied when `ban-reset-time` has passed
  since the window began (`main-ban.c:134`), also in the middle of a ban, which
  then is over.
* `sec-mod.h:68` calls `in_use` the "counter of users of this structure". It is
  lowered at the close of a completed entry only: one that was marked failed
  while in use keeps its count and is never reclaimed.
* A ban charge of sec-mod that crosses a session request of main is taken by
  neither (`common.c:381`): main finds a message it does not expect and terminates
  (`main.c:1260`).
* The comment in `ip-lease.c:187` that explicit addresses are required to be odd
  is not what the code does; explicit addresses are not entered in the lease
  table either.
* The IPv4 broadcast address is computed from the bytes of a pointer
  (`ip-lease.c:128`), so it can be lent.
* The seed is placed one byte too high in an IPv6 address (`ip-lease.c:446`):
  in a network of 120 bits or more every search begins with the address of the
  network, and all users share one walk.
* A challenge of a radius server is charged as a wrong password
  (`sec-mod-auth.c:329`): `Login` treats both as one more try.

## Hazards no property covers

`PROJECT.json` lists the hazards the properties are for. These are real but outside of
what the models can decide, and are noted for whoever changes the code:

* `e->score` (`main-ban.c:148`) has no upper limit and would wrap after 2^32 points in
  one window; the model bounds it with `MaxScore`.
* The cookie's timeout counts from the creation of the entry (`sec-mod-db.c:118`), so a
  slow login may leave a cookie that is refused at its first use.
* A report served after `session_close` is added again to `saved_stats` by the next
  close (`sec-mod-auth.c:548`): the total counts the same bytes twice.
* `open_session` is called through `e->module` (`sec-mod-auth.c:453`), which is null
  for certificate-only authentication.
* PAM and GSSAPI may rename the user after the certificate's name was compared
  (`sec-mod-auth.c:347`).
* `handle_alarm` calls `exit_worker`, which allocates memory, from a signal handler
  (`worker-vpn.c:87`).
* `remove_proc` signals a pid that may have been reaped (`main-misc.c:176`).
* On shutdown sec-mod is told to end before the sessions are closed (`main.c:645`).
* sec-mod may outlive a main that crashed or failed to reload, spinning on a command
  socket at its end of file (`sec-mod.c:664`): the signal of its parent's death may stay
  pending for as long, or be lost before its handlers are installed (`sec-mod.c:526`).
  `ServerStops` excepts that (`crashed`).
* Wrong answers that a PAM stack follows by another prompt are not charged to
  the address (`pam.c:251`, `sec-mod-auth.c:328`).
* A burst of session commands that eats up a left-over ban body within one turn puts
  answers one request behind, or leaves main waiting (`common.c:366`); see `CmdChannel`.

## Plan

1. done: `BanList`, `SecMod`/`CookieTicket`, `Sessions`, `CmdChannel`, `Tunnel`,
   and the proofs of `BanList`, `SecMod` and `Tunnel`.
2. done: `IpLease`/`LeasePool`, `WorkerChannel` (TLS session cache, UDP
   forwarding), `Login`, `Server` (shutdown and reload).
3. done: proofs that `IpLease` implements `LeasePool`, of the safety of
   `Sessions`, `WorkerChannel` and `Login`, and of `TotalsKept`. To do:
   `AnswerIsOwn` of `CmdChannel` within its scope (needed: the exact contents of both
   streams while they are in step, and that each miss leaves some of a body until
   `BodyReads` misses).
4. Possible later: `iroutes`, private-key requests of sec-mod, bandwidth limits.

## Not modelled

Cryptography, TLS, parsing of HTTP, protobuf and configuration files, the
libraries behind the authentication modules, device and route ioctls, utmp,
logging, `ocpasswd`: pure input/output or external libraries. Memory exhaustion
(`talloc` returning null) is left out everywhere. `PROJECT.json` has the reason for
each component.

The repository has about 79,000 lines of C, of which some 23,000 are ocserv's own;
the rest (gnulib, libopts, ccan, http-parser, protobuf-c and the code generated
from `ipc.proto`, `ctl.proto` and the option definitions) is third-party or
generated code with no behaviour of the system in it. Of ocserv's own lines the
models cover about a third; what remains is mostly parsing, formatting and
the control tool's output. The share of all lines is therefore small by
construction and is not raised by modelling vendored libraries.
