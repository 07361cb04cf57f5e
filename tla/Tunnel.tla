------------------------------- MODULE Tunnel -------------------------------
(***************************************************************************)
(* The worker of a connected client (worker-vpn.c, worker-misc.c): its     *)
(* loop over the tun device, the TLS and the DTLS channel and main's       *)
(* command socket; dead peer detection, the idle timeout, the fallback     *)
(* from DTLS to TLS and the search for the MTU.                            *)
(*                                                                         *)
(* One turn of the loop is a Wake (pselect returned, periodic_check runs)  *)
(* followed by the handlers of the descriptors that were reported, in the  *)
(* code's order.  A timestamp ws->last_x is modelled by its age; an age    *)
(* saturates above the largest value that a test distinguishes.            *)
(***************************************************************************)
EXTENDS Integers

CONSTANTS
  Dpd,                   \* dpd, 0: no dead peer detection
  IdleTimeout,           \* idle-timeout, 0: none
  TryMtu,                \* try-mtu-discovery
  PERIODIC_CHECK_TIME,
  SelectTime,            \* the timeout given to pselect
  UDP_SWITCH_TIME,
  MIN_MTU,
  AgreedMtu,             \* conn_mtu as told to the client
  Mss,                   \* MTUs that the TCP segment size may leave
  UdpOffered,            \* the client and the configuration want DTLS
  MaxAge                 \* bound: the ages of TLS silence, check and turn

DPD_TRIES     == 2
DPD_MAX_TRIES == 3

ASSUME TunnelAssumption ==
  /\ Dpd \in Nat /\ IdleTimeout \in Nat /\ TryMtu \in BOOLEAN
  /\ PERIODIC_CHECK_TIME \in Nat /\ SelectTime \in Nat /\ UDP_SWITCH_TIME \in Nat
  /\ MIN_MTU \in Nat /\ AgreedMtu \in Nat /\ Mss \subseteq Nat
  /\ UdpOffered \in BOOLEAN
  /\ MaxAge \in Nat
  /\ MaxAge > DPD_MAX_TRIES * Dpd + PERIODIC_CHECK_TIME + SelectTime

\* Where the other ages saturate: above what they are compared with.
MaxUdpAge  == DPD_MAX_TRIES * Dpd + 1
MaxNcAge   == IdleTimeout + 1
MaxRecvAge == UDP_SWITCH_TIME + 1

VARIABLES
  worker,     \* "running"; "stalled", "leaving": it cannot write to the TLS
              \* channel, and will then go on or exit; "exited"; "crashed"
  terminate,  \* the flag of that name
  rfds,       \* descriptors of this turn that are still to be served
  udp_state,  \* the state of the DTLS channel
  dtls,       \* ws->dtls_session: "none", "open", or "closed": a dangling pointer
  mtu,        \* conn_mtu, last_good_mtu, last_bad_mtu
  age,        \* of last_msg_tcp, last_msg_udp, last_nc_msg, udp_recv_time,
              \* last_periodic_check and of the last turn
  probed,     \* a DPD was sent on TLS and nothing was received there since
  peer        \* "alive"; "tcp": its datagrams no longer arrive; "dead"

vars == <<worker, terminate, rfds, udp_state, dtls, mtu, age, probed, peer>>

Fds       == {"tun", "tls", "dtls", "cmd"}
UdpStates == {"UP_DISABLED", "UP_WAIT_FD", "UP_SETUP", "UP_HANDSHAKE",
              "UP_INACTIVE", "UP_ACTIVE"}

\* udp_state > UP_WAIT_FD
HasUdpFd == udp_state \notin {"UP_DISABLED", "UP_WAIT_FD"}

TypeOK ==
  /\ worker \in {"running", "stalled", "leaving", "exited", "crashed"}
  /\ terminate \in BOOLEAN
  /\ rfds \subseteq Fds
  /\ udp_state \in UdpStates
  /\ dtls \in {"none", "open", "closed"}
  /\ mtu \in [conn : Nat, good : Nat, bad : Nat]
  /\ age \in [tcp : 0 .. MaxAge, check : 0 .. MaxAge, wake : 0 .. MaxAge,
              udp : 0 .. MaxUdpAge, nc : 0 .. MaxNcAge, recv : 0 .. MaxRecvAge]
  /\ probed \in BOOLEAN
  /\ peer \in {"alive", "tcp", "dead"}

Smaller(a, b) == IF a < b THEN a ELSE b
Larger(a, b)  == IF a < b THEN b ELSE a

(***************************************************************************)
(* The search for the MTU                                                  *)
(***************************************************************************)

\* mtu_discovery_init
mtu_discovery_init(m) == [conn |-> m, good |-> m, bad |-> m]

\* Slip: the MTU that failed is not noted.
mtu_not_ok_Forgets(m) ==
  LET good == IF m.good >= m.conn THEN Larger((2 * m.conn) \div 3, MIN_MTU) ELSE m.good
  IN  [m EXCEPT !.conn = good, !.good = good]

\* Slip: no guess is made below an MTU that was good before.
mtu_not_ok_NoGuess(m) == [m EXCEPT !.conn = m.good, !.bad = m.conn]

\* mtu_not_ok when it succeeds.
mtu_not_ok(m) ==
  LET good == IF m.good >= m.conn THEN Larger((2 * m.conn) \div 3, MIN_MTU) ELSE m.good
  IN  [conn |-> good, good |-> good, bad |-> m.conn]

\* mtu_not_ok gives up and closes the DTLS session.
GivesUp(m) == m.good = MIN_MTU

\* mtu_ok
mtu_ok(m) ==
  IF m.bad \in {m.conn, m.conn + 1} THEN m
  ELSE [m EXCEPT !.good = m.conn, !.conn = (m.conn + m.bad) \div 2]

\* Slip: DTLS is closed but stays in use.
MtuNotOk_StaysActive(up) ==
  /\ udp_state' = up
  /\ IF GivesUp(mtu)
     THEN mtu' = [mtu EXCEPT !.bad = mtu.conn] /\ dtls' = "closed"
     ELSE mtu' = mtu_not_ok(mtu) /\ UNCHANGED dtls

\* mtu_not_ok as a step in state up: the MTU is lowered or DTLS disabled.
MtuNotOk(up) ==
  IF GivesUp(mtu)
  THEN /\ mtu' = [mtu EXCEPT !.bad = mtu.conn]
       /\ udp_state' = "UP_DISABLED"
       /\ dtls' = "closed"
  ELSE /\ mtu' = mtu_not_ok(mtu)
       /\ udp_state' = up
       /\ UNCHANGED dtls

(***************************************************************************)
(* The TLS channel.  cstp_send does not return before the client's side    *)
(* took everything, or TCP gave up.                                        *)
(***************************************************************************)
SendAndGoOn == worker' \in {"running", "stalled", "exited"}
SendAndExit == worker' \in {"leaving", "exited"}

\* The client reads again, or TCP gives up on it.
Unstall ==
  /\ worker \in {"stalled", "leaving"}
  /\ \/ peer # "dead" /\ worker' = IF worker = "stalled" THEN "running" ELSE "exited"
     \/ worker' = "exited"
  /\ UNCHANGED <<terminate, rfds, udp_state, dtls, mtu, age, probed, peer>>

(***************************************************************************)
(* The beginning of a turn                                                 *)
(***************************************************************************)

\* Descriptors that may be reported: by select or, while the client hello that
\* main passed on is still unread, without it (TLS records may be pending too).
Ready ==
  (IF peer = "dead" THEN {} ELSE {"tls"}) \cup
  (IF udp_state = "UP_SETUP" THEN {"dtls"}
   ELSE {"tun", "cmd"} \cup (IF HasUdpFd /\ peer = "alive" THEN {"dtls"} ELSE {}))

\* The loop looks for pending records: in a freed session after a new client
\* hello set UP_SETUP.
LooksIntoFreed == HasUdpFd /\ dtls = "closed"

Begin(R) ==
  /\ worker = "running"
  /\ rfds = {}
  /\ ~terminate
  /\ R \subseteq Ready
  /\ R = {} => age.wake >= SelectTime
  /\ rfds' = R
  /\ UNCHANGED peer

Due == age.check >= PERIODIC_CHECK_TIME

Crash(R) ==
  /\ Begin(R)
  /\ LooksIntoFreed
  /\ worker' = "crashed"
  /\ UNCHANGED <<terminate, udp_state, dtls, mtu, age, probed>>

\* periodic_check returns at once.
WakeEarly(R) ==
  /\ Begin(R)
  /\ ~Due
  /\ age' = [age EXCEPT !.wake = 0]
  /\ UNCHANGED <<worker, terminate, udp_state, dtls, mtu, probed>>

IdleOut == IdleTimeout > 0 /\ age.nc > IdleTimeout

WakeIdle(R) ==
  /\ Begin(R)
  /\ Due
  /\ IdleOut
  /\ terminate' = TRUE
  /\ age' = [age EXCEPT !.wake = 0, !.check = 0]
  /\ UNCHANGED <<worker, udp_state, dtls, mtu, probed>>

\* Slip: the client that answers nothing is asked for ever.
SilentFor_Never(tries) == tries = DPD_TRIES /\ Dpd > 0 /\ age.tcp > tries * Dpd

\* Slip: the client is dropped when its first DPD is due.
SilentFor_Twice(tries) == Dpd > 0 /\ age.tcp > DPD_TRIES * Dpd

\* Nothing was received on TLS for so many DPD periods.
SilentFor(tries) == Dpd > 0 /\ age.tcp > tries * Dpd

\* Slip: the silence of DTLS is measured on the TLS channel.
UdpSilentFor_Tcp(tries) ==
  udp_state = "UP_ACTIVE" /\ Dpd > 0 /\ age.tcp > tries * Dpd

UdpSilentFor(tries) == udp_state = "UP_ACTIVE" /\ Dpd > 0 /\ age.udp > tries * Dpd

\* Sending the DPDs may fail for good.
WakeFails(R) ==
  /\ Begin(R)
  /\ Due /\ ~IdleOut
  /\ UdpSilentFor(DPD_TRIES) \/ SilentFor(DPD_TRIES)
  /\ worker' = "exited"
  /\ UNCHANGED <<terminate, udp_state, dtls, mtu, age, probed>>

WakeTearDown(R) ==
  /\ Begin(R)
  /\ Due /\ ~IdleOut
  /\ SilentFor(DPD_TRIES) /\ SilentFor(DPD_MAX_TRIES)
  /\ SendAndExit
  /\ UNCHANGED <<terminate, udp_state, dtls, mtu, age, probed>>

\* The rest of periodic_check: DPDs are sent, a silent DTLS channel becomes
\* inactive, and the MTU follows the TCP segment size.
WakeCheck(R) ==
  /\ Begin(R)
  /\ Due /\ ~IdleOut
  /\ ~(SilentFor(DPD_TRIES) /\ SilentFor(DPD_MAX_TRIES))
  /\ IF SilentFor(DPD_TRIES)
     THEN worker' \in {"running", "stalled"} /\ probed' = TRUE
     ELSE UNCHANGED <<worker, probed>>
  /\ udp_state' = IF UdpSilentFor(DPD_MAX_TRIES) THEN "UP_INACTIVE" ELSE udp_state
  /\ age' = [age EXCEPT !.wake = 0, !.check = 0]
  /\ \E m \in Mss : mtu' = [mtu EXCEPT !.conn = Smaller(@, m)]
  /\ UNCHANGED <<terminate, dtls>>

\* mtu_set of that check hands the MTU to a freed session.
WakeCrashes(R) ==
  /\ Begin(R)
  /\ Due /\ ~IdleOut
  /\ dtls = "closed"
  /\ \E m \in Mss : m < mtu.conn
  /\ worker' = "crashed"
  /\ UNCHANGED <<terminate, udp_state, dtls, mtu, age, probed>>

Wake ==
  \E R \in SUBSET Fds :
    \/ Crash(R) \/ WakeEarly(R) \/ WakeIdle(R) \/ WakeFails(R)
    \/ WakeTearDown(R) \/ WakeCheck(R) \/ WakeCrashes(R)

(***************************************************************************)
(* The handlers of a turn                                                  *)
(***************************************************************************)
Before ==
  [tun |-> {}, tls |-> {"tun"}, dtls |-> {"tun", "tls"}, cmd |-> {"tun", "tls", "dtls"}]

Serving(fd) ==
  /\ worker = "running"
  /\ fd \in rfds
  /\ rfds \cap Before[fd] = {}
  /\ UNCHANGED <<terminate, peer>>

Served(fd) == Serving(fd) /\ rfds' = rfds \ {fd}

Established == udp_state \in {"UP_ACTIVE", "UP_INACTIVE"}

\* Any handler may meet an error, or a message, that ends the worker; a DTLS
\* handshake only disables DTLS.
HandlerExits(fd) ==
  /\ Served(fd)
  /\ fd = "dtls" => Established \/ udp_state = "UP_SETUP"
  /\ worker' = "exited"
  /\ UNCHANGED <<udp_state, dtls, mtu, age, probed>>

\* There was nothing to read; the packet was over the bandwidth limit; TLS was
\* renegotiated; DTLS was disabled earlier in the turn; main passed on a new
\* socket of the same DTLS session.
HandlerIdle(fd) ==
  /\ Served(fd)
  /\ fd = "dtls" => ~HasUdpFd
  /\ UNCHANGED <<worker, udp_state, dtls, mtu, age, probed>>

NoteData(a) == [a EXCEPT !.nc = 0]

\* tun_mainloop over TLS only.
TunOverTls ==
  /\ Served("tun")
  /\ udp_state # "UP_ACTIVE"
  /\ SendAndGoOn
  /\ age' = NoteData(age)
  /\ UNCHANGED <<udp_state, dtls, mtu, probed>>

\* A packet goes out over DTLS; one that fills the MTU shows that it is good.
TunOverDtls(full) ==
  /\ Served("tun")
  /\ udp_state = "UP_ACTIVE"
  /\ mtu' = IF TryMtu /\ full THEN mtu_ok(mtu) ELSE mtu
  /\ age' = NoteData(age)
  /\ UNCHANGED <<worker, udp_state, dtls, probed>>

\* It is too large for the path, which may change at any time: the MTU is
\* corrected and TLS is used.
TunTooLarge ==
  /\ Served("tun")
  /\ udp_state = "UP_ACTIVE"
  /\ MtuNotOk(udp_state)
  /\ SendAndGoOn
  /\ age' = NoteData(age)
  /\ UNCHANGED probed

ServeTun ==
  \/ TunOverTls
  \/ \E full \in BOOLEAN : TunOverDtls(full)
  \/ TunTooLarge

Heard(a) == [a EXCEPT !.tcp = 0]

\* parse_cstp_data of a control packet; a DPD is answered.
TlsControl ==
  /\ Served("tls")
  /\ SendAndGoOn
  /\ age' = Heard(age)
  /\ probed' = FALSE
  /\ UNCHANGED <<udp_state, dtls, mtu>>

\* parse_cstp_data of a data packet: the client switched to TLS.
TlsData ==
  /\ Served("tls")
  /\ age' = NoteData(Heard(age))
  /\ probed' = FALSE
  /\ udp_state' = IF udp_state = "UP_ACTIVE" /\ age.recv > UDP_SWITCH_TIME
                  THEN "UP_INACTIVE" ELSE udp_state
  /\ UNCHANGED <<worker, dtls, mtu>>

ServeTls == TlsControl \/ TlsData

\* dtls_mainloop of an established session: no data or a renegotiation, a
\* packet over the bandwidth limit, a control packet, data.
DtlsNothing ==
  /\ Served("dtls")
  /\ Established
  /\ age' = [age EXCEPT !.recv = 0]
  /\ UNCHANGED <<worker, udp_state, dtls, mtu, probed>>

DtlsPacket ==
  /\ Served("dtls")
  /\ Established
  /\ udp_state' = "UP_ACTIVE"
  /\ \/ age' = [age EXCEPT !.recv = 0]
     \/ age' = [age EXCEPT !.recv = 0, !.udp = 0]
     \/ age' = NoteData([age EXCEPT !.recv = 0, !.udp = 0])
  /\ UNCHANGED <<worker, dtls, mtu, probed>>

\* The answer to a DPD is too large: it is sent again, also when mtu_not_ok
\* closed the session.
DtlsDpdTooLarge ==
  /\ Served("dtls")
  /\ Established
  /\ MtuNotOk("UP_ACTIVE")
  /\ age' = [age EXCEPT !.recv = 0, !.udp = 0]
  /\ IF GivesUp(mtu) THEN worker' \in {"running", "crashed"} ELSE UNCHANGED worker
  /\ UNCHANGED probed

\* setup_dtls_connection
DtlsSetup ==
  /\ Served("dtls")
  /\ udp_state = "UP_SETUP"
  /\ udp_state' = "UP_HANDSHAKE"
  /\ dtls' = "open"
  /\ mtu' = mtu_discovery_init(mtu.conn)
  /\ UNCHANGED <<worker, age, probed>>

\* The handshake goes on, fails, or completes.
HandshakeGoesOn ==
  /\ Served("dtls")
  /\ udp_state = "UP_HANDSHAKE"
  /\ udp_state' \in {"UP_HANDSHAKE", "UP_DISABLED"}
  /\ UNCHANGED <<worker, dtls, mtu, age, probed>>

\* Slip: what the record layer can take is used as it is.
DataMtu_Raw(m) == m

\* Slip: the overhead, here 4, is subtracted once more.
DataMtu_Overhead(m) == Smaller(m, mtu.conn) - 4

\* The MTU after the handshake, m being what the record layer can take.
DataMtu(m) == Smaller(m, mtu.conn)

\* The record layer may take less than DtlsSetup asked for, when a record costs
\* more than crypto_overhead says; all that is more counts alike.  Assumed is
\* that it takes no less than the least MTU.
HandshakeCompletes ==
  /\ Served("dtls")
  /\ udp_state = "UP_HANDSHAKE"
  /\ udp_state' = "UP_ACTIVE"
  /\ \E m \in Smaller(MIN_MTU, mtu.conn) .. mtu.conn + 1 :
       mtu' = mtu_discovery_init(DataMtu(m))
  /\ UNCHANGED <<worker, dtls, age, probed>>

\* GNUTLS_E_LARGE_PACKET: the handshake is tried again, also when mtu_not_ok
\* closed the session.
HandshakeTooLarge ==
  /\ Serving("dtls")
  /\ udp_state = "UP_HANDSHAKE"
  /\ MtuNotOk(udp_state)
  /\ IF GivesUp(mtu)
     THEN worker' \in {"running", "crashed"} /\ rfds' = rfds \ {"dtls"}
     ELSE UNCHANGED <<worker, rfds>>
  /\ UNCHANGED <<age, probed>>

ServeDtls ==
  \/ DtlsNothing \/ DtlsPacket \/ DtlsDpdTooLarge \/ DtlsSetup
  \/ HandshakeGoesOn \/ HandshakeCompletes \/ HandshakeTooLarge

\* handle_worker_commands: a client hello arrived on UDP.
CmdHello ==
  /\ Served("cmd")
  /\ UdpOffered
  /\ peer = "alive"
  /\ udp_state' = "UP_SETUP"
  /\ UNCHANGED <<worker, dtls, mtu, age, probed>>

\* main is gone.
CmdParentGone ==
  /\ Served("cmd")
  /\ SendAndExit
  /\ UNCHANGED <<udp_state, dtls, mtu, age, probed>>

ServeCmd == CmdHello \/ CmdParentGone

Serve ==
  \/ \E fd \in Fds : HandlerExits(fd) \/ HandlerIdle(fd)
  \/ ServeTun \/ ServeTls \/ ServeDtls \/ ServeCmd

\* The top of the loop with terminate set: a last message, then the exit.
Leave ==
  /\ worker = "running"
  /\ rfds = {}
  /\ terminate
  /\ SendAndExit
  /\ UNCHANGED <<terminate, rfds, udp_state, dtls, mtu, age, probed, peer>>

\* SIGTERM is only delivered within pselect.
SigTerm ==
  /\ worker = "running"
  /\ rfds = {}
  /\ ~terminate
  /\ terminate' = TRUE
  /\ UNCHANGED <<worker, rfds, udp_state, dtls, mtu, age, probed, peer>>

(***************************************************************************)
(* The surroundings                                                        *)
(***************************************************************************)
Older(a, cap) == IF a < cap THEN a + 1 ELSE a

\* Time passes in pselect, which returns after SelectTime, or while the worker
\* is stalled.
Tick ==
  /\ \/ worker = "running" /\ rfds = {} /\ ~terminate /\ age.wake < SelectTime
     \/ worker \in {"stalled", "leaving"}
  /\ age' = [tcp |-> Older(age.tcp, MaxAge), check |-> Older(age.check, MaxAge),
             wake |-> Older(age.wake, MaxAge), udp |-> Older(age.udp, MaxUdpAge),
             nc |-> Older(age.nc, MaxNcAge), recv |-> Older(age.recv, MaxRecvAge)]
  /\ UNCHANGED <<worker, terminate, rfds, udp_state, dtls, mtu, probed, peer>>

PeerFails ==
  /\ worker \notin {"exited", "crashed"}
  /\ \/ peer = "alive" /\ peer' = "tcp"
     \/ peer # "dead" /\ peer' = "dead"
  /\ UNCHANGED <<worker, terminate, rfds, udp_state, dtls, mtu, age, probed>>

\* connect_handler before its loop: nothing was checked and nothing received
\* on UDP yet.
Init ==
  /\ worker = "running"
  /\ terminate = FALSE
  /\ rfds = {}
  /\ udp_state = IF UdpOffered THEN "UP_WAIT_FD" ELSE "UP_DISABLED"
  /\ dtls = "none"
  /\ mtu = [conn |-> AgreedMtu, good |-> 0, bad |-> 0]
  /\ age = [tcp |-> 0, check |-> PERIODIC_CHECK_TIME, wake |-> 0,
            udp |-> 0, nc |-> 0, recv |-> MaxRecvAge]
  /\ probed = FALSE
  /\ peer = "alive"

Next == Wake \/ Serve \/ Leave \/ SigTerm \/ Unstall \/ Tick \/ PeerFails

Spec == Init /\ [][Next]_vars

\* pselect returns and time passes, whatever arrives; handlers return.
FairSpec == Spec /\ SF_vars(Tick) /\ WF_vars(Wake) /\ WF_vars(Serve) /\ WF_vars(Leave)

(***************************************************************************)
(* Properties                                                              *)
(***************************************************************************)

\* Dead peer detection is bounded in time: a worker whose loop turns has not
\* been without a word on TLS for longer than three DPD periods and the time
\* between two checks.
SilenceBounded ==
  worker = "running" /\ ~terminate /\ age.wake <= SelectTime /\ Dpd > 0
    => age.tcp <= DPD_MAX_TRIES * Dpd + PERIODIC_CHECK_TIME + SelectTime

\* A client is dropped for its silence only if an earlier check had sent it a
\* DPD that it did not answer, or the worker had not looked for more than a
\* whole DPD period itself.
ProbedOrAway ==
  [][\A R \in SUBSET Fds : WakeTearDown(R) => probed \/ age.check > Dpd]_vars

\* The DTLS session that tun, periodic and DTLS handlers use in these states
\* exists.
EstablishedIsOpen ==
  udp_state \in {"UP_HANDSHAKE", "UP_INACTIVE", "UP_ACTIVE"} => dtls = "open"

\* mtu_not_ok, "could not calculate a sufficient MTU. Disabling DTLS": a session
\* that was closed is not used any more.
ClosedNotUsed == worker # "crashed"

\* What was agreed and what TCP leaves is not below the least MTU: true of IPv4,
\* where that is 257; with IPv6 the least MTU may be larger than the agreed one.
MtusSuffice == MIN_MTU <= AgreedMtu /\ \A m \in Mss : MIN_MTU <= m

\* worker-vpn.c of HANDSHAKE, "openconnect doesn't like if we send more bytes
\* than the initially agreed MTU": no search step leads above it.
AgreedNotExceeded == MtusSuffice => mtu.conn <= AgreedMtu

\* A packet that was too large lowers the MTU or disables DTLS, so that it is not
\* sent over DTLS in that size again; at the least MTU the next one disables it.
TooLargeLowers ==
  [][MtusSuffice /\ (TunTooLarge \/ DtlsDpdTooLarge) =>
       \/ mtu'.conn < mtu.conn
       \/ udp_state' = "UP_DISABLED"
       \/ mtu.conn = MIN_MTU /\ GivesUp(mtu')]_vars

\* The search for the MTU ends, whatever packets are sent and however often the
\* client starts DTLS anew, unless periodic_check goes on lowering the MTU to
\* the TCP segment size, from where mtu_ok raises it again.
MssLowers  == rfds = {} /\ mtu'.conn # mtu.conn
MtuSettles == []<><<MssLowers>>_vars \/ <>[][mtu'.conn = mtu.conn]_vars

\* When the client's datagrams no longer arrive the worker stops using DTLS.
UdpFallback == Dpd > 0 => (peer # "alive" ~> (udp_state # "UP_ACTIVE" \/ worker # "running"))

(***************************************************************************)
(* An inductive invariant                                                  *)
(***************************************************************************)

\* No check is overdue by more than the turn has lasted, and the last check
\* found the silence on TLS within its bounds.
ClockInv ==
  /\ age.check <= PERIODIC_CHECK_TIME + age.wake
  /\ Dpd > 0 /\ ~terminate => age.tcp <= DPD_MAX_TRIES * Dpd + age.check
  /\ Dpd > 0 /\ ~terminate /\ ~probed => age.tcp <= DPD_TRIES * Dpd + age.check

\* The three values of the search lie between the least and the agreed MTU.
MtuInv ==
  MtusSuffice =>
    /\ MIN_MTU <= mtu.conn /\ mtu.conn <= AgreedMtu
    /\ mtu.good <= AgreedMtu /\ mtu.bad <= AgreedMtu
    /\ udp_state \in {"UP_HANDSHAKE", "UP_INACTIVE", "UP_ACTIVE"}
         => MIN_MTU <= mtu.good /\ MIN_MTU <= mtu.bad

TunnelInv == TypeOK /\ ClockInv /\ EstablishedIsOpen /\ MtuInv

=============================================================================

