---------------------------- MODULE TunnelProofs ----------------------------
(***************************************************************************)
(* Theorems about the worker's tunnel, for every setting of the timeouts   *)
(* and MTUs.  TunnelInv relates the ages of the last check and of the last *)
(* turn to the silence on TLS, and bounds the three values of the MTU      *)
(* search; one lemma per group of actions shows that it is preserved.      *)
(***************************************************************************)
EXTENDS Tunnel, TLAPS

Ages == [tcp : 0 .. MaxAge, check : 0 .. MaxAge, wake : 0 .. MaxAge,
         udp : 0 .. MaxUdpAge, nc : 0 .. MaxNcAge, recv : 0 .. MaxRecvAge]

Mtus == [conn : Nat, good : Nat, bad : Nat]

\* The constants as natural numbers.
LEMMA Numbers ==
  /\ Dpd \in Nat /\ PERIODIC_CHECK_TIME \in Nat /\ SelectTime \in Nat
  /\ MIN_MTU \in Nat /\ AgreedMtu \in Nat /\ Mss \subseteq Nat
  /\ MaxAge \in Nat /\ MaxUdpAge \in Nat /\ MaxNcAge \in Nat /\ MaxRecvAge \in Nat
  /\ MaxAge > 3 * Dpd + PERIODIC_CHECK_TIME + SelectTime
BY TunnelAssumption DEF MaxUdpAge, MaxNcAge, MaxRecvAge, DPD_MAX_TRIES

\* The ages after a message, a check or a turn.
LEMMA AgesReset ==
  ASSUME NEW a \in Ages
  PROVE  /\ [a EXCEPT !.wake = 0] \in Ages
         /\ [a EXCEPT !.wake = 0, !.check = 0] \in Ages
         /\ [a EXCEPT !.recv = 0] \in Ages
         /\ [a EXCEPT !.recv = 0, !.udp = 0] \in Ages
         /\ [a EXCEPT !.nc = 0] \in Ages
         /\ [a EXCEPT !.tcp = 0] \in Ages
<1>1. 0 \in 0 .. MaxAge /\ 0 \in 0 .. MaxUdpAge /\ 0 \in 0 .. MaxNcAge /\ 0 \in 0 .. MaxRecvAge
  BY Numbers
<1>2. [a EXCEPT !.wake = 0] \in Ages
  BY <1>1 DEF Ages
<1>3. [a EXCEPT !.wake = 0, !.check = 0] \in Ages
  BY <1>1 DEF Ages
<1>4. [a EXCEPT !.recv = 0] \in Ages
  BY <1>1 DEF Ages
<1>5. [a EXCEPT !.recv = 0, !.udp = 0] \in Ages
  BY <1>1 DEF Ages
<1>6. [a EXCEPT !.nc = 0] \in Ages
  BY <1>1 DEF Ages
<1>7. [a EXCEPT !.tcp = 0] \in Ages
  BY <1>1 DEF Ages
<1> QED
  BY <1>2, <1>3, <1>4, <1>5, <1>6, <1>7

\* mtu_not_ok leaves the MTU within its bounds, and below what failed.
LEMMA NotOkBounds ==
  ASSUME NEW m \in Mtus
  PROVE  /\ mtu_not_ok(m) \in Mtus
         /\ mtu_not_ok(m).bad = m.conn
         /\ mtu_not_ok(m).good = mtu_not_ok(m).conn
         /\ MIN_MTU <= m.conn =>
              /\ mtu_not_ok(m).conn <= m.conn
              /\ MIN_MTU <= m.good => MIN_MTU <= mtu_not_ok(m).conn
              /\ \/ mtu_not_ok(m).conn < m.conn
                 \/ m.conn = MIN_MTU /\ mtu_not_ok(m).good = MIN_MTU
<1> DEFINE two3 == (2 * m.conn) \div 3
<1>1. m.conn \in Nat /\ m.good \in Nat /\ m.bad \in Nat
  BY DEF Mtus
<1>2. two3 \in Nat /\ two3 <= m.conn /\ (m.conn > 0 => two3 < m.conn)
  BY <1>1
<1>3. mtu_not_ok(m) =
        LET good == IF m.good >= m.conn THEN Larger(two3, MIN_MTU) ELSE m.good
        IN  [conn |-> good, good |-> good, bad |-> m.conn]
  BY DEF mtu_not_ok
<1> HIDE DEF two3
<1> QED
  BY <1>1, <1>2, <1>3, Numbers DEF Mtus, Larger

\* mtu_ok moves up at most half way to what is known to be bad.
LEMMA OkBounds ==
  ASSUME NEW m \in Mtus
  PROVE  /\ mtu_ok(m) \in Mtus
         /\ mtu_ok(m).bad = m.bad
         /\ mtu_ok(m).good \in {m.good, m.conn}
         /\ \A b \in Nat : m.conn <= b /\ m.bad <= b => mtu_ok(m).conn <= b
         /\ \A b \in Nat : b <= m.conn /\ b <= m.bad => b <= mtu_ok(m).conn
<1> DEFINE half == (m.conn + m.bad) \div 2
<1>1. m.conn \in Nat /\ m.good \in Nat /\ m.bad \in Nat
  BY DEF Mtus
<1>2. /\ half \in Nat
      /\ \A b \in Nat : m.conn <= b /\ m.bad <= b => half <= b
      /\ \A b \in Nat : b <= m.conn /\ b <= m.bad => b <= half
  BY <1>1
<1>3. mtu_ok(m) = IF m.bad \in {m.conn, m.conn + 1} THEN m
                  ELSE [m EXCEPT !.good = m.conn, !.conn = half]
  BY DEF mtu_ok
<1> HIDE DEF half
<1> QED
  BY <1>1, <1>2, <1>3 DEF Mtus

\* The parts of the state that TunnelInv is about are left alone.
LEMMA Unchanged ==
  ASSUME TunnelInv, UNCHANGED <<udp_state, dtls, mtu, age, probed>>,
         worker' \in {"running", "stalled", "leaving", "exited", "crashed"},
         terminate' \in BOOLEAN, terminate => terminate', rfds' \subseteq Fds,
         peer' \in {"alive", "tcp", "dead"}
  PROVE  TunnelInv'
BY DEF TunnelInv, TypeOK, ClockInv, EstablishedIsOpen, MtuInv, MtusSuffice

\* The state of DTLS and the MTU are left alone, and the ages are those of
\* another legal moment.
LEMMA OtherAges ==
  ASSUME TunnelInv, UNCHANGED <<udp_state, dtls, mtu>>,
         worker' \in {"running", "stalled", "leaving", "exited", "crashed"},
         terminate' \in BOOLEAN, rfds' \subseteq Fds, probed' \in BOOLEAN,
         peer' \in {"alive", "tcp", "dead"}, age' \in Ages, ClockInv'
  PROVE  TunnelInv'
BY DEF TunnelInv, TypeOK, EstablishedIsOpen, MtuInv, MtusSuffice, Ages

\* Facts about the ages.
LEMMA AgeFacts ==
  ASSUME TunnelInv
  PROVE  /\ age \in Ages /\ mtu \in Mtus
         /\ age.tcp \in 0 .. MaxAge /\ age.check \in 0 .. MaxAge /\ age.wake \in 0 .. MaxAge
BY DEF TunnelInv, TypeOK, Ages, Mtus

\* A message on any channel leaves the clocks in order.
LEMMA ClocksAfterMessage ==
  ASSUME TunnelInv, age' \in Ages, UNCHANGED terminate,
         age'.check = age.check, age'.wake = age.wake,
         age'.tcp = 0 \/ (age'.tcp = age.tcp /\ probed' = probed)
  PROVE  ClockInv'
BY AgeFacts, Numbers DEF TunnelInv, ClockInv, Ages, DPD_TRIES, DPD_MAX_TRIES

\* connect_handler enters its loop with TunnelInv.
LEMMA InitInv == Init => TunnelInv
<1> SUFFICES ASSUME Init PROVE TunnelInv
  OBVIOUS
<1>1. TypeOK
  <2>1. PERIODIC_CHECK_TIME \in 0 .. MaxAge /\ 0 \in 0 .. MaxAge /\ 0 \in 0 .. MaxUdpAge
        /\ 0 \in 0 .. MaxNcAge /\ MaxRecvAge \in 0 .. MaxRecvAge
    BY Numbers
  <2>2. age \in Ages
    BY <2>1 DEF Init, Ages
  <2>3. mtu \in Mtus
    BY Numbers DEF Init, Mtus
  <2> QED
    BY <2>2, <2>3 DEF Init, TypeOK, UdpStates, Ages, Mtus
<1>2. ClockInv
  BY Numbers DEF Init, ClockInv, DPD_TRIES, DPD_MAX_TRIES
<1>3. EstablishedIsOpen /\ MtuInv
  BY Numbers DEF Init, EstablishedIsOpen, MtuInv, MtusSuffice
<1> QED
  BY <1>1, <1>2, <1>3 DEF TunnelInv

\* Time passes for all clocks at once.
LEMMA TickInv == TunnelInv /\ Tick => TunnelInv'
<1> SUFFICES ASSUME TunnelInv, Tick PROVE TunnelInv'
  OBVIOUS
<1>1. age' \in Ages
  BY AgeFacts, Numbers DEF Tick, Older, Ages
<1>2. ClockInv'
  BY AgeFacts, Numbers DEF Tick, Older, Ages, TunnelInv, ClockInv, DPD_TRIES, DPD_MAX_TRIES
<1> QED
  BY <1>1, <1>2, OtherAges DEF Tick, TunnelInv, TypeOK

\* A turn's periodic_check.
LEMMA WakeInv == TunnelInv /\ Wake => TunnelInv'
<1> SUFFICES ASSUME TunnelInv, NEW R \in SUBSET Fds,
                    \/ Crash(R) \/ WakeEarly(R) \/ WakeIdle(R) \/ WakeFails(R)
                    \/ WakeTearDown(R) \/ WakeCheck(R) \/ WakeCrashes(R)
             PROVE  TunnelInv'
  BY DEF Wake
<1> USE DEF Begin
<1>1. CASE Crash(R) \/ WakeFails(R) \/ WakeTearDown(R) \/ WakeCrashes(R)
  BY <1>1, Unchanged
     DEF Crash, WakeFails, WakeTearDown, WakeCrashes, SendAndExit, TunnelInv, TypeOK
<1>2. CASE WakeEarly(R)
  <2>1. age' \in Ages
    BY <1>2, AgeFacts, AgesReset DEF WakeEarly
  <2>2. ClockInv'
    BY <1>2, AgeFacts, Numbers
       DEF WakeEarly, Due, TunnelInv, ClockInv, Ages, DPD_TRIES, DPD_MAX_TRIES
  <2> QED
    BY <1>2, <2>1, <2>2, OtherAges DEF WakeEarly, TunnelInv, TypeOK
<1>3. CASE WakeIdle(R)
  <2>1. age' \in Ages
    BY <1>3, AgeFacts, AgesReset DEF WakeIdle
  <2>2. ClockInv'
    BY <1>3, AgeFacts, Numbers DEF WakeIdle, ClockInv, Ages
  <2> QED
    BY <1>3, <2>1, <2>2, OtherAges DEF WakeIdle, TunnelInv, TypeOK
<1>4. CASE WakeCheck(R)
  <2>1. age' \in Ages
    BY <1>4, AgeFacts, AgesReset DEF WakeCheck
  <2>2. ClockInv'
    BY <1>4, AgeFacts, Numbers
       DEF WakeCheck, SilentFor, ClockInv, Ages, DPD_TRIES, DPD_MAX_TRIES
  <2>3. PICK m \in Mss : mtu' = [mtu EXCEPT !.conn = Smaller(@, m)]
    BY <1>4 DEF WakeCheck
  <2>4. m \in Nat /\ mtu \in Mtus
    BY Numbers, AgeFacts
  <2>5. mtu' \in Mtus /\ mtu'.conn = Smaller(mtu.conn, m)
        /\ mtu'.good = mtu.good /\ mtu'.bad = mtu.bad
    BY <2>3, <2>4 DEF Mtus, Smaller
  <2>6. /\ udp_state' \in {udp_state, "UP_INACTIVE"} /\ dtls' = dtls
        /\ udp_state' # udp_state => udp_state = "UP_ACTIVE"
    BY <1>4 DEF WakeCheck, UdpSilentFor
  <2>7. EstablishedIsOpen'
    BY <2>6 DEF TunnelInv, EstablishedIsOpen
  <2>8. MtuInv'
    BY <2>3, <2>4, <2>5, <2>6, Numbers DEF TunnelInv, MtuInv, MtusSuffice, Smaller, Mtus
  <2>9. TypeOK'
    BY <1>4, <2>1, <2>5, <2>6 DEF WakeCheck, TunnelInv, TypeOK, UdpStates, Ages, Mtus
  <2> QED
    BY <2>2, <2>7, <2>8, <2>9 DEF TunnelInv
<1> QED
  BY <1>1, <1>2, <1>3, <1>4

\* mtu_not_ok keeps the MTU in its bounds and leaves no state behind that uses
\* the session it closed.
LEMMA MtuNotOkInv ==
  ASSUME TunnelInv, NEW up \in {"UP_HANDSHAKE", "UP_ACTIVE"}, MtuNotOk(up),
         udp_state \in {"UP_HANDSHAKE", "UP_INACTIVE", "UP_ACTIVE"}
  PROVE  /\ mtu' \in Mtus /\ udp_state' \in UdpStates /\ dtls' \in {"none", "open", "closed"}
         /\ EstablishedIsOpen' /\ MtuInv'
<1>1. mtu \in Mtus /\ mtu.conn \in Nat /\ mtu.good \in Nat /\ mtu.bad \in Nat
  BY AgeFacts DEF Mtus
<1>2. CASE GivesUp(mtu)
  <2>1. mtu' = [mtu EXCEPT !.bad = mtu.conn] /\ udp_state' = "UP_DISABLED" /\ dtls' = "closed"
    BY <1>2 DEF MtuNotOk
  <2>2. mtu' \in Mtus /\ mtu'.conn = mtu.conn /\ mtu'.good = mtu.good /\ mtu'.bad = mtu.conn
    BY <1>1, <2>1 DEF Mtus
  <2> QED
    BY <2>1, <2>2 DEF TunnelInv, MtuInv, MtusSuffice, EstablishedIsOpen, UdpStates
<1>3. CASE ~GivesUp(mtu)
  <2>1. mtu' = mtu_not_ok(mtu) /\ udp_state' = up /\ dtls' = dtls
    BY <1>3 DEF MtuNotOk
  <2>2. mtu' \in Mtus /\ mtu'.bad = mtu.conn /\ mtu'.good = mtu'.conn
    BY <1>1, <2>1, NotOkBounds
  <2>3. MIN_MTU <= mtu.conn =>
          /\ mtu'.conn <= mtu.conn
          /\ MIN_MTU <= mtu.good => MIN_MTU <= mtu'.conn
    BY <1>1, <2>1, NotOkBounds
  <2>4. MtuInv'
    BY <1>1, <2>1, <2>2, <2>3, Numbers DEF TunnelInv, MtuInv, MtusSuffice, Mtus
  <2> QED
    BY <2>1, <2>2, <2>4 DEF TunnelInv, TypeOK, EstablishedIsOpen, UdpStates
<1> QED
  BY <1>2, <1>3

\* How the handlers' steps are put together.
LEMMA Assembled ==
  ASSUME TunnelInv,
         worker' \in {"running", "stalled", "leaving", "exited", "crashed"},
         UNCHANGED <<terminate, peer>>, rfds' \subseteq Fds, probed' \in BOOLEAN,
         udp_state' \in UdpStates, dtls' \in {"none", "open", "closed"},
         mtu' \in Mtus, age' \in Ages,
         age'.check = age.check, age'.wake = age.wake,
         age'.tcp = 0 \/ (age'.tcp = age.tcp /\ probed' = probed),
         EstablishedIsOpen', MtuInv'
  PROVE  TunnelInv'
<1>1. ClockInv'
  BY ClocksAfterMessage
<1>2. TypeOK'
  BY DEF TunnelInv, TypeOK, Ages, Mtus
<1> QED
  BY <1>1, <1>2 DEF TunnelInv

\* The handlers on the TLS channel and of the tun device.
LEMMA TunTlsInv == TunnelInv /\ (ServeTun \/ ServeTls) => TunnelInv'
<1> SUFFICES ASSUME TunnelInv, ServeTun \/ ServeTls PROVE TunnelInv'
  OBVIOUS
<1> USE DEF Served, Serving, SendAndGoOn
<1>a. /\ worker \in {"running", "stalled", "leaving", "exited", "crashed"}
      /\ rfds \subseteq Fds /\ probed \in BOOLEAN /\ udp_state \in UdpStates
      /\ dtls \in {"none", "open", "closed"} /\ EstablishedIsOpen /\ MtuInv
      /\ age \in Ages /\ mtu \in Mtus
  BY AgeFacts DEF TunnelInv, TypeOK
<1>b. /\ NoteData(age) \in Ages /\ NoteData(age).check = age.check
      /\ NoteData(age).wake = age.wake /\ NoteData(age).tcp = age.tcp
  BY <1>a, AgesReset DEF NoteData, Ages
<1>c. /\ Heard(age) \in Ages /\ Heard(age).check = age.check
      /\ Heard(age).wake = age.wake /\ Heard(age).tcp = 0
  BY <1>a, AgesReset DEF Heard, Ages
<1>1. CASE TunOverTls
  <2>1. EstablishedIsOpen' /\ MtuInv'
    BY <1>1, <1>a DEF TunOverTls, EstablishedIsOpen, MtuInv, MtusSuffice
  <2> QED
    BY <1>1, <1>a, <1>b, <2>1, Assembled DEF TunOverTls
<1>2. CASE \E full \in BOOLEAN : TunOverDtls(full)
  <2>1. PICK full \in BOOLEAN : TunOverDtls(full)
    BY <1>2
  <2>2. mtu' \in {mtu, mtu_ok(mtu)} /\ udp_state = "UP_ACTIVE"
    BY <2>1 DEF TunOverDtls
  <2>3. mtu' \in Mtus
    BY <1>a, <2>2, OkBounds
  <2>4. EstablishedIsOpen'
    BY <1>a, <2>1 DEF TunOverDtls, EstablishedIsOpen
  <2>5. MtuInv'
    <3>1. CASE mtu' = mtu
      BY <1>a, <2>1, <3>1 DEF TunOverDtls, MtuInv, MtusSuffice
    <3>2. CASE mtu' = mtu_ok(mtu)
      <4>1. SUFFICES ASSUME MtusSuffice
                     PROVE  /\ MIN_MTU <= mtu'.conn /\ mtu'.conn <= AgreedMtu
                            /\ mtu'.good <= AgreedMtu /\ mtu'.bad <= AgreedMtu
                            /\ MIN_MTU <= mtu'.good /\ MIN_MTU <= mtu'.bad
        BY DEF MtuInv, MtusSuffice
      <4>2. /\ MIN_MTU <= mtu.conn /\ mtu.conn <= AgreedMtu
            /\ mtu.good <= AgreedMtu /\ mtu.bad <= AgreedMtu
            /\ MIN_MTU <= mtu.good /\ MIN_MTU <= mtu.bad
        BY <1>a, <2>2, <4>1 DEF MtuInv
      <4> QED
        BY <1>a, <3>2, <4>2, OkBounds, Numbers
    <3> QED
      BY <2>2, <3>1, <3>2
  <2> QED
    BY <1>a, <1>b, <2>1, <2>3, <2>4, <2>5, Assembled DEF TunOverDtls
<1>3. CASE TunTooLarge
  <2>1. /\ mtu' \in Mtus /\ udp_state' \in UdpStates /\ dtls' \in {"none", "open", "closed"}
        /\ EstablishedIsOpen' /\ MtuInv'
    BY <1>3, MtuNotOkInv DEF TunTooLarge
  <2> QED
    BY <1>3, <1>a, <1>b, <2>1, Assembled DEF TunTooLarge
<1>4. CASE TlsControl
  <2>1. EstablishedIsOpen' /\ MtuInv'
    BY <1>4, <1>a DEF TlsControl, EstablishedIsOpen, MtuInv, MtusSuffice
  <2> QED
    BY <1>4, <1>a, <1>c, <2>1, Assembled DEF TlsControl
<1>5. CASE TlsData
  <2>1. age' = NoteData(Heard(age))
    BY <1>5 DEF TlsData
  <2>2. age' \in Ages /\ age'.check = age.check /\ age'.wake = age.wake /\ age'.tcp = 0
    <3> DEFINE h == Heard(age)
    <3>1. h \in Ages /\ h.check = age.check /\ h.wake = age.wake /\ h.tcp = 0
      BY <1>c
    <3>2. age' = [h EXCEPT !.nc = 0]
      BY <2>1 DEF NoteData
    <3> HIDE DEF h
    <3>3. age' \in Ages
      BY <3>1, <3>2, AgesReset
    <3>4. age'.check = h.check /\ age'.wake = h.wake /\ age'.tcp = h.tcp
      BY <3>1, <3>2 DEF Ages
    <3> QED
      BY <3>1, <3>3, <3>4
  <2>3. /\ udp_state' \in {udp_state, "UP_INACTIVE"} /\ dtls' = dtls /\ mtu' = mtu
        /\ udp_state' # udp_state => udp_state = "UP_ACTIVE"
    BY <1>5 DEF TlsData
  <2>4. EstablishedIsOpen' /\ MtuInv'
    BY <2>3, <1>a DEF EstablishedIsOpen, MtuInv, MtusSuffice
  <2>5. udp_state' \in UdpStates
    BY <2>3, <1>a DEF UdpStates
  <2> QED
    BY <1>5, <1>a, <2>2, <2>3, <2>4, <2>5, Assembled DEF TlsData
<1> QED
  BY <1>1, <1>2, <1>3, <1>4, <1>5 DEF ServeTun, ServeTls

\* The handlers of the DTLS channel.
LEMMA DtlsInv == TunnelInv /\ ServeDtls => TunnelInv'
<1> SUFFICES ASSUME TunnelInv, ServeDtls PROVE TunnelInv'
  OBVIOUS
<1> USE DEF Served, Serving
<1>a. /\ worker \in {"running", "stalled", "leaving", "exited", "crashed"}
      /\ rfds \subseteq Fds /\ probed \in BOOLEAN /\ udp_state \in UdpStates
      /\ dtls \in {"none", "open", "closed"} /\ EstablishedIsOpen /\ MtuInv
      /\ age \in Ages /\ mtu \in Mtus
  BY AgeFacts DEF TunnelInv, TypeOK
<1>1. CASE DtlsNothing
  <2>1. age' \in Ages /\ age'.check = age.check /\ age'.wake = age.wake /\ age'.tcp = age.tcp
    BY <1>1, <1>a, AgesReset DEF DtlsNothing, Ages
  <2>2. EstablishedIsOpen' /\ MtuInv'
    BY <1>1, <1>a DEF DtlsNothing, EstablishedIsOpen, MtuInv, MtusSuffice
  <2> QED
    BY <1>1, <1>a, <2>1, <2>2, Assembled DEF DtlsNothing
<1>2. CASE DtlsPacket
  <2>1. age' \in Ages /\ age'.check = age.check /\ age'.wake = age.wake /\ age'.tcp = age.tcp
    <3>1. [age EXCEPT !.recv = 0, !.udp = 0] \in Ages
      BY <1>a, AgesReset
    <3>2. CASE age' = NoteData([age EXCEPT !.recv = 0, !.udp = 0])
      BY <1>a, <3>1, <3>2, AgesReset DEF NoteData, Ages
    <3>3. CASE age' = [age EXCEPT !.recv = 0]
      BY <1>a, <3>3, AgesReset DEF Ages
    <3>4. CASE age' = [age EXCEPT !.recv = 0, !.udp = 0]
      BY <1>a, <3>1, <3>4 DEF Ages
    <3> QED
      BY <1>2, <3>2, <3>3, <3>4 DEF DtlsPacket
  <2>2. EstablishedIsOpen' /\ MtuInv' /\ udp_state' \in UdpStates
    BY <1>2, <1>a DEF DtlsPacket, Established, EstablishedIsOpen, MtuInv, MtusSuffice, UdpStates
  <2> QED
    BY <1>2, <1>a, <2>1, <2>2, Assembled DEF DtlsPacket
<1>3. CASE DtlsSetup
  <2>1. mtu' \in Mtus /\ mtu'.conn = mtu.conn /\ mtu'.good = mtu.conn /\ mtu'.bad = mtu.conn
    BY <1>3, <1>a DEF DtlsSetup, mtu_discovery_init, Mtus
  <2>2. EstablishedIsOpen' /\ MtuInv' /\ udp_state' \in UdpStates
    BY <1>3, <1>a, <2>1 DEF DtlsSetup, EstablishedIsOpen, MtuInv, MtusSuffice, UdpStates
  <2> QED
    BY <1>3, <1>a, <2>1, <2>2, Assembled DEF DtlsSetup
<1>4. CASE HandshakeGoesOn
  <2>1. EstablishedIsOpen' /\ MtuInv' /\ udp_state' \in UdpStates
    BY <1>4, <1>a DEF HandshakeGoesOn, EstablishedIsOpen, MtuInv, MtusSuffice, UdpStates
  <2> QED
    BY <1>4, <1>a, <2>1, Assembled DEF HandshakeGoesOn
<1>5. CASE HandshakeCompletes
  <2>1. PICK m \in Smaller(MIN_MTU, mtu.conn) .. mtu.conn + 1 :
          mtu' = mtu_discovery_init(DataMtu(m))
    BY <1>5 DEF HandshakeCompletes
  <2> DEFINE d == DataMtu(m)
  <2>2. d \in Nat /\ d <= mtu.conn /\ (MIN_MTU <= mtu.conn => MIN_MTU <= d)
    BY <1>a, <2>1, Numbers DEF DataMtu, Smaller, Mtus
  <2> HIDE DEF d
  <2>3. mtu' \in Mtus /\ mtu'.conn = d /\ mtu'.good = d /\ mtu'.bad = d
    <3>1. mtu' = mtu_discovery_init(d)
      BY <2>1 DEF d
    <3> QED
      BY <2>2, <3>1 DEF mtu_discovery_init, Mtus
  <2>4. EstablishedIsOpen' /\ MtuInv' /\ udp_state' \in UdpStates
    <3>1. EstablishedIsOpen' /\ udp_state' \in UdpStates
      BY <1>5, <1>a DEF HandshakeCompletes, EstablishedIsOpen, UdpStates
    <3>2. MtusSuffice' = MtusSuffice
      BY DEF MtusSuffice
    <3>3. ASSUME MtusSuffice
          PROVE  MIN_MTU <= d /\ d <= AgreedMtu
      <4>1. MIN_MTU <= mtu.conn /\ mtu.conn <= AgreedMtu /\ mtu.conn \in Nat
        BY <1>a, <3>3 DEF MtuInv, Mtus
      <4> QED
        BY <2>2, <4>1, Numbers
    <3>4. MtuInv'
      BY <2>3, <3>2, <3>3 DEF MtuInv
    <3> QED
      BY <3>1, <3>4
  <2> QED
    BY <1>5, <1>a, <2>3, <2>4, Assembled DEF HandshakeCompletes
<1>6. CASE HandshakeTooLarge
  <2>1. /\ mtu' \in Mtus /\ udp_state' \in UdpStates /\ dtls' \in {"none", "open", "closed"}
        /\ EstablishedIsOpen' /\ MtuInv'
    BY <1>6, MtuNotOkInv DEF HandshakeTooLarge
  <2> QED
    BY <1>6, <1>a, <2>1, Assembled DEF HandshakeTooLarge
<1>7. CASE DtlsDpdTooLarge
  <2>1. /\ mtu' \in Mtus /\ udp_state' \in UdpStates /\ dtls' \in {"none", "open", "closed"}
        /\ EstablishedIsOpen' /\ MtuInv'
    BY <1>7, MtuNotOkInv DEF DtlsDpdTooLarge, Established
  <2>2. age' \in Ages /\ age'.check = age.check /\ age'.wake = age.wake /\ age'.tcp = age.tcp
    BY <1>7, <1>a, AgesReset DEF DtlsDpdTooLarge, Ages
  <2> QED
    BY <1>7, <1>a, <2>1, <2>2, Assembled DEF DtlsDpdTooLarge
<1> QED
  BY <1>1, <1>2, <1>3, <1>4, <1>5, <1>6, <1>7 DEF ServeDtls

\* All handlers.
LEMMA ServeInv == TunnelInv /\ Serve => TunnelInv'
<1> SUFFICES ASSUME TunnelInv, Serve PROVE TunnelInv'
  OBVIOUS
<1> USE DEF Served, Serving
<1>1. CASE \E fd \in Fds : HandlerExits(fd) \/ HandlerIdle(fd)
  BY <1>1, Unchanged DEF HandlerExits, HandlerIdle, TunnelInv, TypeOK
<1>2. CASE CmdHello
  <2>1. EstablishedIsOpen' /\ MtuInv' /\ udp_state' \in UdpStates
    BY <1>2 DEF CmdHello, TunnelInv, EstablishedIsOpen, MtuInv, MtusSuffice, UdpStates
  <2> QED
    BY <1>2, <2>1, AgeFacts, Assembled DEF CmdHello, TunnelInv, TypeOK
<1>3. CASE CmdParentGone
  BY <1>3, Unchanged DEF CmdParentGone, SendAndExit, TunnelInv, TypeOK
<1> QED
  BY <1>1, <1>2, <1>3, TunTlsInv, DtlsInv DEF Serve, ServeCmd

\* The worker's clocks, its DTLS session and its MTU stay consistent, whatever
\* arrives on its descriptors and however long a write stalls.
THEOREM TunnelInvariant == Spec => []TunnelInv
<1>1. TunnelInv /\ [Next]_vars => TunnelInv'
  <2> SUFFICES ASSUME TunnelInv, [Next]_vars PROVE TunnelInv'
    OBVIOUS
  <2>1. CASE Leave \/ SigTerm \/ Unstall \/ PeerFails \/ UNCHANGED vars
    BY <2>1, Unchanged
       DEF Leave, SigTerm, Unstall, PeerFails, SendAndExit, vars, TunnelInv, TypeOK
  <2> QED
    BY <2>1, WakeInv, ServeInv, TickInv DEF Next
<1> QED
  BY <1>1, InitInv, PTL DEF Spec

\* Type correctness of the worker's loop.
THEOREM TunnelTyped == Spec => []TypeOK
<1>1. TunnelInv => TypeOK
  BY DEF TunnelInv
<1> QED
  BY <1>1, TunnelInvariant, PTL

\* periodic_check and the pselect timeout bound the silence of a client that is
\* not dropped: the clocks of ClockInv add up.
THEOREM DeadPeerDetected == Spec => []SilenceBounded
<1>1. TunnelInv => SilenceBounded
  <2> SUFFICES ASSUME TunnelInv, ~terminate, age.wake <= SelectTime, Dpd > 0
               PROVE  age.tcp <= DPD_MAX_TRIES * Dpd + PERIODIC_CHECK_TIME + SelectTime
    BY DEF SilenceBounded
  <2>1. /\ age.check <= PERIODIC_CHECK_TIME + age.wake
        /\ age.tcp <= 3 * Dpd + age.check
    BY DEF TunnelInv, ClockInv, DPD_MAX_TRIES
  <2> QED
    BY <2>1, AgeFacts, Numbers DEF DPD_MAX_TRIES
<1> QED
  BY <1>1, TunnelInvariant, PTL

\* periodic_check drops no client that was not asked, unless it was away itself.
THEOREM AskedBeforeDropped == Spec => ProbedOrAway
<1>1. TunnelInv => \A R \in SUBSET Fds : WakeTearDown(R) => probed \/ age.check > Dpd
  <2> SUFFICES ASSUME TunnelInv, NEW R \in SUBSET Fds, WakeTearDown(R), ~probed
               PROVE  age.check > Dpd
    OBVIOUS
  <2>1. ~terminate /\ Dpd > 0 /\ age.tcp > 3 * Dpd
    BY DEF WakeTearDown, Begin, SilentFor, DPD_MAX_TRIES
  <2>2. age.tcp <= 2 * Dpd + age.check
    BY <2>1 DEF TunnelInv, ClockInv, DPD_TRIES
  <2> QED
    BY <2>1, <2>2, AgeFacts, Numbers
<1> QED
  BY <1>1, TunnelInvariant, PTL DEF ProbedOrAway

\* No state that uses the DTLS session meets one that mtu_not_ok closed.
THEOREM SessionOpenWhenUsed == Spec => []EstablishedIsOpen
<1>1. TunnelInv => EstablishedIsOpen
  BY DEF TunnelInv
<1> QED
  BY <1>1, TunnelInvariant, PTL

\* The search for the MTU stays within what the client was told.
THEOREM MtuAsAgreed == Spec => []AgreedNotExceeded
<1>1. TunnelInv => AgreedNotExceeded
  BY DEF TunnelInv, MtuInv, AgreedNotExceeded
<1> QED
  BY <1>1, TunnelInvariant, PTL

\* mtu_not_ok makes progress: a size that failed is not used again at once.
THEOREM TooLargeProgress == Spec => TooLargeLowers
<1>1. TunnelInv =>
        (MtusSuffice /\ (TunTooLarge \/ DtlsDpdTooLarge) =>
           \/ mtu'.conn < mtu.conn
           \/ udp_state' = "UP_DISABLED"
           \/ mtu.conn = MIN_MTU /\ GivesUp(mtu'))
  <2> SUFFICES ASSUME TunnelInv, MtusSuffice, TunTooLarge \/ DtlsDpdTooLarge,
                      udp_state' # "UP_DISABLED"
               PROVE  \/ mtu'.conn < mtu.conn
                      \/ mtu.conn = MIN_MTU /\ GivesUp(mtu')
    OBVIOUS
  <2>1. mtu' = mtu_not_ok(mtu)
    BY DEF TunTooLarge, DtlsDpdTooLarge, MtuNotOk
  <2>2. MIN_MTU <= mtu.conn
    BY DEF TunnelInv, MtuInv
  <2> QED
    BY <2>1, <2>2, AgeFacts, NotOkBounds DEF GivesUp
<1> QED
  BY <1>1, TunnelInvariant, PTL DEF TooLargeLowers

=============================================================================
