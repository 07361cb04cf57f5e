--------------------------- MODULE BanListProofs ---------------------------
(***************************************************************************)
(* Theorems about the ban list, for every set of addresses and every       *)
(* setting of the scores and times.                                        *)
(***************************************************************************)
EXTENDS BanList, TLAPS

\* The table and the clock, which is all that the bounds on bans look at.
DbOK == now \in Nat /\ ban_db \in [IPs -> Entry]

\* The inductive invariant: types, and the two bounds of LockoutBounded, which
\* hold together because a window starts and an expiration is set at `now`.
Inv == TypeOK /\ LockoutBounded

\* The fields of what add_ip_to_ban_list writes.
LEMMA ChargedFields ==
  ASSUME DbOK, NEW ip \in IPs, NEW points \in Nat
  PROVE  /\ Current(ip) \in Entry
         /\ Charged(ip, points) \in Entry
         /\ Charged(ip, points).in_db = Current(ip).in_db
         /\ Charged(ip, points).score = Current(ip).score + points
         /\ Charged(ip, points).last_reset = Current(ip).last_reset
         /\ Charged(ip, points).expires =
              IF Current(ip).score < MaxBanScore
                THEN now + MinReauthTime ELSE Current(ip).expires
<1>1. ban_db[ip] \in Entry
  BY DEF DbOK
<1>2. Current(ip) \in Entry
  BY <1>1 DEF DbOK, Current, Entry, NoEntry
<1> DEFINE e == Current(ip)
           x == IF e.score < MaxBanScore THEN now + MinReauthTime ELSE e.expires
           y == e.score + points
<1>3. e \in Entry /\ x \in Nat /\ y \in Nat
  BY <1>2, BanAssumption DEF DbOK, Entry
<1>4. Charged(ip, points) = [e EXCEPT !.expires = x, !.score = y]
  BY DEF Charged
<1> HIDE DEF e, x, y
<1>5. LET r == [e EXCEPT !.expires = x, !.score = y]
      IN  /\ r \in Entry
          /\ r.in_db = e.in_db /\ r.score = y
          /\ r.last_reset = e.last_reset /\ r.expires = x
  BY <1>3 DEF Entry
<1> QED
  BY <1>3, <1>4, <1>5, Zenon DEF e, x, y

\* An entry that is about to be charged has begun its window, and its
\* expiration is at most min-reauth-time away.
LEMMA CurrentBounded ==
  ASSUME DbOK, LockoutBounded, NEW ip \in IPs
  PROVE  /\ Current(ip).expires <= now + MinReauthTime
         /\ Current(ip).last_reset <= now
<1>1. /\ ban_db[ip] \in Entry
      /\ ban_db[ip].expires <= now + MinReauthTime
      /\ ban_db[ip].last_reset <= now
  BY DEF DbOK, LockoutBounded
<1>2. CASE ~ban_db[ip].in_db
  <2>1. Current(ip).expires = 0 /\ Current(ip).last_reset = now
    BY <1>2 DEF Current, NoEntry
  <2> QED
    BY <2>1, BanAssumption DEF DbOK
<1>3. CASE ban_db[ip].in_db /\ WindowOver(ip)
  <2>1. Current(ip).expires = ban_db[ip].expires /\ Current(ip).last_reset = now
    BY <1>1, <1>3 DEF Current, Entry
  <2> QED
    BY <1>1, <2>1 DEF DbOK
<1>4. CASE ban_db[ip].in_db /\ ~WindowOver(ip)
  BY <1>1, <1>4 DEF Current
<1> QED
  BY <1>2, <1>3, <1>4

\* ... and so it is afterwards.
LEMMA ChargedBounded ==
  ASSUME DbOK, LockoutBounded, NEW ip \in IPs, NEW points \in Nat
  PROVE  /\ Charged(ip, points).expires <= now + MinReauthTime
         /\ Charged(ip, points).last_reset <= now
BY ChargedFields, CurrentBounded, BanAssumption DEF DbOK, Entry

\* A banned address whose window lasts is charged and nothing else.
LEMMA ChargedBanned ==
  ASSUME DbOK, NEW ip \in IPs, NEW points \in Nat, InForce(ip), ~WindowOver(ip)
  PROVE  /\ Charged(ip, points).in_db
         /\ Charged(ip, points).expires = ban_db[ip].expires
         /\ Charged(ip, points).score = ban_db[ip].score + points
<1>1. ban_db[ip] \in Entry
  BY DEF DbOK
<1>2. Current(ip) = ban_db[ip] /\ ban_db[ip].score >= MaxBanScore /\ ban_db[ip].in_db
  BY DEF Current, InForce, Refuses
<1> QED
  BY <1>1, <1>2, ChargedFields, BanAssumption DEF Entry

\* A charge keeps the table well formed and the bounds true.
LEMMA AddKeepsInv ==
  ASSUME DbOK, LockoutBounded, NEW ip \in IPs, NEW points \in Nat,
         add_ip_to_ban_list(ip, points), now' = now
  PROVE  (DbOK /\ LockoutBounded)'
<1>1. CASE MaxBanScore = 0
  BY <1>1 DEF add_ip_to_ban_list, DbOK, LockoutBounded
<1>2. CASE MaxBanScore # 0
  <2>1. ban_db' = [ban_db EXCEPT ![ip] = Charged(ip, points)]
    BY <1>2 DEF add_ip_to_ban_list
  <2>2. DbOK'
    BY <2>1, ChargedFields DEF DbOK
  <2>3. LockoutBounded'
    BY <2>1, ChargedBounded DEF DbOK, LockoutBounded
  <2> QED
    BY <2>2, <2>3
<1> QED
  BY <1>1, <1>2

\* A charge leaves a ban whose window lasts in force, with its expiration.
LEMMA AddKeepsBan ==
  ASSUME DbOK, NEW ip \in IPs, NEW points \in Nat, NEW banned \in IPs,
         add_ip_to_ban_list(ip, points), now' = now,
         InForce(banned), ~WindowOver(banned)
  PROVE  InForce(banned)' /\ ban_db'[banned].expires = ban_db[banned].expires
<1>1. MaxBanScore > 0 /\ ban_db[banned].score >= MaxBanScore
  BY DEF InForce, Refuses
<1>2. ban_db' = [ban_db EXCEPT ![ip] = Charged(ip, points)]
  BY <1>1, BanAssumption DEF add_ip_to_ban_list
<1>3. ban_db[banned] \in Entry
  BY DEF DbOK
<1>4. CASE banned = ip
  <2>1. ban_db'[banned] = Charged(banned, points)
    BY <1>2, <1>4 DEF DbOK
  <2> QED
    BY <1>1, <1>3, <2>1, ChargedBanned, BanAssumption DEF InForce, Refuses, Entry
<1>5. CASE banned # ip
  BY <1>2, <1>5 DEF DbOK, InForce, Refuses
<1> QED
  BY <1>4, <1>5

(***************************************************************************)
(* The invariant                                                           *)
(***************************************************************************)

\* The invariant holds at the start.
LEMMA InitInv == Init => Inv
<1> SUFFICES ASSUME Init PROVE Inv
  OBVIOUS
<1>1. NoEntry \in Entry /\ NoEntry.expires = 0 /\ NoEntry.last_reset = 0
  BY DEF NoEntry, Entry
<1>2. TypeOK
  BY <1>1 DEF Init, TypeOK
<1>3. LockoutBounded
  <2>1. \A ip \in IPs : ban_db[ip] = NoEntry
    BY DEF Init
  <2>2. now = 0 /\ 0 <= now + MinReauthTime /\ 0 <= now
    BY BanAssumption DEF Init
  <2> QED
    BY <1>1, <2>1, <2>2 DEF LockoutBounded
<1> QED
  BY <1>2, <1>3 DEF Inv

\* The actions that charge an address and touch nothing else of the table.
LEMMA ChargeKeepsInv ==
  ASSUME Inv, NEW ip \in IPs, NEW points \in Nat,
         add_ip_to_ban_list(ip, points), now' = now,
         ws_points' \in [IPs -> Nat], main_up' \in BOOLEAN,
         verdict' \in {"none", "admit", "refuse"}
  PROVE  Inv'
<1>1. DbOK /\ LockoutBounded
  BY DEF Inv, TypeOK, DbOK
<1>2. (DbOK /\ LockoutBounded)'
  BY <1>1, AddKeepsInv
<1> QED
  BY <1>2 DEF Inv, TypeOK, DbOK

\* Every step keeps it.
LEMMA NextInv == Inv /\ [Next]_vars => Inv'
<1> SUFFICES ASSUME Inv, [Next]_vars PROVE Inv'
  OBVIOUS
<1> USE BanAssumption
<1>1. TypeOK /\ LockoutBounded /\ DbOK
  BY DEF Inv, TypeOK, DbOK
<1>2. CASE Tick
  <2>1. now' \in Nat /\ now' > now
    BY <1>1, <1>2 DEF Tick, TypeOK
  <2>2. TypeOK'
    BY <1>1, <1>2, <2>1 DEF Tick, TypeOK
  <2>3. LockoutBounded'
    BY <1>1, <1>2, <2>1 DEF Tick, DbOK, Entry, LockoutBounded
  <2> QED
    BY <2>2, <2>3 DEF Inv
<1>3. CASE Cleanup
  <2>1. NoEntry \in Entry /\ NoEntry.expires = 0 /\ NoEntry.last_reset = 0
    BY DEF NoEntry, Entry
  <2>2. TypeOK'
    BY <1>1, <1>3, <2>1 DEF Cleanup, TypeOK
  <2>3. LockoutBounded'
    BY <1>1, <1>3, <2>1 DEF Cleanup, DbOK, LockoutBounded
  <2> QED
    BY <2>2, <2>3 DEF Inv
<1>4. ASSUME NEW ip \in IPs, Connect(ip) PROVE Inv'
  <2>1. /\ add_ip_to_ban_list(ip, PointsConnect)
        /\ UNCHANGED <<now, ws_points, main_up>>
        /\ verdict' \in {"none", "admit", "refuse"}
    BY <1>4 DEF Connect
  <2> QED
    BY <1>1, <2>1, ChargeKeepsInv DEF Inv, TypeOK
<1>5. ASSUME NEW ip \in IPs, WrongPassword(ip) PROVE Inv'
  BY <1>1, <1>5, ChargeKeepsInv DEF WrongPassword, Inv, TypeOK
<1>6. ASSUME NEW ip \in IPs, KkdcpPost(ip) PROVE Inv'
  <2>1. now' = now /\ verdict' = verdict /\ ws_points' \in [IPs -> Nat]
    BY <1>1, <1>6 DEF KkdcpPost, TypeOK
  <2>2. CASE PointsKkdcp < PointsPassword
    BY <1>1, <1>6, <2>1, <2>2 DEF KkdcpPost, Inv, TypeOK, LockoutBounded
  <2>3. CASE ~(PointsKkdcp < PointsPassword)
    <3>1. add_ip_to_ban_list(ip, PointsKkdcp) /\ main_up' = FALSE
      BY <1>6, <2>3 DEF KkdcpPost, WorkerReport
    <3> QED
      BY <1>1, <2>1, <3>1, ChargeKeepsInv DEF TypeOK
  <2> QED
    BY <2>2, <2>3
<1>7. ASSUME NEW ip \in IPs, WorkerExit(ip) PROVE Inv'
  <2>1. now' = now /\ verdict' = verdict /\ ws_points' \in [IPs -> Nat]
    BY <1>1, <1>7 DEF WorkerExit, TypeOK
  <2>2. CASE ~(ws_points[ip] > 0)
    BY <1>1, <1>7, <2>1, <2>2 DEF WorkerExit, Inv, TypeOK, LockoutBounded
  <2>3. CASE ws_points[ip] > 0
    <3>1. add_ip_to_ban_list(ip, 0) /\ main_up' = FALSE
      BY <1>7, <2>3 DEF WorkerExit, WorkerReport
    <3> QED
      BY <1>1, <2>1, <3>1, ChargeKeepsInv DEF TypeOK
  <2> QED
    BY <2>2, <2>3
<1>8. ASSUME NEW ip \in IPs, Unban(ip) PROVE Inv'
  <2> DEFINE e == [ban_db[ip] EXCEPT !.score = 0, !.expires = 0]
  <2>1. ban_db[ip] \in Entry /\ ban_db' = [ban_db EXCEPT ![ip] = e]
    BY <1>1, <1>8 DEF DbOK, Unban
  <2>2. e \in Entry /\ e.expires = 0 /\ e.last_reset = ban_db[ip].last_reset
    BY <2>1 DEF Entry
  <2> HIDE DEF e
  <2>3. TypeOK'
    <3>1. ban_db' \in [IPs -> Entry]
      BY <1>1, <2>1, <2>2 DEF TypeOK
    <3> QED
      BY <1>1, <1>8, <3>1 DEF Unban, TypeOK
  <2>4. LockoutBounded'
    BY <1>1, <1>8, <2>1, <2>2 DEF Unban, DbOK, LockoutBounded
  <2> QED
    BY <2>3, <2>4 DEF Inv
<1>9. CASE UNCHANGED vars
  BY <1>9 DEF vars, Inv, TypeOK, LockoutBounded
<1> QED
  BY <1>2, <1>3, <1>4, <1>5, <1>6, <1>7, <1>8, <1>9 DEF Next

\* The table, the clock and the workers' points always have their types, for
\* every number of addresses and every setting.
THEOREM Typing == Spec => []TypeOK
<1>1. Inv => TypeOK
  BY DEF Inv
<1> QED
  BY <1>1, InitInv, NextInv, PTL DEF Spec

\* No mixture of charges, unbans and maintenance locks an address out for
\* longer than min-reauth-time.
THEOREM LockoutIsBounded == Spec => []LockoutBounded
<1>1. Inv => LockoutBounded
  BY DEF Inv
<1> QED
  BY <1>1, InitInv, NextInv, PTL DEF Spec

(***************************************************************************)
(* What no step does to a ban whose scoring window lasts                   *)
(***************************************************************************)

\* A step either keeps such a ban in force with its expiration, or it is the
\* clock, or occtl's unban of that address.
LEMMA StepKeepsBan ==
  ASSUME DbOK, [Next]_vars, NEW ip \in IPs, InForce(ip), ~WindowOver(ip)
  PROVE  \/ InForce(ip)' /\ ban_db'[ip].expires = ban_db[ip].expires
         \/ Tick
         \/ Unban(ip)
<1> USE BanAssumption
<1>1. CASE Cleanup
  <2>1. ~Stale(ip)
    BY DEF Stale
  <2>2. ban_db'[ip] = ban_db[ip] /\ now' = now
    BY <1>1, <2>1 DEF Cleanup
  <2> QED
    BY <2>2 DEF InForce, Refuses
<1>2. ASSUME NEW i \in IPs, Connect(i)
      PROVE  InForce(ip)' /\ ban_db'[ip].expires = ban_db[ip].expires
  BY <1>2, AddKeepsBan DEF Connect
<1>3. ASSUME NEW i \in IPs, WrongPassword(i)
      PROVE  InForce(ip)' /\ ban_db'[ip].expires = ban_db[ip].expires
  BY <1>3, AddKeepsBan DEF WrongPassword
<1>4. ASSUME ban_db' = ban_db, now' = now
      PROVE  InForce(ip)' /\ ban_db'[ip].expires = ban_db[ip].expires
  BY <1>4 DEF InForce, Refuses
<1>5. ASSUME NEW i \in IPs, KkdcpPost(i)
      PROVE  InForce(ip)' /\ ban_db'[ip].expires = ban_db[ip].expires
  <2>1. now' = now /\ (ban_db' = ban_db \/ add_ip_to_ban_list(i, PointsKkdcp))
    BY <1>5 DEF KkdcpPost, WorkerReport
  <2> QED
    BY <1>4, <2>1, AddKeepsBan
<1>6. ASSUME NEW i \in IPs, WorkerExit(i)
      PROVE  InForce(ip)' /\ ban_db'[ip].expires = ban_db[ip].expires
  <2>1. now' = now /\ (ban_db' = ban_db \/ add_ip_to_ban_list(i, 0))
    BY <1>6 DEF WorkerExit, WorkerReport
  <2> QED
    BY <1>4, <2>1, AddKeepsBan
<1>7. ASSUME NEW i \in IPs, Unban(i), i # ip
      PROVE  InForce(ip)' /\ ban_db'[ip].expires = ban_db[ip].expires
  BY <1>7 DEF Unban, DbOK, InForce, Refuses
<1>8. CASE UNCHANGED vars
  BY <1>4, <1>8 DEF vars
<1> QED
  BY <1>1, <1>2, <1>3, <1>5, <1>6, <1>7, <1>8 DEF Next

\* Within its scoring window a ban ends by its expiration or by occtl only.
THEOREM BansStand == Spec => BanStands
<1>1. Inv /\ [Next]_vars
        => [\A ip \in IPs :
              InForce(ip) /\ ~WindowOver(ip)
                => InForce(ip)' \/ now' > ban_db[ip].expires \/ Unban(ip)]_vars
  <2> SUFFICES ASSUME Inv, [Next]_vars, NEW ip \in IPs, InForce(ip), ~WindowOver(ip)
               PROVE  InForce(ip)' \/ now' > ban_db[ip].expires \/ Unban(ip)
    OBVIOUS
  <2>1. DbOK
    BY DEF Inv, TypeOK, DbOK
  <2>2. CASE Tick
    <3>1. /\ ban_db' = ban_db /\ now \in Nat /\ now' = now + 1
          /\ ban_db[ip].expires \in Nat
      BY <2>1, <2>2 DEF Tick, DbOK, Entry
    <3>2. CASE now + 1 <= ban_db[ip].expires
      BY <3>1, <3>2 DEF InForce, Refuses
    <3>3. CASE ~(now + 1 <= ban_db[ip].expires)
      BY <3>1, <3>3
    <3> QED
      BY <3>2, <3>3
  <2> QED
    BY <2>1, <2>2, StepKeepsBan
<1> QED
  BY <1>1, InitInv, NextInv, PTL DEF Spec, BanStands

\* Within its scoring window the expiration of a ban is never moved on, however
\* often the address tries.
THEOREM BansAreNotExtended == Spec => BanNotExtended
<1>1. Inv /\ [Next]_vars
        => [\A ip \in IPs :
              InForce(ip) /\ ~WindowOver(ip)
                => ban_db'[ip].expires <= ban_db[ip].expires]_vars
  <2> SUFFICES ASSUME Inv, [Next]_vars, NEW ip \in IPs, InForce(ip), ~WindowOver(ip)
               PROVE  ban_db'[ip].expires <= ban_db[ip].expires
    OBVIOUS
  <2>1. DbOK /\ ban_db[ip] \in Entry
    BY DEF Inv, TypeOK, DbOK
  <2>2. CASE Unban(ip)
    <3>1. ban_db'[ip].expires = 0
      BY <2>1, <2>2 DEF Unban, DbOK, Entry
    <3> QED
      BY <2>1, <3>1 DEF Entry
  <2>3. CASE Tick
    BY <2>1, <2>3 DEF Tick, Entry
  <2> QED
    BY <2>1, <2>2, <2>3, StepKeepsBan DEF Entry
<1> QED
  BY <1>1, InitInv, NextInv, PTL DEF Spec, BanNotExtended

\* Within its scoring window a banned address that connects is turned away.
THEOREM BannedAreRefused == Spec => BannedRefused
<1>1. Inv /\ [Next]_vars
        => [\A ip \in IPs :
              InForce(ip) /\ ~WindowOver(ip) /\ Connect(ip) => verdict' = "refuse"]_vars
  <2> SUFFICES ASSUME Inv, NEW ip \in IPs, InForce(ip), ~WindowOver(ip), Connect(ip)
               PROVE  verdict' = "refuse"
    OBVIOUS
  <2>1. DbOK /\ PointsConnect \in Nat
    BY BanAssumption DEF Inv, TypeOK, DbOK
  <2>2. InForce(ip)'
    BY <2>1, AddKeepsBan DEF Connect
  <2>3. Refuses(ban_db'[ip])
    BY <2>2 DEF InForce, Refuses, Connect
  <2> QED
    BY <2>3 DEF Connect
<1> QED
  BY <1>1, InitInv, NextInv, PTL DEF Spec, BannedRefused

=============================================================================
