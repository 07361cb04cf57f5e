--------------------------- MODULE SessionsProofs ---------------------------
(***************************************************************************)
(* Theorems about the life of a session in main and sec-mod together, for  *)
(* every number of procs, users and addresses.                             *)
(*                                                                         *)
(* sec-mod's own invariant, SecModInv, is taken over from SecModProofs:    *)
(* every step of Sessions is a step of sec-mod or leaves it alone.  What   *)
(* main adds is counted: procs against active_clients, procs that owe a    *)
(* session_close against sec-mod's sessions, leases against the table and  *)
(* connected procs of a user against max-same-clients.  Most steps do not  *)
(* move any of these (QuietCounts); accepting a connection, the two        *)
(* answers to a cookie that open a session, and remove_proc do.  With the  *)
(* count of the sessions, the promise SecModRefinement proves of sec-mod's *)
(* sessions becomes one about main's.                                      *)
(***************************************************************************)
EXTENDS Sessions, SecModRefinement, FiniteSetTheorems

(***************************************************************************)
(* Facts the steps share                                                   *)
(***************************************************************************)

\* The invariant of one proc, and where its cookie points.
LEMMA ProcFacts ==
  ASSUME ShapeInv, NEW p \in Procs
  PROVE  /\ proc \in [Procs -> Proc] /\ proc[p] \in Proc /\ ProcInv(proc[p])
         /\ Len(minted) \in Nat /\ minted \in Seq([sid : Sids, user : Users])
         /\ proc[p].cookie # 0 => /\ proc[p].cookie \in 1 .. Len(minted)
                                  /\ Sid(p) \in Sids /\ User(p) \in Users
<1>1. proc \in [Procs -> Proc] /\ proc[p] \in Proc /\ ProcInv(proc[p])
      /\ minted \in Seq([sid : Sids, user : Users])
  BY DEF ShapeInv, TypeOK
<1>2. Len(minted) \in Nat
  BY <1>1
<1>3. proc[p].cookie # 0 => proc[p].cookie \in 1 .. Len(minted)
  BY <1>1, <1>2 DEF ProcInv, Proc
<1>4. proc[p].cookie # 0 => minted[proc[p].cookie] \in [sid : Sids, user : Users]
  <2> DEFINE M == [sid : Sids, user : Users]
  <2>1. minted \in Seq(M)
    BY <1>1
  <2> HIDE DEF M
  <2>2. \A i \in 1 .. Len(minted) : minted[i] \in M
    BY <2>1
  <2> QED
    BY <1>3, <2>2 DEF M
<1> QED
  BY <1>1, <1>2, <1>3, <1>4 DEF Sid, User

\* Sets of procs are finite, and their sizes are numbers.
LEMMA FiniteProcs ==
  ASSUME NEW S \in SUBSET Procs
  PROVE  IsFiniteSet(S) /\ Cardinality(S) \in Nat
<1>1. IsFiniteSet(S)
  BY SessionsAssumption, FS_Subset
<1> QED
  BY <1>1, FS_CardinalityType

\* A smaller set of procs counts no more.
LEMMA FewerProcs ==
  ASSUME NEW S \in SUBSET Procs, NEW T \in SUBSET S
  PROVE  Cardinality(T) <= Cardinality(S)
BY FiniteProcs, FS_Subset

\* r becomes n without touching what is counted.
Quiet(r, n) ==
  /\ (n.status = "free") = (r.status = "free")
  /\ n.active_sid = r.active_sid /\ n.lease = r.lease /\ n.connected = r.connected
  /\ r.active_sid \/ r.connected => n.cookie = r.cookie

\* The procs of one user that are connected.
Connected(user) == {p \in Listed : proc[p].connected /\ User(p) = user}

\* A proc with a session or a connected user keeps its cookie, and what the
\* cookie says does not change when others are minted.
LEMMA SameOwner ==
  ASSUME ShapeInv, NEW p \in Procs, proc[p].active_sid \/ proc[p].connected,
         proc'[p].cookie = proc[p].cookie,
         \A i \in 1 .. Len(minted) : minted'[i] = minted[i]
  PROVE  Sid(p)' = Sid(p) /\ User(p)' = User(p)
<1>1. proc[p].cookie \in 1 .. Len(minted)
  BY ProcFacts DEF ProcInv
<1> QED
  BY <1>1 DEF Sid, User

\* A step that opens and closes no session leaves the counts alone.
LEMMA QuietCounts ==
  ASSUME SessionsInv, \A p \in Procs : Quiet(proc[p], proc'[p]),
         \A i \in 1 .. Len(minted) : minted'[i] = minted[i],
         UNCHANGED <<holders, ip_leases, active_clients>>
  PROVE  CountInv'
<1>1. ShapeInv /\ CountInv
  BY DEF SessionsInv
<1>2. Listed' = Listed
  BY DEF Listed, Quiet
<1>3. \A p \in Procs : proc[p].active_sid \/ proc[p].connected
                         => Sid(p)' = Sid(p) /\ User(p)' = User(p)
  BY <1>1, SameOwner DEF Quiet
<1>4. \A sid \in Sids : Holding(sid)' = Holding(sid)
  BY <1>2, <1>3 DEF Holding, Listed, Quiet
<1>5. \A user \in Users : Connected(user)' = Connected(user)
  BY <1>2, <1>3 DEF Connected, Listed, Quiet
<1>6. HoldersAreProcs'
  BY <1>1, <1>4 DEF CountInv, HoldersAreProcs
<1>7. LeasesExclusive'
  <2>1. \A p \in Procs : proc'[p].lease = proc[p].lease
    BY DEF Quiet
  <2> QED
    BY <1>1, <2>1 DEF CountInv, LeasesExclusive
<1>8. SameClientsBounded'
  BY <1>1, <1>5 DEF CountInv, SameClientsBounded, Connected
<1> QED
  BY <1>1, <1>2, <1>6, <1>7, <1>8 DEF CountInv

(***************************************************************************)
(* Steps of one proc                                                       *)
(***************************************************************************)

ReportsInv ==
  /\ reports \in Seq([sid : Sids, bytes : Nat])
  /\ \A i \in 1 .. Len(reports) : reports[i].bytes <= MaxBytes

\* The shape is kept by a step that rewrites procs into well-formed ones and
\* mints nothing.
LEMMA ShapeKept ==
  ASSUME ShapeInv, proc' \in [Procs -> Proc], \A x \in Procs : ProcInv(proc'[x]),
         SecModInv', UNCHANGED <<cookies, minted>>, ReportsInv',
         active_clients' \in Nat, ip_leases' \subseteq Pool,
         removing' \in Procs \cup {NoProc},
         removing' # NoProc => proc'[removing'].status # "free"
  PROVE  ShapeInv'
<1>1. TypeOK'
  BY DEF ShapeInv, TypeOK, ReportsInv, SecModInv
<1>2. \A x \in Procs : ProcInv(proc[x])'
  BY DEF ProcInv
<1>3. removing' # NoProc => removing' \in Listed'
  BY DEF Listed
<1> QED
  BY <1>1, <1>2, <1>3 DEF ShapeInv, ReportsInv

\* One proc is rewritten, and removing is left alone or points at it.
LEMMA OneProc ==
  ASSUME ShapeInv, NEW p \in Procs, NEW r \in Proc, proc' = [proc EXCEPT ![p] = r],
         ProcInv(r), r.status # "free",
         SecModInv', UNCHANGED <<cookies, minted>>, ReportsInv',
         active_clients' \in Nat, ip_leases' \subseteq Pool,
         removing' \in {removing, p, NoProc}
  PROVE  ShapeInv'
<1>1. proc \in [Procs -> Proc] /\ removing \in Procs \cup {NoProc}
      /\ \A x \in Procs : ProcInv(proc[x])
  BY DEF ShapeInv, TypeOK
<1>2. proc' \in [Procs -> Proc] /\ proc'[p] = r /\ \A x \in Procs \ {p} : proc'[x] = proc[x]
  BY <1>1
<1>3. \A x \in Procs : ProcInv(proc'[x])
  BY <1>1, <1>2
<1>4. removing' \in Procs \cup {NoProc}
  BY <1>1
<1>5. removing' # NoProc => proc'[removing'].status # "free"
  <2>1. removing # NoProc => removing \in Procs /\ proc[removing].status # "free"
    BY DEF ShapeInv, Listed
  <2> QED
    BY <1>2, <2>1
<1> QED
  BY <1>2, <1>3, <1>4, <1>5, ShapeKept

\* If that is quiet too, the whole invariant is kept.
LEMMA QuietProc ==
  ASSUME SessionsInv, NEW p \in Procs, NEW r \in Proc, proc' = [proc EXCEPT ![p] = r],
         ProcInv(r), r.status # "free", Quiet(proc[p], r),
         SecModInv', UNCHANGED <<cookies, minted, holders, ip_leases, active_clients>>,
         ReportsInv', removing' \in {removing, p, NoProc}
  PROVE  SessionsInv'
<1>1. ShapeInv /\ proc \in [Procs -> Proc]
  BY DEF SessionsInv, ShapeInv, TypeOK
<1>2. active_clients' \in Nat /\ ip_leases' \subseteq Pool
  BY <1>1 DEF ShapeInv, TypeOK
<1>3. ShapeInv'
  BY <1>1, <1>2, OneProc
<1>4. \A x \in Procs : Quiet(proc[x], proc'[x])
  BY <1>1 DEF Quiet
<1>5. CountInv'
  BY <1>4, QuietCounts
<1> QED
  BY <1>3, <1>5 DEF SessionsInv

\* What the steps that do not concern sec-mod start from.
LEMMA SecModSame ==
  ASSUME ShapeInv, UNCHANGED secmod_vars
  PROVE  SecModInv' /\ UNCHANGED <<cookies, holders>>
<1>1. SecModInv
  BY DEF ShapeInv
<1> QED
  BY <1>1, NextInv DEF secmod_vars

\* Reports that are not touched stay within their bounds.
LEMMA ReportsSame ==
  ASSUME ShapeInv, UNCHANGED reports
  PROVE  ReportsInv'
BY DEF ShapeInv, TypeOK, ReportsInv

\* A worker's last report names its own session and is within bounds.
LEMMA FinalReportFacts ==
  ASSUME ShapeInv, NEW p \in Procs, reports' = FinalReport(p)
  PROVE  ReportsInv'
<1>1. /\ ReportsInv /\ proc[p] \in Proc /\ proc[p].bytes <= MaxBytes
      /\ proc[p].status = "completed" => proc[p].cookie # 0
  BY ProcFacts DEF ShapeInv, TypeOK, ReportsInv, ProcInv
<1>2. CASE proc[p].status = "completed" /\ proc[p].sid_set
  <2> DEFINE M == [sid : Sids, bytes : Nat]
             m == [sid |-> Sid(p), bytes |-> proc[p].bytes]
  <2>1. m \in M /\ m.bytes <= MaxBytes
    BY <1>1, <1>2, ProcFacts DEF Proc
  <2>2. reports \in Seq(M) /\ \A i \in 1 .. Len(reports) : reports[i].bytes <= MaxBytes
    BY <1>1 DEF ReportsInv
  <2>3. reports' = Append(reports, m)
    BY <1>2 DEF FinalReport
  <2> HIDE DEF M, m
  <2>4. reports' \in Seq(M) /\ Len(reports') = Len(reports) + 1 /\ Len(reports) \in Nat
        /\ reports'[Len(reports) + 1] = m
        /\ \A i \in 1 .. Len(reports) : reports'[i] = reports[i]
    BY <2>1, <2>2, <2>3
  <2>5. \A i \in 1 .. Len(reports') : i \in 1 .. Len(reports) \/ i = Len(reports) + 1
    BY <2>4
  <2>6. \A i \in 1 .. Len(reports') : reports'[i].bytes <= MaxBytes
    BY <2>1, <2>2, <2>4, <2>5
  <2> QED
    BY <2>4, <2>6 DEF ReportsInv, M
<1>3. CASE ~(proc[p].status = "completed" /\ proc[p].sid_set)
  BY <1>1, <1>3 DEF FinalReport, ReportsInv
<1> QED
  BY <1>2, <1>3

\* The reply is sent or lost; only the status of the proc shows which.
LEMMA AnsweredFacts ==
  ASSUME NEW p, NEW r \in Proc
  PROVE  LET a == Answered(p, r)
         IN  /\ a \in Proc /\ a.status \in {r.status, "failed"} /\ a.cookie = r.cookie
             /\ a.active_sid = r.active_sid /\ a.in_table = r.in_table /\ a.lease = r.lease
             /\ a.script = r.script /\ a.connected = r.connected /\ a.killed = r.killed
             /\ a.bytes = r.bytes
<1>1. CASE Answered(p, r) = r
  BY <1>1
<1>2. CASE Answered(p, r) = [r EXCEPT !.status = "failed"]
  BY <1>2 DEF Proc
<1> QED
  BY <1>1, <1>2 DEF Answered

\* A proc whose request is refused keeps the invariant.
LEMMA RejectedInv ==
  ASSUME SessionsInv, NEW p \in Procs, NEW cookie \in 0 .. Len(minted),
         proc[p].status = "inactive", Rejected(p, cookie),
         SecModInv', UNCHANGED <<cookies, holders>>
  PROVE  SessionsInv'
<1>1. ShapeInv
  BY DEF SessionsInv
<1>2. /\ proc[p] \in Proc /\ ProcInv(proc[p]) /\ Len(minted) \in Nat
      /\ proc \in [Procs -> Proc] /\ cookie \in Nat /\ cookie <= Len(minted)
  BY <1>1, ProcFacts
<1> DEFINE r == [proc[p] EXCEPT !.status = "failed", !.cookie = cookie]
<1>3. proc' = [proc EXCEPT ![p] = r]
  BY <1>2 DEF Rejected
<1>4. /\ r \in Proc /\ r.status = "failed" /\ r.cookie = cookie
      /\ r.active_sid = proc[p].active_sid /\ r.lease = proc[p].lease
      /\ r.connected = proc[p].connected /\ r.in_table = proc[p].in_table
      /\ r.script = proc[p].script /\ r.bytes = proc[p].bytes
  BY <1>2 DEF Proc
<1> HIDE DEF r
<1>5. ProcInv(r) /\ Quiet(proc[p], r) /\ r.status # "free"
  BY <1>2, <1>4 DEF ProcInv, Quiet
<1>6. removing' \in {removing, p, NoProc} /\ ReportsInv'
      /\ UNCHANGED <<minted, ip_leases, active_clients>>
  BY <1>1, ReportsSame DEF Rejected, NextRemoval
<1> QED
  BY <1>3, <1>4, <1>5, <1>6, QuietProc

\* A cookie that cannot be decrypted keeps it.
LEMMA CookieGarbageInv ==
  ASSUME SessionsInv, NEW p \in Procs, CookieGarbage(p)
  PROVE  SessionsInv'
<1>1. ShapeInv /\ 0 \in 0 .. Len(minted)
  BY ProcFacts DEF SessionsInv
<1> QED
  BY <1>1, SecModSame, RejectedInv DEF CookieGarbage

\* A cookie main can decrypt is one that was minted, for the SID it names.
LEMMA MintedFacts ==
  ASSUME ShapeInv, NEW cookie \in 1 .. cookies
  PROVE  /\ cookie \in 1 .. Len(minted) /\ cookie \in 0 .. Len(minted) /\ cookie # 0
         /\ cookie \in Nat /\ minted[cookie].sid \in Sids /\ minted[cookie].user \in Users
<1> DEFINE M == [sid : Sids, user : Users]
<1>1. minted \in Seq(M) /\ Len(minted) = cookies
  BY DEF ShapeInv, TypeOK
<1> HIDE DEF M
<1>2. Len(minted) \in Nat /\ \A i \in 1 .. Len(minted) : minted[i] \in M
  BY <1>1
<1>3. minted[cookie] \in M
  BY <1>1, <1>2
<1> QED
  BY <1>1, <1>2, <1>3 DEF M

\* One that sec-mod denies does.
LEMMA CookieDeniedInv ==
  ASSUME SessionsInv, NEW p \in Procs, NEW cookie \in 1 .. cookies, CookieDenied(p, cookie)
  PROVE  SessionsInv'
<1>1. ShapeInv /\ SecModInv
  BY DEF SessionsInv, ShapeInv
<1>2. minted[cookie].sid \in Sids /\ cookie \in 0 .. Len(minted)
  BY <1>1, MintedFacts
<1>3. SessionOpenDenied(minted[cookie].sid, cookie)
  BY DEF CookieDenied
<1>4. SecModInv' /\ UNCHANGED <<cookies, holders>>
  BY <1>1, <1>2, <1>3, SessionOpenDeniedInv DEF SessionOpenDenied
<1> QED
  BY <1>2, <1>4, RejectedInv DEF CookieDenied

\* The end of a connect script does.
LEMMA ScriptExitInv ==
  ASSUME SessionsInv, NEW p \in Procs, NEW ok \in BOOLEAN, ScriptExit(p, ok)
  PROVE  SessionsInv'
<1>1. ShapeInv
  BY DEF SessionsInv
<1>2. proc[p] \in Proc /\ ProcInv(proc[p]) /\ proc \in [Procs -> Proc] /\ proc[p].script
  BY <1>1, ProcFacts DEF ScriptExit
<1> DEFINE r == [proc[p] EXCEPT !.script = FALSE, !.status = IF ok THEN "completed" ELSE @]
<1>3. proc' = [proc EXCEPT ![p] = r]
  BY <1>2 DEF ScriptExit
<1>4. /\ r \in Proc /\ r.status \in {"completed", proc[p].status} /\ r.script = FALSE
      /\ r.cookie = proc[p].cookie
      /\ r.active_sid = proc[p].active_sid /\ r.lease = proc[p].lease
      /\ r.connected = proc[p].connected /\ r.in_table = proc[p].in_table
      /\ r.bytes = proc[p].bytes /\ r.killed = proc[p].killed
  BY <1>2 DEF Proc
<1>5. proc[p].status \notin {"free", "inactive"}
  BY <1>2 DEF ProcInv, FreeProc
<1> HIDE DEF r
<1>6. ProcInv(r) /\ Quiet(proc[p], r) /\ r.status # "free"
  BY <1>2, <1>4, <1>5 DEF ProcInv, Quiet
<1>7. removing' \in {removing, p, NoProc} /\ ReportsInv' /\ SecModInv'
      /\ UNCHANGED <<cookies, holders, minted, ip_leases, active_clients>>
  BY <1>1, ReportsSame, SecModSame DEF ScriptExit, NextRemoval
<1> QED
  BY <1>3, <1>4, <1>6, <1>7, QuietProc

\* occtl's disconnect does.
LEMMA DisconnectInv ==
  ASSUME SessionsInv, NEW p \in Procs, Disconnect(p)
  PROVE  SessionsInv'
<1>1. ShapeInv
  BY DEF SessionsInv
<1>2. proc[p] \in Proc /\ ProcInv(proc[p]) /\ proc \in [Procs -> Proc] /\ proc[p].status # "free"
  BY <1>1, ProcFacts DEF Disconnect, Listed
<1> DEFINE r == [proc[p] EXCEPT !.killed = TRUE]
<1>3. proc' = [proc EXCEPT ![p] = r]
  BY <1>2 DEF Disconnect
<1>4. /\ r \in Proc /\ r.status = proc[p].status /\ r.script = proc[p].script
      /\ r.cookie = proc[p].cookie
      /\ r.active_sid = proc[p].active_sid /\ r.lease = proc[p].lease
      /\ r.connected = proc[p].connected /\ r.in_table = proc[p].in_table
      /\ r.bytes = proc[p].bytes /\ r.killed = TRUE
  BY <1>2 DEF Proc
<1> HIDE DEF r
<1>5. ProcInv(r) /\ Quiet(proc[p], r) /\ r.status # "free"
  BY <1>2, <1>4 DEF ProcInv, Quiet
<1>6. removing' \in {removing, p, NoProc} /\ ReportsInv' /\ SecModInv'
      /\ UNCHANGED <<cookies, holders, minted, ip_leases, active_clients>>
  BY <1>1, ReportsSame, SecModSame DEF Disconnect
<1> QED
  BY <1>3, <1>4, <1>5, <1>6, QuietProc

\* A worker that leaves or dies.
LEMMA WorkerEndInv ==
  ASSUME SessionsInv, NEW p \in Procs, WorkerLeaves(p) \/ WorkerDies(p)
  PROVE  SessionsInv'
<1>1. ShapeInv
  BY DEF SessionsInv
<1>2. proc[p] \in Proc /\ ProcInv(proc[p]) /\ proc \in [Procs -> Proc] /\ proc[p].status # "free"
  BY <1>1, ProcFacts DEF WorkerLeaves, WorkerDies, Listed
<1>3. PICK w \in {"left", "died"} : proc' = [proc EXCEPT ![p].worker = w]
  BY DEF WorkerLeaves, WorkerDies
<1> DEFINE r == [proc[p] EXCEPT !.worker = w]
<1>4. proc' = [proc EXCEPT ![p] = r]
  BY <1>2, <1>3
<1>5. /\ r \in Proc /\ r.status = proc[p].status /\ r.script = proc[p].script
      /\ r.cookie = proc[p].cookie
      /\ r.active_sid = proc[p].active_sid /\ r.lease = proc[p].lease
      /\ r.connected = proc[p].connected /\ r.in_table = proc[p].in_table
      /\ r.bytes = proc[p].bytes /\ r.killed = proc[p].killed
  BY <1>2 DEF Proc
<1> HIDE DEF r
<1>6. ProcInv(r) /\ Quiet(proc[p], r) /\ r.status # "free"
  BY <1>2, <1>5 DEF ProcInv, Quiet
<1>7. removing' \in {removing, p, NoProc} /\ SecModInv'
      /\ UNCHANGED <<cookies, holders, minted, ip_leases, active_clients>>
  BY <1>1, SecModSame DEF WorkerLeaves, WorkerDies
<1>8. ReportsInv'
  BY <1>1, ReportsSame, FinalReportFacts DEF WorkerLeaves, WorkerDies
<1> QED
  BY <1>4, <1>5, <1>6, <1>7, <1>8, QuietProc

\* What a client sends does.
LEMMA TrafficInv ==
  ASSUME SessionsInv, NEW p \in Procs, Traffic(p)
  PROVE  SessionsInv'
<1>1. ShapeInv
  BY DEF SessionsInv
<1>2. /\ proc[p] \in Proc /\ ProcInv(proc[p]) /\ proc \in [Procs -> Proc]
      /\ proc[p].status = "completed" /\ proc[p].bytes < MaxBytes
      /\ proc[p].bytes \in Nat /\ MaxBytes \in Nat
  BY <1>1, ProcFacts, SecModAssumption DEF Traffic, Proc
<1> DEFINE n == proc[p].bytes + 1
           r == [proc[p] EXCEPT !.bytes = n]
<1>3. proc' = [proc EXCEPT ![p] = r]
  BY <1>2 DEF Traffic
<1>4. n \in Nat /\ n <= MaxBytes
  BY <1>2
<1> HIDE DEF n
<1>5. /\ r \in Proc /\ r.status = proc[p].status /\ r.script = proc[p].script
      /\ r.cookie = proc[p].cookie
      /\ r.active_sid = proc[p].active_sid /\ r.lease = proc[p].lease
      /\ r.connected = proc[p].connected /\ r.in_table = proc[p].in_table
      /\ r.bytes = n /\ r.killed = proc[p].killed
  BY <1>2, <1>4 DEF Proc
<1> HIDE DEF r
<1>6. ProcInv(r) /\ Quiet(proc[p], r) /\ r.status # "free"
  BY <1>2, <1>4, <1>5 DEF ProcInv, Quiet
<1>7. removing' \in {removing, p, NoProc} /\ SecModInv' /\ ReportsInv'
      /\ UNCHANGED <<cookies, holders, minted, ip_leases, active_clients>>
  BY <1>1, SecModSame, ReportsSame DEF Traffic
<1> QED
  BY <1>3, <1>5, <1>6, <1>7, QuietProc

\* Steps that leave every proc alone.
LEMMA NoProcInv ==
  ASSUME SessionsInv, UNCHANGED <<proc, active_clients, ip_leases, minted, removing>>,
         SecModInv', UNCHANGED <<cookies, holders>>, ReportsInv'
  PROVE  SessionsInv'
<1>1. ShapeInv
  BY DEF SessionsInv
<1>2. ShapeInv'
  <2>1. /\ proc' \in [Procs -> Proc] /\ active_clients' \in Nat /\ ip_leases' \subseteq Pool
        /\ removing' \in Procs \cup {NoProc} /\ \A x \in Procs : ProcInv(proc'[x])
        /\ removing' # NoProc => proc'[removing'].status # "free"
    BY <1>1 DEF ShapeInv, TypeOK, Listed
  <2> QED
    BY <1>1, <2>1, ShapeKept
<1>3. CountInv'
  BY QuietCounts DEF Quiet
<1> QED
  BY <1>2, <1>3 DEF SessionsInv

\* A worker's report does.
LEMMA PeriodicStatsInv ==
  ASSUME SessionsInv, NEW p \in Procs, PeriodicStats(p)
  PROVE  SessionsInv'
BY SecModSame, FinalReportFacts, NoProcInv DEF PeriodicStats, SessionsInv

\* sec-mod's reading of it does.
LEMMA ServeStatsInv ==
  ASSUME SessionsInv, ServeStats
  PROVE  SessionsInv'
<1> DEFINE M == [sid : Sids, bytes : Nat]
           m == Head(reports)
<1>1. ShapeInv /\ SecModInv
  BY DEF SessionsInv, ShapeInv
<1>2. /\ reports \in Seq(M) /\ reports # <<>> /\ reports' = Tail(reports)
      /\ \A i \in 1 .. Len(reports) : reports[i].bytes <= MaxBytes
  BY <1>1 DEF ShapeInv, TypeOK, ServeStats
<1>3. /\ m \in M /\ Tail(reports) \in Seq(M)
      /\ Len(Tail(reports)) = Len(reports) - 1 /\ Len(reports) \in Nat
      /\ \A i \in 1 .. Len(Tail(reports)) : Tail(reports)[i] = reports[i + 1]
  <2> HIDE DEF M
  <2> QED BY <1>2
<1>4. ReportsInv'
  BY <1>2, <1>3 DEF ReportsInv
<1>5. m.sid \in Sids /\ m.bytes \in Nat
  BY <1>3
<1>6. Stats(m.sid, m.bytes) \/ UNCHANGED secmod_vars
  BY DEF ServeStats
<1> HIDE DEF m
<1>7. SecModInv' /\ UNCHANGED <<cookies, holders>>
  BY <1>1, <1>5, <1>6, StatsInv, SecModSame DEF Stats
<1> QED
  BY <1>4, <1>7, NoProcInv DEF ServeStats

\* Maintenance, whether it removes entries or only lets time pass, does.
LEMMA MaintenanceInv ==
  ASSUME SessionsInv, Maintenance
  PROVE  SessionsInv'
<1>1. ShapeInv /\ SecModInv
  BY DEF SessionsInv, ShapeInv
<1>2. SecModInv' /\ UNCHANGED <<cookies, holders>>
  BY <1>1, CleanupInv, TickInv DEF Maintenance, cleanup_client_entries, Tick
<1> QED
  BY <1>1, <1>2, ReportsSame, NoProcInv DEF Maintenance, main_vars

\* A client authenticates: the cookie, if one is made, is the next to be minted.
LEMMA AuthenticateInv ==
  ASSUME SessionsInv, Authenticate
  PROVE  SessionsInv'
<1> DEFINE M == [sid : Sids, user : Users]
<1>1. ShapeInv /\ SecModInv /\ minted \in Seq(M) /\ Len(minted) = cookies /\ cookies \in Nat
  BY DEF SessionsInv, ShapeInv, TypeOK, SecModTypeOK
<1>2. PICK sid \in Sids :
        /\ AuthInit(sid) \/ AuthCont(sid)
        /\ IF cookies' = cookies
             THEN UNCHANGED minted
             ELSE \E user \in Users : minted' = Append(minted, [sid |-> sid, user |-> user])
  BY DEF Authenticate
<1>3. SecModInv'
  BY <1>1, <1>2, AuthInitInv, AuthContInv
<1>4. cookies' \in {cookies, cookies + 1} /\ UNCHANGED holders
  BY <1>2 DEF AuthInit, AuthCont, handle_sec_auth_res
<1>5. UNCHANGED <<proc, active_clients, ip_leases, reports, removing>>
  BY DEF Authenticate
<1>6. /\ minted' \in Seq(M) /\ Len(minted') = cookies' /\ Len(minted) <= Len(minted')
      /\ \A i \in 1 .. Len(minted) : minted'[i] = minted[i]
  <2>1. CASE cookies' = cookies
    BY <1>1, <1>2, <2>1
  <2>2. CASE cookies' # cookies
    <3>1. PICK user \in Users : minted' = Append(minted, [sid |-> sid, user |-> user])
      BY <1>2, <2>2
    <3>2. [sid |-> sid, user |-> user] \in M
      OBVIOUS
    <3> HIDE DEF M
    <3> QED BY <1>1, <1>4, <2>2, <3>1, <3>2
  <2> QED
    BY <2>1, <2>2
<1>7. \A x \in Procs : ProcInv(proc[x])'
  <2> SUFFICES ASSUME NEW x \in Procs PROVE ProcInv(proc[x])'
    OBVIOUS
  <2>1. ProcInv(proc[x]) /\ proc[x].cookie \in Nat
    BY <1>1, ProcFacts DEF Proc
  <2>2. proc[x].cookie <= Len(minted')
    BY <1>1, <1>4, <1>6, <2>1 DEF ProcInv
  <2> QED
    BY <1>5, <2>1, <2>2 DEF ProcInv
<1>8. TypeOK'
  BY <1>1, <1>3, <1>5, <1>6 DEF ShapeInv, TypeOK, SecModInv
<1>9. ShapeInv'
  BY <1>1, <1>3, <1>5, <1>6, <1>7, <1>8 DEF ShapeInv, Listed
<1>10. CountInv'
  BY <1>4, <1>5, <1>6, QuietCounts DEF Quiet
<1> QED
  BY <1>9, <1>10 DEF SessionsInv

(***************************************************************************)
(* Steps that count                                                        *)
(***************************************************************************)

\* What is known of a free slot.
LEMMA FreeFacts ==
  /\ FreeProc \in Proc /\ FreeProc.status = "free" /\ FreeProc.cookie = 0
  /\ FreeProc.active_sid = FALSE /\ FreeProc.in_table = FALSE /\ FreeProc.lease = NoIP
  /\ FreeProc.script = FALSE /\ FreeProc.connected = FALSE /\ FreeProc.bytes = 0
BY DEF FreeProc, Proc

\* A new connection keeps the invariant.
LEMMA AcceptInv ==
  ASSUME SessionsInv, NEW p \in Procs, Accept(p)
  PROVE  SessionsInv'
<1>1. ShapeInv /\ CountInv
  BY DEF SessionsInv
<1> DEFINE r == [FreeProc EXCEPT !.status = "inactive"]
<1>2. /\ proc \in [Procs -> Proc] /\ Len(minted) \in Nat /\ MaxBytes \in Nat
      /\ proc[p] = FreeProc /\ active_clients \in Nat
  BY <1>1, ProcFacts, SecModAssumption DEF Accept, ProcInv, ShapeInv, TypeOK
<1>3. /\ r \in Proc /\ r.status = "inactive" /\ r.cookie = 0 /\ r.active_sid = FALSE
      /\ r.in_table = FALSE /\ r.lease = NoIP /\ r.script = FALSE /\ r.connected = FALSE
      /\ r.bytes = 0
  BY DEF FreeProc, Proc
<1>4. proc' = [proc EXCEPT ![p] = r] /\ active_clients' = active_clients + 1
      /\ UNCHANGED <<ip_leases, minted, reports, removing>> /\ UNCHANGED secmod_vars
  BY DEF Accept
<1> HIDE DEF r
<1>5. SecModInv' /\ UNCHANGED <<cookies, holders>> /\ ReportsInv'
  BY <1>1, <1>4, SecModSame, ReportsSame
<1>6. ProcInv(r) /\ r.status # "free"
  BY <1>2, <1>3 DEF ProcInv
<1>7. ShapeInv'
  <2>1. active_clients' \in Nat /\ ip_leases' \subseteq Pool
    BY <1>1, <1>2, <1>4 DEF ShapeInv, TypeOK
  <2> QED
    BY <1>1, <1>3, <1>4, <1>5, <1>6, <2>1, OneProc
<1>8. proc'[p] = r /\ \A x \in Procs \ {p} : proc'[x] = proc[x]
  BY <1>2, <1>4
<1>9. p \notin Listed /\ Listed' = Listed \cup {p}
  BY <1>2, <1>3, <1>8, FreeFacts DEF Listed
<1>10. active_clients' = Cardinality(Listed')
  <2>1. IsFiniteSet(Listed)
    BY FiniteProcs DEF Listed
  <2>2. Cardinality(Listed \cup {p}) = Cardinality(Listed) + 1
    BY <1>9, <2>1, FS_AddElement
  <2> QED
    BY <1>1, <1>4, <1>9, <2>2 DEF CountInv
<1>11. \A sid \in Sids : Holding(sid)' = Holding(sid)
  BY <1>3, <1>4, <1>8, <1>9 DEF Holding, Sid
<1>12. \A user \in Users : Connected(user)' = Connected(user)
  BY <1>3, <1>4, <1>8, <1>9 DEF Connected, User
<1>13. HoldersAreProcs'
  BY <1>1, <1>5, <1>11 DEF CountInv, HoldersAreProcs
<1>14. SameClientsBounded'
  BY <1>1, <1>12 DEF CountInv, SameClientsBounded, Connected
<1>15. LeasesExclusive'
  <2>1. \A x \in Procs : proc'[x].lease = proc[x].lease
    BY <1>2, <1>3, <1>8, FreeFacts
  <2> QED
    BY <1>1, <1>4, <2>1 DEF CountInv, LeasesExclusive
<1> QED
  BY <1>7, <1>10, <1>13, <1>14, <1>15 DEF SessionsInv, CountInv

\* A proc x keeps its place, its session and its cookie.
Stays(x) ==
  /\ (proc'[x].status = "free") = (proc[x].status = "free")
  /\ proc'[x].active_sid = proc[x].active_sid /\ proc'[x].cookie = proc[x].cookie

\* session_open for p: one more session at sec-mod, one more proc that owes its
\* close.
LEMMA OpenCounted ==
  ASSUME ShapeInv, HoldersAreProcs, NEW p \in Procs, NEW cookie \in 1 .. cookies,
         ~proc[p].active_sid, proc'[p].active_sid, proc'[p].status # "free",
         proc'[p].cookie = cookie, \A x \in Procs \ {p} : Stays(x),
         UNCHANGED minted,
         holders' = [holders EXCEPT ![minted[cookie].sid] = @ + 1]
  PROVE  HoldersAreProcs'
<1>1. PICK sid \in Sids : sid = minted[cookie].sid
  BY MintedFacts
<1>2. holders \in [Sids -> Nat] /\ holders' = [holders EXCEPT ![sid] = holders[sid] + 1]
  BY <1>1 DEF ShapeInv, SecModInv, SecModTypeOK
<1>3. Sid(p)' = sid /\ \A x \in Procs \ {p} : Sid(x)' = Sid(x)
  BY <1>1 DEF Sid, Stays
<1>4. /\ p \in Listed' /\ proc'[p].active_sid
      /\ \A x \in Procs \ {p} : /\ x \in Listed' <=> x \in Listed
                               /\ proc'[x].active_sid = proc[x].active_sid
  BY DEF Listed, Stays
<1>5. p \notin Holding(sid) /\ Holding(sid)' = Holding(sid) \cup {p}
  BY <1>3, <1>4 DEF Holding, Listed
<1>6. \A s \in Sids \ {sid} : Holding(s)' = Holding(s)
  BY <1>3, <1>4 DEF Holding, Listed
<1>7. Cardinality(Holding(sid)') = Cardinality(Holding(sid)) + 1
  <2>1. IsFiniteSet(Holding(sid))
    BY FiniteProcs DEF Holding, Listed
  <2> QED
    BY <1>5, <2>1, FS_AddElement
<1>8. ASSUME NEW s \in Sids PROVE holders'[s] = Cardinality(Holding(s)')
  <2>1. holders[s] = Cardinality(Holding(s))
    BY DEF HoldersAreProcs
  <2> QED
    BY <1>2, <1>6, <1>7, <2>1
<1> QED
  BY <1>8 DEF HoldersAreProcs

\* A cookie refused because the client's address changed does.
LEMMA CookieRoamsInv ==
  ASSUME SessionsInv, NEW p \in Procs, NEW cookie \in 1 .. cookies, CookieRoams(p, cookie)
  PROVE  SessionsInv'
<1>1. ShapeInv /\ CountInv /\ SecModInv
  BY DEF SessionsInv, ShapeInv
<1>2. /\ proc[p] \in Proc /\ ProcInv(proc[p]) /\ Len(minted) \in Nat
      /\ proc \in [Procs -> Proc] /\ proc[p].status = "inactive"
  BY <1>1, ProcFacts DEF CookieRoams
<1>3. cookie \in Nat /\ cookie # 0 /\ cookie \in 1 .. Len(minted) /\ minted[cookie].sid \in Sids
  BY <1>1, MintedFacts
<1> DEFINE r == [proc[p] EXCEPT !.status = "failed", !.cookie = cookie, !.active_sid = TRUE]
<1>4. proc' = [proc EXCEPT ![p] = r]
  BY <1>2 DEF CookieRoams
<1>5. /\ r \in Proc /\ r.status = "failed" /\ r.cookie = cookie
      /\ r.active_sid = TRUE /\ r.lease = proc[p].lease
      /\ r.connected = proc[p].connected /\ r.in_table = proc[p].in_table
      /\ r.script = proc[p].script /\ r.bytes = proc[p].bytes
  BY <1>2, <1>3 DEF Proc
<1> HIDE DEF r
<1>6. ProcInv(r) /\ r.status # "free"
  BY <1>2, <1>3, <1>5 DEF ProcInv
<1>7. SessionOpen(minted[cookie].sid, cookie) /\ UNCHANGED <<active_clients, ip_leases, minted, reports>>
  BY DEF CookieRoams
<1>8. SecModInv' /\ UNCHANGED cookies
      /\ holders' = [holders EXCEPT ![minted[cookie].sid] = @ + 1]
  BY <1>1, <1>3, <1>7, SessionOpenInv DEF SessionOpen
<1>9. ShapeInv'
  <2>1. active_clients' \in Nat /\ ip_leases' \subseteq Pool /\ ReportsInv'
        /\ removing' \in {removing, p, NoProc}
    BY <1>1, <1>7, ReportsSame DEF ShapeInv, TypeOK, CookieRoams, NextRemoval
  <2> QED
    BY <1>1, <1>4, <1>5, <1>6, <1>7, <1>8, <2>1, OneProc
<1>10. proc'[p] = r /\ \A x \in Procs \ {p} : proc'[x] = proc[x]
  BY <1>2, <1>4
<1>11. HoldersAreProcs'
  <2>1. \A x \in Procs \ {p} : Stays(x)
    BY <1>10 DEF Stays
  <2>2. ~proc[p].active_sid
    BY <1>2 DEF ProcInv
  <2> QED
    BY <1>1, <1>5, <1>6, <1>7, <1>8, <1>10, <2>1, <2>2, OpenCounted DEF CountInv
<1>12. Listed' = Listed
  BY <1>2, <1>6, <1>10 DEF Listed
<1>13. \A user \in Users : Connected(user)' = Connected(user)
  <2>1. ~proc[p].connected /\ ~proc'[p].connected
    BY <1>2, <1>5, <1>10 DEF ProcInv
  <2>2. \A x \in Procs \ {p} : User(x)' = User(x) /\ proc'[x].connected = proc[x].connected
    BY <1>7, <1>10 DEF User
  <2> QED
    BY <1>12, <2>1, <2>2 DEF Connected, Listed
<1>14. LeasesExclusive'
  <2>1. \A x \in Procs : proc'[x].lease = proc[x].lease
    BY <1>5, <1>10
  <2> QED
    BY <1>1, <1>7, <2>1 DEF CountInv, LeasesExclusive
<1>15. SameClientsBounded'
  BY <1>1, <1>13 DEF CountInv, SameClientsBounded, Connected
<1> QED
  BY <1>1, <1>7, <1>9, <1>11, <1>12, <1>14, <1>15 DEF SessionsInv, CountInv

(***************************************************************************)
(* A cookie that is accepted                                               *)
(***************************************************************************)

\* The old proc of a resumed session, if there is one, is another proc.
LEMMA OldFacts ==
  ASSUME ShapeInv, NEW p \in Procs, proc[p].status = "inactive", NEW sid,
         NEW old \in proc_search_sid(sid)
  PROVE  \/ old = {} /\ Stolen(old) = NoIP
         \/ \E o \in Procs \ {p} : old = {o} /\ o \in Listed /\ Stolen(old) = proc[o].lease
<1> DEFINE found == {q \in Listed : proc[q].in_table /\ Sid(q) = sid}
<1>1. old = {} \/ \E o \in found : old = {o}
  BY DEF proc_search_sid
<1>2. p \notin found
  BY ProcFacts DEF ProcInv
<1>3. found \subseteq Procs /\ found \subseteq Listed
  BY DEF Listed
<1>4. ASSUME NEW o \in found, old = {o}
      PROVE  Stolen(old) = proc[o].lease
  <2>1. (CHOOSE x \in old : TRUE) = o
    BY <1>4
  <2> QED
    BY <1>4, <2>1 DEF Stolen
<1>5. old = {} => Stolen(old) = NoIP
  BY DEF Stolen
<1> HIDE DEF found
<1> QED
  BY <1>1, <1>2, <1>3, <1>4, <1>5

\* What accept_user can make of the registered proc r.
Admitted(p, r, q, user) ==
  /\ q \in Proc /\ q.status \in {"failed", "completed"}
  /\ q.cookie = r.cookie /\ q.active_sid = r.active_sid /\ q.in_table = r.in_table
  /\ q.killed = r.killed /\ q.bytes = r.bytes
  /\ q.lease = r.lease \/ (r.lease = NoIP /\ q.lease \in Pool \ ip_leases)
  /\ q.status = "completed" \/ q.script => q.connected /\ q.lease # NoIP
  /\ q.connected => check_multiple_users(p, user)

\* What is known of main when it accepts a cookie.
LEMMA AcceptedFacts ==
  ASSUME NEW p \in Procs, NEW user, NEW r \in Proc, ~r.connected, ~r.script,
         NEW ip \in get_ip_leases(r.lease), NEW q \in Accepted(p, r, ip),
         check_multiple_users(p, user)
  PROVE  Admitted(p, r, q, user)
<1>1. /\ r.lease \in Pool \cup {NoIP} /\ ip \in Pool \cup {NoIP}
      /\ r.lease # NoIP => ip = r.lease
      /\ r.lease = NoIP => ip = NoIP \/ ip \in Pool \ ip_leases
  BY DEF get_ip_leases, Proc
<1>2. CASE q = [r EXCEPT !.status = "failed"] /\ ip = NoIP
  BY <1>1, <1>2 DEF Proc, Admitted
<1>3. CASE q = [r EXCEPT !.status = "failed", !.lease = ip]
  BY <1>1, <1>3 DEF Proc, Admitted
<1>4. CASE q = [r EXCEPT !.status = "failed", !.lease = ip, !.connected = TRUE, !.script = TRUE]
           /\ ip # NoIP
  BY <1>1, <1>4 DEF Proc, Admitted
<1>5. CASE q = [r EXCEPT !.status = "completed", !.lease = ip, !.connected = TRUE]
           /\ ip # NoIP
  BY <1>1, <1>5 DEF Proc, Admitted
<1> QED
  BY <1>2, <1>3, <1>4, <1>5 DEF Accepted

\* The procs after a session was opened for p: the old one robbed, the others
\* untouched.
Installed(p, old, q) ==
  /\ proc' = [x \in Procs |-> IF x = p THEN Answered(p, q)
                               ELSE IF x \in old THEN Robbed(x) ELSE proc[x]]
  /\ ip_leases' = ip_leases \cup ({q.lease} \ {NoIP})
  /\ removing' \in {p, NoProc}

\* CookieAccepted in terms of the above.
LEMMA CookieAcceptedFacts ==
  ASSUME ShapeInv, NEW p \in Procs, NEW cookie \in 1 .. cookies, CookieAccepted(p, cookie)
  PROVE  \E old \in proc_search_sid(minted[cookie].sid), r \in Proc, q \in Proc :
           /\ r.cookie = cookie /\ r.active_sid /\ r.in_table /\ r.lease = Stolen(old)
           /\ r.killed = proc[p].killed /\ r.bytes = proc[p].bytes
           /\ Admitted(p, r, q, minted[cookie].user)
           /\ Installed(p, old, q)
<1>1. /\ proc[p] \in Proc /\ ProcInv(proc[p]) /\ proc[p].status = "inactive"
      /\ cookie \in Nat
  BY ProcFacts, MintedFacts DEF CookieAccepted
<1> DEFINE user == minted[cookie].user
           reg(old, known) == [proc[p] EXCEPT !.cookie = cookie, !.active_sid = TRUE,
                                !.in_table = TRUE, !.lease = Stolen(old), !.sid_set = known]
           Install(old, q) ==
             /\ proc' = [x \in Procs |-> IF x = p THEN Answered(p, q)
                                         ELSE IF x \in old THEN Robbed(x) ELSE proc[x]]
             /\ ip_leases' = ip_leases \cup ({q.lease} \ {NoIP})
             /\ removing' = IF q.script THEN NoProc ELSE NextRemoval(p)
<1>2. PICK old \in proc_search_sid(minted[cookie].sid), known \in BOOLEAN :
        IF check_multiple_users(p, user)
          THEN \E ip \in get_ip_leases(reg(old, known).lease) :
                 \E q \in Accepted(p, reg(old, known), ip) : Install(old, q)
          ELSE Install(old, [reg(old, known) EXCEPT !.status = "failed"])
  BY DEF CookieAccepted
<1> DEFINE r == reg(old, known)
<1>3. Stolen(old) \in Pool \cup {NoIP}
  <2>1. \/ old = {} /\ Stolen(old) = NoIP
        \/ \E o \in Procs : Stolen(old) = proc[o].lease
    BY <1>1, OldFacts
  <2>2. \A o \in Procs : proc[o].lease \in Pool \cup {NoIP}
    BY ProcFacts DEF Proc
  <2> QED
    BY <2>1, <2>2
<1>4. /\ r \in Proc /\ r.cookie = cookie /\ r.active_sid = TRUE /\ r.in_table = TRUE
      /\ r.lease = Stolen(old)
      /\ r.killed = proc[p].killed /\ r.bytes = proc[p].bytes
      /\ r.connected = proc[p].connected /\ r.script = proc[p].script
  BY <1>1, <1>3 DEF Proc
<1>5. ~r.connected /\ ~r.script
  BY <1>1, <1>4 DEF ProcInv
<1>6. PICK q : Admitted(p, r, q, user) /\ Install(old, q)
  <2>1. CASE check_multiple_users(p, user)
    <3>1. PICK ip \in get_ip_leases(r.lease) : \E q \in Accepted(p, r, ip) : Install(old, q)
      BY <1>2, <2>1
    <3>2. PICK q \in Accepted(p, r, ip) : Install(old, q)
      BY <3>1
    <3> HIDE DEF reg, Install, user
    <3>3. Admitted(p, r, q, user)
      BY <1>4, <1>5, <2>1, <3>1, <3>2, AcceptedFacts
    <3> QED BY <3>2, <3>3
  <2>2. CASE ~check_multiple_users(p, user)
    <3> DEFINE q == [r EXCEPT !.status = "failed"]
    <3>1. Install(old, q)
      BY <1>2, <2>2
    <3>2. Admitted(p, r, q, user)
      <4> HIDE DEF reg, user, Install
      <4> QED BY <1>4, <1>5, <2>2 DEF Admitted, Proc
    <3> QED BY <3>1, <3>2
  <2> QED
    BY <2>1, <2>2
<1>7. Installed(p, old, q) /\ q \in Proc
  BY <1>6 DEF Installed, NextRemoval, Admitted
<1> HIDE DEF reg
<1> QED
  BY <1>4, <1>6, <1>7

\* max-same-clients is asked before p is connected, and counts every listed proc
\* of the user, so the connected ones with p stay within it.
LEMMA SameClientsKept ==
  ASSUME ShapeInv, SameClientsBounded, NEW p \in Procs, NEW cookie \in 1 .. cookies,
         ~proc[p].connected, UNCHANGED minted, proc'[p].cookie = cookie,
         proc'[p].connected => check_multiple_users(p, minted[cookie].user),
         \A x \in Procs \ {p} : Stays(x) /\ proc'[x].connected = proc[x].connected
  PROVE  SameClientsBounded'
<1> SUFFICES ASSUME MaxSameClients > 0, NEW user \in Users
             PROVE  Cardinality(Connected(user)') <= MaxSameClients
  BY DEF SameClientsBounded, Connected
<1>1. Cardinality(Connected(user)) <= MaxSameClients /\ MaxSameClients \in Nat
  BY SessionsAssumption DEF SameClientsBounded, Connected
<1>2. \A x \in Procs \ {p} : User(x)' = User(x) /\ (x \in Listed' <=> x \in Listed)
  BY DEF User, Listed, Stays
<1>3. User(p)' = minted[cookie].user
  BY DEF User
<1>4. Connected(user) \in SUBSET Procs /\ Connected(user)' \in SUBSET Procs
  BY DEF Connected, Listed
<1>5. CASE p \notin Connected(user)'
  <2>1. Connected(user)' \subseteq Connected(user)
    BY <1>2, <1>5 DEF Connected, Listed
  <2>2. Cardinality(Connected(user)') <= Cardinality(Connected(user))
    BY <1>4, <2>1, FewerProcs
  <2> QED
    BY <1>1, <1>4, <2>2, FiniteProcs
<1>6. CASE p \in Connected(user)'
  <2> DEFINE S == {x \in Procs \ {p} : HasCookie(x) /\ User(x) = user}
  <2>1. proc'[p].connected /\ minted[cookie].user = user
    BY <1>3, <1>6 DEF Connected
  <2>2. 1 + Cardinality(S) <= MaxSameClients
    BY <1>1, <2>1 DEF check_multiple_users
  <2>3. S \in SUBSET Procs /\ p \notin S
    OBVIOUS
  <2>4. \A x \in Procs : proc[x].connected => proc[x].cookie # 0
    BY ProcFacts DEF ProcInv
  <2>5. Connected(user)' \subseteq S \cup {p}
    BY <1>2, <2>4 DEF Connected, HasCookie, Listed
  <2> HIDE DEF S
  <2>6. Cardinality(S \cup {p}) = Cardinality(S) + 1 /\ Cardinality(S) \in Nat
    BY <2>3, FiniteProcs, FS_AddElement
  <2>7. S \cup {p} \in SUBSET Procs /\ Connected(user)' \in SUBSET (S \cup {p})
    BY <2>3, <2>5
  <2>8. Cardinality(Connected(user)') <= Cardinality(S \cup {p})
    BY <2>7, FewerProcs
  <2> QED
    BY <1>1, <1>4, <2>2, <2>6, <2>8, FiniteProcs
<1> QED
  BY <1>5, <1>6

\* An accepted cookie keeps the invariant.
LEMMA CookieAcceptedInv ==
  ASSUME SessionsInv, NEW p \in Procs, NEW cookie \in 1 .. cookies, CookieAccepted(p, cookie)
  PROVE  SessionsInv'
<1>1. ShapeInv /\ CountInv /\ SecModInv
  BY DEF SessionsInv, ShapeInv
<1>2. /\ proc[p] \in Proc /\ ProcInv(proc[p]) /\ Len(minted) \in Nat
      /\ proc \in [Procs -> Proc] /\ proc[p].status = "inactive"
  BY <1>1, ProcFacts DEF CookieAccepted
<1>3. cookie \in Nat /\ cookie # 0 /\ cookie \in 1 .. Len(minted) /\ minted[cookie].sid \in Sids
  BY <1>1, MintedFacts
<1>4. SessionOpen(minted[cookie].sid, cookie) /\ UNCHANGED <<active_clients, minted, reports>>
  BY DEF CookieAccepted
<1>5. SecModInv' /\ UNCHANGED cookies
      /\ holders' = [holders EXCEPT ![minted[cookie].sid] = @ + 1]
  BY <1>1, <1>3, <1>4, SessionOpenInv DEF SessionOpen
<1>6. PICK old \in proc_search_sid(minted[cookie].sid), r \in Proc, q \in Proc :
        /\ r.cookie = cookie /\ r.active_sid /\ r.in_table /\ r.lease = Stolen(old)
        /\ r.killed = proc[p].killed /\ r.bytes = proc[p].bytes
        /\ Admitted(p, r, q, minted[cookie].user)
        /\ Installed(p, old, q)
  BY <1>1, CookieAcceptedFacts
<1> DEFINE a == Answered(p, q)
<1>7. /\ a \in Proc /\ a.status \in {"failed", "completed"} /\ a.cookie = cookie
      /\ a.active_sid /\ a.in_table /\ a.lease = q.lease /\ a.connected = q.connected
      /\ a.script = q.script /\ a.killed = proc[p].killed /\ a.bytes = proc[p].bytes
      /\ a.status = "completed" \/ a.script => a.connected /\ a.lease # NoIP
  <2>1. /\ a \in Proc /\ a.status \in {q.status, "failed"} /\ a.cookie = q.cookie
        /\ a.active_sid = q.active_sid /\ a.in_table = q.in_table /\ a.lease = q.lease
        /\ a.script = q.script /\ a.connected = q.connected /\ a.killed = q.killed
        /\ a.bytes = q.bytes
    BY AnsweredFacts
  <2> HIDE DEF a
  <2> QED
    BY <1>6, <2>1 DEF Admitted
<1>8. \/ old = {} /\ Stolen(old) = NoIP
      \/ \E o \in Procs \ {p} : old = {o} /\ o \in Listed /\ Stolen(old) = proc[o].lease
  BY <1>1, <1>2, OldFacts
<1> HIDE DEF a
<1>9. proc'[p] = a
  BY <1>6 DEF Installed, a
<1>10. ASSUME NEW x \in Procs \ {p}
       PROVE  proc'[x] = IF x \in old THEN Robbed(x) ELSE proc[x]
  BY <1>6 DEF Installed
<1>11. ASSUME NEW x \in Procs
       PROVE  /\ Robbed(x) \in Proc /\ Robbed(x).status = proc[x].status
              /\ Robbed(x).cookie = proc[x].cookie
              /\ Robbed(x).active_sid = proc[x].active_sid
              /\ Robbed(x).in_table = proc[x].in_table /\ Robbed(x).lease = NoIP
              /\ Robbed(x).connected = proc[x].connected /\ Robbed(x).script = proc[x].script
              /\ Robbed(x).killed = TRUE /\ Robbed(x).bytes = proc[x].bytes
  BY <1>2 DEF Robbed, Proc
<1>12. ASSUME NEW x \in Procs \ {p}
       PROVE  Stays(x) /\ proc'[x].connected = proc[x].connected
  BY <1>10, <1>11 DEF Stays
<1>13. ProcInv(a)
  BY <1>2, <1>3, <1>7 DEF ProcInv
<1>14. ASSUME NEW x \in old PROVE x \in Procs /\ ProcInv(Robbed(x))
  <2>1. x \in Procs /\ x \in Listed /\ ProcInv(proc[x])
    BY <1>1, <1>8, <1>14, ProcFacts
  <2> QED
    BY <1>11, <2>1 DEF ProcInv, Listed
<1>15. proc' \in [Procs -> Proc] /\ \A x \in Procs : ProcInv(proc'[x])
  <2>1. \A x \in Procs : proc'[x] \in Proc /\ ProcInv(proc'[x])
    BY <1>1, <1>2, <1>7, <1>9, <1>10, <1>11, <1>13, <1>14, ProcFacts
  <2>2. proc' = [x \in Procs |-> proc'[x]]
    BY <1>6 DEF Installed
  <2> QED
    BY <2>1, <2>2
<1>16. q.lease \in Pool \cup {NoIP} /\ ip_leases' = ip_leases \cup ({q.lease} \ {NoIP})
       /\ removing' \in {p, NoProc}
  BY <1>6 DEF Installed, Proc
<1>17. ShapeInv'
  <2>1. active_clients' \in Nat /\ ip_leases' \subseteq Pool /\ ReportsInv'
        /\ removing' \in Procs \cup {NoProc}
    BY <1>1, <1>4, <1>16, ReportsSame DEF ShapeInv, TypeOK
  <2>2. removing' # NoProc => proc'[removing'].status # "free"
    BY <1>7, <1>9, <1>16
  <2> QED
    BY <1>1, <1>4, <1>5, <1>15, <2>1, <2>2, ShapeKept
<1>18. Listed' = Listed
  BY <1>2, <1>7, <1>9, <1>12 DEF Listed, Stays
<1>19. HoldersAreProcs'
  <2>1. ~proc[p].active_sid /\ proc'[p].status # "free"
    BY <1>2, <1>7, <1>9 DEF ProcInv
  <2> QED
    BY <1>1, <1>4, <1>5, <1>7, <1>9, <1>12, <2>1, OpenCounted DEF CountInv
<1>20. SameClientsBounded'
  <2>1. ~proc[p].connected /\ (proc'[p].connected => check_multiple_users(p, minted[cookie].user))
    BY <1>2, <1>6, <1>7, <1>9 DEF ProcInv, Admitted
  <2> QED
    BY <1>1, <1>4, <1>7, <1>9, <1>12, <2>1, SameClientsKept DEF CountInv
<1>21. LeasesExclusive'
  <2>1. /\ \A x, y \in Procs : proc[x].lease # NoIP /\ proc[x].lease = proc[y].lease => x = y
        /\ ip_leases = {proc[x].lease : x \in Procs} \ {NoIP}
    BY <1>1 DEF CountInv, LeasesExclusive
  <2>2. proc[p].lease = NoIP /\ proc'[p].lease = q.lease
    BY <1>2, <1>7, <1>9 DEF ProcInv
  <2>3. \A x \in Procs \ {p} : proc'[x].lease = IF x \in old THEN NoIP ELSE proc[x].lease
    BY <1>10, <1>11
  <2>4. q.lease = Stolen(old) \/ (Stolen(old) = NoIP /\ q.lease \in Pool /\ q.lease \notin ip_leases)
    BY <1>6 DEF Admitted
  <2>5. \A x \in Procs \ {p} : q.lease # NoIP /\ proc'[x].lease = q.lease => FALSE
    BY <1>8, <2>1, <2>3, <2>4
  <2>6. \A x, y \in Procs : proc'[x].lease # NoIP /\ proc'[x].lease = proc'[y].lease => x = y
    BY <2>1, <2>2, <2>3, <2>5
  <2>7. ip_leases' = {proc'[x].lease : x \in Procs} \ {NoIP}
    <3>1. ASSUME NEW l \in ip_leases' PROVE l \in {proc'[x].lease : x \in Procs} \ {NoIP}
      <4>1. CASE l = q.lease
        BY <1>16, <2>1, <2>2, <3>1, <4>1
      <4>2. CASE l # q.lease
        <5>1. PICK x \in Procs : l = proc[x].lease /\ l # NoIP
          BY <1>16, <2>1, <3>1, <4>2
        <5>2. x # p /\ x \notin old
          BY <1>8, <2>2, <2>4, <4>2, <5>1
        <5> QED BY <2>3, <5>1, <5>2
      <4> QED BY <4>1, <4>2
    <3>2. ASSUME NEW x \in Procs, proc'[x].lease # NoIP PROVE proc'[x].lease \in ip_leases'
      BY <1>16, <2>1, <2>2, <2>3, <3>2
    <3> HIDE DEF a
    <3> QED
      BY <3>1, <3>2
  <2> QED
    BY <2>6, <2>7 DEF LeasesExclusive
<1> QED
  BY <1>1, <1>4, <1>17, <1>18, <1>19, <1>20, <1>21 DEF SessionsInv, CountInv

(***************************************************************************)
(* remove_proc                                                             *)
(***************************************************************************)

\* A set with one element less counts one less.
LEMMA OneLess ==
  ASSUME NEW S \in SUBSET Procs, NEW x \in S
  PROVE  Cardinality(S \ {x}) = Cardinality(S) - 1 /\ Cardinality(S) \in Nat \ {0}
<1>1. IsFiniteSet(S) /\ Cardinality(S) \in Nat
  BY FiniteProcs
<1>2. Cardinality(S \ {x}) = Cardinality(S) - 1
  BY <1>1, FS_RemoveElement
<1>3. Cardinality(S \ {x}) \in Nat
  BY FiniteProcs
<1> QED
  BY <1>1, <1>2, <1>3

\* Whatever becomes of sec-mod's answer, remove_proc takes p out of every count:
\* its place, its session, its address and its user.
LEMMA RemoveProcInv ==
  ASSUME SessionsInv, NEW p \in Listed, remove_proc(p)
  PROVE  SessionsInv'
<1>1. ShapeInv /\ CountInv /\ SecModInv /\ p \in Procs
  BY DEF SessionsInv, ShapeInv, Listed
<1>2. /\ proc[p] \in Proc /\ ProcInv(proc[p]) /\ Len(minted) \in Nat
      /\ proc \in [Procs -> Proc] /\ proc[p].status # "free" /\ MaxBytes \in Nat
  BY <1>1, ProcFacts, SecModAssumption DEF Listed
<1>3. /\ proc' = [proc EXCEPT ![p] = FreeProc] /\ active_clients' = active_clients - 1
      /\ ip_leases' = ip_leases \ {proc[p].lease} /\ removing' = NoProc /\ UNCHANGED minted
      /\ CloseSession(p)
  BY DEF remove_proc, Released
<1>4. proc'[p] = FreeProc /\ (\A x \in Procs \ {p} : proc'[x] = proc[x])
      /\ proc' \in [Procs -> Proc]
  BY <1>1, <1>2, <1>3, FreeFacts
<1>5. proc[p].active_sid => Sid(p) \in Sids
  BY <1>1, <1>2, ProcFacts DEF ProcInv
<1>6. SecModInv' /\ UNCHANGED cookies
  <2>1. CASE proc[p].active_sid
    <3>1. SessionClose(Sid(p), 0)
      BY <1>3, <2>1 DEF CloseSession
    <3>2. 0 \in Nat
      OBVIOUS
    <3> QED
      BY <1>1, <1>5, <2>1, <3>1, <3>2, SessionCloseInv DEF SessionClose
  <2>2. CASE ~proc[p].active_sid
    BY <1>1, <1>3, <2>2, SecModSame DEF CloseSession
  <2> QED
    BY <2>1, <2>2
<1>7. ReportsInv'
  <2>1. reports' = FinalReport(p) \/ UNCHANGED reports
    BY DEF remove_proc
  <2> QED
    BY <1>1, <2>1, FinalReportFacts, ReportsSame
<1>8. Listed' = Listed \ {p}
  BY <1>4, FreeFacts DEF Listed
<1>9. active_clients' = Cardinality(Listed') /\ active_clients' \in Nat
  <2>1. Listed \in SUBSET Procs
    BY DEF Listed
  <2>2. Cardinality(Listed \ {p}) = Cardinality(Listed) - 1 /\ Cardinality(Listed) \in Nat \ {0}
    BY <2>1, OneLess
  <2> QED
    BY <1>1, <1>3, <1>8, <2>2 DEF CountInv
<1>10. ShapeInv'
  <2>1. ProcInv(FreeProc)
    BY <1>2, FreeFacts DEF ProcInv
  <2>2. \A x \in Procs : ProcInv(proc'[x])
    BY <1>1, <1>4, <2>1, ProcFacts
  <2>3. ip_leases' \subseteq Pool /\ removing' \in Procs \cup {NoProc}
    BY <1>1, <1>3 DEF ShapeInv, TypeOK
  <2> QED
    BY <1>1, <1>3, <1>4, <1>6, <1>7, <1>9, <2>2, <2>3, ShapeKept
<1>11. \A x \in Procs \ {p} : Sid(x)' = Sid(x) /\ User(x)' = User(x)
  BY <1>3, <1>4 DEF Sid, User
<1>12. \A sid \in Sids : Holding(sid)' = Holding(sid) \ {p}
  BY <1>4, <1>8, <1>11 DEF Holding, Listed
<1>13. HoldersAreProcs'
  <2> SUFFICES ASSUME NEW sid \in Sids PROVE holders'[sid] = Cardinality(Holding(sid)')
    BY DEF HoldersAreProcs
  <2>1. holders[sid] = Cardinality(Holding(sid)) /\ holders \in [Sids -> Nat]
    BY <1>1 DEF CountInv, HoldersAreProcs, SecModInv, SecModTypeOK
  <2>2. Holding(sid) \in SUBSET Procs
    BY DEF Holding, Listed
  <2>3. CASE p \in Holding(sid)
    <3>1. proc[p].active_sid /\ Sid(p) = sid
      BY <2>3 DEF Holding
    <3>2. holders' = [holders EXCEPT ![sid] = holders[sid] - 1]
      BY <1>3, <3>1 DEF CloseSession, SessionClose
    <3>3. Cardinality(Holding(sid) \ {p}) = Cardinality(Holding(sid)) - 1
      BY <2>2, <2>3, OneLess
    <3> QED BY <1>12, <2>1, <3>2, <3>3
  <2>4. CASE p \notin Holding(sid)
    <3>1. ~proc[p].active_sid \/ Sid(p) # sid
      BY <2>4 DEF Holding
    <3>2. holders'[sid] = holders[sid]
      <4>1. CASE proc[p].active_sid
        <5>1. holders' = [holders EXCEPT ![Sid(p)] = @ - 1] /\ Sid(p) # sid
          BY <1>3, <3>1, <4>1 DEF CloseSession, SessionClose
        <5> QED BY <2>1, <5>1
      <4>2. CASE ~proc[p].active_sid
        BY <1>3, <4>2 DEF CloseSession, secmod_vars
      <4> QED BY <4>1, <4>2
    <3>3. Holding(sid) \ {p} = Holding(sid)
      BY <2>4
    <3> QED BY <1>12, <2>1, <3>2, <3>3
  <2> QED
    BY <2>3, <2>4
<1>14. SameClientsBounded'
  <2> SUFFICES ASSUME MaxSameClients > 0, NEW user \in Users
               PROVE  Cardinality(Connected(user)') <= MaxSameClients
    BY DEF SameClientsBounded, Connected
  <2>1. Connected(user)' \subseteq Connected(user)
    BY <1>4, <1>8, <1>11 DEF Connected, Listed
  <2>2. Connected(user) \in SUBSET Procs
    BY DEF Connected, Listed
  <2>3. Cardinality(Connected(user)') <= Cardinality(Connected(user))
    BY <2>1, <2>2, FewerProcs
  <2>4. Cardinality(Connected(user)) <= MaxSameClients /\ MaxSameClients \in Nat
    BY <1>1, SessionsAssumption DEF CountInv, SameClientsBounded, Connected
  <2>5. Cardinality(Connected(user)) \in Nat /\ Cardinality(Connected(user)') \in Nat
    BY <2>1, <2>2, FiniteProcs
  <2> QED
    BY <2>3, <2>4, <2>5
<1>15. LeasesExclusive'
  <2>1. /\ \A x, y \in Procs : proc[x].lease # NoIP /\ proc[x].lease = proc[y].lease => x = y
        /\ ip_leases = {proc[x].lease : x \in Procs} \ {NoIP}
    BY <1>1 DEF CountInv, LeasesExclusive
  <2>2. proc'[p].lease = NoIP /\ \A x \in Procs \ {p} : proc'[x].lease = proc[x].lease
    BY <1>4, FreeFacts
  <2>3. ip_leases' = {proc'[x].lease : x \in Procs} \ {NoIP}
    <3>1. ASSUME NEW l \in ip_leases' PROVE l \in {proc'[x].lease : x \in Procs} \ {NoIP}
      <4>1. PICK x \in Procs : l = proc[x].lease /\ l # NoIP
        BY <1>3, <2>1, <3>1
      <4>2. x # p
        BY <1>3, <3>1, <4>1
      <4> QED BY <2>2, <4>1, <4>2
    <3>2. ASSUME NEW x \in Procs, proc'[x].lease # NoIP PROVE proc'[x].lease \in ip_leases'
      BY <1>1, <1>3, <2>1, <2>2, <3>2
    <3> QED
      BY <3>1, <3>2
  <2> QED
    BY <1>1, <2>1, <2>2, <2>3 DEF LeasesExclusive
<1> QED
  BY <1>9, <1>10, <1>13, <1>14, <1>15 DEF SessionsInv, CountInv

(***************************************************************************)
(* The theorems                                                            *)
(***************************************************************************)

\* The invariant holds at the start.
LEMMA SessionsInit == Init => SessionsInv
<1> SUFFICES ASSUME Init PROVE SessionsInv
  OBVIOUS
<1>1. SecModInv
  BY InitInv DEF Init
<1>2. \A p \in Procs : proc[p] = FreeProc
  BY DEF Init
<1>3. minted = <<>> /\ reports = <<>> /\ Len(minted) = 0 /\ Len(reports) = 0 /\ cookies = 0
  BY DEF Init, SecModInit
<1>4. TypeOK
  BY <1>1, <1>2, <1>3, FreeFacts DEF Init, TypeOK, SecModInv
<1>5. \A p \in Procs : ProcInv(proc[p])
  BY <1>2, <1>3, FreeFacts, SecModAssumption DEF ProcInv
<1>6. ShapeInv
  BY <1>1, <1>3, <1>4, <1>5 DEF ShapeInv, Init
<1>7. Listed = {} /\ (\A sid \in Sids : Holding(sid) = {})
      /\ (\A user \in Users : Connected(user) = {})
  BY <1>2, FreeFacts DEF Listed, Holding, Connected
<1>8. Cardinality({}) = 0
  BY FS_EmptySet
<1>9. HoldersAreProcs
  BY <1>7, <1>8 DEF HoldersAreProcs, Init, SecModInit
<1>10. SameClientsBounded
  BY <1>7, <1>8, SessionsAssumption DEF SameClientsBounded, Connected
<1>11. LeasesExclusive
  BY <1>2, FreeFacts DEF LeasesExclusive, Init
<1> QED
  BY <1>6, <1>7, <1>8, <1>9, <1>10, <1>11 DEF SessionsInv, CountInv, Init

\* Every step keeps it.
LEMMA SessionsNext == SessionsInv /\ [Next]_vars => SessionsInv'
<1> SUFFICES ASSUME SessionsInv, [Next]_vars PROVE SessionsInv'
  OBVIOUS
<1>1. ASSUME NEW p \in Procs, RemoveFailed(p) PROVE SessionsInv'
  <2>1. p \in Listed
    BY <1>1, SessionsAssumption DEF RemoveFailed, SessionsInv, ShapeInv
  <2> QED
    BY <1>1, <2>1, RemoveProcInv DEF RemoveFailed
<1>2. ASSUME NEW p \in Procs, WorkerGone(p) \/ BadCommand(p) PROVE SessionsInv'
  BY <1>2, RemoveProcInv DEF WorkerGone, BadCommand
<1>3. CASE UNCHANGED vars
  <2>1. ShapeInv /\ UNCHANGED secmod_vars /\ UNCHANGED reports
        /\ UNCHANGED <<proc, active_clients, ip_leases, minted, removing>>
    BY <1>3 DEF vars, secmod_vars, SessionsInv
  <2> QED
    BY <2>1, SecModSame, ReportsSame, NoProcInv
<1>4. CASE Next
  BY <1>1, <1>2, <1>4, AuthenticateInv, ServeStatsInv, MaintenanceInv, AcceptInv,
     CookieGarbageInv, CookieDeniedInv, CookieRoamsInv, CookieAcceptedInv, ScriptExitInv,
     DisconnectInv, WorkerEndInv, TrafficInv, PeriodicStatsInv DEF Next
<1> QED
  BY <1>3, <1>4

\* The invariant of main and sec-mod together.
THEOREM SessionsInvariant == Spec => []SessionsInv
BY SessionsInit, SessionsNext, PTL DEF Spec

\* Every variable of main and sec-mod has its type; active_clients in particular
\* never goes below zero.
THEOREM SessionsTyped == Spec => []TypeOK
<1>1. SessionsInv => TypeOK
  BY DEF SessionsInv, ShapeInv
<1> QED
  BY <1>1, SessionsInvariant, PTL

\* max-clients is compared with the true number of procs: no path of accept,
\* failure and removal makes active_clients drift.
THEOREM ActiveClientsExact == Spec => [](active_clients = Cardinality(Listed))
<1>1. SessionsInv => active_clients = Cardinality(Listed)
  BY DEF SessionsInv, CountInv
<1> QED
  BY <1>1, SessionsInvariant, PTL

\* Every session sec-mod counts is owed by exactly one proc of main, however
\* cookies are refused, sessions resumed, workers lost and procs removed.
THEOREM SessionsMatched == Spec => []HoldersAreProcs
<1>1. SessionsInv => HoldersAreProcs
  BY DEF SessionsInv, CountInv
<1> QED
  BY <1>1, SessionsInvariant, PTL

\* No address is leased twice and none leaks, through steal_ip_leases, failed
\* logins and every removal.
THEOREM LeasesAreExclusive == Spec => []LeasesExclusive
<1>1. SessionsInv => LeasesExclusive
  BY DEF SessionsInv, CountInv
<1> QED
  BY <1>1, SessionsInvariant, PTL

\* An authenticated client that was not told to leave has an address, also when
\* its connect script answered after its session was resumed by another proc.
THEOREM ConnectedHaveLease == Spec => []ConnectedHasLease
<1>1. SessionsInv => ConnectedHasLease
  BY DEF SessionsInv, ShapeInv, ProcInv, ConnectedHasLease, Listed
<1> QED
  BY <1>1, SessionsInvariant, PTL

\* check_multiple_users keeps the connected sessions of a user within
\* max-same-clients.
THEOREM SameClientsAreBounded == Spec => []SameClientsBounded
<1>1. SessionsInv => SameClientsBounded
  BY DEF SessionsInv, CountInv
<1> QED
  BY <1>1, SessionsInvariant, PTL

(***************************************************************************)
(* sec-mod, as main and the workers drive it, is the sec-mod of SecMod     *)
(***************************************************************************)

\* Every step of main, worker and sec-mod together is a step of sec-mod's database as
\* SecMod describes it, or leaves it alone.
LEMMA SecModStep == SessionsInv /\ [Next]_vars => [SecModNext]_secmod_vars
<1> SUFFICES ASSUME SessionsInv, [Next]_vars PROVE [SecModNext]_secmod_vars
  OBVIOUS
<1>1. ShapeInv
  BY DEF SessionsInv
<1>2. CASE Authenticate
  BY <1>2 DEF Authenticate, SecModNext
<1>3. CASE ServeStats
  <2> DEFINE M == [sid : Sids, bytes : Nat]
             m == Head(reports)
  <2>1. reports \in Seq(M) /\ reports # <<>>
    BY <1>1, <1>3 DEF ShapeInv, TypeOK, ServeStats
  <2>2. m \in M /\ m = reports[1] /\ 1 \in 1 .. Len(reports)
    <3> HIDE DEF M
    <3> QED BY <2>1
  <2>3. m.sid \in Sids /\ m.bytes \in 0 .. MaxBytes
    <3>1. m.bytes <= MaxBytes
      BY <1>1, <2>2 DEF ShapeInv
    <3> QED BY <2>2, <3>1, SecModAssumption
  <2>4. Stats(m.sid, m.bytes) \/ UNCHANGED secmod_vars
    BY <1>3 DEF ServeStats
  <2> HIDE DEF m
  <2> QED BY <2>3, <2>4 DEF SecModNext
<1>4. CASE Maintenance
  BY <1>4 DEF Maintenance, SecModNext
<1>5. ASSUME NEW p \in Procs, NEW cookie \in 1 .. cookies,
             CookieDenied(p, cookie) \/ CookieRoams(p, cookie) \/ CookieAccepted(p, cookie)
      PROVE  SecModNext
  <2>1. minted[cookie].sid \in Sids
    BY <1>1, MintedFacts
  <2>2. SessionOpen(minted[cookie].sid, cookie) \/ SessionOpenDenied(minted[cookie].sid, cookie)
    BY <1>5 DEF CookieDenied, CookieRoams, CookieAccepted
  <2> QED
    BY <2>1, <2>2 DEF SecModNext
<1>6. ASSUME NEW p \in Procs, remove_proc(p)
      PROVE  [SecModNext]_secmod_vars
  <2>1. CASE proc[p].active_sid
    <3>1. SessionClose(Sid(p), 0)
      BY <1>6, <2>1 DEF remove_proc, CloseSession
    <3>2. Sid(p) \in Sids /\ 0 \in 0 .. MaxBytes
      BY <1>1, <2>1, ProcFacts, SecModAssumption DEF ProcInv
    <3> QED BY <3>1, <3>2 DEF SecModNext
  <2>2. CASE ~proc[p].active_sid
    BY <1>6, <2>2 DEF remove_proc, CloseSession
  <2> QED
    BY <2>1, <2>2
<1>7. ASSUME NEW p \in Procs,
             \/ Accept(p) \/ CookieGarbage(p) \/ Disconnect(p) \/ WorkerLeaves(p)
             \/ WorkerDies(p) \/ Traffic(p) \/ PeriodicStats(p)
             \/ \E ok \in BOOLEAN : ScriptExit(p, ok)
      PROVE  UNCHANGED secmod_vars
  BY <1>7 DEF Accept, CookieGarbage, Disconnect, WorkerLeaves, WorkerDies, Traffic,
     PeriodicStats, ScriptExit
<1>8. CASE UNCHANGED vars
  BY <1>8 DEF vars, secmod_vars
<1>9. CASE Next
  BY <1>2, <1>3, <1>4, <1>5, <1>6, <1>7, <1>9
     DEF Next, RemoveFailed, WorkerGone, BadCommand
<1> QED
  BY <1>8, <1>9

(***************************************************************************)
(* The promise of the cookie, made for main's own sessions                 *)
(***************************************************************************)

\* The sessions that main's procs have are those sec-mod was asked to open and
\* not yet to close.
LEMMA OpenedAreHeld ==
  ASSUME SessionsInv
  PROVE  opened = holders
<1>1. HoldersAreProcs
  BY DEF SessionsInv, CountInv
<1>2. holders \in [Sids -> Nat]
  BY DEF SessionsInv, ShapeInv, SecModInv, SecModTypeOK
<1>3. \A sid \in Sids : holders[sid] = Cardinality(Holding(sid))
  BY <1>1 DEF HoldersAreProcs
<1>4. holders = [sid \in Sids |-> holders[sid]]
  BY <1>2
<1> QED
  BY <1>3, <1>4 DEF opened

\* A step of the ticket of sec-mod's sessions is one of the ticket of main's.
LEMMA SameTicket ==
  ASSUME opened = holders, opened' = holders', [Ticket!Next]_(Ticket!vars)
  PROVE  [Served!Next]_(Served!vars)
<1>1. CASE Ticket!Pass
  BY <1>1 DEF Ticket!Pass, Served!Pass, Served!Next
<1>2. ASSUME NEW dead \in SUBSET Sids, Ticket!Expire(dead)
      PROVE  Served!Next
  <2>1. Served!Expire(dead)
    BY <1>2 DEF Ticket!Expire, Served!Expire
  <2> QED
    BY <2>1 DEF Served!Next
<1>3. ASSUME NEW sid \in Sids, Ticket!Issue(sid)
      PROVE  Served!Next
  <2>1. Served!Issue(sid)
    BY <1>3 DEF Ticket!Issue, Served!Issue
  <2> QED
    BY <2>1 DEF Served!Next
<1>4. ASSUME NEW sid \in Sids, Ticket!Redeem(sid)
      PROVE  Served!Next
  <2>1. Served!Redeem(sid)
    BY <1>4 DEF Ticket!Redeem, Served!Redeem
  <2> QED
    BY <2>1 DEF Served!Next
<1>5. ASSUME NEW sid \in Sids, Ticket!Release(sid)
      PROVE  Served!Next
  <2>1. Served!Release(sid)
    BY <1>5 DEF Ticket!Release, Served!Release
  <2> QED
    BY <2>1 DEF Served!Next
<1>6. ASSUME NEW sid \in Sids, Ticket!Revoke(sid)
      PROVE  Served!Next
  <2>1. Served!Revoke(sid)
    BY <1>6 DEF Ticket!Revoke, Served!Revoke
  <2> QED
    BY <2>1 DEF Served!Next
<1>7. CASE UNCHANGED Ticket!vars
  BY <1>7 DEF Ticket!vars, Served!vars
<1> QED
  BY <1>1, <1>2, <1>3, <1>4, <1>5, <1>6, <1>7 DEF Ticket!Next

\* A cookie opens sessions while main has a proc with one and for cookie-timeout
\* after the last of them was removed, however main's procs came to their end:
\* refused after session_open, robbed by a reconnection, killed or dead.
THEOREM CookiesAreServed == Spec => CookiesServed
<1>1. Init => SessionsInv
  BY SessionsInit
<1>2. Init => Served!Init
  <2> SUFFICES ASSUME Init PROVE Served!Init
    OBVIOUS
  <2>1. Ticket!Init
    BY InitStep DEF Init
  <2>2. opened = holders
    BY <1>1, OpenedAreHeld
  <2> QED
    BY <2>1, <2>2 DEF Ticket!Init, Served!Init
<1>3. SessionsInv /\ SessionsInv' /\ [Next]_vars => [Served!Next]_(Served!vars)
  <2> SUFFICES ASSUME SessionsInv, SessionsInv', [Next]_vars
               PROVE  [Served!Next]_(Served!vars)
    OBVIOUS
  <2>1. opened = holders
    BY OpenedAreHeld
  <2>2. opened' = holders'
    <3>1. HoldersAreProcs' /\ holders' \in [Sids -> Nat]
      BY DEF SessionsInv, CountInv, ShapeInv, SecModInv, SecModTypeOK
    <3>2. \A sid \in Sids : holders'[sid] = Cardinality(Holding(sid))'
      BY <3>1 DEF HoldersAreProcs
    <3>3. holders' = [sid \in Sids |-> holders'[sid]]
      BY <3>1
    <3> QED
      BY <3>2, <3>3 DEF opened
  <2>3. [Ticket!Next]_(Ticket!vars)
    <3>1. SecModInv
      BY DEF SessionsInv, ShapeInv
    <3>2. [SecModNext]_secmod_vars
      BY SecModStep
    <3> QED
      BY <3>1, <3>2, NextStep
  <2> QED
    BY <2>1, <2>2, <2>3, SameTicket
<1> QED
  BY <1>2, <1>3, SessionsInvariant, PTL DEF Spec, CookiesServed, Served!Spec

=============================================================================
