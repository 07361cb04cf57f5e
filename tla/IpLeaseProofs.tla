---------------------------- MODULE IpLeaseProofs ----------------------------
(***************************************************************************)
(* Theorems about the address leases, for every set of procs, users and    *)
(* networks, every hash function and every number of tries.                *)
(*                                                                         *)
(* Three arguments meet here.  The candidates of a search stay inside the  *)
(* network, by induction along the walk.  One family of get_ip_leases      *)
(* either leaves its family alone, hands out an address outside the pool   *)
(* or adds one free address to the table; two of them make one request.    *)
(* And IpLeaseInv, which accounts for every entry of the lease table,      *)
(* carries that from one request to the next.                              *)
(***************************************************************************)
EXTENDS IpLease, FiniteSetTheorems, TLAPS

\* A nonempty set of natural numbers has a least element: induction over numbers
\* in the form the provers can use.
LEMMA LeastNat ==
  ASSUME NEW T \in SUBSET Nat, T # {}
  PROVE  \E x \in T : \A y \in T : x <= y
<1> DEFINE R == {ss \in Nat \X Nat : ss[1] < ss[2]}
<1>1. IsWellFoundedOn(R, Nat)
  BY NatLessThanWellFounded DEF OpToRel
<1>2. \A x, y \in Nat : y < x => <<y, x>> \in R
  OBVIOUS
<1> HIDE DEF R
<1>3. PICK x \in T : \A y \in T : ~ (<<y, x>> \in R)
  BY <1>1, WFMin
<1>4. \A y \in T : ~(y < x)
  BY <1>2, <1>3
<1> QED
  BY <1>4

\* The choice that Min makes is that element.
LEMMA MinProp ==
  ASSUME NEW T \in SUBSET Nat, T # {}
  PROVE  Min(T) \in T /\ \A y \in T : Min(T) <= y
BY LeastNat DEF Min

\* w is the walk of length n that starts at first and goes on by h.
IsWalk(w, n, A, first, h) ==
  /\ w \in [1 .. n -> A]
  /\ \A k \in 1 .. n : w[k] = IF k = 1 THEN first ELSE h[w[k - 1]]

\* There is such a walk of every length.
LEMMA Iterate ==
  ASSUME NEW A, NEW first \in A, NEW h \in [A -> A], NEW N \in Nat
  PROVE  \E w : IsWalk(w, N, A, first, h)
<1> DEFINE Bad == {n \in Nat : ~ \E w : IsWalk(w, n, A, first, h)}
<1>1. SUFFICES ASSUME Bad # {} PROVE FALSE
  BY Zenon
<1>2. PICK n \in Bad : \A m \in Bad : n <= m
  BY <1>1, LeastNat
<1>3. n # 0
  <2>1. IsWalk([k \in 1 .. 0 |-> first], 0, A, first, h)
    BY DEF IsWalk
  <2> QED
    BY <2>1, <1>2
<1>4. PICK v : IsWalk(v, n - 1, A, first, h)
  <2>1. n - 1 \in Nat /\ n - 1 \notin Bad
    <3>1. n \in Nat
      OBVIOUS
    <3> HIDE DEF Bad
    <3> QED BY <3>1, <1>2, <1>3
  <2> QED
    BY <2>1
<1> DEFINE w == [k \in 1 .. n |-> IF k = n THEN IF n = 1 THEN first ELSE h[v[n - 1]] ELSE v[k]]
<1>5. IsWalk(w, n, A, first, h)
  <2>1. n \in Nat /\ n >= 1
    BY <1>2, <1>3
  <2>2. w \in [1 .. n -> A]
    BY <2>1, <1>4 DEF IsWalk
  <2>3. ASSUME NEW k \in 1 .. n PROVE w[k] = IF k = 1 THEN first ELSE h[w[k - 1]]
    BY <2>1, <1>4 DEF IsWalk
  <2> QED
    BY <2>2, <2>3 DEF IsWalk
<1> QED
  BY <1>2, <1>5

\* A remainder stays inside its block.
LEMMA InNetRange ==
  ASSUME NEW b \in Nat, NEW z \in Nat, z > 0, NEW r \in Nat
  PROVE  b + (r % z) \in b .. (b + z - 1)
OBVIOUS

\* The addresses of a network.
NetAddrs(n) == n.base .. (n.base + n.size - 1)

\* Masking any number into a network yields an address of the network.
LEMMA NetFacts ==
  ASSUME NEW n \in Nets
  PROVE  /\ n.base \in Nat /\ n.size \in Nat /\ n.size > 0
         /\ NetAddrs(n) \subseteq Addr
         /\ \A r \in Nat : InNet(r, n) \in NetAddrs(n)
<1>1. /\ n.base \in Nat /\ n.size \in Nat /\ n.size > 0 /\ n.base + n.size <= AddrSpace /\ AddrSpace \in Nat
  BY IpLeaseAssumption DEF Addr
<1>2. NetAddrs(n) \subseteq Addr
  BY <1>1 DEF NetAddrs, Addr
<1>3. \A r \in Nat : InNet(r, n) \in NetAddrs(n)
  BY <1>1, InNetRange DEF NetAddrs, InNet
<1> QED
  BY <1>1, <1>2, <1>3

\* The search only ever tries addresses of the network, whatever hash function it
\* walks by: the recursive definition of Candidates is well founded, and a first
\* candidate outside the network would have to come from one inside it.
LEMMA CandidatesWalk ==
  ASSUME hash \in Hashes, NEW f \in Fam, NEW n \in Nets, NEW s \in Nat
  PROVE  Candidates(f, n, s) \in [1 .. MAX_IP_TRIES -> NetAddrs(n)]
<1> DEFINE A == NetAddrs(n)
           first == InNet(Placed(f, s), n)
           h == [a \in A |-> InNet(hash[f][a], n)]
           N == MAX_IP_TRIES
<1>1. /\ N \in Nat /\ hash[f] \in [Addr -> Addr] /\ Placed(f, s) \in Nat /\ Addr \subseteq Nat
  BY IpLeaseAssumption DEF Placed, Addr
<1>2. first \in A /\ h \in [A -> A]
  BY <1>1, NetFacts
<1>3. PICK w : IsWalk(w, N, A, first, h)
  <2>1. N \in Nat
    BY <1>1
  <2> HIDE DEF A, first, h, N
  <2> QED BY <1>2, <2>1, Iterate
<1> DEFINE Step(v) == [k \in 1 .. N |-> InNet(IF k = 1 THEN Placed(f, s) ELSE hash[f][v[k - 1]], n)]
<1>4. w = Step(w)
  <2>1. ASSUME NEW k \in 1 .. N
        PROVE  w[k] = InNet(IF k = 1 THEN Placed(f, s) ELSE hash[f][w[k - 1]], n)
    <3>1. CASE k = 1
      BY <1>3, <3>1 DEF IsWalk
    <3>2. CASE k # 1
      <4>1. k - 1 \in 1 .. N /\ w[k - 1] \in A
        BY <1>1, <1>3, <3>2 DEF IsWalk
      <4> QED BY <1>3, <3>2, <4>1 DEF IsWalk
    <3> QED BY <3>1, <3>2
  <2> QED BY <2>1, <1>3 DEF IsWalk
<1> DEFINE c == Candidates(f, n, s)
<1>5. c = CHOOSE v : v = Step(v)
  BY DEF Candidates
<1>6. c = Step(c)
  <2> HIDE DEF Step, c
  <2> QED BY <1>4, <1>5
<1>7. \A k \in 1 .. N : c[k] \in A
  <2> DEFINE Bad == {k \in 1 .. N : c[k] \notin A}
  <2>1. SUFFICES ASSUME Bad # {} PROVE FALSE
    BY Zenon
  <2>2. Bad \in SUBSET Nat
    BY <1>1
  <2>3. PICK k \in Bad : \A j \in Bad : k <= j
    <3> HIDE DEF Bad
    <3> QED BY <2>1, <2>2, LeastNat
  <2>4. c[k] = InNet(IF k = 1 THEN Placed(f, s) ELSE hash[f][c[k - 1]], n)
    <3> HIDE DEF c
    <3> QED BY <1>6, <2>3
  <2>5. CASE k = 1
    BY <2>3, <2>4, <2>5, <1>2
  <2>6. CASE k # 1
    <3>1. k - 1 \in 1 .. N /\ k - 1 \notin Bad
      BY <1>1, <2>3, <2>6
    <3>2. c[k - 1] \in A
      BY <3>1
    <3>3. c[k] = h[c[k - 1]]
      BY <2>4, <2>6, <3>2
    <3> QED BY <3>2, <3>3, <1>2, <2>3
  <2> QED BY <2>5, <2>6
<1>8. c \in [1 .. N -> A]
  <2> HIDE DEF c, A, h, N, first
  <2> QED BY <1>6, <1>7
<1> QED BY <1>8

(***************************************************************************)
(* One search                                                              *)
(***************************************************************************)

\* The first acceptable candidate k of the search of u, and the addresses passed
\* over for it.
Found(u, f, s, table, answering, k, l, passed) ==
  LET n    == UserNet[u][f]
      walk == Candidates(f, n, s)
  IN  /\ n # NoNet /\ Explicit[u][f] = NoIP
      /\ k \in 1 .. MAX_IP_TRIES
      /\ l = [rip |-> walk[k], net |-> n, db |-> TRUE]
      /\ Acceptable(f, walk[k], n, table, answering)
      /\ \A j \in 1 .. k - 1 : ~Acceptable(f, walk[j], n, table, answering)
      /\ passed = {walk[j] : j \in {i \in 1 .. k - 1 : <<f, walk[i]>> \in table}}

\* What get_ipv4_lease and get_ipv6_lease can return: a failure, a lease that is
\* not of the pool, or the first acceptable candidate.
LEMMA GetLeaseFacts ==
  ASSUME hash \in Hashes, NEW u \in Users, NEW f \in Fam, NEW s \in Nat, NEW table,
         NEW answering, NEW r, r = get_lease(u, f, s, table, answering), r.ok
  PROVE  /\ r.lease \in Lease
         /\ r.passed \in SUBSET Addr
         /\ r.lease.db => \E k : Found(u, f, s, table, answering, k, r.lease, r.passed)
<1> DEFINE n    == UserNet[u][f]
           ip   == Explicit[u][f]
           walk == Candidates(f, n, s)
           good == {k \in 1 .. MAX_IP_TRIES : Acceptable(f, walk[k], n, table, answering)}
<1>1. CASE n = NoNet
  <2>1. r = [ok |-> TRUE, lease |-> NoLease, passed |-> {}]
    BY <1>1 DEF get_lease
  <2> QED
    BY <2>1 DEF NoLease, Lease
<1>2. CASE n # NoNet /\ ip # NoIP
  <2>1. r = [ok |-> is_ip_ok(f, ip, n, table) /\ ip # Lip(n), passed |-> {},
             lease |-> [rip |-> ip, net |-> n, db |-> FALSE]]
    BY <1>2 DEF get_lease
  <2>2. n \in Nets /\ ip \in Addr
    BY <1>2, IpLeaseAssumption DEF Nets
  <2> QED
    BY <2>1, <2>2 DEF Lease
<1>3. CASE n # NoNet /\ ip = NoIP /\ good = {}
  <2>1. r = [ok |-> FALSE, lease |-> NoLease, passed |-> {}]
    BY <1>3 DEF get_lease
  <2> QED
    BY <2>1
<1>4. CASE n # NoNet /\ ip = NoIP /\ good # {}
  <2> DEFINE k == Min(good)
  <2>1. r = [ok |-> TRUE, lease |-> [rip |-> walk[k], net |-> n, db |-> TRUE],
             passed |-> {walk[j] : j \in {i \in 1 .. k - 1 : <<f, walk[i]>> \in table}}]
    BY <1>4 DEF get_lease
  <2>2. good \in SUBSET Nat
    BY IpLeaseAssumption
  <2>3. k \in good /\ \A j \in good : k <= j
    <3> HIDE DEF good
    <3> QED BY <1>4, <2>2, MinProp
  <2>4. n \in Nets
    BY <1>4 DEF Nets
  <2>5. walk \in [1 .. MAX_IP_TRIES -> Addr]
    <3>1. walk \in [1 .. MAX_IP_TRIES -> NetAddrs(n)] /\ NetAddrs(n) \subseteq Addr
      BY <2>4, CandidatesWalk, NetFacts
    <3> HIDE DEF walk
    <3> QED BY <3>1
  <2>6. k \in 1 .. MAX_IP_TRIES /\ Acceptable(f, walk[k], n, table, answering)
    BY <2>3
  <2>7. ASSUME NEW j \in 1 .. k - 1
        PROVE  j \in 1 .. MAX_IP_TRIES /\ ~Acceptable(f, walk[j], n, table, answering)
    <3>1. j \in 1 .. MAX_IP_TRIES /\ ~(k <= j)
      BY <2>6, IpLeaseAssumption
    <3> QED BY <3>1, <2>3
  <2> HIDE DEF k, walk, n, ip
  <2>8. r.lease \in Lease /\ r.passed \in SUBSET Addr
    <3>1. r.lease = [rip |-> walk[k], net |-> n, db |-> TRUE] /\ walk[k] \in Addr
      BY <2>1, <2>5, <2>6
    <3>2. r.lease \in Lease
      BY <3>1, <2>4 DEF Lease
    <3>3. \A j \in 1 .. k - 1 : walk[j] \in Addr
      BY <2>5, <2>7
    <3>4. r.passed = {walk[j] : j \in {i \in 1 .. k - 1 : <<f, walk[i]>> \in table}}
      BY <2>1
    <3> QED BY <3>2, <3>3, <3>4
  <2>9. Found(u, f, s, table, answering, k, r.lease, r.passed)
    BY <1>4, <2>1, <2>6, <2>7 DEF Found, walk, n, ip
  <2> QED
    BY <2>8, <2>9
<1> QED
  BY <1>1, <1>2, <1>3, <1>4

\* A candidate the search accepts is inside the network and neither the network's
\* address nor the server's.
LEMMA FoundInNetwork ==
  ASSUME hash \in Hashes, NEW u \in Users, NEW f \in Fam, NEW s \in Nat, NEW table,
         NEW answering, NEW k, NEW l, NEW passed,
         Found(u, f, s, table, answering, k, l, passed)
  PROVE  /\ UserNet[u][f] # NoNet
         /\ l.rip \in (UserNet[u][f].base + 2) ..
                        (UserNet[u][f].base + UserNet[u][f].size - 1)
<1> DEFINE n    == UserNet[u][f]
           walk == Candidates(f, n, s)
<1>1. n \in Nets /\ k \in 1 .. MAX_IP_TRIES /\ l.rip = walk[k]
      /\ walk[k] # n.base /\ walk[k] # n.base + 1
  BY DEF Found, Nets, Acceptable, is_ip_ok, Lip
<1>2. walk[k] \in NetAddrs(n)
  <2>1. walk \in [1 .. MAX_IP_TRIES -> NetAddrs(n)]
    BY <1>1, CandidatesWalk
  <2> HIDE DEF walk
  <2> QED BY <1>1, <2>1
<1>3. n.base \in Nat /\ n.size \in Nat
  BY <1>1, NetFacts
<1>4. n # NoNet
  BY DEF Found
<1> HIDE DEF n, walk
<1>5. walk[k] \in (n.base + 2) .. (n.base + n.size - 1)
  BY <1>1, <1>2, <1>3 DEF NetAddrs
<1> QED
  BY <1>1, <1>4, <1>5 DEF n

(***************************************************************************)
(* One family of a request                                                 *)
(***************************************************************************)

Memory == [rip : Addr \cup {NoIP}, passed : SUBSET Addr]

Request == [ok : BOOLEAN, held : [Fam -> Lease], table : SUBSET (Fam \X Addr),
            before : [Fam -> Memory]]

\* Family f of a request: nothing, an address outside the pool, or the first
\* acceptable candidate, which joins the table.
LeftAlone(acc, r) == r.held = acc.held /\ r.table = acc.table /\ r.before = acc.before

NotFromPool(f, acc, r) ==
  /\ acc.held[f] = NoLease /\ ~r.held[f].db
  /\ r.table = acc.table /\ r.before = acc.before

FromPool(u, f, s, answering, acc, r) ==
  /\ acc.held[f] = NoLease
  /\ r.held[f] \in Lease /\ r.held[f].db
  /\ r.table = acc.table \cup {<<f, r.held[f].rip>>}
  /\ r.before[f].rip = r.held[f].rip
  /\ \E k : Found(u, f, s, acc.table, answering, k, r.held[f], r.before[f].passed)

OneFamilyResult(u, f, s, answering, acc, r) ==
  /\ r \in Request
  /\ \A g \in Fam \ {f} : r.held[g] = acc.held[g] /\ r.before[g] = acc.before[g]
  /\ \/ LeftAlone(acc, r)
     \/ NotFromPool(f, acc, r)
     \/ FromPool(u, f, s, answering, acc, r)

\* What one family of get_ip_leases comes to: nothing changes, an address outside the
\* pool, or one free address added to the table.
LEMMA OneFamilyFacts ==
  ASSUME hash \in Hashes, NEW u \in Users, NEW f \in Fam, NEW s \in Nat, NEW answering,
         NEW acc \in Request
  PROVE  OneFamilyResult(u, f, s, answering, acc, OneFamily(u, f, s, answering, acc))
<1> DEFINE r == OneFamily(u, f, s, answering, acc)
           l == get_lease(u, f, s, acc.table, answering)
<1>1. CASE ~acc.ok \/ acc.held[f] # NoLease
  <2>1. r = acc
    BY <1>1 DEF OneFamily
  <2> QED
    BY <2>1 DEF OneFamilyResult, LeftAlone
<1>2. CASE acc.held[f] = NoLease /\ acc.ok /\ ~l.ok
  <2>1. r = [acc EXCEPT !.ok = FALSE]
    BY <1>2 DEF OneFamily
  <2>2. r \in Request /\ LeftAlone(acc, r)
    <3> HIDE DEF r
    <3> QED BY <2>1 DEF Request, LeftAlone
  <2> HIDE DEF r
  <2>3. OneFamilyResult(u, f, s, answering, acc, r)
    BY <2>2 DEF OneFamilyResult, LeftAlone
  <2> QED
    BY <2>3 DEF r
<1>3. CASE acc.held[f] = NoLease /\ acc.ok /\ l.ok
  <2>1. r = [acc EXCEPT !.held[f] = l.lease, !.table = @ \cup Entry(f, l.lease),
                        !.before[f] = IF l.lease.db THEN [rip |-> l.lease.rip, passed |-> l.passed]
                                      ELSE @]
    BY <1>3 DEF OneFamily
  <2>2. /\ l.lease \in Lease /\ l.passed \in SUBSET Addr
        /\ l.lease.db => \E k : Found(u, f, s, acc.table, answering, k, l.lease, l.passed)
    <3> HIDE DEF l
    <3>1. l = get_lease(u, f, s, acc.table, answering)
      BY DEF l
    <3> QED BY <1>3, <3>1, GetLeaseFacts
  <2> HIDE DEF r, l
  <2>3. /\ acc.held \in [Fam -> Lease] /\ acc.before \in [Fam -> Memory]
        /\ acc.table \in SUBSET (Fam \X Addr) /\ acc.ok \in BOOLEAN
    BY DEF Request
  <2>4. CASE ~l.lease.db
    <3>1. r = [ok |-> acc.ok, held |-> [acc.held EXCEPT ![f] = l.lease], table |-> acc.table,
               before |-> acc.before]
      BY <2>1, <2>3, <2>4 DEF Entry, Request
    <3>2. r \in Request
      BY <3>1, <2>2, <2>3 DEF Request
    <3>3. NotFromPool(f, acc, r)
      BY <1>3, <3>1, <2>3, <2>4 DEF NotFromPool
    <3>4. \A g \in Fam \ {f} : r.held[g] = acc.held[g] /\ r.before[g] = acc.before[g]
      BY <3>1, <2>3
    <3>5. OneFamilyResult(u, f, s, answering, acc, r)
      BY <3>2, <3>3, <3>4 DEF OneFamilyResult
    <3> QED BY <3>5 DEF r
  <2>5. CASE l.lease.db
    <3> DEFINE m == [rip |-> l.lease.rip, passed |-> l.passed]
    <3>1. PICK k : Found(u, f, s, acc.table, answering, k, l.lease, l.passed)
      BY <2>2, <2>5
    <3>2. l.lease.rip \in Addr
      <4>1. l.lease.rip \in (UserNet[u][f].base + 2) ..
                             (UserNet[u][f].base + UserNet[u][f].size - 1)
        BY <3>1, FoundInNetwork
      <4>2. UserNet[u][f] \in Nets
        BY <3>1 DEF Found, Nets
      <4>3. /\ UserNet[u][f].base \in Nat /\ UserNet[u][f].size \in Nat
            /\ NetAddrs(UserNet[u][f]) \subseteq Addr
        BY <4>2, NetFacts
      <4>4. l.lease.rip \in NetAddrs(UserNet[u][f])
        BY <4>1, <4>3 DEF NetAddrs
      <4> QED BY <4>3, <4>4
    <3>3. m \in Memory
      BY <2>2, <3>2 DEF Memory
    <3>4. r = [ok |-> acc.ok, held |-> [acc.held EXCEPT ![f] = l.lease],
               table |-> acc.table \cup {<<f, l.lease.rip>>},
               before |-> [acc.before EXCEPT ![f] = m]]
      BY <2>1, <2>5 DEF Entry, Request
    <3>5. m.rip = l.lease.rip /\ m.passed = l.passed
      OBVIOUS
    <3> HIDE DEF m
    <3>6. r \in Request
      BY <3>2, <3>3, <3>4, <2>2, <2>3 DEF Request
    <3>7. r.held[f] = l.lease /\ r.before[f] = m /\ r.table = acc.table \cup {<<f, l.lease.rip>>}
      BY <3>4, <2>3
    <3>8. FromPool(u, f, s, answering, acc, r)
      BY <1>3, <2>2, <2>5, <3>1, <3>5, <3>7 DEF FromPool
    <3>9. \A g \in Fam \ {f} : r.held[g] = acc.held[g] /\ r.before[g] = acc.before[g]
      BY <3>4, <2>3
    <3>10. OneFamilyResult(u, f, s, answering, acc, r)
      BY <3>6, <3>8, <3>9 DEF OneFamilyResult
    <3> QED BY <3>10 DEF r
  <2> QED
    BY <2>4, <2>5
<1> QED
  BY <1>1, <1>2, <1>3

(***************************************************************************)
(* A whole request                                                         *)
(***************************************************************************)

NoLeases == [f \in Fam |-> NoLease]

\* The table entries of a proc, one by one.
LEMMA EntriesFacts ==
  ASSUME NEW h
  PROVE  /\ \A f \in Fam : h[f].db => <<f, h[f].rip>> \in Entries(h)
         /\ \A x \in Entries(h) : \E f \in Fam : h[f].db /\ x = <<f, h[f].rip>>
BY DEF Entries, Entry

\* A proc without leases has no entries in the table.
LEMMA NoEntries == Entries(NoLeases) = {}
BY EntriesFacts DEF NoLeases, NoLease

\* A search looks only at the entries of its own family.
LEMMA FoundSameTable ==
  ASSUME NEW u, NEW f, NEW s, NEW table, NEW other, NEW answering, NEW k, NEW l, NEW passed,
         Found(u, f, s, table, answering, k, l, passed),
         \A a : <<f, a>> \in table <=> <<f, a>> \in other
  PROVE  Found(u, f, s, other, answering, k, l, passed)
<1> DEFINE n    == UserNet[u][f]
           walk == Candidates(f, n, s)
<1>1. \A a : Acceptable(f, a, n, table, answering) <=> Acceptable(f, a, n, other, answering)
  BY DEF Acceptable, is_ip_ok
<1>2. {walk[j] : j \in {i \in 1 .. k - 1 : <<f, walk[i]>> \in table}}
        = {walk[j] : j \in {i \in 1 .. k - 1 : <<f, walk[i]>> \in other}}
  <2> HIDE DEF walk
  <2> QED OBVIOUS
<1> HIDE DEF walk, n
<1> QED
  BY <1>1, <1>2 DEF Found, walk, n

\* What a request does to each family, told of the table as it was before the
\* request, and the table it leaves.
Outcome(u, f, s, held, answering, r) ==
  \/ r.held[f] = held[f] /\ r.before[f] = before[u][f]
  \/ held[f] = NoLease /\ ~r.held[f].db /\ r.before[f] = before[u][f]
  \/ /\ held[f] = NoLease /\ r.held[f].db /\ r.before[f].rip = r.held[f].rip
     /\ \E k : Found(u, f, s, ip_leases, answering, k, r.held[f], r.before[f].passed)

\* What a whole request comes to, for both families together.
LEMMA RequestFacts ==
  ASSUME TypeOK, NEW u \in Users, NEW s \in Nat, NEW answering, NEW held \in [Fam -> Lease],
         Entries(held) \subseteq ip_leases,
         NEW r, r = get_ip_leases(u, s, held, answering)
  PROVE  /\ r \in Request
         /\ \A f \in Fam : Outcome(u, f, s, held, answering, r)
         /\ r.table = ip_leases \cup Entries(r.held)
<1> DEFINE r0 == [ok |-> TRUE, held |-> held, table |-> ip_leases, before |-> before[u]]
           r4 == OneFamily(u, "ipv4", s, answering, r0)
<1>1. hash \in Hashes /\ r0 \in Request
  BY DEF TypeOK, Request, Memory
<1>2. r0.held = held /\ r0.table = ip_leases /\ r0.before = before[u]
  OBVIOUS
<1>3. r = OneFamily(u, "ipv6", s, answering, r4)
  BY DEF get_ip_leases
<1>4. "ipv4" \in Fam /\ "ipv6" \in Fam /\ \A f \in Fam : f = "ipv4" \/ f = "ipv6"
  BY DEF Fam
<1> HIDE DEF r0
<1>5. OneFamilyResult(u, "ipv4", s, answering, r0, r4)
  BY <1>1, <1>4, OneFamilyFacts
<1>6. r4 \in Request
  BY <1>5 DEF OneFamilyResult
<1> HIDE DEF r4
<1>7. OneFamilyResult(u, "ipv6", s, answering, r4, r)
  BY <1>1, <1>3, <1>4, <1>6, OneFamilyFacts
<1>8. r \in Request
  BY <1>7 DEF OneFamilyResult
<1>9. /\ r.held["ipv4"] = r4.held["ipv4"] /\ r.before["ipv4"] = r4.before["ipv4"]
      /\ r4.held["ipv6"] = held["ipv6"] /\ r4.before["ipv6"] = before[u]["ipv6"]
  BY <1>2, <1>4, <1>5, <1>7 DEF OneFamilyResult
<1>10. Outcome(u, "ipv4", s, held, answering, r)
  BY <1>2, <1>5, <1>9 DEF OneFamilyResult, LeftAlone, NotFromPool, FromPool, Outcome
<1>11. \A a : <<"ipv6", a>> \in r4.table <=> <<"ipv6", a>> \in ip_leases
  BY <1>2, <1>5 DEF OneFamilyResult, LeftAlone, NotFromPool, FromPool
<1>12. Outcome(u, "ipv6", s, held, answering, r)
  <2>1. CASE LeftAlone(r4, r)
    BY <2>1, <1>9 DEF LeftAlone, Outcome
  <2>2. CASE NotFromPool("ipv6", r4, r)
    BY <2>2, <1>9 DEF NotFromPool, Outcome
  <2>3. CASE FromPool(u, "ipv6", s, answering, r4, r)
    <3>1. PICK k : Found(u, "ipv6", s, r4.table, answering, k, r.held["ipv6"],
                         r.before["ipv6"].passed)
      BY <2>3 DEF FromPool
    <3>2. Found(u, "ipv6", s, ip_leases, answering, k, r.held["ipv6"],
                r.before["ipv6"].passed)
      BY <3>1, <1>11, FoundSameTable
    <3> QED BY <2>3, <3>2, <1>9 DEF FromPool, Outcome
  <2> QED
    BY <1>7, <2>1, <2>2, <2>3 DEF OneFamilyResult
<1>13. ip_leases \subseteq r4.table /\ r4.table \subseteq r.table
  BY <1>2, <1>5, <1>7 DEF OneFamilyResult, LeftAlone, NotFromPool, FromPool
<1>14. \A f \in Fam : held[f].db => <<f, held[f].rip>> \in ip_leases
  BY EntriesFacts
<1>15. \A f \in Fam : r.held[f].db => <<f, r.held[f].rip>> \in r.table
  <2>1. r4.held["ipv4"].db => <<"ipv4", r4.held["ipv4"].rip>> \in r4.table
    BY <1>2, <1>4, <1>5, <1>14 DEF OneFamilyResult, LeftAlone, NotFromPool, FromPool
  <2>2. r.held["ipv6"].db => <<"ipv6", r.held["ipv6"].rip>> \in r.table
    <3>1. r4.held["ipv6"].db => <<"ipv6", r4.held["ipv6"].rip>> \in r4.table
      BY <1>4, <1>9, <1>13, <1>14
    <3> QED BY <3>1, <1>7 DEF OneFamilyResult, LeftAlone, NotFromPool, FromPool
  <2> QED
    BY <2>1, <2>2, <1>4, <1>9, <1>13
<1>16. ASSUME NEW x \in r.table PROVE x \in ip_leases \cup Entries(r.held)
  <2>1. x \in r4.table \/ (r.held["ipv6"].db /\ x = <<"ipv6", r.held["ipv6"].rip>>)
    BY <1>7 DEF OneFamilyResult, LeftAlone, NotFromPool, FromPool
  <2>2. x \in r4.table =>
          x \in ip_leases \/ (r4.held["ipv4"].db /\ x = <<"ipv4", r4.held["ipv4"].rip>>)
    BY <1>2, <1>5 DEF OneFamilyResult, LeftAlone, NotFromPool, FromPool
  <2> QED
    BY <2>1, <2>2, <1>4, <1>9, EntriesFacts
<1>17. r.table = ip_leases \cup Entries(r.held)
  BY <1>13, <1>15, <1>16, EntriesFacts
<1> QED
  BY <1>4, <1>8, <1>10, <1>12, <1>17

\* The addresses a request adds were free.
LEMMA NewAreFree ==
  ASSUME NEW u, NEW s, NEW held, NEW answering, NEW r,
         \A f \in Fam : Outcome(u, f, s, held, answering, r)
  PROVE  /\ Entries(held) \subseteq Entries(r.held)
         /\ (Entries(r.held) \ Entries(held)) \cap ip_leases = {}
<1>1. ASSUME NEW f \in Fam, held[f].db PROVE r.held[f] = held[f]
  BY <1>1 DEF Outcome, NoLease
<1>2. Entries(held) \subseteq Entries(r.held)
  BY <1>1, EntriesFacts
<1>3. ASSUME NEW x \in Entries(r.held), x \notin Entries(held) PROVE x \notin ip_leases
  <2>1. PICK f \in Fam : r.held[f].db /\ x = <<f, r.held[f].rip>>
    BY EntriesFacts
  <2>2. r.held[f] # held[f]
    BY <1>3, <2>1, EntriesFacts
  <2>3. PICK k : Found(u, f, s, ip_leases, answering, k, r.held[f], r.before[f].passed)
    BY <2>1, <2>2 DEF Outcome
  <2> QED
    BY <2>1, <2>3 DEF Found, Acceptable, is_ip_ok
<1> QED
  BY <1>2, <1>3

(***************************************************************************)
(* The invariant                                                           *)
(***************************************************************************)

\* What p may start a request with: nothing, or the leases of a proc of the same
\* user that has let go of them.  `rest` is what the other procs keep.
Handover(p, u, held, rest) ==
  /\ held \in [Fam -> Lease] /\ rest \in [Procs -> [Fam -> Lease]]
  /\ \A f \in Fam : held[f].db =>
       /\ UserNet[u][f] # NoNet
       /\ held[f].rip \in (UserNet[u][f].base + 2) ..
                           (UserNet[u][f].base + UserNet[u][f].size - 1)
  /\ \A x \in Procs \ {p} :
       /\ rest[x] = lease[x] \/ rest[x] = NoLeases
       /\ Entries(held) \cap Entries(rest[x]) = {}
  /\ ip_leases = Entries(held) \cup UNION {Entries(rest[x]) : x \in Procs \ {p}}

\* The seed of a request is a number.
LEMMA SeedsNat ==
  ASSUME TypeOK, NEW u \in Users
  PROVE  Seeds(u) \subseteq Nat
BY IpLeaseAssumption DEF TypeOK, Seeds

\* Without pings, acceptable is: free and lendable.
LEMMA SteadyAcceptable ==
  ASSUME Steady, NEW f, NEW ip, NEW n, NEW table, NEW answering
  PROVE  Acceptable(f, ip, n, table, answering)
           <=> <<f, ip>> \notin table /\ Lendable(f, ip, n)
BY DEF Steady, Acceptable, is_ip_ok, icmp_ping, Lendable

\* A request explains the lease it remembers.
LEMMA OutcomeRemembered ==
  ASSUME IpLeaseInv, Steady, NEW u \in Users, NEW f \in Fam, NEW held, NEW answering,
         NEW r, Outcome(u, f, seed[u], held, answering, r),
         UNCHANGED <<hash, junk, seed>>, before'[u][f] = r.before[f]
  PROVE  Remembered(u, f)'
<1> DEFINE n    == UserNet[u][f]
           walk == Candidates(f, n, seed[u])
<1>1. walk' = walk
  BY DEF Candidates
<1>2. \A a, m : Lendable(f, a, m)' = Lendable(f, a, m)
  BY DEF Lendable
<1>3. CASE r.before[f] = before[u][f]
  <2>1. Remembered(u, f)
    BY DEF IpLeaseInv
  <2> HIDE DEF walk
  <2>2. before'[u][f] = before[u][f]
    BY <1>3
  <2> QED
    BY <1>1, <1>2, <2>1, <2>2 DEF Remembered, walk, n
<1>4. CASE r.before[f] # before[u][f]
  <2>1. PICK k : Found(u, f, seed[u], ip_leases, answering, k, r.held[f], r.before[f].passed)
    BY <1>4 DEF Outcome
  <2>2. r.before[f].rip = r.held[f].rip
    BY <1>4 DEF Outcome
  <2>3. /\ n # NoNet /\ Explicit[u][f] = NoIP /\ k \in 1 .. MAX_IP_TRIES
        /\ walk[k] = before'[u][f].rip
        /\ Acceptable(f, walk[k], n, ip_leases, answering)
        /\ \A j \in 1 .. k - 1 : ~Acceptable(f, walk[j], n, ip_leases, answering)
        /\ before'[u][f].passed = {walk[j] : j \in {i \in 1 .. k - 1 : <<f, walk[i]>> \in ip_leases}}
    <3>1. r.held[f].rip = walk[k]
      BY <2>1 DEF Found
    <3> QED BY <2>1, <2>2, <3>1 DEF Found
  <2> HIDE DEF walk, n
  <2>4. Lendable(f, walk[k], n)
    BY <2>3, SteadyAcceptable
  <2>5. \A j \in 1 .. k - 1 : Lendable(f, walk[j], n) => walk[j] \in before'[u][f].passed
    BY <2>3, SteadyAcceptable
  <2> QED
    BY <1>1, <1>2, <2>3, <2>4, <2>5 DEF Remembered, walk, n
<1> QED
  BY <1>3, <1>4

\* A request that succeeds or fails keeps the invariant.
LEMMA ObtainInv ==
  ASSUME IpLeaseInv, NEW p \in Procs, NEW u \in Users, NEW held, NEW rest,
         Handover(p, u, held, rest), owner[p] = NoUser, Obtain(p, u, held, rest)
  PROVE  IpLeaseInv'
<1>1. TypeOK /\ held \in [Fam -> Lease] /\ rest \in [Procs -> [Fam -> Lease]]
      /\ Entries(held) \subseteq ip_leases
  BY DEF IpLeaseInv, Handover
<1>2. PICK s \in Seeds(u), answering \in SUBSET Hosts :
        LET r == get_ip_leases(u, s, held, answering)
        IN  /\ owner' = [owner EXCEPT ![p] = u]
            /\ lease' = [rest EXCEPT ![p] = r.held]
            /\ ip_leases' = r.table
            /\ before' = IF Steady THEN [before EXCEPT ![u] = r.before] ELSE before
            /\ UNCHANGED <<cfg, hash, junk, seed>>
  BY DEF Obtain
<1> DEFINE r == get_ip_leases(u, s, held, answering)
<1>3. /\ owner' = [owner EXCEPT ![p] = u]
      /\ lease' = [rest EXCEPT ![p] = r.held]
      /\ ip_leases' = r.table
      /\ before' = IF Steady THEN [before EXCEPT ![u] = r.before] ELSE before
      /\ UNCHANGED <<cfg, hash, junk, seed>>
  BY <1>2
<1>4. s \in Nat
  BY <1>1, SeedsNat
<1>5. /\ r \in Request
      /\ \A f \in Fam : Outcome(u, f, s, held, answering, r)
      /\ r.table = ip_leases \cup Entries(r.held)
  BY <1>1, <1>4, RequestFacts
<1> HIDE DEF r
<1>6. r.held \in [Fam -> Lease] /\ r.table \subseteq Fam \X Addr /\ r.before \in [Fam -> Memory]
  BY <1>5 DEF Request
<1>7. lease'[p] = r.held /\ owner'[p] = u /\ lease' \in [Procs -> [Fam -> Lease]]
  BY <1>1, <1>3, <1>6 DEF TypeOK
<1>8. \A x \in Procs \ {p} : lease'[x] = rest[x] /\ owner'[x] = owner[x]
  BY <1>1, <1>3 DEF TypeOK
<1>9. /\ Entries(held) \subseteq Entries(r.held)
      /\ (Entries(r.held) \ Entries(held)) \cap ip_leases = {}
  BY <1>5, NewAreFree
<1>10. TypeOK'
  <2>1. owner' \in [Procs -> Users \cup {NoUser}] /\ ip_leases' \subseteq Fam \X Addr
    BY <1>1, <1>3, <1>6 DEF TypeOK
  <2>2. before' \in [Users -> [Fam -> Memory]]
    BY <1>1, <1>3, <1>6 DEF TypeOK, Memory
  <2>3. cfg' \in Config /\ hash' \in Hashes /\ junk' \in Junks /\ seed' \in [Users -> SeedSet]
    BY <1>1, <1>3 DEF TypeOK
  <2> QED
    BY <1>7, <2>1, <2>2, <2>3 DEF TypeOK, Memory
<1>11. ASSUME NEW x \in Procs, NEW f \in Fam, owner'[x] = NoUser
       PROVE  lease'[x][f] = NoLease
  <2>1. x # p
    BY <1>7, <1>11, IpLeaseAssumption
  <2>2. lease[x][f] = NoLease
    BY <1>8, <1>11, <2>1 DEF IpLeaseInv
  <2> QED
    BY <1>8, <2>1, <2>2 DEF Handover, NoLeases
<1>12. ASSUME NEW x \in Procs, NEW f \in Fam, lease'[x][f].db
       PROVE  /\ UserNet[owner'[x]][f] # NoNet
              /\ lease'[x][f].rip \in (UserNet[owner'[x]][f].base + 2) ..
                                      (UserNet[owner'[x]][f].base + UserNet[owner'[x]][f].size - 1)
  <2>1. CASE x = p
    <3>1. Outcome(u, f, s, held, answering, r) /\ r.held[f].db
      BY <1>5, <1>7, <1>12, <2>1
    <3>2. CASE r.held[f] = held[f]
      BY <1>7, <2>1, <3>1, <3>2 DEF Handover
    <3>3. CASE \E k : Found(u, f, s, ip_leases, answering, k, r.held[f], r.before[f].passed)
      <4>1. PICK k : Found(u, f, s, ip_leases, answering, k, r.held[f], r.before[f].passed)
        BY <3>3
      <4>2. hash \in Hashes
        BY <1>1 DEF TypeOK
      <4> QED BY <1>4, <1>7, <2>1, <4>1, <4>2, FoundInNetwork
    <3> QED
      BY <3>1, <3>2, <3>3 DEF Outcome
  <2>2. CASE x # p
    <3>1. lease'[x] = lease[x] /\ owner'[x] = owner[x]
      BY <1>8, <1>12, <2>2 DEF Handover, NoLeases, NoLease
    <3> QED
      BY <1>12, <3>1 DEF IpLeaseInv
  <2> QED
    BY <2>1, <2>2
<1>13. ASSUME NEW x \in Procs \ {p} PROVE Entries(r.held) \cap Entries(rest[x]) = {}
  <2>1. Entries(rest[x]) \subseteq ip_leases /\ Entries(held) \cap Entries(rest[x]) = {}
    BY DEF Handover
  <2> QED
    BY <1>9, <2>1
<1>14. ASSUME NEW x \in Procs, NEW y \in Procs, x # y
       PROVE  Entries(lease'[x]) \cap Entries(lease'[y]) = {}
  <2>1. CASE x = p
    BY <1>7, <1>8, <1>13, <1>14, <2>1
  <2>2. CASE y = p
    BY <1>7, <1>8, <1>13, <1>14, <2>2
  <2>3. CASE x # p /\ y # p
    <3>1. Entries(lease[x]) \cap Entries(lease[y]) = {}
      BY <1>14 DEF IpLeaseInv
    <3>2. Entries(rest[x]) \subseteq Entries(lease[x]) /\ Entries(rest[y]) \subseteq Entries(lease[y])
      BY <2>3, NoEntries DEF Handover
    <3> QED
      BY <1>8, <2>3, <3>1, <3>2
  <2> QED
    BY <2>1, <2>2, <2>3
<1>15. ip_leases' = UNION {Entries(lease'[x]) : x \in Procs}
  <2>1. ip_leases' = ip_leases \cup Entries(r.held)
    BY <1>3, <1>5
  <2>2. ip_leases = Entries(held) \cup UNION {Entries(rest[x]) : x \in Procs \ {p}}
    BY DEF Handover
  <2>3. UNION {Entries(lease'[x]) : x \in Procs}
          = Entries(r.held) \cup UNION {Entries(rest[x]) : x \in Procs \ {p}}
    BY <1>7, <1>8
  <2> QED
    BY <1>9, <2>1, <2>2, <2>3
<1>16. ASSUME Steady', NEW v \in Users, NEW f \in Fam PROVE Remembered(v, f)'
  <2>1. Steady
    BY <1>3, <1>16 DEF Steady
  <2>2. before' = [before EXCEPT ![u] = r.before]
    BY <1>3, <2>1
  <2>3. CASE v = u
    <3>1. s = seed[u]
      BY <2>1 DEF Steady, Seeds
    <3>2. before'[u][f] = r.before[f]
      BY <1>1, <2>2 DEF TypeOK
    <3> QED
      BY <1>3, <1>5, <2>1, <2>3, <3>1, <3>2, OutcomeRemembered
  <2>4. CASE v # u
    <3>1. before'[v] = before[v]
      BY <1>1, <2>2, <2>4 DEF TypeOK
    <3>2. Remembered(v, f)
      BY <2>1 DEF IpLeaseInv
    <3>3. Candidates(f, UserNet[v][f], seed[v])' = Candidates(f, UserNet[v][f], seed[v])
      BY <1>3 DEF Candidates
    <3>4. \A a, m : Lendable(f, a, m)' = Lendable(f, a, m)
      BY <1>3 DEF Lendable
    <3> QED
      BY <3>1, <3>2, <3>3, <3>4 DEF Remembered
  <2> QED
    BY <2>3, <2>4
<1> QED
  BY <1>10, <1>11, <1>12, <1>14, <1>15, <1>16 DEF IpLeaseInv

\* A new session starts from a slot with nothing.
LEMMA ConnectHandover ==
  ASSUME IpLeaseInv, NEW p \in Procs, NEW u \in Users, owner[p] = NoUser
  PROVE  lease[p] = NoLeases /\ Handover(p, u, lease[p], lease)
<1>1. lease \in [Procs -> [Fam -> Lease]]
  BY DEF IpLeaseInv, TypeOK
<1>2. lease[p] = NoLeases
  BY <1>1 DEF IpLeaseInv, NoLeases
<1>3. ip_leases = UNION {Entries(lease[x]) : x \in Procs \ {p}}
  <2>1. ip_leases = UNION {Entries(lease[x]) : x \in Procs} /\ Entries(lease[p]) = {}
    BY <1>2, NoEntries DEF IpLeaseInv
  <2> QED
    BY <2>1
<1>4. \A f \in Fam : ~lease[p][f].db
  BY <1>2 DEF NoLeases, NoLease
<1> QED
  BY <1>1, <1>2, <1>3, <1>4, NoEntries DEF Handover

\* A resumed session starts from what the old proc had, which the old proc loses.
LEMMA ResumeHandover ==
  ASSUME IpLeaseInv, NEW p \in Procs, NEW q \in Procs, p # q,
         owner[p] = NoUser, owner[q] # NoUser
  PROVE  /\ owner[q] \in Users /\ lease[p] = NoLeases
         /\ Handover(p, owner[q], lease[q], [lease EXCEPT ![q] = [f \in Fam |-> NoLease]])
<1> DEFINE rest == [lease EXCEPT ![q] = NoLeases]
<1>1. lease \in [Procs -> [Fam -> Lease]] /\ owner[q] \in Users
  BY DEF IpLeaseInv, TypeOK
<1>2. NoLeases \in [Fam -> Lease]
  BY DEF NoLeases, NoLease, Lease
<1>3. rest \in [Procs -> [Fam -> Lease]] /\ rest[q] = NoLeases
      /\ \A x \in Procs \ {q} : rest[x] = lease[x]
  BY <1>1, <1>2
<1>4. lease[p] = NoLeases /\ Entries(lease[p]) = {} /\ Entries(rest[q]) = {}
  BY <1>1, <1>3, NoEntries DEF IpLeaseInv, NoLeases
<1> HIDE DEF rest
<1>5. ASSUME NEW x \in Procs \ {p}
      PROVE  /\ rest[x] = lease[x] \/ rest[x] = NoLeases
             /\ Entries(lease[q]) \cap Entries(rest[x]) = {}
  <2>1. CASE x = q
    BY <1>3, <1>4, <2>1
  <2>2. CASE x # q
    <3>1. rest[x] = lease[x] /\ Entries(lease[q]) \cap Entries(lease[x]) = {}
      BY <1>3, <2>2 DEF IpLeaseInv
    <3> QED BY <3>1
  <2> QED BY <2>1, <2>2
<1>6. ip_leases = Entries(lease[q]) \cup UNION {Entries(rest[x]) : x \in Procs \ {p}}
  <2>1. ip_leases = UNION {Entries(lease[x]) : x \in Procs}
    BY DEF IpLeaseInv
  <2>2. ASSUME NEW e \in ip_leases
        PROVE  e \in Entries(lease[q]) \cup UNION {Entries(rest[x]) : x \in Procs \ {p}}
    <3>1. PICK x \in Procs : e \in Entries(lease[x])
      BY <2>1
    <3>2. x # p
      BY <1>4, <3>1
    <3> QED BY <1>3, <3>1, <3>2
  <2>3. ASSUME NEW e \in Entries(lease[q]) \cup UNION {Entries(rest[x]) : x \in Procs \ {p}}
        PROVE  e \in ip_leases
    <3>1. CASE e \in Entries(lease[q])
      BY <2>1, <3>1
    <3>2. CASE e \notin Entries(lease[q])
      <4>1. PICK x \in Procs \ {p} : e \in Entries(rest[x])
        BY <3>2
      <4>2. e \in Entries(lease[x])
        BY <1>3, <1>4, <4>1
      <4> QED BY <2>1, <4>2
    <3> QED BY <3>1, <3>2
  <2> QED
    BY <2>2, <2>3
<1>7. ASSUME NEW f \in Fam, lease[q][f].db
      PROVE  /\ UserNet[owner[q]][f] # NoNet
             /\ lease[q][f].rip \in (UserNet[owner[q]][f].base + 2) ..
                                    (UserNet[owner[q]][f].base + UserNet[owner[q]][f].size - 1)
  BY <1>7 DEF IpLeaseInv
<1>8. Handover(p, owner[q], lease[q], rest)
  BY <1>1, <1>3, <1>5, <1>6, <1>7 DEF Handover
<1> QED
  BY <1>1, <1>4, <1>8 DEF rest, NoLeases

\* It does for a new session.
LEMMA ConnectInv ==
  ASSUME IpLeaseInv, NEW p \in Procs, NEW u \in Users, Connect(p, u)
  PROVE  IpLeaseInv'
BY ConnectHandover, ObtainInv DEF Connect

\* And for a session that takes the leases of an older one over.
LEMMA ResumeInv ==
  ASSUME IpLeaseInv, NEW p \in Procs, NEW q \in Procs, Resume(p, q)
  PROVE  IpLeaseInv'
<1> DEFINE u    == owner[q]
           held == lease[q]
           rest == [lease EXCEPT ![q] = [f \in Fam |-> NoLease]]
<1>1. u \in Users /\ owner[p] = NoUser /\ Handover(p, u, held, rest)
  BY ResumeHandover DEF Resume
<1>2. Obtain(p, u, held, rest)
  BY DEF Resume
<1> HIDE DEF u, held, rest
<1> QED
  BY <1>1, <1>2, ObtainInv

\* Giving the leases of p back takes its entries out of the table, and no other
\* proc's, since the entries of two procs are disjoint.
LEMMA RemoveInv ==
  ASSUME IpLeaseInv, NEW p \in Procs, remove_ip_leases(p)
  PROVE  IpLeaseInv'
<1>1. /\ owner' = [owner EXCEPT ![p] = NoUser]
      /\ lease' = [lease EXCEPT ![p] = NoLeases]
      /\ ip_leases' = ip_leases \ Entries(lease[p])
      /\ UNCHANGED <<cfg, hash, junk, seed, before>>
  BY DEF remove_ip_leases, NoLeases
<1>2. NoLeases \in [Fam -> Lease]
  BY DEF NoLeases, NoLease, Lease
<1>3. lease' \in [Procs -> [Fam -> Lease]] /\ lease'[p] = NoLeases /\ owner'[p] = NoUser
  BY <1>1, <1>2 DEF IpLeaseInv, TypeOK
<1>4. \A x \in Procs \ {p} : lease'[x] = lease[x] /\ owner'[x] = owner[x]
  BY <1>1 DEF IpLeaseInv, TypeOK
<1>5. TypeOK'
  BY <1>1, <1>3 DEF IpLeaseInv, TypeOK
<1>6. \A x \in Procs, f \in Fam : owner'[x] = NoUser => lease'[x][f] = NoLease
  BY <1>3, <1>4 DEF IpLeaseInv, NoLeases
<1>7. ASSUME NEW x \in Procs, NEW f \in Fam, lease'[x][f].db
      PROVE  /\ UserNet[owner'[x]][f] # NoNet
             /\ lease'[x][f].rip \in (UserNet[owner'[x]][f].base + 2) ..
                                     (UserNet[owner'[x]][f].base + UserNet[owner'[x]][f].size - 1)
  <2>1. x # p
    BY <1>3, <1>7 DEF NoLeases, NoLease
  <2>2. lease'[x] = lease[x] /\ owner'[x] = owner[x]
    BY <1>4, <2>1
  <2> QED
    BY <1>7, <2>2 DEF IpLeaseInv
<1>8. ASSUME NEW x \in Procs, NEW y \in Procs, x # y
      PROVE  Entries(lease'[x]) \cap Entries(lease'[y]) = {}
  <2>1. Entries(lease[x]) \cap Entries(lease[y]) = {}
    BY <1>8 DEF IpLeaseInv
  <2> QED
    BY <1>3, <1>4, <2>1, NoEntries
<1>9. ip_leases' = UNION {Entries(lease'[x]) : x \in Procs}
  <2>1. ip_leases = UNION {Entries(lease[x]) : x \in Procs}
    BY DEF IpLeaseInv
  <2>2. \A x \in Procs \ {p} : Entries(lease[x]) \cap Entries(lease[p]) = {}
    BY DEF IpLeaseInv
  <2>3. Entries(lease'[p]) = {}
    BY <1>3, NoEntries
  <2> QED
    BY <1>1, <1>4, <2>1, <2>2, <2>3
<1>10. ASSUME Steady', NEW v \in Users, NEW f \in Fam PROVE Remembered(v, f)'
  <2>1. Steady
    BY <1>1, <1>10 DEF Steady
  <2>2. Remembered(v, f)
    BY <2>1 DEF IpLeaseInv
  <2>3. Candidates(f, UserNet[v][f], seed[v])' = Candidates(f, UserNet[v][f], seed[v])
    BY <1>1 DEF Candidates
  <2>4. \A a, m : Lendable(f, a, m)' = Lendable(f, a, m)
    BY <1>1 DEF Lendable
  <2> QED
    BY <1>1, <2>2, <2>3, <2>4 DEF Remembered
<1> QED
  BY <1>5, <1>6, <1>7, <1>8, <1>9, <1>10 DEF IpLeaseInv

\* The invariant holds at the start.
LEMMA InitInv == Init => IpLeaseInv
<1> SUFFICES ASSUME Init PROVE IpLeaseInv
  OBVIOUS
<1>1. \A p \in Procs : lease[p] = NoLeases /\ owner[p] = NoUser
  BY DEF Init, NoLeases
<1>2. NoLeases \in [Fam -> Lease]
  BY DEF NoLeases, NoLease, Lease
<1>3. TypeOK
  BY <1>2 DEF Init, TypeOK, NoLeases
<1>4. \A p \in Procs, f \in Fam : lease[p][f] = NoLease /\ ~lease[p][f].db
  <2>1. ~NoLease.db /\ \A f \in Fam : NoLeases[f] = NoLease
    BY DEF NoLeases, NoLease
  <2> QED
    BY <1>1, <2>1
<1>5. \A p \in Procs : Entries(lease[p]) = {}
  BY <1>1, NoEntries
<1>6. ip_leases = UNION {Entries(lease[p]) : p \in Procs}
  BY <1>5 DEF Init
<1>7. \A u \in Users, f \in Fam : before[u][f].rip = NoIP
  BY DEF Init
<1>8. \A u \in Users, f \in Fam : Remembered(u, f)
  BY <1>7 DEF Remembered
<1> QED
  BY <1>3, <1>4, <1>5, <1>6, <1>8 DEF IpLeaseInv

\* Steps that leave the leases alone keep it.
LEMMA StutterInv ==
  ASSUME IpLeaseInv, UNCHANGED vars
  PROVE  IpLeaseInv'
<1>1. UNCHANGED <<owner, lease, ip_leases, cfg, hash, junk, seed, before>>
  BY DEF vars
<1>2. TypeOK'
  BY <1>1 DEF IpLeaseInv, TypeOK
<1>3. ASSUME Steady', NEW v \in Users, NEW f \in Fam PROVE Remembered(v, f)'
  <2>1. Steady
    BY <1>1, <1>3 DEF Steady
  <2>2. Remembered(v, f)
    BY <2>1 DEF IpLeaseInv
  <2>3. Candidates(f, UserNet[v][f], seed[v])' = Candidates(f, UserNet[v][f], seed[v])
    BY <1>1 DEF Candidates
  <2>4. \A a, m : Lendable(f, a, m)' = Lendable(f, a, m)
    BY <1>1 DEF Lendable
  <2> QED
    BY <1>1, <2>2, <2>3, <2>4 DEF Remembered
<1> QED
  BY <1>1, <1>2, <1>3 DEF IpLeaseInv

\* Every step keeps it.
LEMMA NextInv == IpLeaseInv /\ [Next]_vars => IpLeaseInv'
<1> SUFFICES ASSUME IpLeaseInv, [Next]_vars PROVE IpLeaseInv'
  OBVIOUS
<1>1. CASE \E p \in Procs, u \in Users : Connect(p, u)
  BY <1>1, ConnectInv
<1>2. CASE \E p, q \in Procs : Resume(p, q)
  BY <1>2, ResumeInv
<1>3. CASE \E p \in Procs : remove_ip_leases(p)
  BY <1>3, RemoveInv
<1>4. CASE UNCHANGED vars
  BY <1>4, StutterInv
<1> QED
  BY <1>1, <1>2, <1>3, <1>4 DEF Next

\* The invariant of the lease table holds for every network, hash function and
\* number of procs.
THEOREM LeasesInvariant == Spec => []IpLeaseInv
<1>1. Init => IpLeaseInv
  BY InitInv
<1>2. IpLeaseInv /\ [Next]_vars => IpLeaseInv'
  BY NextInv
<1> QED
  BY <1>1, <1>2, PTL DEF Spec

\* The lease table and the leases of the procs always have their types.
THEOREM Typing == Spec => []TypeOK
<1>1. IpLeaseInv => TypeOK
  BY DEF IpLeaseInv
<1> QED
  BY <1>1, LeasesInvariant, PTL

\* No user is ever lent an address outside their network, the network's own
\* address or the server's end of the tunnel (is_ipv4_ok, is_ipv6_ok and the
\* comparison with lip).
THEOREM LeasesInNetwork == Spec => []LeaseInNetwork
<1>1. IpLeaseInv => LeaseInNetwork
  BY DEF IpLeaseInv, LeaseInNetwork
<1> QED
  BY <1>1, LeasesInvariant, PTL

\* No address is lent to two procs at the same time, whatever order searches,
\* take-overs and removals come in, and the table (ip_leases) lists exactly the
\* addresses that are lent.
THEOREM AddressLentOnce ==
  Spec => [](\A p, q \in Procs, f \in Fam :
               /\ lease[p][f].db => <<f, lease[p][f].rip>> \in ip_leases
               /\ lease[p][f].db /\ lease[q][f].db /\ lease[p][f].rip = lease[q][f].rip => p = q)
<1> DEFINE Once == \A p, q \in Procs, f \in Fam :
               /\ lease[p][f].db => <<f, lease[p][f].rip>> \in ip_leases
               /\ lease[p][f].db /\ lease[q][f].db /\ lease[p][f].rip = lease[q][f].rip => p = q
<1>1. IpLeaseInv => Once
  <2> SUFFICES ASSUME IpLeaseInv, NEW p \in Procs, NEW q \in Procs, NEW f \in Fam,
                      lease[p][f].db
               PROVE  /\ <<f, lease[p][f].rip>> \in ip_leases
                      /\ lease[q][f].db /\ lease[p][f].rip = lease[q][f].rip => p = q
    OBVIOUS
  <2>1. <<f, lease[p][f].rip>> \in Entries(lease[p])
    BY EntriesFacts
  <2>2. lease[q][f].db => <<f, lease[q][f].rip>> \in Entries(lease[q])
    BY EntriesFacts
  <2> QED
    BY <2>1, <2>2 DEF IpLeaseInv
<1> QED
  BY <1>1, LeasesInvariant, PTL

(***************************************************************************)
(* The leases implement a lease pool                                       *)
(***************************************************************************)

\* A request lends p free addresses on top of what it took over.
LEMMA ObtainLends ==
  ASSUME IpLeaseInv, NEW p \in Procs, NEW u \in Users, NEW held, NEW rest,
         Handover(p, u, held, rest), Obtain(p, u, held, rest)
  PROVE  LET new == Entries(lease'[p]) \ Entries(held)
         IN  /\ new \subseteq (Fam \X Addr) \ ip_leases
             /\ Entries(lease'[p]) = Entries(held) \cup new
             /\ ip_leases' = ip_leases \cup new
             /\ \A x \in Procs \ {p} : lease'[x] = rest[x]
<1>1. TypeOK /\ held \in [Fam -> Lease] /\ rest \in [Procs -> [Fam -> Lease]]
      /\ Entries(held) \subseteq ip_leases
  BY DEF IpLeaseInv, Handover
<1>2. PICK s \in Seeds(u), answering \in SUBSET Hosts :
        LET r == get_ip_leases(u, s, held, answering)
        IN  lease' = [rest EXCEPT ![p] = r.held] /\ ip_leases' = r.table
  BY DEF Obtain
<1> DEFINE r == get_ip_leases(u, s, held, answering)
<1>3. lease' = [rest EXCEPT ![p] = r.held] /\ ip_leases' = r.table
  BY <1>2
<1>4. s \in Nat
  BY <1>1, SeedsNat
<1>5. /\ r \in Request
      /\ \A f \in Fam : Outcome(u, f, s, held, answering, r)
      /\ r.table = ip_leases \cup Entries(r.held)
  BY <1>1, <1>4, RequestFacts
<1> HIDE DEF r
<1>6. lease'[p] = r.held /\ \A x \in Procs \ {p} : lease'[x] = rest[x]
  BY <1>1, <1>3
<1>7. /\ Entries(held) \subseteq Entries(r.held)
      /\ (Entries(r.held) \ Entries(held)) \cap ip_leases = {}
  BY <1>5, NewAreFree
<1>8. r.table \subseteq Fam \X Addr
  BY <1>5 DEF Request
<1> QED
  BY <1>1, <1>3, <1>5, <1>6, <1>7, <1>8

\* The refinement mapping: what a proc holds is its entries in the table.
Lent == [p \in Procs |-> Entries(lease[p])]

\* The empty table is an empty pool.
LEMMA InitPool == Init => Pool!Init
<1> SUFFICES ASSUME Init PROVE Pool!Init
  OBVIOUS
<1>1. \A p \in Procs : lease[p] = NoLeases
  BY DEF Init, NoLeases
<1>2. Lent = [p \in Procs |-> {}] /\ ip_leases = {}
  BY <1>1, NoEntries DEF Lent, Init
<1> QED
  BY <1>2 DEF Pool!Init, Lent

\* A request of a new session is a step of the pool.
LEMMA ConnectPool ==
  ASSUME IpLeaseInv, NEW p \in Procs, NEW u \in Users, Connect(p, u)
  PROVE  Pool!Take(p)
<1>1. Handover(p, u, lease[p], lease) /\ Obtain(p, u, lease[p], lease)
  BY ConnectHandover DEF Connect
<1> DEFINE new == Entries(lease'[p]) \ Entries(lease[p])
<1>2. /\ new \subseteq (Fam \X Addr) \ ip_leases
      /\ Entries(lease'[p]) = Entries(lease[p]) \cup new
      /\ ip_leases' = ip_leases \cup new
      /\ \A x \in Procs \ {p} : lease'[x] = lease[x]
  BY <1>1, ObtainLends
<1>3. Lent[p] = Entries(lease[p]) /\ Lent'[p] = Entries(lease'[p])
  BY DEF Lent
<1>4. Lent' = [Lent EXCEPT ![p] = Lent'[p]]
  BY <1>2 DEF Lent
<1>5. Pool!Lend(p, Lent[p])
  BY <1>2, <1>3 DEF Pool!Lend, Lent
<1> QED
  BY <1>4, <1>5 DEF Pool!Take, Lent

\* So is a session that takes the leases of an older one over.
LEMMA ResumePool ==
  ASSUME IpLeaseInv, NEW p \in Procs, NEW q \in Procs, Resume(p, q)
  PROVE  p # q /\ Pool!TakeOver(p, q)
<1> DEFINE rest == [lease EXCEPT ![q] = [f \in Fam |-> NoLease]]
<1>1. p # q /\ owner[q] \in Users /\ lease[p] = NoLeases
      /\ Handover(p, owner[q], lease[q], rest) /\ Obtain(p, owner[q], lease[q], rest)
  BY ResumeHandover DEF Resume
<1>2. rest[q] = NoLeases /\ \A x \in Procs \ {q} : rest[x] = lease[x]
  BY DEF IpLeaseInv, TypeOK, NoLeases
<1> HIDE DEF rest
<1> DEFINE new == Entries(lease'[p]) \ Entries(lease[q])
<1>3. /\ new \subseteq (Fam \X Addr) \ ip_leases
      /\ Entries(lease'[p]) = Entries(lease[q]) \cup new
      /\ ip_leases' = ip_leases \cup new
      /\ \A x \in Procs \ {p} : lease'[x] = rest[x]
  BY <1>1, ObtainLends
<1>4. /\ Lent[p] = {} /\ Lent[q] = Entries(lease[q])
      /\ Lent'[p] = Entries(lease'[p]) /\ Lent'[q] = {}
      /\ \A x \in Procs \ {p, q} : Lent'[x] = Lent[x]
  BY <1>1, <1>2, <1>3, NoEntries DEF Lent
<1>5. Lent' = [Lent EXCEPT ![p] = Lent'[p], ![q] = {}]
  <2>1. Lent \in [Procs -> SUBSET UNION {Entries(lease[x]) : x \in Procs}] /\ DOMAIN Lent' = Procs
        /\ Lent' = [x \in Procs |-> Lent'[x]]
    BY DEF Lent
  <2> HIDE DEF new
  <2> QED BY <1>1, <1>4, <2>1
<1>6. Pool!Lend(p, Lent[q])
  BY <1>3, <1>4 DEF Pool!Lend, Lent
<1> QED
  BY <1>1, <1>4, <1>5, <1>6 DEF Pool!TakeOver, Lent

\* And the end of a proc.
LEMMA RemovePool ==
  ASSUME IpLeaseInv, NEW p \in Procs, remove_ip_leases(p)
  PROVE  Pool!LetGo(p)
<1>1. /\ lease' = [lease EXCEPT ![p] = NoLeases]
      /\ ip_leases' = ip_leases \ Entries(lease[p])
  BY DEF remove_ip_leases, NoLeases
<1>2. lease'[p] = NoLeases /\ \A x \in Procs \ {p} : lease'[x] = lease[x]
  BY <1>1 DEF IpLeaseInv, TypeOK
<1>3. Lent' = [Lent EXCEPT ![p] = {}] /\ Lent[p] = Entries(lease[p])
  BY <1>2, NoEntries DEF Lent
<1> QED
  BY <1>1, <1>3 DEF Pool!LetGo, Lent

\* Every step of IpLease is a step of the pool or leaves it alone.
LEMMA NextPool == IpLeaseInv /\ [Next]_vars => [Pool!Next]_<<Lent, ip_leases>>
<1> SUFFICES ASSUME IpLeaseInv, [Next]_vars PROVE [Pool!Next]_<<Lent, ip_leases>>
  OBVIOUS
<1>1. ASSUME NEW p \in Procs, NEW u \in Users, Connect(p, u) PROVE Pool!Next
  BY <1>1, ConnectPool DEF Pool!Next
<1>2. ASSUME NEW p \in Procs, NEW q \in Procs, Resume(p, q) PROVE Pool!Next
  BY <1>2, ResumePool DEF Pool!Next
<1>3. ASSUME NEW p \in Procs, remove_ip_leases(p) PROVE Pool!Next
  BY <1>3, RemovePool DEF Pool!Next
<1>4. CASE UNCHANGED vars
  BY <1>4 DEF vars, Lent
<1> QED
  BY <1>1, <1>2, <1>3, <1>4 DEF Next

\* The hash table of leases, the searches that fail half way, steal_ip_leases and
\* the destructors together implement the lease pool.
THEOREM ImplementsPool == Spec => PoolSpec
<1>1. Init => Pool!Init
  BY InitPool
<1>2. IpLeaseInv /\ [Next]_vars
        => [Pool!Next]_<<[p \in Procs |-> Entries(lease[p])], ip_leases>>
  BY NextPool DEF Lent
<1> QED
  BY <1>1, <1>2, LeasesInvariant, PTL DEF Spec, PoolSpec, Pool!Spec

(***************************************************************************)
(* A user keeps the address                                                *)
(***************************************************************************)

\* A search from nothing of a user whose last lease is free, while everything
\* that was passed over for it is still lent, ends at that lease: candidates
\* before it are lent or never lendable.
LEMMA SameAgain ==
  ASSUME IpLeaseInv, Steady, NEW u \in Users, NEW f \in Fam, NEW answering, NEW r,
         Outcome(u, f, seed[u], NoLeases, answering, r), r.held[f].db,
         before[u][f].rip # NoIP, <<f, before[u][f].rip>> \notin ip_leases,
         \A ip \in before[u][f].passed : <<f, ip>> \in ip_leases
  PROVE  r.held[f].rip = before[u][f].rip
<1> DEFINE n    == UserNet[u][f]
           walk == Candidates(f, n, seed[u])
<1>1. PICK k \in 1 .. MAX_IP_TRIES :
        /\ walk[k] = before[u][f].rip
        /\ Lendable(f, walk[k], n)
        /\ \A j \in 1 .. k - 1 : Lendable(f, walk[j], n) => walk[j] \in before[u][f].passed
  <2>1. Remembered(u, f)
    BY DEF IpLeaseInv
  <2> QED
    BY <2>1 DEF Remembered
<1>2. r.held[f] # NoLeases[f]
  BY DEF NoLeases, NoLease
<1>3. PICK i : Found(u, f, seed[u], ip_leases, answering, i, r.held[f], r.before[f].passed)
  BY <1>2 DEF Outcome
<1>4. /\ i \in 1 .. MAX_IP_TRIES /\ r.held[f].rip = walk[i]
      /\ Acceptable(f, walk[i], n, ip_leases, answering)
      /\ \A j \in 1 .. i - 1 : ~Acceptable(f, walk[j], n, ip_leases, answering)
  BY <1>3 DEF Found
<1> HIDE DEF walk, n
<1>5. Acceptable(f, walk[k], n, ip_leases, answering)
  BY <1>1, SteadyAcceptable
<1>6. \A j \in 1 .. k - 1 : ~Acceptable(f, walk[j], n, ip_leases, answering)
  BY <1>1, SteadyAcceptable
<1>7. ~(k < i) /\ ~(i < k) /\ k \in Nat /\ i \in Nat
  BY <1>1, <1>4, <1>5, <1>6, IpLeaseAssumption
<1> QED
  BY <1>1, <1>4, <1>7

\* A user who asks again under the same conditions gets the same address.
LEMMA ObtainSame ==
  ASSUME IpLeaseInv, Steady, NEW p \in Procs, NEW u \in Users, NEW f \in Fam, NEW rest,
         Handover(p, u, NoLeases, rest), Obtain(p, u, NoLeases, rest), lease'[p][f].db,
         before[u][f].rip # NoIP, <<f, before[u][f].rip>> \notin ip_leases,
         \A ip \in before[u][f].passed : <<f, ip>> \in ip_leases
  PROVE  lease'[p][f].rip = before[u][f].rip
<1>1. TypeOK /\ NoLeases \in [Fam -> Lease] /\ rest \in [Procs -> [Fam -> Lease]]
      /\ Entries(NoLeases) \subseteq ip_leases
  BY DEF IpLeaseInv, Handover
<1>2. PICK s \in Seeds(u), answering \in SUBSET Hosts :
        LET r == get_ip_leases(u, s, NoLeases, answering)
        IN  lease' = [rest EXCEPT ![p] = r.held]
  BY DEF Obtain
<1> DEFINE r == get_ip_leases(u, s, NoLeases, answering)
<1>3. s \in Nat /\ s = seed[u]
  BY <1>1, SeedsNat DEF Steady, Seeds
<1>4. Outcome(u, f, s, NoLeases, answering, r)
  BY <1>1, <1>3, RequestFacts
<1>5. lease'[p] = r.held
  BY <1>1, <1>2
<1> HIDE DEF r
<1> QED
  BY <1>3, <1>4, <1>5, SameAgain

\* predictable-ips: "IP stays the same for the same user when possible", for
\* every history of logins and departures of every other user.
THEOREM AddressStays == Spec => StaysTheSame
<1> DEFINE Same == \A p \in Procs, u \in Users, f \in Fam :
       /\ owner[p] = NoUser /\ owner'[p] = u /\ lease'[p][f].db
       /\ \A q \in Procs \ {p} : lease'[q] = lease[q]
       /\ Steady
       /\ before[u][f].rip # NoIP
       /\ <<f, before[u][f].rip>> \notin ip_leases
       /\ \A ip \in before[u][f].passed : <<f, ip>> \in ip_leases
       => lease'[p][f].rip = before[u][f].rip
<1>1. IpLeaseInv /\ [Next]_vars => [Same]_vars
  <2> SUFFICES ASSUME IpLeaseInv, Next, NEW p \in Procs, NEW u \in Users, NEW f \in Fam,
                      owner[p] = NoUser, owner'[p] = u, lease'[p][f].db,
                      \A q \in Procs \ {p} : lease'[q] = lease[q],
                      Steady, before[u][f].rip # NoIP,
                      <<f, before[u][f].rip>> \notin ip_leases,
                      \A ip \in before[u][f].passed : <<f, ip>> \in ip_leases
               PROVE  lease'[p][f].rip = before[u][f].rip
    OBVIOUS
  <2>1. u # NoUser /\ owner \in [Procs -> Users \cup {NoUser}]
    BY IpLeaseAssumption DEF IpLeaseInv, TypeOK
  <2>2. ASSUME NEW x \in Procs, NEW v \in Users, Connect(x, v)
        PROVE  lease'[p][f].rip = before[u][f].rip
    <3>1. owner' = [owner EXCEPT ![x] = v]
      BY <2>2 DEF Connect, Obtain
    <3>2. x = p /\ v = u
      BY <2>1, <3>1
    <3>3. lease[p] = NoLeases /\ Handover(p, u, lease[p], lease) /\ Obtain(p, u, lease[p], lease)
      BY <2>2, <3>2, ConnectHandover DEF Connect
    <3> QED
      BY <3>3, ObtainSame
  <2>3. ASSUME NEW x \in Procs, NEW y \in Procs, Resume(x, y)
        PROVE  lease'[p][f].rip = before[u][f].rip
    <3> DEFINE rest == [lease EXCEPT ![y] = [g \in Fam |-> NoLease]]
    <3>1. owner' = [owner EXCEPT ![x] = owner[y]] /\ x # y
      BY <2>3 DEF Resume, Obtain
    <3>2. x = p /\ owner[y] = u
      BY <2>1, <3>1
    <3>3. Handover(p, u, lease[y], rest) /\ Obtain(p, u, lease[y], rest)
      BY <2>3, <3>2, ResumeHandover DEF Resume
    <3>4. rest[y] = NoLeases
      BY DEF IpLeaseInv, TypeOK, NoLeases
    <3> HIDE DEF rest
    <3>5. lease'[y] = rest[y]
      BY <3>1, <3>2, <3>3, ObtainLends
    <3>6. lease[y] = NoLeases
      BY <3>1, <3>2, <3>4, <3>5
    <3> QED
      BY <3>3, <3>6, ObtainSame
  <2>4. ASSUME NEW x \in Procs, remove_ip_leases(x) PROVE FALSE
    BY <2>1, <2>4 DEF remove_ip_leases
  <2> QED
    BY <2>2, <2>3, <2>4 DEF Next
<1> QED
  BY <1>1, LeasesInvariant, PTL DEF Spec, StaysTheSame

=============================================================================
