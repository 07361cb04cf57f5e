------------------------------ MODULE IpLease ------------------------------
(***************************************************************************)
(* The address leases of main (ip-lease.c, icmp-ping.c): how get_ip_leases *)
(* finds an IPv4 and an IPv6 address for a proc, how a resumed session     *)
(* takes over the leases of the proc it replaces, and how they are given   *)
(* back.  main is single threaded, so a search is one step; a ping that    *)
(* verifies a candidate blocks main and is part of it.                     *)
(*                                                                         *)
(* An address is a number below AddrSpace.  A network is a block of them,  *)
(* so masking a number into a network is a remainder.  The search walks    *)
(* from the seed of the user by a hash function, which the model does not  *)
(* fix: Init picks one of Hashes.                                          *)
(***************************************************************************)
EXTENDS Integers, FiniteSets, FiniteSetsExt

CONSTANTS
  Procs,         \* proc_st slots
  Users,         \* user names
  NoUser,        \* the slot is free
  AddrSpace,     \* number of addresses of a family
  UserNet,       \* UserNet[u][f]: network of user u in family f, or NoNet
  Explicit,      \* Explicit[u][f]: explicit-ipv4 / explicit-ipv6, or NoIP
  Hashes,        \* bound: the hash functions tried, per family
  Junks,         \* bound: what the broadcast test of a network compares with
  SeedSet,       \* bound: the seeds tried
  Hosts,         \* bound: addresses at which a foreign host may answer a ping
  MAX_IP_TRIES,  \* candidates a search looks at
  SeedUnit,      \* 256: the IPv6 search leaves the lowest byte under the seed 0
  NoIP, NoNet

Fam  == {"ipv4", "ipv6"}
Addr == 0 .. AddrSpace - 1
Nets == {UserNet[u][f] : u \in Users, f \in Fam} \ {NoNet}

ASSUME IpLeaseAssumption ==
  /\ AddrSpace \in Nat \ {0} /\ MAX_IP_TRIES \in Nat \ {0}
  /\ SeedUnit \in Nat
  /\ NoUser \notin Users /\ NoIP \notin Addr
  /\ Hosts \subseteq Addr /\ SeedSet \subseteq Nat
  /\ \A n \in Nets : n.size \in 2 .. AddrSpace /\ n.base \in Addr
                     /\ n.base % n.size = 0 /\ n.base + n.size <= AddrSpace
  /\ \A u \in Users, f \in Fam : Explicit[u][f] \in Addr \cup {NoIP}
  /\ Hashes \subseteq [Fam -> [Addr -> Addr]]
  /\ Junks \subseteq [Nets -> Addr \cup {NoIP}]

VARIABLES
  owner,      \* owner[p]: the user of p, NoUser when p is not listed
  lease,      \* lease[p][f]: proc->ipv4, proc->ipv6
  ip_leases,  \* the lease hash table: pairs of family and address
  cfg,        \* predictable-ips, ping-leases; fixed at start
  hash,       \* ip_from_seed; fixed
  junk,       \* what is_ipv4_ok takes for the broadcast address; fixed
  seed,       \* seed[u]: the hash of the user's name; fixed
  before      \* history: before[u][f]: the last pool lease of u and the
              \* addresses in use that were passed over for it, while Steady

vars == <<owner, lease, ip_leases, cfg, hash, junk, seed, before>>

NoLease == [rip |-> NoIP, net |-> NoNet, db |-> FALSE]

Lease == [rip : Addr \cup {NoIP}, net : Nets \cup {NoNet}, db : BOOLEAN]

Config == [predictable_ips : BOOLEAN, ping_leases : BOOLEAN]

Init ==
  /\ owner = [p \in Procs |-> NoUser]
  /\ lease = [p \in Procs |-> [f \in Fam |-> NoLease]]
  /\ ip_leases = {}
  /\ cfg \in Config
  /\ hash \in Hashes
  /\ junk \in Junks
  /\ seed \in [Users -> SeedSet]
  /\ before = [u \in Users |-> [f \in Fam |-> [rip |-> NoIP, passed |-> {}]]]

(***************************************************************************)
(* Which addresses may be lent                                             *)
(***************************************************************************)

\* The address of the network, and the server's end of the tunnel: network | 1.
Lip(n) == n.base + 1

\* is_ipv4_ok, is_ipv6_ok.  The IPv4 test for the broadcast address computes it
\* from the bytes of the pointer to the mask, so it refuses some address that
\* has nothing to do with the network's broadcast address, or none.
is_ip_ok(f, ip, n, table) ==
  /\ <<f, ip>> \notin table
  /\ ip # n.base
  /\ f = "ipv4" => ip # junk[n]

\* icmp_ping4, icmp_ping6: an echo reply came back; without ping-leases, or
\* when no raw socket can be had, nothing is asked.
icmp_ping(ip, answering) == cfg.ping_leases /\ ip \in answering

(***************************************************************************)
(* The search                                                              *)
(***************************************************************************)

\* Masked into the network: (rnd & ~mask) | network.
InNet(rnd, n) == n.base + (rnd % n.size)

\* Where the seed goes: into the whole IPv4 address, or above the lowest byte of
\* the IPv6 address.
Placed(f, s) == IF f = "ipv4" THEN s ELSE SeedUnit * s

\* Slip: the walk starts from the hash of the addresses in use.
Candidates_Drift(f, n, s) ==
  LET walk[k \in 1 .. MAX_IP_TRIES] ==
        InNet(IF k = 1 THEN Placed(f, s) + Cardinality(ip_leases)
              ELSE hash[f][walk[k - 1]], n)
  IN  walk

\* The candidates in the order they are tried: the seed first, then each time
\* the hash of the last one.
Candidates(f, n, s) ==
  LET walk[k \in 1 .. MAX_IP_TRIES] ==
        InNet(IF k = 1 THEN Placed(f, s) ELSE hash[f][walk[k - 1]], n)
  IN  walk

\* Slip: the server's own address is not excluded.
Acceptable_Local(f, ip, n, table, answering) ==
  /\ is_ip_ok(f, ip, n, table)
  /\ ~icmp_ping(ip, answering)

Acceptable(f, ip, n, table, answering) ==
  /\ is_ip_ok(f, ip, n, table)
  /\ ip # Lip(n)
  /\ ~icmp_ping(ip, answering)

\* get_ipv4_lease, get_ipv6_lease.  The set of results: NoLease without a
\* network, the explicit address or "fail", or the first acceptable candidate or
\* "fail".
get_lease(u, f, s, table, answering) ==
  LET n    == UserNet[u][f]
      ip   == Explicit[u][f]
      walk == Candidates(f, n, s)
      good == {k \in 1 .. MAX_IP_TRIES : Acceptable(f, walk[k], n, table, answering)}
  IN  CASE n = NoNet -> [ok |-> TRUE, lease |-> NoLease, passed |-> {}]
        [] n # NoNet /\ ip # NoIP ->
             [ok |-> is_ip_ok(f, ip, n, table) /\ ip # Lip(n), passed |-> {},
              lease |-> [rip |-> ip, net |-> n, db |-> FALSE]]
        [] n # NoNet /\ ip = NoIP /\ good = {} ->
             [ok |-> FALSE, lease |-> NoLease, passed |-> {}]
        [] OTHER ->
             [ok |-> TRUE, lease |-> [rip |-> walk[Min(good)], net |-> n, db |-> TRUE],
              passed |-> {walk[k] : k \in {j \in 1 .. Min(good) - 1 : <<f, walk[j]>> \in table}}]

\* The entry a lease has in the hash table: an explicit address has none.
Entry(f, l) == IF l.db THEN {<<f, l.rip>>} ELSE {}

Entries(held) == UNION {Entry(f, held[f]) : f \in Fam}

\* One family of get_ip_leases: a lease that was taken over is kept.
\* acc is [ok, held, table, before].
OneFamily(u, f, s, answering, acc) ==
  IF ~acc.ok \/ acc.held[f] # NoLease THEN acc
  ELSE LET r == get_lease(u, f, s, acc.table, answering)
       IN  IF ~r.ok THEN [acc EXCEPT !.ok = FALSE]
           ELSE [acc EXCEPT !.held[f] = r.lease,
                            !.table = @ \cup Entry(f, r.lease),
                            !.before[f] = IF r.lease.db
                                          THEN [rip |-> r.lease.rip, passed |-> r.passed]
                                          ELSE @]

\* get_ip_leases: IPv4, then IPv6; an IPv6 failure leaves the IPv4 lease with
\* the proc, to be given back when the proc is removed.
get_ip_leases(u, s, held, answering) ==
  OneFamily(u, "ipv6", s, answering,
    OneFamily(u, "ipv4", s, answering,
      [ok |-> TRUE, held |-> held, table |-> ip_leases, before |-> before[u]]))

\* ipv4_seed of the cookie: the hash of the name, or a random number.
Seeds(u) == IF cfg.predictable_ips THEN {seed[u]} ELSE SeedSet

\* The search depends on the user and the lease table alone.
Steady == cfg.predictable_ips /\ ~cfg.ping_leases

\* p, of user u, asks for its leases, having taken over `held`.
Obtain(p, u, held, rest) ==
  \E s \in Seeds(u), answering \in SUBSET Hosts :
    LET r == get_ip_leases(u, s, held, answering)
    IN  /\ owner' = [owner EXCEPT ![p] = u]
        /\ lease' = [rest EXCEPT ![p] = r.held]
        /\ ip_leases' = r.table
        /\ before' = IF Steady THEN [before EXCEPT ![u] = r.before] ELSE before
        /\ UNCHANGED <<cfg, hash, junk, seed>>

(***************************************************************************)
(* Actions                                                                 *)
(***************************************************************************)

\* handle_auth_cookie_req of a user with no other proc of the same session.
Connect(p, u) ==
  /\ owner[p] = NoUser
  /\ Obtain(p, u, lease[p], lease)

\* Slip: the old proc keeps its pointers.
Resume_Copied(p, q) ==
  /\ p # q /\ owner[p] = NoUser /\ owner[q] # NoUser
  /\ Obtain(p, owner[q], lease[q], lease)

\* steal_ip_leases: p resumes the session of q.  q stays listed until its
\* worker is gone.
Resume(p, q) ==
  /\ p # q /\ owner[p] = NoUser /\ owner[q] # NoUser
  /\ Obtain(p, owner[q], lease[q], [lease EXCEPT ![q] = [f \in Fam |-> NoLease]])

\* remove_ip_leases from remove_proc: the destructor takes a pool lease out of
\* the hash table.
remove_ip_leases(p) ==
  /\ owner[p] # NoUser
  /\ owner' = [owner EXCEPT ![p] = NoUser]
  /\ lease' = [lease EXCEPT ![p] = [f \in Fam |-> NoLease]]
  /\ ip_leases' = ip_leases \ Entries(lease[p])
  /\ UNCHANGED <<cfg, hash, junk, seed, before>>

Next ==
  \/ \E p \in Procs, u \in Users : Connect(p, u)
  \/ \E p, q \in Procs : Resume(p, q)
  \/ \E p \in Procs : remove_ip_leases(p)

Spec == Init /\ [][Next]_vars

TypeOK ==
  /\ owner \in [Procs -> Users \cup {NoUser}]
  /\ lease \in [Procs -> [Fam -> Lease]]
  /\ ip_leases \subseteq Fam \X Addr
  /\ cfg \in Config /\ hash \in Hashes /\ junk \in Junks
  /\ seed \in [Users -> SeedSet]
  /\ before \in [Users -> [Fam -> [rip : Addr \cup {NoIP}, passed : SUBSET Addr]]]

(***************************************************************************)
(* Properties                                                              *)
(***************************************************************************)

Pool == INSTANCE LeasePool WITH
          Addresses <- Fam \X Addr,
          held <- [p \in Procs |-> Entries(lease[p])],
          lent <- ip_leases

\* However searches fail half way, leases are taken over and procs are removed
\* in any order, the leases from the pool behave as a lease pool: an address is
\* lent once, moves as a whole, and is free again when its proc is gone.
PoolSpec == Pool!Spec

\* A proc's pool lease lies in its user's network and is neither the network's
\* address nor the server's own end of the tunnel.
LeaseInNetwork ==
  \A p \in Procs, f \in Fam :
    lease[p][f].db =>
      LET n == UserNet[owner[p]][f]
      IN  lease[p][f].rip \in (n.base + 2) .. (n.base + n.size - 1)

\* "IP stays the same for the same user when possible" (predictable-ips): a
\* user who comes back gets the last pool lease again when it is free and what
\* was passed over for it is still lent.
StaysTheSame ==
  [][\A p \in Procs, u \in Users, f \in Fam :
       /\ owner[p] = NoUser /\ owner'[p] = u /\ lease'[p][f].db
       /\ \A q \in Procs \ {p} : lease'[q] = lease[q]
       /\ Steady
       /\ before[u][f].rip # NoIP
       /\ <<f, before[u][f].rip>> \notin ip_leases
       /\ \A ip \in before[u][f].passed : <<f, ip>> \in ip_leases
       => lease'[p][f].rip = before[u][f].rip]_vars

\* What the search refuses whatever is lent: the network's address, the server's
\* own, and in IPv4 what is taken for the broadcast address.
Lendable(f, ip, n) == ip # n.base /\ ip # Lip(n) /\ (f = "ipv4" => ip # junk[n])

\* The last pool lease of u is a candidate of its search, and every lendable
\* candidate before it was passed over because it was lent.
Remembered(u, f) ==
  LET n    == UserNet[u][f]
      walk == Candidates(f, n, seed[u])
  IN  before[u][f].rip # NoIP =>
        /\ n # NoNet /\ Explicit[u][f] = NoIP
        /\ \E k \in 1 .. MAX_IP_TRIES :
             /\ walk[k] = before[u][f].rip
             /\ Lendable(f, walk[k], n)
             /\ \A j \in 1 .. k - 1 : Lendable(f, walk[j], n) => walk[j] \in before[u][f].passed

\* The inductive invariant: a free slot has no lease, a pool lease lies in the
\* network of its owner, the entries of two procs are disjoint and together make
\* up the lease table, and the last lease of a user is explained by its search.
IpLeaseInv ==
  /\ TypeOK
  /\ \A p \in Procs, f \in Fam : owner[p] = NoUser => lease[p][f] = NoLease
  /\ \A p \in Procs, f \in Fam :
       lease[p][f].db =>
         LET n == UserNet[owner[p]][f]
         IN  n # NoNet /\ lease[p][f].rip \in (n.base + 2) .. (n.base + n.size - 1)
  /\ \A p, q \in Procs : p # q => Entries(lease[p]) \cap Entries(lease[q]) = {}
  /\ ip_leases = UNION {Entries(lease[p]) : p \in Procs}
  /\ Steady => \A u \in Users, f \in Fam : Remembered(u, f)

=============================================================================
