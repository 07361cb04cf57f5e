----------------------------- MODULE MCIpLease -----------------------------
(* Instances of IpLease for TLC. *)
EXTENDS IpLease, TLC

CONSTANTS u1, u2

\* u1 uses the server's networks; u2 a part of the IPv4 network, and an explicit
\* IPv6 address.
MCWide == [base |-> 0, size |-> 8]
MCPart == [base |-> 4, size |-> 4]
MCUserNet == u1 :> [ipv4 |-> MCWide, ipv6 |-> MCPart] @@ u2 :> [ipv4 |-> MCPart, ipv6 |-> MCPart]
MCExplicit == u1 :> [ipv4 |-> NoIP, ipv6 |-> NoIP] @@ u2 :> [ipv4 |-> NoIP, ipv6 |-> 6]

\* A hash that reaches every address, and one that runs into a short cycle.
MCRound == [a \in Addr |-> (a + 3) % AddrSpace]
MCCycle == [a \in Addr |-> IF a = 6 THEN 7 ELSE 6]
MCHashes == {[f \in Fam |-> MCRound], [f \in Fam |-> MCCycle]}

\* No address of the networks is refused, or the last one.
MCJunks == {[n \in Nets |-> NoIP], [n \in Nets |-> n.base + n.size - 1]}
MCHosts == {6}
MCSeeds == {2, 5, 6}
MCProcs == Permutations(Procs)
=============================================================================
