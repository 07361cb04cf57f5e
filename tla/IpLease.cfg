\* Two users in overlapping networks, three procs.
CONSTANTS
  Procs = {p1, p2, p3}
  Users = {u1, u2}
  u1 = u1
  u2 = u2
  NoUser = NoUser
  NoIP = NoIP
  NoNet = NoNet
  AddrSpace = 8
  MAX_IP_TRIES = 3
  SeedUnit = 2
  UserNet <- MCUserNet
  Explicit <- MCExplicit
  Hashes <- MCHashes
  Junks <- MCJunks
  Hosts <- MCHosts
  SeedSet <- MCSeeds
SYMMETRY MCProcs
SPECIFICATION Spec
INVARIANTS LeaseInNetwork
PROPERTIES PoolSpec StaysTheSame
