----------------------------- MODULE LeasePool -----------------------------
(***************************************************************************)
(* What the address leases promise to the rest of main: an address is lent *)
(* to at most one proc, only to a proc that asks, it moves to another proc *)
(* only as a whole set taken over from the old one, and it is free again   *)
(* as soon as its proc lets go of it.                                      *)
(***************************************************************************)
EXTENDS FiniteSets

CONSTANTS
  Procs,      \* proc_st slots
  Addresses   \* addresses of every family that can be lent

VARIABLES
  held,       \* held[p]: the addresses lent to p
  lent        \* the addresses marked as lent

Init ==
  /\ held = [p \in Procs |-> {}]
  /\ lent = {}

\* p gets free addresses in addition to those in kept.
Lend(p, kept) ==
  LET new == held'[p] \ kept
  IN  /\ new \subseteq Addresses \ lent
      /\ held'[p] = kept \cup new
      /\ lent' = lent \cup new

Take(p) ==
  /\ Lend(p, held[p])
  /\ held' = [held EXCEPT ![p] = held'[p]]

\* p takes over everything q had, and perhaps more.
TakeOver(p, q) ==
  /\ held[p] = {}
  /\ Lend(p, held[q])
  /\ held' = [held EXCEPT ![p] = held'[p], ![q] = {}]

LetGo(p) ==
  /\ held' = [held EXCEPT ![p] = {}]
  /\ lent' = lent \ held[p]

Next ==
  \/ \E p \in Procs : Take(p) \/ LetGo(p)
  \/ \E p, q \in Procs : p # q /\ TakeOver(p, q)

Spec == Init /\ [][Next]_<<held, lent>>

=============================================================================
