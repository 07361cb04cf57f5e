---------------------------- MODULE LoginProofs ----------------------------
(***************************************************************************)
(* Theorems about the login dialogue, for every set of workers, IDs, users *)
(* and addresses, every list of methods figure_auth_funcs accepts and all  *)
(* limits: a cookie takes all credentials of one method, and the wrong     *)
(* answers sec-mod looks at are bounded.  LoginInv is inductive: the steps *)
(* of a worker only move what is in its socket, the steps of sec-mod       *)
(* change one entry and the score of its address.  The sum of the wrong    *)
(* answers from an address is counted with a set that has one element for  *)
(* each of them (Marks), to which a step adds at most one.                 *)
(***************************************************************************)
EXTENDS Login, FiniteSetTheorems, TLAPS

(***************************************************************************)
(* Numbers and sums                                                        *)
(***************************************************************************)

\* Least elements, for the first method that fits and for induction over the
\* size of a set.
LEMMA LeastNumber ==
  ASSUME NEW T \in SUBSET Nat, T # {}
  PROVE  \E x \in T : \A y \in T : x <= y
<1> DEFINE R == {ss \in Nat \X Nat : ss[1] < ss[2]}
<1>1. IsWellFoundedOn(R, Nat)
  BY NatLessThanWellFounded DEF OpToRel
<1>2. \A x, y \in Nat : y < x => <<y, x>> \in R
  OBVIOUS
<1> HIDE DEF R
<1>3. PICK x \in T : \A y \in T : ~ (<<y, x>> \in R)
  BY <1>1, WFMin
<1>4. \A y \in T : ~(y < x)
  BY <1>2, <1>3
<1> QED
  BY <1>4

\* Min of a nonempty set of indices is one of them.
LEMMA MinChosen ==
  ASSUME NEW T \in SUBSET Nat, T # {}
  PROVE  Min(T) \in T
BY LeastNumber DEF Min

\* One element for each unit of f on B.
Marks(f, B) == {p \in B \X Nat : p[2] \in 1 .. f[p[1]]}

\* There are finitely many of them.
LEMMA MarksFinite ==
  ASSUME NEW T, NEW N \in Nat, NEW f \in [T -> 0 .. N],
         NEW B \in SUBSET T, IsFiniteSet(B)
  PROVE  IsFiniteSet(Marks(f, B)) /\ Cardinality(Marks(f, B)) \in Nat
<1>1. IsFiniteSet(1 .. N)
  BY FS_Interval
<1>2. IsFiniteSet(B \X (1 .. N))
  BY <1>1, FS_Product
<1>3. Marks(f, B) \in SUBSET (B \X (1 .. N))
  BY DEF Marks
<1>4. IsFiniteSet(Marks(f, B))
  BY <1>2, <1>3, FS_Subset
<1> QED
  BY <1>4, FS_CardinalityType

\* Those of one argument are as many as f says.
LEMMA MarksSplit ==
  ASSUME NEW T, NEW N \in Nat, NEW f \in [T -> 0 .. N],
         NEW B \in SUBSET T, IsFiniteSet(B), NEW x \in B
  PROVE  Cardinality(Marks(f, B)) = f[x] + Cardinality(Marks(f, B \ {x}))
<1> DEFINE Own == {x} \X (1 .. f[x])
           Rest == Marks(f, B \ {x})
<1>1. f[x] \in Nat
  OBVIOUS
<1>2. IsFiniteSet(1 .. f[x]) /\ Cardinality(1 .. f[x]) = f[x]
  <2>1. PICK n \in Nat : n = f[x]
    BY <1>1
  <2>2. 1 \in Int /\ n \in Int
    OBVIOUS
  <2>3. IsFiniteSet(1 .. n) /\ Cardinality(1 .. n) = IF 1 > n THEN 0 ELSE n - 1 + 1
    BY <2>2, FS_Interval, Zenon
  <2>4. Cardinality(1 .. n) = n
    BY <2>3
  <2> QED
    BY <2>1, <2>3, <2>4
<1>3. IsFiniteSet({x}) /\ Cardinality({x}) = 1
  BY FS_Singleton
<1>4. IsFiniteSet(Own) /\ Cardinality(Own) = f[x]
  <2>1. /\ IsFiniteSet(Own)
        /\ Cardinality(Own) = Cardinality({x}) * Cardinality(1 .. f[x])
    BY <1>2, <1>3, FS_Product
  <2> HIDE DEF Own
  <2>2. Cardinality(Own) = 1 * f[x]
    BY <1>2, <1>3, <2>1
  <2> QED
    BY <1>1, <2>1, <2>2
<1>5. IsFiniteSet(B \ {x}) /\ B \ {x} \in SUBSET T
  BY FS_RemoveElement
<1>6. IsFiniteSet(Rest) /\ Cardinality(Rest) \in Nat
  BY <1>5, MarksFinite
<1>7. Marks(f, B) = Own \cup Rest
  BY DEF Marks
<1>8. Own \cap Rest = {}
  BY DEF Marks
<1>9. Cardinality(Marks(f, B \ {x})) = Cardinality(Rest) /\ f[x] \in Nat
  BY <1>1
<1> HIDE DEF Own, Rest
<1>10. Cardinality(Own \cup Rest) = Cardinality(Own) + Cardinality(Rest) - Cardinality(Own \cap Rest)
  BY <1>4, <1>6, FS_Union
<1>11. Cardinality(Own \cap Rest) = 0
  BY <1>8, FS_EmptySet
<1>12. Cardinality(Marks(f, B)) = f[x] + Cardinality(Rest)
  BY <1>4, <1>6, <1>7, <1>9, <1>10, <1>11
<1> QED
  BY <1>9, <1>12

\* The sum that the fold computes is the number of marks.
LEMMA SumIsCount ==
  ASSUME NEW T, NEW N \in Nat, NEW f \in [T -> 0 .. N],
         NEW B \in SUBSET T, IsFiniteSet(B)
  PROVE  Total(f, B) = Cardinality(Marks(f, B))
<1> DEFINE c(s) == CHOOSE x \in s : TRUE
           Step(it) == [s \in SUBSET B |-> IF s = {} THEN 0 ELSE f[c(s)] + it[s \ {c(s)}]]
           count == [s \in SUBSET B |-> Cardinality(Marks(f, s))]
           fold == CHOOSE it : it = Step(it)
<1>1. Total(f, B) = fold[B]
  BY DEF Total, MapThenSumSet, MapThenFoldSet
<1>2. \A s \in SUBSET B : IsFiniteSet(s) /\ s \in SUBSET T /\ Cardinality(s) \in Nat
  BY FS_Subset, FS_CardinalityType
<1>3. \A s \in SUBSET B : s # {} => c(s) \in s
  OBVIOUS
<1>4. ASSUME NEW s \in SUBSET B
      PROVE  count[s] = IF s = {} THEN 0 ELSE f[c(s)] + count[s \ {c(s)}]
  <2>1. CASE s = {}
    <3>1. Marks(f, s) = {}
      BY <2>1 DEF Marks
    <3> QED
      BY <2>1, <3>1, FS_EmptySet
  <2>2. CASE s # {}
    <3>1. c(s) \in s /\ s \ {c(s)} \in SUBSET B
      BY <1>3, <2>2
    <3> HIDE DEF c
    <3>2. Cardinality(Marks(f, s)) = f[c(s)] + Cardinality(Marks(f, s \ {c(s)}))
      BY <1>2, <3>1, MarksSplit
    <3> QED
      BY <2>2, <3>1, <3>2
  <2> QED
    BY <2>1, <2>2
<1> HIDE DEF c
<1>5. count = Step(count)
  BY <1>4
<1>6. fold = Step(fold)
  <2> HIDE DEF count, Step
  <2> QED
    BY <1>5
<1>7. \A s \in SUBSET B : fold[s] = IF s = {} THEN 0 ELSE f[c(s)] + fold[s \ {c(s)}]
  <2> HIDE DEF fold
  <2> QED
    BY <1>6
<1> HIDE DEF fold, count, Step
<1>8. \A s \in SUBSET B : fold[s] = count[s]
  <2> DEFINE Bad == {s \in SUBSET B : fold[s] # count[s]}
             Sizes == {Cardinality(s) : s \in Bad}
  <2>1. SUFFICES ASSUME Bad # {} PROVE FALSE
    OBVIOUS
  <2>2. Sizes \in SUBSET Nat /\ Sizes # {}
    BY <1>2, <2>1
  <2>3. PICK n \in Sizes : \A y \in Sizes : n <= y
    BY <2>2, LeastNumber
  <2>4. PICK s \in Bad : n = Cardinality(s)
    BY <2>3
  <2>5. s # {}
    BY <1>4, <1>7, <2>4
  <2>6. c(s) \in s /\ s \ {c(s)} \in SUBSET B
    BY <1>3, <2>4, <2>5
  <2>7. Cardinality(s \ {c(s)}) = Cardinality(s) - 1
    BY <1>2, <2>4, <2>6, FS_RemoveElement
  <2>8. s \ {c(s)} \notin Bad
    <3>1. SUFFICES ASSUME s \ {c(s)} \in Bad PROVE FALSE
      OBVIOUS
    <3>2. Cardinality(s \ {c(s)}) \in Sizes
      BY <3>1
    <3>3. Cardinality(s) <= Cardinality(s \ {c(s)})
      BY <2>3, <2>4, <3>2
    <3>4. Cardinality(s) \in Nat
      BY <1>2, <2>4
    <3> QED
      BY <2>7, <3>3, <3>4
  <2>9. fold[s \ {c(s)}] = count[s \ {c(s)}]
    BY <2>6, <2>8
  <2> QED
    BY <1>4, <1>7, <2>4, <2>5, <2>9
<1> QED
  BY <1>1, <1>8 DEF count

(***************************************************************************)
(* The worker                                                              *)
(***************************************************************************)

\* The methods of a configuration.
LEMMA MethodFacts ==
  ASSUME TypeOK
  PROVE  /\ methods \in Seq(Method) /\ methods # <<>> /\ config.timeout \in BOOLEAN
         /\ DOMAIN methods \in SUBSET (Nat \ {0}) /\ 1 \in DOMAIN methods
         /\ \A k \in DOMAIN methods :
              /\ methods[k].type \in SUBSET Kinds
              /\ methods[k].module \in {"plain", "pam", "gssapi", "null"}
              /\ methods[k].module \in {"plain", "pam"} => methods[k].type \ {"cert"} = {"pass"}
              /\ methods[k].module = "gssapi" => methods[k].type \ {"cert"} = {"gssapi"}
              /\ methods[k].module = "null" => methods[k].type = {"cert"}
<1>1. methods \in Seq(Method) /\ methods # <<>> /\ config.timeout \in BOOLEAN
  BY LoginAssumption DEF TypeOK, methods
<1>2. Len(methods) \in Nat /\ Len(methods) # 0 /\ DOMAIN methods = 1 .. Len(methods)
  BY <1>1
<1>3. DOMAIN methods \in SUBSET (Nat \ {0}) /\ 1 \in DOMAIN methods
  BY <1>2
<1>4. ASSUME NEW k \in DOMAIN methods
      PROVE  /\ methods[k].type \in SUBSET Kinds
             /\ methods[k].module \in {"plain", "pam", "gssapi", "null"}
             /\ methods[k].module \in {"plain", "pam"} => methods[k].type \ {"cert"} = {"pass"}
             /\ methods[k].module = "gssapi" => methods[k].type \ {"cert"} = {"gssapi"}
             /\ methods[k].module = "null" => methods[k].type = {"cert"}
  <2>1. methods[k] \in Method
    BY <1>1, <1>2
  <2>2. DOMAIN Checks = {"plain", "pam", "gssapi", "null"}
    BY DEF Checks
  <2>3. methods[k].type \in SUBSET Kinds /\ methods[k].type # {}
        /\ methods[k].module \in {"plain", "pam", "gssapi", "null"}
        /\ methods[k].type \ {"cert"} = Checks[methods[k].module]
    BY <2>1, <2>2 DEF Method
  <2> QED
    BY <2>3 DEF Checks
<1> QED
  BY <1>1, <1>3, <1>4

\* What LoginInv says of a worker.
WorkerOK(r) ==
  /\ r \in Worker /\ r.sid \in Told \cup {None} /\ r.sel \in DOMAIN methods

\* The processes that are gone are fine.
LEMMA LeftOK ==
  ASSUME TypeOK
  PROVE  WorkerOK(Left)
BY MethodFacts, LoginAssumption DEF WorkerOK, Left, Worker, AuthState

\* Changing the method changes nothing but the method.
LEMMA SwitchedOK ==
  ASSUME TypeOK, NEW r, WorkerOK(r), NEW t
  PROVE  /\ WorkerOK(Switched(r, t))
         /\ ws_switch_auth_to(r, t) \in DOMAIN methods \cup {0}
<1> DEFINE fits == {k \in DOMAIN methods :
                      t \in methods[k].type /\ ~(r.gss_off /\ "gssapi" \in methods[k].type)}
<1>1. DOMAIN methods \in SUBSET (Nat \ {0})
  BY MethodFacts
<1>2. fits # {} => Min(fits) \in fits
  BY <1>1, MinChosen
<1>3. ws_switch_auth_to(r, t) = IF r.sel \in fits THEN r.sel ELSE IF fits = {} THEN 0 ELSE Min(fits)
  BY DEF ws_switch_auth_to
<1>4. ws_switch_auth_to(r, t) \in DOMAIN methods \cup {0}
  BY <1>2, <1>3
<1> QED
  BY <1>1, <1>4 DEF Switched, WorkerOK, Worker

\* Reading the headers of a request.
LEMMA ReceivedOK ==
  ASSUME TypeOK, NEW r, WorkerOK(r), r.requests > 0, NEW h \in Headers
  PROVE  WorkerOK(Received(r, h))
<1>1. h.sid \in Told \cup {None, Keep} /\ h.cookie \in Issued \cup {None, Keep}
      /\ h.spnego \in BOOLEAN /\ h.token \in BOOLEAN
  BY DEF Headers
<1> DEFINE r1 == IF h.spnego THEN Switched(r, "gssapi") ELSE r
           r2 == [r1 EXCEPT !.token = @ \/ h.token, !.requests = @ - 1,
                            !.sid = IF h.sid = Keep THEN @ ELSE h.sid,
                            !.cookie = IF h.cookie = Keep THEN @ ELSE h.cookie,
                            !.state = IF h.cookie \in Sids THEN "cookie" ELSE @]
<1>2. WorkerOK(r1) /\ r1.requests = r.requests
  BY SwitchedOK DEF Switched, WorkerOK, Worker
<1> HIDE DEF r1
<1>3. WorkerOK(r2)
  <2>1. r1 \in Worker /\ r1.sid \in Told \cup {None} /\ r1.sel \in DOMAIN methods
    BY <1>2 DEF WorkerOK
  <2> DEFINE tk == r1.token \/ h.token
             rq == r1.requests - 1
             sd == IF h.sid = Keep THEN r1.sid ELSE h.sid
             ck == IF h.cookie = Keep THEN r1.cookie ELSE h.cookie
             st == IF h.cookie \in Sids THEN "cookie" ELSE r1.state
  <2>2. rq \in 0 .. MaxRequests
    BY <1>2, <2>1, LoginAssumption DEF Worker
  <2>3. tk \in BOOLEAN
    OBVIOUS
  <2>4. sd \in Told \cup {None}
    BY <1>1, <2>1
  <2>5. ck \in Sids \cup {None}
    BY <1>1, <2>1 DEF Worker, Issued
  <2>6. st \in AuthState
    BY <2>1 DEF Worker, AuthState
  <2>7. Told \subseteq Sids
    BY DEF Told
  <2>8. r2 = [r1 EXCEPT !.token = tk, !.requests = rq, !.sid = sd, !.cookie = ck, !.state = st]
    OBVIOUS
  <2> HIDE DEF tk, rq, sd, ck, st, r2
  <2> QED
    BY <2>1, <2>2, <2>3, <2>4, <2>5, <2>6, <2>7, <2>8 DEF WorkerOK, Worker
<1>4. Received(r, h) \in {r2, Switched(r2, "pass")}
  BY DEF Received, r1
<1> HIDE DEF r2
<1> QED
  BY <1>3, <1>4, SwitchedOK

\* A POST with an ID goes on with the conversation of that ID.
LEMMA BegunOK ==
  ASSUME NEW r, WorkerOK(r)
  PROVE  WorkerOK(Begun(r))
BY DEF Begun, WorkerOK, Worker, AuthState

(***************************************************************************)
(* The wrong answers of an address                                         *)
(***************************************************************************)

\* More than a conversation can hold.
Most == MaxTries + PamPrompts

\* The wrong answers and the failed conversations of an address are finitely
\* many; in this state
LEMMA GuessesNow ==
  ASSUME wrong \in [Sids -> 0 .. Most], NEW a
  PROVE  /\ IsFiniteSet(Marks(wrong, From(a))) /\ Cardinality(Marks(wrong, From(a))) \in Nat
         /\ IsFiniteSet(Failed(a)) /\ Cardinality(Failed(a)) \in Nat
         /\ Guesses(a) = Cardinality(Marks(wrong, From(a)))
<1>1. From(a) \in SUBSET Sids /\ Failed(a) \in SUBSET Sids
  BY DEF From, Failed, Told
<1>2. IsFiniteSet(Sids) /\ Most \in Nat
  BY LoginAssumption DEF Most
<1>3. IsFiniteSet(From(a)) /\ IsFiniteSet(Failed(a))
  BY <1>1, <1>2, FS_Subset
<1>4. Guesses(a) = Cardinality(Marks(wrong, From(a)))
  BY <1>1, <1>2, <1>3, SumIsCount DEF Guesses
<1>5. IsFiniteSet(Marks(wrong, From(a))) /\ Cardinality(Marks(wrong, From(a))) \in Nat
  BY <1>1, <1>2, <1>3, MarksFinite
<1> QED
  BY <1>3, <1>4, <1>5, FS_CardinalityType

\* and in the next one.
LEMMA GuessesNext ==
  ASSUME wrong' \in [Sids -> 0 .. Most], NEW a
  PROVE  /\ IsFiniteSet(Marks(wrong', From(a)')) /\ Cardinality(Marks(wrong', From(a)')) \in Nat
         /\ IsFiniteSet(Failed(a)') /\ Cardinality(Failed(a)') \in Nat
         /\ Guesses(a)' = Cardinality(Marks(wrong', From(a)'))
<1>1. From(a)' \in SUBSET Sids /\ Failed(a)' \in SUBSET Sids
  BY DEF From, Failed, Told
<1>2. IsFiniteSet(Sids) /\ Most \in Nat
  BY LoginAssumption DEF Most
<1>3. IsFiniteSet(From(a)') /\ IsFiniteSet(Failed(a)')
  BY <1>1, <1>2, FS_Subset
<1>4. Guesses(a)' = Cardinality(Marks(wrong', From(a)'))
  BY <1>1, <1>2, <1>3, SumIsCount DEF Guesses
<1>5. IsFiniteSet(Marks(wrong', From(a)')) /\ Cardinality(Marks(wrong', From(a)')) \in Nat
  BY <1>1, <1>2, <1>3, MarksFinite
<1> QED
  BY <1>3, <1>4, <1>5, FS_CardinalityType

(***************************************************************************)
(* Steps of a worker                                                       *)
(***************************************************************************)

\* A step that changes one worker and its socket, and nothing of sec-mod, keeps
\* the invariant if a new conversation still finds an unused entry.
LEMMA WorkerStep ==
  ASSUME LoginInv, NEW w \in Workers,
         NEW r, WorkerOK(r), NEW m \in Message \cup {None},
         worker' = [worker EXCEPT ![w] = r], sock' = [sock EXCEPT ![w] = m],
         m # None /\ m.cmd = "init" =>
           w \in Waiting \/ Cardinality(Waiting) < Cardinality(Unused),
         UNCHANGED <<config, entry, score, wrong, proved>>
  PROVE  LoginInv'
<1>1. TypeOK /\ ChannelInv
  BY DEF LoginInv
<1>2. methods' = methods /\ Told' = Told /\ Unused' = Unused /\ Message' = Message
  BY DEF methods, Told, Unused, Message
<1>3. TypeOK'
  BY <1>1 DEF TypeOK, WorkerOK
<1>4. sock' \in [Workers -> Message' \cup {None}]
  BY <1>1, <1>2 DEF ChannelInv
<1>5. ASSUME NEW v \in Workers
      PROVE  worker'[v].sid \in Told' \cup {None} /\ worker'[v].sel \in DOMAIN methods'
  BY <1>1, <1>2 DEF ChannelInv, WorkerOK, TypeOK
<1>6. Cardinality(Waiting') <= Cardinality(Unused')
  <2>1. IsFiniteSet(Waiting) /\ IsFiniteSet(Unused)
    <3>1. Waiting \in SUBSET Workers /\ Unused \in SUBSET Sids
      BY DEF Waiting, Unused
    <3> QED
      BY <3>1, LoginAssumption, FS_Subset
  <2>2. Cardinality(Waiting) \in Nat /\ Cardinality(Unused) \in Nat
    BY <2>1, FS_CardinalityType
  <2>3. Cardinality(Waiting) <= Cardinality(Unused)
    BY <1>1 DEF ChannelInv
  <2>4. CASE w \in Waiting \/ ~(m # None /\ m.cmd = "init")
    <3>1. Waiting' \in SUBSET Waiting
      BY <1>1, <2>4 DEF Waiting, ChannelInv
    <3>2. IsFiniteSet(Waiting') /\ Cardinality(Waiting') <= Cardinality(Waiting)
      BY <2>1, <3>1, FS_Subset
    <3>3. Cardinality(Waiting') \in Nat
      BY <3>2, FS_CardinalityType
    <3> QED
      BY <1>2, <2>2, <2>3, <3>2, <3>3
  <2>5. CASE Cardinality(Waiting) < Cardinality(Unused)
    <3>1. Waiting' \in SUBSET (Waiting \cup {w})
      BY <1>1 DEF Waiting, ChannelInv
    <3>2. /\ IsFiniteSet(Waiting \cup {w})
          /\ Cardinality(Waiting \cup {w}) = IF w \in Waiting THEN Cardinality(Waiting)
                                             ELSE Cardinality(Waiting) + 1
      BY <2>1, FS_AddElement
    <3>3. IsFiniteSet(Waiting') /\ Cardinality(Waiting') <= Cardinality(Waiting \cup {w})
      BY <3>1, <3>2, FS_Subset
    <3>4. Cardinality(Waiting') \in Nat
      BY <3>3, FS_CardinalityType
    <3> QED
      BY <1>2, <2>2, <2>5, <3>2, <3>3, <3>4
  <2> QED
    BY <2>4, <2>5
<1>7. ASSUME NEW s \in Sids
      PROVE  EntryInv(s)'
  BY <1>2 DEF LoginInv, EntryInv, Continues, Module, Satisfied, methods, Limit
<1>8. ASSUME NEW a \in Addrs
      PROVE  ScoreInv(a)'
  <2>1. Guesses(a)' = Guesses(a) /\ Failed(a)' = Failed(a)
    BY DEF Guesses, Failed, From, Told, Module, methods
  <2>2. ScoreInv(a)
    BY DEF LoginInv
  <2> QED
    BY <2>1, <2>2 DEF ScoreInv
<1>9. ChannelInv'
  BY <1>4, <1>5, <1>6 DEF ChannelInv
<1> QED
  BY <1>3, <1>7, <1>8, <1>9 DEF LoginInv

\* The same for a step that leaves the socket alone.
LEMMA WorkerOnly ==
  ASSUME LoginInv, NEW w \in Workers, NEW r, WorkerOK(r), Put(w, r),
         UNCHANGED <<config, sock, entry, score, wrong, proved>>
  PROVE  LoginInv'
<1>1. sock \in [Workers -> Message \cup {None}]
  BY DEF LoginInv, ChannelInv
<1>2. sock' = [sock EXCEPT ![w] = sock[w]] /\ sock[w] \in Message \cup {None}
  BY <1>1
<1>3. sock[w] # None /\ sock[w].cmd = "init" => w \in Waiting
  BY DEF Waiting
<1> QED
  BY <1>2, <1>3, WorkerStep DEF Put

\* What the invariant says of each worker.
LEMMA WorkersOK ==
  ASSUME LoginInv, NEW w \in Workers
  PROVE  TypeOK /\ WorkerOK(worker[w])
BY DEF LoginInv, TypeOK, ChannelInv, WorkerOK

\* A request: the headers are read, and perhaps a conversation goes on.
LEMMA RequestOK ==
  ASSUME LoginInv, NEW w \in Workers, NEW h \in Headers, Requests(w)
  PROVE  /\ WorkerOK(Received(worker[w], h))
         /\ WorkerOK(Begun(Received(worker[w], h)))
<1>1. TypeOK /\ WorkerOK(worker[w])
  BY WorkersOK
<1>2. WorkerOK(Received(worker[w], h))
  BY <1>1, ReceivedOK DEF Requests
<1> QED
  BY <1>2, BegunOK

\* Accept and the first choice of a method.
LEMMA AcceptInv ==
  ASSUME LoginInv, NEW w \in Workers, NEW a \in Addrs, NEW c \in CertUsers \cup {None},
         Accept(w, a, c)
  PROVE  LoginInv'
<1> DEFINE r == [Left EXCEPT !.pc = "http", !.addr = a, !.cert = c,
                             !.requests = MaxRequests, !.alarm = config.timeout]
<1>1. TypeOK
  BY DEF LoginInv
<1>2. WorkerOK(r)
  <2>1. WorkerOK(Left) /\ config.timeout \in BOOLEAN
    BY <1>1, LeftOK, MethodFacts
  <2>2. c \in Users \cup {None} /\ MaxRequests \in 0 .. MaxRequests
    BY LoginAssumption
  <2> QED
    BY <2>1, <2>2 DEF WorkerOK, Worker
<1>3. WorkerOK(Switched(r, "cert"))
  BY <1>1, <1>2, SwitchedOK
<1>4. Put(w, IF c = None THEN r ELSE Switched(r, "cert"))
  BY DEF Accept
<1> HIDE DEF r
<1> QED
  BY <1>2, <1>3, <1>4, WorkerOnly DEF Accept

\* The handlers that only answer.
LEMMA FormInv ==
  ASSUME LoginInv, NEW w \in Workers, NEW h \in Headers, Form(w, h)
  PROVE  LoginInv'
BY RequestOK, WorkerOnly DEF Form

\* A conversation begins.
LEMMA PostInitInv ==
  ASSUME LoginInv, NEW w \in Workers, NEW h \in Headers, PostInit(w, h)
  PROVE  LoginInv'
<1> DEFINE r == Begun(Received(worker[w], h))
<1>1. WorkerOK(r)
  BY RequestOK DEF PostInit
<1>2. TypeOK
  BY DEF LoginInv
<1>3. PICK u \in IF "pass" \in Asks(r) THEN Users ELSE {None},
           good \in IF "gssapi" \in Asks(r) THEN BOOLEAN ELSE {FALSE} :
        sock' = [sock EXCEPT ![w] =
          [cmd |-> "init", ip |-> r.addr, asked |-> Asks(r), user |-> u, good |-> good,
           cert |-> IF "cert" \in Asks(r) THEN r.cert ELSE None]]
  BY DEF PostInit
<1> DEFINE x == [r EXCEPT !.state = "init", !.pc = "wait"]
           m == [cmd |-> "init", ip |-> r.addr, asked |-> Asks(r), user |-> u, good |-> good,
                 cert |-> IF "cert" \in Asks(r) THEN r.cert ELSE None]
<1>4. Put(w, x) /\ UNCHANGED <<config, entry, score, wrong, proved>>
      /\ Cardinality(Waiting) < Cardinality(Unused)
  BY DEF PostInit
<1> HIDE DEF r
<1>5. WorkerOK(x)
  BY <1>1 DEF WorkerOK, Worker, AuthState
<1>6. Asks(r) \in SUBSET Kinds
  BY <1>1, <1>2, MethodFacts DEF Asks, WorkerOK
<1>7. m \in Message
  BY <1>1, <1>3, <1>6 DEF Message, WorkerOK, Worker
<1> HIDE DEF x, m
<1>8. sock' = [sock EXCEPT ![w] = m]
  BY <1>3 DEF m
<1> QED
  BY <1>4, <1>5, <1>7, <1>8, WorkerStep DEF Put

\* A conversation goes on.
LEMMA PostContInv ==
  ASSUME LoginInv, NEW w \in Workers, NEW h \in Headers, NEW good \in BOOLEAN,
         PostCont(w, h, good)
  PROVE  LoginInv'
<1> DEFINE r == Begun(Received(worker[w], h))
           x == [r EXCEPT !.state = "req", !.pc = "wait"]
           m == [cmd |-> "cont", sid |-> r.sid, good |-> good,
                 kind |-> IF "gssapi" \in Asks(r) THEN "gssapi" ELSE "pass"]
<1>1. WorkerOK(r)
  BY RequestOK DEF PostCont
<1>2. /\ Put(w, x) /\ UNCHANGED <<config, entry, score, wrong, proved>>
      /\ sock' = [sock EXCEPT ![w] = m]
  BY DEF PostCont
<1> HIDE DEF r
<1>3. WorkerOK(x)
  BY <1>1 DEF WorkerOK, Worker, AuthState
<1>4. m \in Message /\ m.cmd # "init"
  BY <1>1 DEF Message, WorkerOK
<1> HIDE DEF x, m
<1> QED
  BY <1>2, <1>3, <1>4, WorkerStep DEF Put

\* A POST that is refused.
LEMMA PostRefusedInv ==
  ASSUME LoginInv, NEW w \in Workers, NEW h \in Headers, PostRefused(w, h)
  PROVE  LoginInv'
BY WorkersOK, LeftOK, WorkerOnly DEF PostRefused

\* A CONNECT, with or without a cookie.
LEMMA ConnectInv ==
  ASSUME LoginInv, NEW w \in Workers, NEW h \in Headers, Connect(w, h)
  PROVE  LoginInv'
<1> DEFINE r == Received(worker[w], h)
           x == [r EXCEPT !.pc = "wait_main"]
<1>1. WorkerOK(r) /\ WorkerOK(Left)
  BY RequestOK, WorkersOK, LeftOK DEF Connect
<1>2. Put(w, x) \/ Put(w, Left)
  BY DEF Connect
<1> HIDE DEF r
<1>3. WorkerOK(x)
  BY <1>1 DEF WorkerOK, Worker
<1> HIDE DEF x
<1> QED
  BY <1>1, <1>2, <1>3, WorkerOnly DEF Connect

\* main's answer to the cookie.
LEMMA ConnectedInv ==
  ASSUME LoginInv, NEW w \in Workers, Connected(w)
  PROVE  LoginInv'
<1> DEFINE r == worker[w]
           x == [r EXCEPT !.pc = "tunnel", !.state = "complete", !.alarm = @ /\ ~config.timeout]
<1>1. WorkerOK(r) /\ WorkerOK(Left)
  BY WorkersOK, LeftOK
<1>2. Put(w, x) \/ Put(w, Left)
  BY DEF Connected
<1> HIDE DEF r
<1>3. WorkerOK(x)
  <2> DEFINE al == r.alarm /\ ~config.timeout
  <2>1. al \in BOOLEAN
    OBVIOUS
  <2>2. x = [r EXCEPT !.pc = "tunnel", !.state = "complete", !.alarm = al]
    OBVIOUS
  <2> HIDE DEF al, x
  <2> QED
    BY <1>1, <2>1, <2>2 DEF WorkerOK, Worker, AuthState
<1> HIDE DEF x
<1> QED
  BY <1>1, <1>2, <1>3, WorkerOnly DEF Connected

\* The answer of sec-mod is read.
LEMMA RecvReplyInv ==
  ASSUME LoginInv, NEW w \in Workers, RecvReply(w)
  PROVE  LoginInv'
<1> DEFINE m == sock[w]
           r == [worker[w] EXCEPT !.pc = "http"]
           f == [r EXCEPT !.gss_off = TRUE]
           msg == [r EXCEPT !.state = "req", !.sid = m.sid]
           ok == [r EXCEPT !.state = "cookie", !.sid = m.sid, !.cookie = m.sid]
           again == [Switched(f, "pass") EXCEPT !.state = "inactive", !.sid = None]
<1>1. TypeOK /\ WorkerOK(worker[w]) /\ WorkerOK(Left)
  BY WorkersOK, LeftOK
<1>2. \E x \in {msg, ok, again, Left} : Put(w, x)
  BY DEF RecvReply
<1>3. m.sid \in Told \cup {None} /\ m.sid \in Sids \cup {None}
  <2>1. m \in Message /\ m.cmd \in Replies
    BY DEF RecvReply, LoginInv, ChannelInv, Replies
  <2> QED
    BY <2>1 DEF Message, Replies, Told
<1> HIDE DEF m
<1>4. WorkerOK(r)
  BY <1>1 DEF WorkerOK, Worker
<1> HIDE DEF r
<1>5. WorkerOK(f) /\ WorkerOK(msg) /\ WorkerOK(ok)
  BY <1>3, <1>4 DEF WorkerOK, Worker, AuthState
<1> HIDE DEF f, msg, ok
<1>6. WorkerOK(Switched(f, "pass"))
  BY <1>1, <1>5, SwitchedOK
<1>7. WorkerOK(again)
  BY <1>6 DEF WorkerOK, Worker, AuthState
<1> HIDE DEF again
<1>8. PICK x : WorkerOK(x) /\ Put(w, x)
  BY <1>1, <1>2, <1>5, <1>7
<1>9. sock' = [sock EXCEPT ![w] = None] /\ UNCHANGED <<config, entry, score, wrong, proved>>
  BY DEF RecvReply
<1> QED
  BY <1>8, <1>9, WorkerStep DEF Put

\* SIGTERM.
LEMMA TermInv ==
  ASSUME LoginInv, NEW w \in Workers, Term(w)
  PROVE  LoginInv'
<1>1. WorkerOK(worker[w])
  BY WorkersOK
<1>2. WorkerOK(handle_term(worker[w]))
  BY <1>1 DEF handle_term, WorkerOK, Worker
<1> QED
  BY <1>2, WorkerOnly DEF Term

\* The alarm: an unread answer goes with the worker, a request stays.
LEMMA AlarmInv ==
  ASSUME LoginInv, NEW w \in Workers, Alarm(w)
  PROVE  LoginInv'
<1> DEFINE m == IF sock[w] # None /\ sock[w].cmd \in {"init", "cont"} THEN sock[w] ELSE None
<1>1. WorkerOK(Left)
  BY WorkersOK, LeftOK
<1>2. sock[w] \in Message \cup {None}
  BY DEF LoginInv, ChannelInv
<1>3. m \in Message \cup {None}
  BY <1>2
<1>4. m # None /\ m.cmd = "init" => w \in Waiting
  BY DEF Waiting
<1>5. sock' = [sock EXCEPT ![w] = m]
  BY DEF Alarm, Drop
<1>6. Put(w, Left) /\ UNCHANGED <<config, entry, score, wrong, proved>>
  BY DEF Alarm
<1> HIDE DEF m
<1> QED
  BY <1>1, <1>3, <1>4, <1>5, <1>6, WorkerStep DEF Put

\* The client goes, and the loop of the tunnel ends.
LEMMA LeaveInv ==
  ASSUME LoginInv, NEW w \in Workers, Leave(w) \/ TunnelEnds(w)
  PROVE  LoginInv'
BY WorkersOK, LeftOK, WorkerOnly DEF Leave, TunnelEnds

(***************************************************************************)
(* Steps of sec-mod                                                        *)
(***************************************************************************)

\* A score with one more point.
Charged(n) == IF n < MaxBanScore THEN n + 1 ELSE n

\* A step of sec-mod for w: the entry of s becomes x, the answer is m, the
\* entry has v wrong answers and P proved, and the score of its address is p.
SecStep(w, s, x, m, v, P, p) ==
  /\ entry' = [entry EXCEPT ![s] = x] /\ sock' = [sock EXCEPT ![w] = m]
  /\ wrong' = [wrong EXCEPT ![s] = v] /\ proved' = [proved EXCEPT ![s] = P]
  /\ score' = [score EXCEPT ![x.addr] = p]
  /\ UNCHANGED <<config, worker>>

\* What the rest of the invariant needs of such a step: the entry keeps its
\* address, its method and its failure, and a wrong answer is charged and, when
\* that is enough for a ban, the end of the conversation, unless it is PAM's.
Orderly(w, s, x, v, p) ==
  LET old == entry[s] IN
  /\ x.status # "unused"
  /\ old.status = "unused" => w \in Waiting /\ v = wrong[s]
  /\ old.status # "unused" => x.addr = old.addr /\ x.method = old.method
  /\ old.status = "failed" => x.status = "failed"
  /\ p \in {score[x.addr], Charged(score[x.addr])}
  /\ \/ v = wrong[s]
     \/ /\ v = wrong[s] + 1 /\ old.status # "failed"
        /\ Module(x) # "pam" =>
             /\ p = Charged(score[x.addr])
             /\ MaxBanScore > 0 /\ score[x.addr] + 1 >= MaxBanScore => x.status = "failed"

\* The wrong answers are bounded in every conversation.
LEMMA WrongBounded ==
  ASSUME LoginInv
  PROVE  wrong \in [Sids -> 0 .. Most]
<1>1. wrong \in [Sids -> Nat] /\ MaxTries \in Nat /\ PamPrompts \in Nat
  BY LoginAssumption DEF LoginInv, TypeOK
<1>2. \A s \in Sids : wrong[s] <= Limit(entry[s])
  BY DEF LoginInv, EntryInv
<1>3. \A s \in Sids : wrong[s] <= Most
  BY <1>1, <1>2 DEF Limit, Most
<1> QED
  BY <1>1, <1>3 DEF Most

\* An address whose counted conversations the step does not touch.
LEMMA OtherScore ==
  ASSUME LoginInv, NEW w \in Workers, NEW s \in Sids, NEW x \in Entry, NEW m,
         NEW v \in 0 .. Most, NEW P, NEW p,
         SecStep(w, s, x, m, v, P, p), Orderly(w, s, x, v, p),
         NEW a \in Addrs, x.addr # a \/ Module(x) = "pam"
  PROVE  ScoreInv(a)'
<1>1. TypeOK /\ ScoreInv(a)
  BY DEF LoginInv
<1>2. s \notin From(a) /\ s \notin From(a)'
  <2>1. entry[s].status # "unused" => entry[s].addr = x.addr /\ Module(entry[s]) = Module(x)
    BY DEF Orderly, Module
  <2>2. entry'[s] = x /\ Module(entry[s])' = Module(x)
    BY <1>1 DEF SecStep, TypeOK, Module, methods
  <2> QED
    BY <2>1, <2>2 DEF From, Told
<1>3. From(a)' = From(a) /\ Failed(a)' = Failed(a)
  BY <1>1, <1>2 DEF Failed, From, Told, SecStep, TypeOK, Module, methods
<1>4. Marks(wrong', From(a)') = Marks(wrong, From(a))
  BY <1>1, <1>2, <1>3 DEF Marks, SecStep, TypeOK
<1>5. wrong \in [Sids -> 0 .. Most] /\ wrong' \in [Sids -> 0 .. Most]
  BY <1>1, WrongBounded DEF SecStep
<1>6. Guesses(a)' = Guesses(a)
  BY <1>4, <1>5, GuessesNow, GuessesNext
<1>7. score'[a] \in {score[a], Charged(score[a])} /\ score[a] \in Nat
  BY <1>1 DEF SecStep, Orderly, TypeOK
<1>8. /\ Guesses(a) \in Nat /\ Cardinality(Failed(a)) \in Nat /\ MaxBanScore \in Nat
  BY <1>5, GuessesNow, LoginAssumption
<1>9. ASSUME MaxBanScore > 0
      PROVE  /\ score'[a] <= MaxBanScore
             /\ score'[a] < MaxBanScore => Guesses(a)' <= score'[a]
             /\ score'[a] = MaxBanScore => Guesses(a)' < MaxBanScore + Cardinality(Failed(a)')
  <2>1. /\ score[a] <= MaxBanScore
        /\ score[a] < MaxBanScore => Guesses(a) <= score[a]
        /\ score[a] = MaxBanScore => Guesses(a) < MaxBanScore + Cardinality(Failed(a))
    BY <1>1, <1>9 DEF ScoreInv
  <2>2. Cardinality(Failed(a)') = Cardinality(Failed(a))
    BY <1>3
  <2> QED
    BY <1>6, <1>7, <1>8, <1>9, <2>1, <2>2 DEF Charged
<1> QED
  BY <1>9 DEF ScoreInv

\* The address of the entry, when its wrong answers are charged.
LEMMA OwnScore ==
  ASSUME LoginInv, NEW w \in Workers, NEW s \in Sids, NEW x \in Entry, NEW m,
         NEW v \in 0 .. Most, NEW P, NEW p,
         SecStep(w, s, x, m, v, P, p), Orderly(w, s, x, v, p),
         NEW a \in Addrs, x.addr = a, Module(x) # "pam"
  PROVE  ScoreInv(a)'
<1> DEFINE G == Cardinality(Marks(wrong, From(a)))
           F == Cardinality(Failed(a))
<1>1. TypeOK /\ ScoreInv(a) /\ EntryInv(s)
  BY DEF LoginInv
<1>2. entry'[s] = x /\ \A t \in Sids \ {s} : entry'[t] = entry[t]
  BY <1>1 DEF SecStep, TypeOK
<1>3. entry[s].status # "unused" => entry[s].addr = a /\ Module(entry[s]) # "pam"
  BY DEF Orderly, Module
<1>4. From(a)' = From(a) \cup {s}
  <2>1. \A t \in Sids : Module(entry[t])' = IF t = s THEN Module(x) ELSE Module(entry[t])
    BY <1>2 DEF Module, methods, SecStep
  <2> QED
    BY <1>2, <1>3, <2>1 DEF From, Told, Orderly
<1>5. Failed(a)' = IF x.status = "failed" THEN Failed(a) \cup {s} ELSE Failed(a)
  BY <1>2, <1>3, <1>4 DEF Failed, From, Told, Orderly
<1>6. wrong \in [Sids -> 0 .. Most] /\ wrong' \in [Sids -> 0 .. Most]
  BY <1>1, WrongBounded DEF SecStep
<1>7. wrong'[s] = v /\ \A t \in Sids \ {s} : wrong'[t] = wrong[t]
  BY <1>1 DEF SecStep, TypeOK
<1>8. /\ IsFiniteSet(Marks(wrong, From(a))) /\ G \in Nat /\ IsFiniteSet(Failed(a)) /\ F \in Nat
      /\ Guesses(a) = G /\ Guesses(a)' = Cardinality(Marks(wrong', From(a)'))
  BY <1>6, GuessesNow, GuessesNext
<1>9. Cardinality(Failed(a)') =
        IF x.status = "failed" /\ s \notin Failed(a) THEN F + 1 ELSE F
  <2>1. Cardinality(Failed(a) \cup {s}) = IF s \in Failed(a) THEN F ELSE F + 1
    BY <1>8, FS_AddElement
  <2> QED
    BY <1>5, <2>1
<1>10. score'[a] = p /\ score[a] \in Nat
  BY <1>1 DEF SecStep, TypeOK
<1>11. MaxBanScore \in Nat
  BY LoginAssumption
<1>12. From(a) \in SUBSET Sids
  BY DEF From, Told
<1>13. SUFFICES ASSUME MaxBanScore > 0
                 PROVE  /\ p <= MaxBanScore
                        /\ p < MaxBanScore => Guesses(a)' <= p
                        /\ p = MaxBanScore =>
                             Guesses(a)' < MaxBanScore + Cardinality(Failed(a)')
  BY <1>10 DEF ScoreInv
<1>14. /\ score[a] <= MaxBanScore
       /\ score[a] < MaxBanScore => G <= score[a]
       /\ score[a] = MaxBanScore => G < MaxBanScore + F
  BY <1>1, <1>8, <1>13 DEF ScoreInv
<1>15. CASE v = wrong[s]
  <2>1. wrong' = wrong
    BY <1>1, <1>15 DEF SecStep, TypeOK
  <2>2. s \notin From(a) => wrong[s] = 0
    BY <1>1, <1>3 DEF From, Told, EntryInv
  <2>3. Marks(wrong', From(a)') = Marks(wrong, From(a))
    BY <1>4, <2>1, <2>2 DEF Marks
  <2>4. Guesses(a)' = G
    BY <1>8, <2>3
  <2>5. p \in {score[a], Charged(score[a])}
    BY DEF Orderly
  <2> HIDE DEF G, F
  <2> QED
    BY <1>8, <1>9, <1>10, <1>11, <1>13, <1>14, <2>4, <2>5 DEF Charged
<1>16. CASE v # wrong[s]
  <2>1. /\ v = wrong[s] + 1 /\ entry[s].status # "failed" /\ entry[s].status # "unused"
        /\ p = Charged(score[a])
        /\ MaxBanScore > 0 /\ score[a] + 1 >= MaxBanScore => x.status = "failed"
    BY <1>16 DEF Orderly
  <2>2. s \in From(a) /\ s \notin Failed(a) /\ From(a)' = From(a)
    BY <1>3, <1>4, <2>1 DEF From, Told, Failed
  <2>3. Marks(wrong', From(a)') = Marks(wrong, From(a)) \cup {<<s, v>>}
    <3>1. wrong[s] \in Nat
      BY <1>6
    <3>2. ASSUME NEW q \in From(a) \X Nat
          PROVE  q \in Marks(wrong', From(a)) <=> q \in Marks(wrong, From(a)) \cup {<<s, v>>}
      <4>1. q[1] \in Sids /\ q[2] \in Nat /\ q = <<q[1], q[2]>>
        BY <1>12
      <4>2. CASE q[1] = s
        <5>1. q[2] \in 1 .. v <=> q[2] \in 1 .. wrong[s] \/ q[2] = v
          BY <2>1, <3>1, <4>1
        <5>2. q = <<s, v>> <=> q[2] = v
          BY <4>1, <4>2
        <5> QED
          BY <1>7, <4>1, <4>2, <5>1, <5>2 DEF Marks
      <4>3. CASE q[1] # s
        <5>1. wrong'[q[1]] = wrong[q[1]] /\ q # <<s, v>>
          BY <1>7, <4>1, <4>3
        <5> QED
          BY <5>1 DEF Marks
      <4> QED
        BY <4>2, <4>3
    <3>3. <<s, v>> \in From(a) \X Nat
      BY <2>1, <2>2, <3>1
    <3>4. /\ Marks(wrong', From(a)) \subseteq From(a) \X Nat
          /\ Marks(wrong, From(a)) \subseteq From(a) \X Nat
      BY DEF Marks
    <3> QED
      BY <2>2, <3>2, <3>3, <3>4
  <2>4. <<s, v>> \notin Marks(wrong, From(a))
    BY <1>6, <2>1 DEF Marks
  <2>5. Guesses(a)' = G + 1
    BY <1>8, <2>3, <2>4, FS_AddElement
  <2> HIDE DEF G, F
  <2> QED
    BY <1>8, <1>9, <1>10, <1>11, <1>13, <1>14, <2>1, <2>2, <2>5 DEF Charged
<1> QED
  BY <1>15, <1>16

\* An orderly step keeps the invariant if it keeps that of the entry.
LEMMA SecStepInv ==
  ASSUME LoginInv, NEW w \in Workers, NEW s \in Sids, NEW x \in Entry,
         NEW m \in [cmd : Replies, sid : {s}] \cup {None},
         NEW v \in 0 .. Most, NEW P \in SUBSET (Kinds \X (Users \cup {None})), NEW p,
         SecStep(w, s, x, m, v, P, p), Orderly(w, s, x, v, p), EntryInv(s)'
  PROVE  LoginInv'
<1>1. TypeOK /\ ChannelInv
  BY DEF LoginInv
<1>2. entry' \in [Sids -> Entry] /\ proved' \in [Sids -> SUBSET (Kinds \X (Users \cup {None}))]
  BY <1>1 DEF TypeOK, SecStep
<1>3. wrong' \in [Sids -> Nat]
  BY <1>1, LoginAssumption DEF TypeOK, SecStep
<1>4. score' \in [Addrs -> Nat]
  <2>1. x.addr \in Addrs => p \in Nat
    BY <1>1 DEF TypeOK, Orderly, Charged
  <2> QED
    BY <1>1, <2>1 DEF TypeOK, SecStep
<1>5. TypeOK'
  BY <1>1, <1>2, <1>3, <1>4 DEF TypeOK, SecStep
<1>6. entry'[s] = x /\ \A t \in Sids \ {s} : entry'[t] = entry[t]
  BY <1>1 DEF TypeOK, SecStep
<1>7. methods' = methods
  BY DEF methods, SecStep
<1>8. Told' = Told \cup {s} /\ Unused' = Unused \ {s}
  BY <1>6 DEF Told, Unused, Orderly
<1>9. sock' \in [Workers -> Message' \cup {None}]
  <2>1. Message \subseteq Message'
    BY <1>8 DEF Message
  <2>2. m \in Message' \cup {None}
    BY <1>8 DEF Message
  <2> QED
    BY <1>1, <2>1, <2>2 DEF ChannelInv, SecStep
<1>10. \A u \in Workers : worker'[u].sid \in Told' \cup {None} /\ worker'[u].sel \in DOMAIN methods'
  BY <1>1, <1>7, <1>8 DEF ChannelInv, SecStep
<1>11. Cardinality(Waiting') <= Cardinality(Unused')
  <2>1. m = None \/ m.cmd # "init"
    BY DEF Replies
  <2>2. Waiting' = Waiting \ {w}
    BY <1>1, <2>1 DEF Waiting, ChannelInv, SecStep
  <2>3. IsFiniteSet(Waiting) /\ IsFiniteSet(Unused)
    <3>1. Waiting \in SUBSET Workers /\ Unused \in SUBSET Sids
      BY DEF Waiting, Unused
    <3> QED
      BY <3>1, LoginAssumption, FS_Subset
  <2>4. Cardinality(Waiting) \in Nat /\ Cardinality(Unused) \in Nat
    BY <2>3, FS_CardinalityType
  <2>5. /\ Cardinality(Waiting') = IF w \in Waiting THEN Cardinality(Waiting) - 1
                                   ELSE Cardinality(Waiting)
        /\ Cardinality(Unused') = IF s \in Unused THEN Cardinality(Unused) - 1
                                  ELSE Cardinality(Unused)
    BY <1>8, <2>2, <2>3, FS_RemoveElement
  <2>6. s \in Unused => w \in Waiting
    BY DEF Unused, Orderly
  <2>7. Cardinality(Waiting) <= Cardinality(Unused)
    BY <1>1 DEF ChannelInv
  <2> QED
    BY <2>4, <2>5, <2>6, <2>7
<1>12. ChannelInv'
  BY <1>9, <1>10, <1>11 DEF ChannelInv
<1>13. ASSUME NEW t \in Sids
       PROVE  EntryInv(t)'
  <2>1. CASE t = s
    BY <2>1
  <2>2. CASE t # s
    <3>1. entry'[t] = entry[t] /\ wrong'[t] = wrong[t] /\ proved'[t] = proved[t] /\ EntryInv(t)
      BY <1>1, <1>6, <2>2 DEF LoginInv, TypeOK, SecStep
    <3> QED
      BY <1>7, <3>1 DEF EntryInv, Continues, Module, Satisfied, Limit
  <2> QED
    BY <2>1, <2>2
<1>14. ASSUME NEW a \in Addrs
       PROVE  ScoreInv(a)'
  BY OwnScore, OtherScore
<1> QED
  BY <1>5, <1>12, <1>13, <1>14 DEF LoginInv

\* What handle_sec_auth_res makes of an entry e: x keeps everything but the
\* status and the cookie, which are good only after a good result; a wrong
\* password is charged, and fails when that is enough for a ban.
Outcome(e, result, x, p) ==
  /\ x.method = e.method /\ x.addr = e.addr /\ x.user = e.user /\ x.tries = e.tries
  /\ x.issued => e.issued \/ result = "ok"
  /\ \/ x.status = "failed"
     \/ x.status = "completed" /\ result = "ok"
     \/ x.status = e.status /\ result = "continue"
  /\ p \in {score[e.addr], Charged(score[e.addr])}
  /\ result = "fail" => p = Charged(score[e.addr])
  /\ result = "continue" /\ e.status = "cont" /\ Module(e) = "plain" =>
       /\ p = Charged(score[e.addr])
       /\ MaxBanScore > 0 /\ score[e.addr] + 1 >= MaxBanScore => x.status = "failed"

\* handle_sec_auth_res has such an outcome.
LEMMA ResFacts ==
  ASSUME NEW w \in Workers, NEW s \in Sids, NEW e \in Entry,
         NEW result \in {"ok", "continue", "fail"},
         handle_sec_auth_res(w, s, e, result)
  PROVE  \E x \in Entry, m \in [cmd : Replies, sid : {s}] \cup {None} : \E p :
           /\ entry' = [entry EXCEPT ![s] = x] /\ sock' = [sock EXCEPT ![w] = m]
           /\ score' = [score EXCEPT ![e.addr] = p]
           /\ Outcome(e, result, x, p)
<1> DEFINE retry == result = "continue" /\ e.status = "cont" /\ Module(e) = "plain"
           failed == result = "fail" \/ (retry /\ sec_mod_add_score_to_ip(e.addr))
           status == CASE failed -> "failed"
                       [] ~failed /\ result = "ok" -> "completed"
                       [] OTHER -> e.status
           p == IF (retry \/ result = "fail") /\ score[e.addr] < MaxBanScore
                THEN score[e.addr] + 1 ELSE score[e.addr]
           y == [e EXCEPT !.status = status]
<1>1. PICK rep \in Replies :
        /\ rep = "ok" => result = "ok"
        /\ Answer(w, s, y, rep)
  <2> HIDE DEF y
  <2> QED
    BY DEF handle_sec_auth_res, Replies, y
<1>2. score' = [score EXCEPT ![e.addr] = p]
  BY DEF handle_sec_auth_res
<1> DEFINE x == IF worker[w].pc = "wait" /\ rep # "eof"
                THEN [y EXCEPT !.issued = @ \/ rep = "ok"] ELSE [y EXCEPT !.status = "failed"]
           m == IF worker[w].pc = "wait" THEN [cmd |-> rep, sid |-> s] ELSE None
<1>3. entry' = [entry EXCEPT ![s] = x] /\ sock' = [sock EXCEPT ![w] = m]
  BY <1>1 DEF Answer
<1>4. m \in [cmd : Replies, sid : {s}] \cup {None}
  OBVIOUS
<1>5. /\ \/ status = "failed"
         \/ status = "completed" /\ result = "ok"
         \/ status = e.status /\ result = "continue"
      /\ retry /\ MaxBanScore > 0 /\ score[e.addr] + 1 >= MaxBanScore => status = "failed"
  BY DEF sec_mod_add_score_to_ip
<1>6. status \in {"unused", "init", "cont", "completed", "failed"}
  BY <1>5 DEF Entry
<1> HIDE DEF status
<1>7. /\ x \in Entry /\ x.method = e.method /\ x.addr = e.addr /\ x.user = e.user
      /\ x.tries = e.tries /\ x.status \in {status, "failed"}
  BY <1>6 DEF Entry
<1>8. x.issued => e.issued \/ result = "ok"
  BY <1>1 DEF Entry
<1>9. /\ p \in {score[e.addr], Charged(score[e.addr])}
      /\ retry \/ result = "fail" => p = Charged(score[e.addr])
  BY DEF Charged
<1> HIDE DEF x, m, p
<1> QED
  BY <1>2, <1>3, <1>4, <1>5, <1>7, <1>8, <1>9 DEF Outcome

\* The first method that fits what the worker asked for.
LEMMA SetModule ==
  ASSUME TypeOK, NEW asked
  PROVE  /\ set_module(asked) \in DOMAIN methods \cup {0} /\ set_module(asked) \in Nat
         /\ set_module(asked) # 0 => asked \subseteq methods[set_module(asked)].type
<1> DEFINE fits == {k \in DOMAIN methods : asked \subseteq methods[k].type}
<1>1. DOMAIN methods \in SUBSET (Nat \ {0})
  BY MethodFacts
<1>2. fits # {} => Min(fits) \in fits
  BY <1>1, MinChosen
<1>3. set_module(asked) = IF fits = {} THEN 0 ELSE Min(fits)
  BY DEF set_module
<1> QED
  BY <1>1, <1>2, <1>3

\* handle_sec_auth_init: a conversation begins, or ends at once.
LEMMA SecAuthInitInv ==
  ASSUME LoginInv, NEW w \in Workers, SecAuthInit(w)
  PROVE  LoginInv'
<1> DEFINE m == sock[w]
           k == set_module(m.asked)
<1>1. TypeOK /\ ChannelInv
  BY DEF LoginInv
<1>2. w \in Waiting /\ m \in Message /\ m.cmd = "init"
  BY <1>1 DEF SecAuthInit, Asked, Waiting, ChannelInv
<1>3. /\ m.ip \in Addrs \cup {None} /\ m.user \in Users \cup {None}
      /\ m.cert \in Users \cup {None} /\ m.good \in BOOLEAN
      /\ m.good => "gssapi" \in m.asked
  BY <1>2 DEF Message, Replies
<1>4. PICK s \in Sids : entry[s].status = "unused" /\ s = CHOOSE sid \in Unused : TRUE
  <2>1. IsFiniteSet(Waiting) /\ IsFiniteSet(Unused)
    <3>1. Waiting \in SUBSET Workers /\ Unused \in SUBSET Sids
      BY DEF Waiting, Unused
    <3> QED
      BY <3>1, LoginAssumption, FS_Subset
  <2>2. Cardinality(Waiting) # 0 /\ Cardinality(Waiting) \in Nat
    BY <1>2, <2>1, FS_EmptySet, FS_CardinalityType
  <2>3. Cardinality(Unused) # 0
    BY <1>1, <2>1, <2>2, FS_CardinalityType DEF ChannelInv
  <2>4. Unused # {}
    BY <2>3, FS_EmptySet
  <2>5. (CHOOSE sid \in Unused : TRUE) \in Unused
    BY <2>4
  <2> QED
    BY <2>5 DEF Unused
<1> DEFINE e0 == [entry[s] EXCEPT !.method = k, !.addr = m.ip, !.status = "init"]
           e == [e0 EXCEPT !.user = CASE Module(e0) \in {"plain", "pam"} -> m.user
                                      [] Module(e0) = "gssapi" -> None
                                      [] OTHER -> m.cert]
           P == (IF m.cert = None THEN {} ELSE {<<"cert", m.cert>>})
                  \cup (IF "gssapi" \in m.asked /\ m.good THEN {<<"gssapi", None>>} ELSE {})
<1>5. PICK r \in IF k # 0 /\ check_user_group_status(e, m.cert)
                 THEN auth_init(e, m.good) ELSE {"fail"} :
        handle_sec_auth_res(w, s, e, r)
  BY <1>4 DEF SecAuthInit
<1>6. proved' = [proved EXCEPT ![s] = P] /\ UNCHANGED <<config, worker, wrong>>
  BY <1>4 DEF SecAuthInit
<1>7. k \in DOMAIN methods \cup {0} /\ k \in Nat
  BY <1>1, SetModule
<1>8. EntryInv(s) /\ entry[s] \in Entry /\ wrong[s] \in 0 .. Most
  BY <1>1, <1>4, WrongBounded DEF LoginInv, TypeOK
<1>9. P \in SUBSET (Kinds \X (Users \cup {None}))
  BY <1>3 DEF Kinds
<1> HIDE DEF m, k, P
<1>10. /\ e \in Entry /\ e.method = k /\ e.addr = m.ip /\ e.status = "init"
       /\ e.tries = entry[s].tries /\ e.issued = entry[s].issued
       /\ Module(e) = Module(e0)
  BY <1>3, <1>7, <1>8 DEF Entry, Module
<1>11. /\ Module(e) \in {"plain", "pam"} => e.user = m.user
       /\ Module(e) = "gssapi" => e.user = None
       /\ Module(e) \notin {"plain", "pam", "gssapi"} => e.user = m.cert
  BY <1>8, <1>10 DEF Entry
<1> HIDE DEF e
<1>12. r \in {"ok", "continue", "fail"}
  BY <1>5 DEF auth_init
<1>13. r # "fail" =>
         /\ k \in DOMAIN methods /\ Module(e) = methods[k].module
         /\ "cert" \in methods[k].type => m.cert # None /\ (Module(e) # "null" => e.user = m.cert)
         /\ r \in auth_init(e, m.good)
  BY <1>5, <1>7, <1>10 DEF check_user_group_status, Module
<1>14. PICK x \in Entry, a \in [cmd : Replies, sid : {s}] \cup {None} : \E p :
         /\ entry' = [entry EXCEPT ![s] = x] /\ sock' = [sock EXCEPT ![w] = a]
         /\ score' = [score EXCEPT ![e.addr] = p]
         /\ Outcome(e, r, x, p)
  BY <1>5, <1>10, <1>12, ResFacts
<1>15. PICK p :
         /\ entry' = [entry EXCEPT ![s] = x] /\ sock' = [sock EXCEPT ![w] = a]
         /\ score' = [score EXCEPT ![e.addr] = p]
         /\ Outcome(e, r, x, p)
  BY <1>14
<1>16. SecStep(w, s, x, a, wrong[s], P, p)
  BY <1>1, <1>4, <1>6, <1>15 DEF SecStep, Outcome, TypeOK
<1>17. Orderly(w, s, x, wrong[s], p)
  BY <1>2, <1>4, <1>10, <1>15 DEF Orderly, Outcome
<1>18. wrong[s] = 0 /\ ~e.issued /\ e.tries = 0
  BY <1>4, <1>8, <1>10 DEF EntryInv
<1>19. entry'[s] = x /\ proved'[s] = P /\ wrong'[s] = 0 /\ methods' = methods
  BY <1>1, <1>4, <1>6, <1>15, <1>18 DEF TypeOK, methods
<1>20. ASSUME r = "ok"
       PROVE  \A t \in methods[k].type : <<t, e.user>> \in P
  <2>1. /\ k \in DOMAIN methods /\ Module(e) = methods[k].module
        /\ "cert" \in methods[k].type => m.cert # None /\ (Module(e) # "null" => e.user = m.cert)
        /\ "ok" \in auth_init(e, m.good)
    BY <1>13, <1>20
  <2>2. CASE Module(e) = "gssapi"
    <3>1. m.good /\ e.user = None
      BY <1>11, <2>1, <2>2 DEF auth_init
    <3>2. "cert" \notin methods[k].type
      BY <2>1, <2>2, <3>1
    <3>3. methods[k].type \ {"cert"} = {"gssapi"}
      BY <1>1, <2>1, <2>2, MethodFacts
    <3>4. <<"gssapi", None>> \in P
      BY <1>3, <3>1 DEF P
    <3> QED
      BY <3>1, <3>2, <3>3, <3>4
  <2>3. CASE Module(e) = "null"
    <3>1. methods[k].type = {"cert"} /\ m.cert # None /\ e.user = m.cert
      BY <1>1, <1>11, <2>1, <2>3, MethodFacts
    <3> QED
      BY <3>1 DEF P
  <2>4. Module(e) \in {"gssapi", "null"}
    <3>1. Module(e) \notin {"plain", "pam"}
      BY <2>1 DEF auth_init
    <3> QED
      BY <1>1, <2>1, <3>1, MethodFacts
  <2> QED
    BY <2>2, <2>3, <2>4
<1>21. ASSUME r = "continue"
       PROVE  /\ k \in DOMAIN methods
              /\ "cert" \in methods[k].type => <<"cert", e.user>> \in P
  <2>1. Module(e) # "null"
    BY <1>13, <1>21 DEF auth_init
  <2> QED
    BY <1>13, <1>21, <2>1 DEF P
<1>22. EntryInv(s)'
  <2>1. x.status \in {"failed", "completed", "init"} /\ (x.status = "init" => r = "continue")
    BY <1>10, <1>15 DEF Outcome
  <2>2. x.issued => Satisfied(s)'
    <3>1. SUFFICES ASSUME x.issued PROVE Satisfied(s)'
      OBVIOUS
    <3>2. r = "ok" /\ k \in DOMAIN methods
      BY <1>13, <1>15, <1>18, <3>1 DEF Outcome
    <3> QED
      BY <1>15, <1>19, <1>20, <3>2 DEF Satisfied, Outcome
  <2>3. 0 <= Limit(x)' /\ 0 < Limit(x)'
    BY LoginAssumption DEF Limit
  <2>4. x.method = k /\ x.tries = 0
    BY <1>10, <1>15, <1>18 DEF Outcome
  <2> QED
    BY <1>15, <1>18, <1>19, <1>21, <2>1, <2>2, <2>3, <2>4 DEF EntryInv, Continues, Outcome
<1> QED
  BY <1>4, <1>8, <1>9, <1>16, <1>17, <1>22, SecStepInv

\* handle_sec_auth_cont for an entry that is not under way: it fails.
LEMMA SecAuthContRefused ==
  ASSUME LoginInv, NEW w \in Workers, SecAuthCont(w), ~Continues(sock[w].sid)
  PROVE  LoginInv'
<1>1. TypeOK /\ ChannelInv
  BY DEF LoginInv
<1>2. PICK s \in Sids : s = sock[w].sid /\ entry[s].status # "unused"
  <2>1. sock[w] \in Message /\ sock[w].cmd = "cont" /\ sock[w].sid # None
    BY <1>1 DEF SecAuthCont, Asked, ChannelInv
  <2> QED
    BY <2>1 DEF Message, Replies, Told
<1>3. entry[s] \in Entry /\ entry[s].status \in {"completed", "failed"} /\ EntryInv(s)
      /\ wrong[s] \in 0 .. Most /\ proved[s] \in SUBSET (Kinds \X (Users \cup {None}))
  BY <1>1, <1>2, WrongBounded DEF LoginInv, TypeOK, Continues, Entry
<1> DEFINE e == [entry[s] EXCEPT !.status = IF Continues(s) THEN "cont" ELSE @]
<1>4. e = entry[s] /\ e \in Entry
  BY <1>2, <1>3 DEF Entry
<1>5. handle_sec_auth_res(w, s, e, "fail")
  BY <1>2 DEF SecAuthCont
<1>6. wrong' = [wrong EXCEPT ![s] = wrong[s]] /\ proved' = [proved EXCEPT ![s] = proved[s]]
      /\ UNCHANGED <<config, worker>>
  BY <1>1, <1>2 DEF SecAuthCont, TypeOK
<1> HIDE DEF e
<1>7. PICK x \in Entry, a \in [cmd : Replies, sid : {s}] \cup {None} : \E p :
        /\ entry' = [entry EXCEPT ![s] = x] /\ sock' = [sock EXCEPT ![w] = a]
        /\ score' = [score EXCEPT ![e.addr] = p]
        /\ Outcome(e, "fail", x, p)
  <2>1. e \in Entry /\ "fail" \in {"ok", "continue", "fail"}
    BY <1>4
  <2> QED
    BY <1>5, <2>1, ResFacts
<1>8. PICK p :
        /\ entry' = [entry EXCEPT ![s] = x] /\ sock' = [sock EXCEPT ![w] = a]
        /\ score' = [score EXCEPT ![e.addr] = p]
        /\ Outcome(e, "fail", x, p)
  BY <1>7
<1>9. SecStep(w, s, x, a, wrong[s], proved[s], p)
  BY <1>4, <1>6, <1>8 DEF SecStep, Outcome
<1>10. x.status = "failed" /\ x.user = entry[s].user /\ (x.issued => entry[s].issued)
  BY <1>4, <1>8 DEF Outcome
<1>11. Orderly(w, s, x, wrong[s], p)
  BY <1>2, <1>4, <1>8, <1>10 DEF Orderly, Outcome
<1>12. entry'[s] = x /\ proved'[s] = proved[s] /\ wrong'[s] = wrong[s] /\ methods' = methods
  BY <1>1, <1>6, <1>8 DEF TypeOK, methods
<1>13. EntryInv(s)'
  <2>1. Limit(x)' = Limit(entry[s])
    BY <1>4, <1>8, <1>12 DEF Limit, Module, Outcome
  <2> QED
    BY <1>3, <1>10, <1>12, <2>1 DEF EntryInv, Continues, Satisfied
<1> QED
  BY <1>3, <1>9, <1>11, <1>13, SecStepInv

\* What the modules say of an answer: a good result is one of a right answer of
\* the module's kind, a wrong one fails or is one more try or prompt.
LEMMA PassFacts ==
  ASSUME NEW e, NEW kind \in {"pass", "gssapi"}, NEW good \in BOOLEAN, NEW right,
         right = (good /\ IF Module(e) = "gssapi" THEN kind = "gssapi"
                          ELSE kind = "pass" /\ e.user \in Registered),
         NEW r \in auth_pass(e, kind, good)
  PROVE  /\ r \in {"ok", "continue", "fail"}
         /\ r = "ok" => right /\ \/ Module(e) \in {"plain", "pam"} /\ kind = "pass"
                                 \/ Module(e) = "gssapi" /\ kind = "gssapi"
         /\ ~right => r = "fail" \/ (r = "continue" /\ Module(e) \in {"plain", "pam"})
         /\ r = "continue" /\ Module(e) \in {"plain", "pam"} => e.tries < Limit(e) - 1
<1>1. CASE Module(e) = "plain"
  BY <1>1 DEF auth_pass, plain_auth_pass, Limit
<1>2. CASE Module(e) = "pam"
  BY <1>2 DEF auth_pass, pam_auth_pass, Limit
<1>3. CASE Module(e) = "gssapi"
  BY <1>3 DEF auth_pass
<1>4. CASE Module(e) \notin {"plain", "pam", "gssapi"}
  BY <1>4 DEF auth_pass
<1> QED
  BY <1>1, <1>2, <1>3, <1>4

\* handle_sec_auth_cont for a conversation under way.
LEMMA SecAuthContGoes ==
  ASSUME LoginInv, NEW w \in Workers, SecAuthCont(w), Continues(sock[w].sid)
  PROVE  LoginInv'
<1> DEFINE m == sock[w]
<1>1. TypeOK /\ ChannelInv
  BY DEF LoginInv
<1>2. PICK s \in Sids : s = m.sid /\ m.good \in BOOLEAN /\ m.kind \in {"pass", "gssapi"}
  <2>1. sock[w] \in Message /\ sock[w].cmd = "cont" /\ sock[w].sid # None
    BY <1>1 DEF SecAuthCont, Asked, ChannelInv
  <2> QED
    BY <2>1 DEF Message, Replies, Told
<1>3. /\ entry[s] \in Entry /\ EntryInv(s) /\ Continues(s)
      /\ wrong[s] \in 0 .. Most /\ proved[s] \in SUBSET (Kinds \X (Users \cup {None}))
  BY <1>1, <1>2, WrongBounded DEF LoginInv, TypeOK
<1> DEFINE e == [entry[s] EXCEPT !.status = "cont"]
           right == m.good /\ IF Module(e) = "gssapi" THEN m.kind = "gssapi"
                               ELSE m.kind = "pass" /\ e.user \in Registered
           v == IF ~right THEN wrong[s] + 1 ELSE wrong[s]
           P == proved[s] \cup IF right THEN {<<m.kind, e.user>>} ELSE {}
<1>4. PICK r \in auth_pass(e, m.kind, m.good) : handle_sec_auth_res(w, s, Tried(e, r), r)
  BY <1>2, <1>3 DEF SecAuthCont
<1>5. wrong' = [wrong EXCEPT ![s] = v] /\ proved' = [proved EXCEPT ![s] = P]
      /\ UNCHANGED <<config, worker>>
  BY <1>2, <1>3 DEF SecAuthCont
<1>6. /\ e \in Entry /\ e.method = entry[s].method /\ e.user = entry[s].user
      /\ e.addr = entry[s].addr /\ e.tries = entry[s].tries /\ e.issued = entry[s].issued
      /\ e.status = "cont" /\ Module(e) = Module(entry[s])
  BY <1>3 DEF Entry, Module
<1>7. right \in BOOLEAN
  OBVIOUS
<1>8. /\ r \in {"ok", "continue", "fail"}
      /\ r = "ok" => right /\ \/ Module(e) \in {"plain", "pam"} /\ m.kind = "pass"
                              \/ Module(e) = "gssapi" /\ m.kind = "gssapi"
      /\ ~right => r = "fail" \/ (r = "continue" /\ Module(e) \in {"plain", "pam"})
      /\ r = "continue" /\ Module(e) \in {"plain", "pam"} => e.tries < Limit(e) - 1
  <2> HIDE DEF m, e
  <2> QED
    BY <1>2, <1>4, PassFacts
<1>9. P \in SUBSET (Kinds \X (Users \cup {None})) /\ proved[s] \subseteq P
  <2>1. m.kind \in Kinds /\ e.user \in Users \cup {None}
    BY <1>2, <1>6 DEF Kinds, Entry
  <2> HIDE DEF e, m, right
  <2> QED
    BY <1>3, <2>1
<1>10. right => <<m.kind, e.user>> \in P
  <2> HIDE DEF right
  <2> QED
    OBVIOUS
<1> HIDE DEF e, m, right, P
<1>11. /\ e.method \in DOMAIN methods /\ Module(e) = methods[e.method].module
       /\ "cert" \in methods[e.method].type => <<"cert", e.user>> \in proved[s]
       /\ wrong[s] <= e.tries /\ e.tries < Limit(e)
       /\ e.issued => Satisfied(s)
  <2>1. e.method # 0
    BY <1>1, <1>3, <1>6, MethodFacts DEF EntryInv
  <2> QED
    BY <1>3, <1>6, <2>1 DEF EntryInv, Module, Limit
<1>12. e.tries \in Nat /\ wrong[s] \in Nat /\ Limit(e) \in Nat /\ Limit(e) <= Most /\ Most \in Nat
  BY <1>3, <1>6, LoginAssumption DEF Entry, Limit, Most
<1>13. v \in 0 .. Most /\ v <= Limit(e) /\ v <= e.tries + 1
  BY <1>11, <1>12
<1> DEFINE y == Tried(e, r)
<1>14. /\ y \in Entry /\ y.method = e.method /\ y.user = e.user /\ y.addr = e.addr
       /\ y.status = "cont" /\ y.issued = e.issued /\ Module(y) = Module(e)
       /\ y.tries = IF Module(e) \in {"plain", "pam"} /\ r # "ok" THEN e.tries + 1 ELSE e.tries
  BY <1>6, <1>11, <1>12 DEF Tried, Entry, Module
<1> HIDE DEF y, v
<1>15. PICK x \in Entry, a \in [cmd : Replies, sid : {s}] \cup {None} : \E p :
         /\ entry' = [entry EXCEPT ![s] = x] /\ sock' = [sock EXCEPT ![w] = a]
         /\ score' = [score EXCEPT ![y.addr] = p]
         /\ Outcome(y, r, x, p)
  BY <1>4, <1>8, <1>14, ResFacts DEF y
<1>16. PICK p :
         /\ entry' = [entry EXCEPT ![s] = x] /\ sock' = [sock EXCEPT ![w] = a]
         /\ score' = [score EXCEPT ![y.addr] = p]
         /\ Outcome(y, r, x, p)
  BY <1>15
<1>17. SecStep(w, s, x, a, v, P, p)
  BY <1>5, <1>16 DEF SecStep, Outcome
<1>18. Orderly(w, s, x, v, p)
  <2>1. /\ x.addr = entry[s].addr /\ entry[s].status \in {"init", "cont"} /\ x.addr = y.addr
        /\ x.method = entry[s].method /\ Module(x) = Module(e)
    BY <1>3, <1>6, <1>14, <1>16 DEF Outcome, Continues, Module
  <2>2. x.status # "unused" /\ p \in {score[x.addr], Charged(score[x.addr])}
    BY <1>14, <1>16, <2>1 DEF Outcome
  <2>3. v # wrong[s] =>
          /\ v = wrong[s] + 1
          /\ Module(x) # "pam" =>
               /\ p = Charged(score[x.addr])
               /\ MaxBanScore > 0 /\ score[x.addr] + 1 >= MaxBanScore => x.status = "failed"
    <3>1. v # wrong[s] => ~right /\ v = wrong[s] + 1
      BY DEF v
    <3>2. CASE r = "fail"
      BY <1>16, <2>1, <3>1, <3>2 DEF Outcome
    <3>3. CASE r = "continue" /\ Module(e) = "plain"
      BY <1>14, <1>16, <2>1, <3>1, <3>3 DEF Outcome
    <3> QED
      BY <1>8, <2>1, <3>1, <3>2, <3>3
  <2> QED
    BY <2>1, <2>2, <2>3 DEF Orderly
<1>19. entry'[s] = x /\ proved'[s] = P /\ wrong'[s] = v /\ methods' = methods
  BY <1>1, <1>5, <1>16 DEF TypeOK, methods
<1>20. x.issued => Satisfied(s)'
  <2>1. CASE e.issued
    BY <1>6, <1>9, <1>11, <1>14, <1>16, <1>19, <2>1 DEF Satisfied, Outcome
  <2>2. CASE r = "ok"
    <3>1. /\ <<m.kind, e.user>> \in P
          /\ methods[e.method].type \ {"cert"} = {m.kind}
      BY <1>1, <1>8, <1>10, <1>11, <2>2, MethodFacts
    <3>2. \A t \in methods[e.method].type : <<t, e.user>> \in P
      BY <1>9, <1>11, <3>1
    <3> QED
      BY <1>11, <1>14, <1>16, <1>19, <3>2 DEF Satisfied, Outcome
  <2> QED
    BY <1>14, <1>16, <2>1, <2>2 DEF Outcome
<1>21. EntryInv(s)'
  <2>1. x.status \in {"failed", "completed", "cont"} /\ (x.status = "cont" => r = "continue")
    BY <1>14, <1>16 DEF Outcome
  <2>2. /\ x.method = e.method /\ x.user = e.user
        /\ x.tries = IF Module(e) \in {"plain", "pam"} /\ r # "ok" THEN e.tries + 1 ELSE e.tries
        /\ Limit(x)' = Limit(e)
    BY <1>14, <1>16, <1>19 DEF Outcome, Module, Limit
  <2>3. r = "continue" => v <= x.tries /\ x.tries < Limit(e)
    BY <1>8, <1>11, <1>12, <1>13, <2>2 DEF v
  <2> QED
    BY <1>9, <1>11, <1>13, <1>19, <1>20, <2>1, <2>2, <2>3 DEF EntryInv, Continues
<1> QED
  BY <1>9, <1>13, <1>17, <1>18, <1>21, SecStepInv

\* handle_sec_auth_cont without an ID.
LEMMA SecAuthContNoSidInv ==
  ASSUME LoginInv, NEW w \in Workers, SecAuthContNoSid(w)
  PROVE  LoginInv'
<1> DEFINE m == IF worker[w].pc = "wait" THEN [cmd |-> "eof", sid |-> None] ELSE None
<1>1. TypeOK /\ ChannelInv /\ WorkerOK(worker[w])
  BY WorkersOK DEF LoginInv
<1>2. m \in Message \cup {None} /\ (m = None \/ m.cmd # "init")
  BY DEF Message, Replies
<1>3. worker' = [worker EXCEPT ![w] = worker[w]] /\ sock' = [sock EXCEPT ![w] = m]
      /\ UNCHANGED <<config, entry, score, wrong, proved>>
  BY <1>1 DEF SecAuthContNoSid, TypeOK
<1> HIDE DEF m
<1> QED
  BY <1>1, <1>2, <1>3, WorkerStep

(***************************************************************************)
(* The theorems                                                            *)
(***************************************************************************)

\* Nothing has happened yet.
LEMMA LoginInit ==
  ASSUME Init
  PROVE  LoginInv
<1>1. TypeOK
  BY LeftOK, LoginAssumption DEF Init, TypeOK, Worker, Left, AuthState, Entry
<1>2. ChannelInv
  <2>1. Waiting = {}
    BY DEF Init, Waiting
  <2>2. IsFiniteSet(Unused)
    <3>1. Unused \in SUBSET Sids
      BY DEF Unused
    <3> QED
      BY <3>1, LoginAssumption, FS_Subset
  <2>3. Cardinality(Waiting) <= Cardinality(Unused)
    BY <2>1, <2>2, FS_EmptySet, FS_CardinalityType
  <2>4. \A w \in Workers : worker[w].sid \in Told \cup {None} /\ worker[w].sel \in DOMAIN methods
    BY <1>1, MethodFacts DEF Init, Left
  <2>5. sock \in [Workers -> Message \cup {None}]
    BY DEF Init
  <2> QED
    BY <2>3, <2>4, <2>5 DEF ChannelInv
<1>3. ASSUME NEW s \in Sids
      PROVE  EntryInv(s)
  BY LoginAssumption DEF Init, EntryInv, Continues, Limit
<1>4. ASSUME NEW a \in Addrs
      PROVE  ScoreInv(a)
  <2>1. wrong \in [Sids -> 0 .. Most]
    BY LoginAssumption DEF Init, Most
  <2>2. From(a) = {}
    BY DEF Init, From, Told
  <2>3. Marks(wrong, From(a)) = {}
    BY <2>2 DEF Marks
  <2>4. Guesses(a) = 0 /\ Cardinality(Failed(a)) \in Nat
    BY <2>1, <2>3, GuessesNow, FS_EmptySet
  <2> QED
    BY <2>4, LoginAssumption DEF ScoreInv, Init
<1> QED
  BY <1>1, <1>2, <1>3, <1>4 DEF LoginInv

\* Every step keeps the invariant.
LEMMA LoginNext ==
  ASSUME LoginInv, [Next]_vars
  PROVE  LoginInv'
<1>1. CASE UNCHANGED vars
  <2>1. UNCHANGED <<config, worker, sock, entry, score, wrong, proved>>
    BY <1>1 DEF vars
  <2>2. TypeOK' /\ ChannelInv'
    BY <2>1 DEF LoginInv, TypeOK, ChannelInv, Message, Told, Unused, Waiting, methods
  <2>3. \A s \in Sids : EntryInv(s)'
    BY <2>1 DEF LoginInv, EntryInv, Continues, Module, Satisfied, methods, Limit
  <2>4. \A a \in Addrs : ScoreInv(a)'
    BY <2>1 DEF LoginInv, ScoreInv, Guesses, Failed, From, Told, Module, methods
  <2> QED
    BY <2>2, <2>3, <2>4 DEF LoginInv
<1>2. ASSUME NEW w \in Workers, NEW a \in Addrs, NEW c \in CertUsers \cup {None}, Accept(w, a, c)
      PROVE  LoginInv'
  BY <1>2, AcceptInv
<1>3. ASSUME NEW w \in Workers, NEW h \in Headers,
             Form(w, h) \/ PostInit(w, h) \/ PostRefused(w, h) \/ Connect(w, h)
      PROVE  LoginInv'
  BY <1>3, FormInv, PostInitInv, PostRefusedInv, ConnectInv
<1>4. ASSUME NEW w \in Workers, NEW h \in Headers, NEW good \in BOOLEAN, PostCont(w, h, good)
      PROVE  LoginInv'
  BY <1>4, PostContInv
<1>5. ASSUME NEW w \in Workers, SecMod(w)
      PROVE  LoginInv'
  BY <1>5, SecAuthInitInv, SecAuthContRefused, SecAuthContGoes, SecAuthContNoSidInv DEF SecMod
<1>6. ASSUME NEW w \in Workers,
             RecvReply(w) \/ Connected(w) \/ Term(w) \/ Alarm(w) \/ Leave(w) \/ TunnelEnds(w)
      PROVE  LoginInv'
  BY <1>6, RecvReplyInv, ConnectedInv, TermInv, AlarmInv, LeaveInv
<1> QED
  BY <1>1, <1>2, <1>3, <1>4, <1>5, <1>6 DEF Next

\* The inductive invariant of the login dialogue.
THEOREM LoginInvariant == Spec => []LoginInv
<1>1. Init => LoginInv
  BY LoginInit
<1>2. LoginInv /\ [Next]_vars => LoginInv'
  BY LoginNext
<1> QED
  BY <1>1, <1>2, PTL DEF Spec

\* worker_st, the entries and the scores keep their types.
THEOREM LoginTyped == Spec => []TypeOK
<1>1. LoginInv => TypeOK
  BY DEF LoginInv
<1> QED
  BY <1>1, LoginInvariant, PTL

\* A cookie is given only when one configured method was satisfied in full, for
\* one name and in one conversation, whatever connections it moved between
\* (post_auth_handler, handle_sec_auth_init, handle_sec_auth_cont).
THEOREM CookiesAreProven == Spec => []CookieProven
<1>1. LoginInv => CookieProven
  BY DEF LoginInv, EntryInv, CookieProven, Issued
<1> QED
  BY <1>1, LoginInvariant, PTL

\* The wrong answers sec-mod looks at are bounded, in a conversation by the tries
\* or the prompts and, but for PAM, from an address by the ban and the
\* conversations it had begun (handle_sec_auth_res, sec_mod_add_score_to_ip).
THEOREM GuessesAreBounded == Spec => []GuessesBounded
<1>1. ASSUME LoginInv
      PROVE  GuessesBounded
  <2>1. \A s \in Sids : wrong[s] <= Limit(entry[s])
    BY <1>1 DEF LoginInv, EntryInv
  <2>2. ASSUME NEW a \in Addrs, MaxBanScore > 0, From(a) # {}
        PROVE  Guesses(a) < MaxBanScore + Cardinality(From(a))
    <3>1. From(a) \in SUBSET Sids /\ Failed(a) \in SUBSET From(a)
      BY DEF From, Failed, Told
    <3>2. IsFiniteSet(From(a))
      BY <3>1, LoginAssumption, FS_Subset
    <3>3. Cardinality(From(a)) \in Nat /\ Cardinality(From(a)) # 0
      BY <2>2, <3>2, FS_CardinalityType, FS_EmptySet
    <3>4. Cardinality(Failed(a)) <= Cardinality(From(a))
      BY <3>1, <3>2, FS_Subset
    <3>5. Guesses(a) \in Nat /\ Cardinality(Failed(a)) \in Nat
      BY <1>1, WrongBounded, GuessesNow
    <3>6. ScoreInv(a) /\ score[a] \in Nat /\ MaxBanScore \in Nat
      BY <1>1, LoginAssumption DEF LoginInv, TypeOK
    <3> QED
      BY <2>2, <3>3, <3>4, <3>5, <3>6 DEF ScoreInv
  <2> QED
    BY <2>1, <2>2 DEF GuessesBounded
<1> QED
  BY <1>1, LoginInvariant, PTL

=============================================================================
