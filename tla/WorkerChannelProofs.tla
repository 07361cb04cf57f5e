------------------------ MODULE WorkerChannelProofs ------------------------
(***************************************************************************)
(* Theorems about the command sockets between main and its workers, for    *)
(* every number of procs, addresses and TLS session IDs, every size of the *)
(* cache and every length of the streams.                                  *)
(*                                                                         *)
(* The argument is about one slot at a time: SlotInv speaks of a proc, its *)
(* worker and their two streams as values, every kind of step has a lemma  *)
(* about those values, and SlotStep carries it over to all slots.  What    *)
(* the streams contribute is said once, by what Append, Tail and a header  *)
(* taken without its body do to the messages of a kind.                    *)
(***************************************************************************)
EXTENDS WorkerChannel, SequenceTheorems, WellFoundedInduction, TLAPS

\* A nonempty set of natural numbers has a least element: induction over numbers
\* in the form the provers can use.
LEMMA LeastNumber ==
  ASSUME NEW T \in SUBSET Nat, T # {}
  PROVE  \E x \in T : \A y \in T : x <= y
<1> DEFINE R == {ss \in Nat \X Nat : ss[1] < ss[2]}
<1>1. IsWellFoundedOn(R, Nat)
  BY NatLessThanWellFounded DEF OpToRel
<1>2. \A x, y \in Nat : y < x => <<y, x>> \in R
  OBVIOUS
<1> HIDE DEF R
<1>3. PICK x \in T : \A y \in T : ~ (<<y, x>> \in R)
  BY <1>1, WFMin
<1>4. \A y \in T : ~(y < x)
  BY <1>2, <1>3
<1> QED
  BY <1>4

(***************************************************************************)
(* Streams                                                                 *)
(***************************************************************************)

\* A message put at the end of a stream.
LEMMA AtEnd ==
  ASSUME NEW M, NEW s \in Seq(M), NEW m \in M
  PROVE  /\ Append(s, m) \in Seq(M) /\ Append(s, m) # <<>>
         /\ Len(s) \in Nat /\ Len(Append(s, m)) = Len(s) + 1
         /\ \A i \in 1 .. Len(s) : Append(s, m)[i] = s[i]
         /\ Append(s, m)[Len(s) + 1] = m
         /\ s # <<>> => Head(Append(s, m)) = Head(s)
         /\ s = <<>> => Head(Append(s, m)) = m
<1>1. /\ Append(s, m) \in Seq(M) /\ Append(s, m) # <<>>
      /\ Len(s) \in Nat /\ Len(Append(s, m)) = Len(s) + 1
      /\ \A i \in 1 .. Len(s) : Append(s, m)[i] = s[i]
      /\ Append(s, m)[Len(s) + 1] = m
  BY AppendProperties, LenProperties
<1>2. /\ s # <<>> => Head(Append(s, m)) = Head(s)
      /\ s = <<>> => Head(Append(s, m)) = m
  BY <1>1, HeadTailProperties, EmptySeq
<1> QED
  BY <1>1, <1>2

\* It is one more of its kind, and nothing for the other kinds.
LEMMA OfAppend ==
  ASSUME NEW M, NEW s \in Seq(M), NEW m \in M, NEW c
  PROVE  Of(Append(s, m), c) = IF m.cmd = c THEN Of(s, c) \cup {Len(s) + 1} ELSE Of(s, c)
<1>1. /\ Len(s) \in Nat /\ Len(Append(s, m)) = Len(s) + 1
      /\ \A i \in 1 .. Len(s) : Append(s, m)[i] = s[i]
      /\ Append(s, m)[Len(s) + 1] = m
  BY AtEnd
<1> QED
  BY <1>1 DEF Of

\* The message at the head of a stream taken away.
LEMMA AtHead ==
  ASSUME NEW M, NEW s \in Seq(M), s # <<>>
  PROVE  /\ Head(s) \in M /\ Head(s) = s[1] /\ Tail(s) \in Seq(M)
         /\ Len(s) \in Nat /\ Len(s) >= 1 /\ Len(Tail(s)) = Len(s) - 1
         /\ \A i \in 1 .. Len(Tail(s)) : Tail(s)[i] = s[i + 1]
         /\ Len(s) = 1 <=> Tail(s) = <<>>
<1>1. /\ Head(s) \in M /\ Head(s) = s[1] /\ Tail(s) \in Seq(M)
      /\ Len(s) \in Nat /\ Len(s) >= 1 /\ Len(Tail(s)) = Len(s) - 1
      /\ \A i \in 1 .. Len(Tail(s)) : Tail(s)[i] = s[i + 1]
  BY HeadTailProperties, LenProperties, EmptySeq
<1>2. Len(s) = 1 <=> Tail(s) = <<>>
  <2>1. Tail(s) = <<>> => Len(Tail(s)) = 0
    BY EmptySeq
  <2>2. Tail(s) # <<>> => Len(Tail(s)) \in Nat \ {0}
    BY <1>1, EmptySeq
  <2> QED
    BY <1>1, <2>1, <2>2, SMT
<1> QED
  BY <1>1, <1>2

\* The others of its kind move up by one.
LEMMA OfTail ==
  ASSUME NEW M, NEW s \in Seq(M), s # <<>>, NEW c
  PROVE  /\ 1 \in Of(s, c) <=> Head(s).cmd = c
         /\ \A i \in Of(Tail(s), c) : i + 1 \in Of(s, c) /\ Tail(s)[i] = s[i + 1]
         /\ \A i \in Of(s, c) : i # 1 => i - 1 \in Of(Tail(s), c)
<1>1. /\ Head(s) = s[1]
      /\ Len(s) \in Nat /\ Len(s) >= 1 /\ Len(Tail(s)) = Len(s) - 1
      /\ \A i \in 1 .. Len(Tail(s)) : Tail(s)[i] = s[i + 1]
  BY AtHead
<1>3. 1 \in Of(s, c) <=> Head(s).cmd = c
  BY <1>1 DEF Of
<1>4. ASSUME NEW i \in Of(Tail(s), c)
      PROVE  i + 1 \in Of(s, c) /\ Tail(s)[i] = s[i + 1]
  BY <1>1 DEF Of
<1>5. ASSUME NEW i \in Of(s, c), i # 1 PROVE i - 1 \in Of(Tail(s), c)
  BY <1>1, <1>5 DEF Of
<1> QED
  BY <1>3, <1>4, <1>5

\* A header taken away and its body left.
LEMMA AtBody ==
  ASSUME NEW M, NEW s \in Seq(M), s # <<>>, [cmd |-> "body"] \in M
  PROVE  LET t == [s EXCEPT ![1] = [cmd |-> "body"]]
         IN  /\ t \in Seq(M) /\ t # <<>> /\ Stuck(t) /\ Len(t) = Len(s)
             /\ \A i \in 1 .. Len(s) : t[i] = IF i = 1 THEN [cmd |-> "body"] ELSE s[i]
<1>1. Len(s) \in Nat /\ Len(s) >= 1
  BY AtHead
<1>2. PICK t : t = [s EXCEPT ![1] = [cmd |-> "body"]]
  OBVIOUS
<1>3. /\ t \in Seq(M) /\ Len(t) = Len(s)
      /\ \A i \in 1 .. Len(s) : t[i] = IF i = 1 THEN [cmd |-> "body"] ELSE s[i]
  BY <1>1, <1>2, ExceptSeq
<1>4. t # <<>>
  BY <1>1, <1>3, EmptySeq
<1>5. Head(t) = [cmd |-> "body"]
  BY <1>1, <1>3, <1>4, AtHead
<1>6. Stuck(t)
  BY <1>4, <1>5 DEF Stuck
<1> QED
  BY <1>2, <1>3, <1>4, <1>6, Zenon

(***************************************************************************)
(* One slot                                                                *)
(***************************************************************************)

\* No more messages of the kind c than before, the same ones, at most the first of
\* the stream taken away.
Fewer(s, t, c) ==
  \E k \in {0, 1} : \A i \in Of(t, c) : i + k \in Of(s, c) /\ t[i] = s[i + k]

\* Positions are numbers.
LEMMA OfNat ==
  ASSUME NEW s, NEW c, NEW i \in Of(s, c)
  PROVE  i \in Int
BY DEF Of

\* A stream has no more messages than itself.
LEMMA FewerSame ==
  ASSUME NEW s, NEW c
  PROVE  Fewer(s, s, c)
<1>1. \A i \in Of(s, c) : i + 0 \in Of(s, c) /\ s[i] = s[i + 0]
  BY OfNat
<1> QED
  BY <1>1 DEF Fewer

\* After its head is read.
LEMMA FewerTail ==
  ASSUME NEW M, NEW s \in Seq(M), s # <<>>, NEW c
  PROVE  Fewer(s, Tail(s), c)
<1>1. \A i \in Of(Tail(s), c) : i + 1 \in Of(s, c) /\ Tail(s)[i] = s[i + 1]
  BY OfTail
<1> QED
  BY <1>1 DEF Fewer

\* After a header was refused and its body left.
LEMMA FewerBody ==
  ASSUME NEW M, NEW s \in Seq(M), s # <<>>, [cmd |-> "body"] \in M, NEW c, c # "body"
  PROVE  Fewer(s, [s EXCEPT ![1] = [cmd |-> "body"]], c)
<1>1. PICK t : t = [s EXCEPT ![1] = [cmd |-> "body"]]
  OBVIOUS
<1>2. /\ Len(t) = Len(s) /\ Len(s) \in Nat /\ Len(s) >= 1
      /\ \A i \in 1 .. Len(s) : t[i] = IF i = 1 THEN [cmd |-> "body"] ELSE s[i]
  BY <1>1, AtBody, AtHead
<1>3. \A i \in Of(t, c) : i + 0 \in Of(s, c) /\ t[i] = s[i + 0]
  BY <1>2 DEF Of
<1>4. Fewer(s, t, c)
  BY <1>3 DEF Fewer
<1> QED
  BY <1>1, <1>4, Zenon

\* After a message of another kind is put at its end.
LEMMA FewerAppend ==
  ASSUME NEW M, NEW s \in Seq(M), NEW m \in M, NEW c, m.cmd # c
  PROVE  Fewer(s, Append(s, m), c)
<1>1. Of(Append(s, m), c) = Of(s, c) /\ \A i \in 1 .. Len(s) : Append(s, m)[i] = s[i]
  BY OfAppend, AtEnd
<1>2. \A i \in Of(Append(s, m), c) : i + 0 \in Of(s, c) /\ Append(s, m)[i] = s[i + 0]
  BY <1>1 DEF Of
<1> QED
  BY <1>2 DEF Fewer

\* What the TLS session cache is to a slot stays true when the streams carry fewer of
\* its messages and the worker goes on in the same phase or leaves.
LEMMA FetchKept ==
  ASSUME NEW r, NEW w, NEW u, NEW d, NEW r2, NEW w2, NEW u2, NEW d2,
         FetchInv(r, w, u, d),
         Fewer(u, u2, "RESUME_FETCH_REQ"), Fewer(d, d2, "RESUME_FETCH_REP"),
         Stuck(d) => Stuck(d2), r2.addr = r.addr,
         w2.offered = w.offered, w2.resumed = w.resumed,
         w.pc = "left" => w2.pc = "left",
         w.pc \in {"wait_resume", "rehandshake"} => w2.pc \in {w.pc, "left"}
  PROVE  FetchInv(r2, w2, u2, d2)
<1> DEFINE A == Of(u, "RESUME_FETCH_REQ") B == Of(d, "RESUME_FETCH_REP")
           A2 == Of(u2, "RESUME_FETCH_REQ") B2 == Of(d2, "RESUME_FETCH_REP")
<1>1. PICK k \in {0, 1} : \A i \in A2 : i + k \in A /\ u2[i] = u[i + k]
  BY DEF Fewer
<1>2. PICK l \in {0, 1} : \A i \in B2 : i + l \in B /\ d2[i] = d[i + l]
  BY DEF Fewer
<1>3. A2 \subseteq Int /\ B2 \subseteq Int
  BY OfNat
<1>4. /\ ~Stuck(d) /\ w.pc # "left" =>
           /\ w.pc \notin {"wait_resume", "rehandshake"} => A = {} /\ B = {}
           /\ A = {} \/ B = {}
           /\ \A i, j \in A : i = j
           /\ \A i, j \in B : i = j
           /\ \A i \in A : u[i].id = w.offered
           /\ \A i \in B : d[i].data # None => d[i].data.id = w.offered /\ d[i].data.addr = r.addr
      /\ w.resumed # None => w.resumed.id = w.offered /\ w.resumed.addr = r.addr
  BY DEF FetchInv
<1> HIDE DEF A, B, A2, B2
<1>5. ASSUME ~Stuck(d2), w2.pc # "left"
      PROVE  /\ w2.pc \notin {"wait_resume", "rehandshake"} => A2 = {} /\ B2 = {}
             /\ A2 = {} \/ B2 = {}
             /\ \A i, j \in A2 : i = j
             /\ \A i, j \in B2 : i = j
             /\ \A i \in A2 : u2[i].id = w2.offered
             /\ \A i \in B2 : d2[i].data # None => d2[i].data.id = w2.offered /\ d2[i].data.addr = r2.addr
  <2>1. ~Stuck(d) /\ w.pc # "left"
    BY <1>5
  <2>2. (A = {} => A2 = {}) /\ (B = {} => B2 = {})
    BY <1>1, <1>2
  <2>3. w2.pc \notin {"wait_resume", "rehandshake"} => A2 = {} /\ B2 = {}
    BY <1>4, <1>5, <2>1, <2>2
  <2>4. \A i, j \in A2 : i = j
    BY <1>1, <1>3, <1>4, <2>1
  <2>5. \A i, j \in B2 : i = j
    BY <1>2, <1>3, <1>4, <2>1
  <2> QED
    BY <1>1, <1>2, <1>4, <2>1, <2>2, <2>3, <2>4, <2>5
<1> QED
  BY <1>4, <1>5 DEF FetchInv, A2, B2

\* What the login is to a slot stays true when the login goes no further: the same
\* cookie at the end of the stream, no new answer, and nothing lost that the worker
\* waits for.
LEMMA LoginKept ==
  ASSUME NEW r, NEW w, NEW u, NEW d, NEW r2, NEW w2, NEW u2, NEW d2,
         LoginInv(r, w, u, d), r2.status = r.status, r2.script = r.script,
         w2.pc \in {w.pc, "left"},
         \A i \in Of(u2, "AUTH_COOKIE_REQ") : i = Len(u2) /\ Of(u, "AUTH_COOKIE_REQ") # {},
         Of(u2, "CMD_TUN_MTU") # {} => Of(u, "CMD_TUN_MTU") # {},
         Fewer(d, d2, "AUTH_COOKIE_REP"),
         w2.pc = "wait_cookie" /\ Of(d, "AUTH_COOKIE_REP") # {} => Of(d2, "AUTH_COOKIE_REP") # {},
         w2.pc = "rehandshake" => d2 # <<>> \/ Of(u2, "RESUME_FETCH_REQ") # {}
  PROVE  LoginInv(r2, w2, u2, d2)
<1> DEFINE A == Of(u, "AUTH_COOKIE_REQ") B == Of(d, "AUTH_COOKIE_REP")
           A2 == Of(u2, "AUTH_COOKIE_REQ") B2 == Of(d2, "AUTH_COOKIE_REP")
<1>1. /\ w.pc \in {"handshake", "wait_resume", "http"} =>
           r.status = "inactive" /\ ~r.script /\ A = {}
      /\ A # {} => w.pc \in {"wait_cookie", "left"} /\ r.status = "inactive" /\ ~r.script
      /\ Of(u, "CMD_TUN_MTU") # {} => r.status = "completed"
      /\ w.pc \in {"tunnel", "rehandshake"} => r.status = "completed"
      /\ r.script => r.status = "failed"
      /\ \A i \in B : d[i].ok => r.status = "completed"
      /\ w.pc = "wait_cookie" /\ r.status = "completed" => B # {}
  BY DEF LoginInv
<1>2. PICK k \in {0, 1} : \A i \in B2 : i + k \in B /\ d2[i] = d[i + k]
  BY DEF Fewer
<1> HIDE DEF A, B, A2, B2
<1>3. \A i \in A2 : i = Len(u2) /\ A # {}
  BY DEF A, A2
<1>4. w2.pc = "wait_cookie" /\ B # {} => B2 # {}
  BY DEF B, B2
<1>5. /\ w2.pc \in {"handshake", "wait_resume", "http"} =>
           r2.status = "inactive" /\ ~r2.script /\ A2 = {}
      /\ \A i \in A2 : /\ i = Len(u2) /\ w2.pc \in {"wait_cookie", "left"}
                       /\ r2.status = "inactive" /\ ~r2.script
      /\ Of(u2, "CMD_TUN_MTU") # {} => r2.status = "completed"
      /\ w2.pc \in {"tunnel", "rehandshake"} => r2.status = "completed"
      /\ r2.script => r2.status = "failed"
      /\ w2.pc = "wait_cookie" /\ r2.status = "completed" => B2 # {}
  BY <1>1, <1>3, <1>4
<1>6. \A i \in B2 : d2[i].ok => r2.status = "completed"
  BY <1>1, <1>2
<1> QED
  BY <1>5, <1>6 DEF LoginInv, A2, B2

\* A cookie that is last in a stream is last in the rest of it.
LEMMA LastTail ==
  ASSUME NEW M, NEW u \in Seq(M), u # <<>>, NEW c, \A i \in Of(u, c) : i = Len(u)
  PROVE  \A i \in Of(Tail(u), c) : i = Len(Tail(u)) /\ Of(u, c) # {}
<1>1. \A i \in Of(Tail(u), c) : i \in Int /\ i + 1 \in Of(u, c)
  BY OfTail, OfNat
<1>2. Len(Tail(u)) = Len(u) - 1 /\ Len(u) \in Int
  BY AtHead
<1> QED
  BY <1>1, <1>2

\* main reads a request that is neither a question for the cache nor a cookie.
LEMMA SlotServed ==
  ASSUME NEW r, NEW w, NEW u \in Seq(Up), NEW d \in Seq(Down), SlotInv(r, w, u, d),
         r.status # "free", u # <<>>,
         Head(u).cmd \notin {"RESUME_FETCH_REQ", "AUTH_COOKIE_REQ"}
  PROVE  SlotInv(r, w, Tail(u), d)
<1>1. FetchInv(r, w, Tail(u), d)
  BY FetchKept, FewerTail, FewerSame DEF SlotInv
<1>2. LoginInv(r, w, Tail(u), d)
  <2>1. LoginInv(r, w, u, d)
    BY DEF SlotInv
  <2>2. \A i \in Of(Tail(u), "AUTH_COOKIE_REQ") : i = Len(Tail(u)) /\ Of(u, "AUTH_COOKIE_REQ") # {}
    BY <2>1, LastTail DEF LoginInv
  <2>3. Of(Tail(u), "CMD_TUN_MTU") # {} => Of(u, "CMD_TUN_MTU") # {}
    BY OfTail
  <2>4. Of(u, "RESUME_FETCH_REQ") # {} => Of(Tail(u), "RESUME_FETCH_REQ") # {}
    BY OfTail
  <2>5. w.pc = "rehandshake" => d # <<>> \/ Of(Tail(u), "RESUME_FETCH_REQ") # {}
    BY <2>1, <2>4 DEF LoginInv
  <2> QED
    BY <2>1, <2>2, <2>3, <2>5, FewerSame, LoginKept
<1> QED
  BY <1>1, <1>2 DEF SlotInv

\* main answers a question for the cache with what was stored for that client.
LEMMA SlotFetched ==
  ASSUME NEW r \in Proc, NEW w, NEW u \in Seq(Up), NEW d \in Seq(Down), SlotInv(r, w, u, d),
         r.status # "free", u # <<>>, Head(u).cmd = "RESUME_FETCH_REQ", w.pc # "left",
         NEW r2, r2 = [r EXCEPT !.fetched = TRUE],
         NEW m \in Down, m.cmd = "RESUME_FETCH_REP",
         m.data # None => m.data.id = Head(u).id /\ m.data.addr = r.addr
  PROVE  SlotInv(r2, w, Tail(u), Append(d, m))
<1> DEFINE A == Of(u, "RESUME_FETCH_REQ") B == Of(d, "RESUME_FETCH_REP")
           A2 == Of(Tail(u), "RESUME_FETCH_REQ") B2 == Of(Append(d, m), "RESUME_FETCH_REP")
<1>0. r2.status = r.status /\ r2.addr = r.addr /\ r2.script = r.script
  BY DEF Proc
<1>1. FetchInv(r2, w, Tail(u), Append(d, m))
  <2>1. ASSUME ~Stuck(Append(d, m)) PROVE ~Stuck(d)
    BY <2>1, AtEnd DEF Stuck
  <2>2. ASSUME ~Stuck(Append(d, m))
        PROVE  /\ w.pc \in {"wait_resume", "rehandshake"}
               /\ A2 = {} /\ B2 = {Len(d) + 1}
               /\ Append(d, m)[Len(d) + 1] = m /\ Head(u).id = w.offered
    <3>1. 1 \in A /\ u[1] = Head(u)
      BY AtHead, OfTail
    <3>2. B = {} /\ (\A i \in A : i = 1) /\ u[1].id = w.offered /\ w.pc \in {"wait_resume", "rehandshake"}
      BY <2>1, <2>2, <3>1 DEF SlotInv, FetchInv
    <3>3. \A i \in A2 : i + 1 \in A /\ i \in Nat /\ i >= 1
      <4>1. \A i \in A2 : i \in Nat /\ i >= 1
        BY DEF Of
      <4> QED
        BY <4>1, OfTail
    <3>4. A2 = {}
      BY <3>2, <3>3
    <3>5. B2 = B \cup {Len(d) + 1} /\ Append(d, m)[Len(d) + 1] = m
      BY OfAppend, AtEnd
    <3> QED
      BY <3>1, <3>2, <3>4, <3>5
  <2>3. w.resumed # None => w.resumed.id = w.offered /\ w.resumed.addr = r2.addr
    BY <1>0 DEF SlotInv, FetchInv
  <2> QED
    BY <1>0, <2>2, <2>3 DEF FetchInv
<1>2. LoginInv(r2, w, Tail(u), Append(d, m))
  <2>1. LoginInv(r, w, u, d)
    BY DEF SlotInv
  <2>2. \A i \in Of(Tail(u), "AUTH_COOKIE_REQ") : i = Len(Tail(u)) /\ Of(u, "AUTH_COOKIE_REQ") # {}
    BY <2>1, LastTail DEF LoginInv
  <2>3. Of(Tail(u), "CMD_TUN_MTU") # {} => Of(u, "CMD_TUN_MTU") # {}
    BY OfTail
  <2>4. Of(Append(d, m), "AUTH_COOKIE_REP") = Of(d, "AUTH_COOKIE_REP") /\ Append(d, m) # <<>>
    BY AtEnd, OfAppend
  <2>5. Fewer(d, Append(d, m), "AUTH_COOKIE_REP")
    BY FewerAppend
  <2> QED
    BY <1>0, <2>1, <2>2, <2>3, <2>4, <2>5, LoginKept
<1> QED
  BY <1>0, <1>1, <1>2 DEF SlotInv

\* main takes a cookie: it is the only thing in the stream, the worker waits for the
\* answer or is gone, and nothing was answered before.
LEMMA CookieFacts ==
  ASSUME NEW r, NEW w, NEW u \in Seq(Up), NEW d, SlotInv(r, w, u, d),
         r.status # "free", u # <<>>, Head(u).cmd = "AUTH_COOKIE_REQ"
  PROVE  /\ w.pc \in {"wait_cookie", "left"} /\ r.status = "inactive" /\ ~r.script
         /\ Tail(u) = <<>> /\ \A c : Of(Tail(u), c) = {}
         /\ \A i \in Of(d, "AUTH_COOKIE_REP") : ~d[i].ok
<1>1. LoginInv(r, w, u, d)
  BY DEF SlotInv
<1>2. 1 \in Of(u, "AUTH_COOKIE_REQ")
  BY OfTail
<1>3. /\ 1 = Len(u) /\ w.pc \in {"wait_cookie", "left"} /\ r.status = "inactive" /\ ~r.script
      /\ \A i \in Of(d, "AUTH_COOKIE_REP") : ~d[i].ok
  BY <1>1, <1>2 DEF LoginInv
<1>4. Tail(u) = <<>>
  BY <1>3, AtHead
<1>5. \A c : Of(<<>>, c) = {}
  BY DEF Of
<1> QED
  BY <1>3, <1>4, <1>5

\* The questions and answers of the cache do not change when main reads something.
LEMMA TailFetch ==
  ASSUME NEW r, NEW w, NEW u \in Seq(Up), NEW d, FetchInv(r, w, u, d), u # <<>>,
         NEW r2, r2.addr = r.addr
  PROVE  FetchInv(r2, w, Tail(u), d)
<1>1. Fewer(u, Tail(u), "RESUME_FETCH_REQ") /\ Fewer(d, d, "RESUME_FETCH_REP")
  BY FewerTail, FewerSame
<1> QED
  BY <1>1, FetchKept

\* The same for a message of another kind from main.
LEMMA AppendFetch ==
  ASSUME NEW r, NEW w, NEW u, NEW d \in Seq(Down), FetchInv(r, w, u, d),
         NEW r2, r2.addr = r.addr, NEW m \in Down, m.cmd \notin {"RESUME_FETCH_REP", "body"}
  PROVE  FetchInv(r2, w, u, Append(d, m))
<1>1. Fewer(u, u, "RESUME_FETCH_REQ") /\ Fewer(d, Append(d, m), "RESUME_FETCH_REP")
  BY FewerAppend, FewerSame
<1>2. Stuck(d) => Stuck(Append(d, m))
  BY AtEnd DEF Stuck
<1> QED
  BY <1>1, <1>2, FetchKept

\* The cookie is refused.
LEMMA SlotRefused ==
  ASSUME NEW r \in Proc, NEW w, NEW u \in Seq(Up), NEW d \in Seq(Down), SlotInv(r, w, u, d),
         r.status # "free", u # <<>>, Head(u).cmd = "AUTH_COOKIE_REQ", w.pc # "left",
         NEW t \in BOOLEAN, NEW r2, r2 = [r EXCEPT !.status = "failed", !.in_table = t],
         NEW m \in Down, m.cmd = "AUTH_COOKIE_REP", ~m.ok
  PROVE  SlotInv(r2, w, Tail(u), Append(d, m))
<1>1. r2.status = "failed" /\ r2.addr = r.addr /\ r2.script = r.script
  BY DEF Proc
<1>2. FetchInv(r2, w, Tail(u), Append(d, m))
  <2>1. FetchInv(r2, w, Tail(u), d)
    BY <1>1, TailFetch DEF SlotInv
  <2> QED
    BY <2>1, AppendFetch
<1>3. /\ w.pc = "wait_cookie" /\ r.status = "inactive" /\ ~r.script
      /\ Tail(u) = <<>> /\ \A c : Of(Tail(u), c) = {}
      /\ \A i \in Of(d, "AUTH_COOKIE_REP") : ~d[i].ok
  BY CookieFacts
<1>4. \A i \in Of(Append(d, m), "AUTH_COOKIE_REP") : ~Append(d, m)[i].ok
  <2>1. Of(d, "AUTH_COOKIE_REP") \subseteq 1 .. Len(d)
    BY DEF Of
  <2> QED
    BY <1>3, <2>1, AtEnd, OfAppend
<1>5. LoginInv(r2, w, Tail(u), Append(d, m))
  BY <1>1, <1>3, <1>4 DEF LoginInv
<1> QED
  BY <1>1, <1>2, <1>3, <1>5 DEF SlotInv

\* It is accepted at once.
LEMMA SlotAccepted ==
  ASSUME NEW r \in Proc, NEW w, NEW u \in Seq(Up), NEW d \in Seq(Down), SlotInv(r, w, u, d),
         r.status # "free", u # <<>>, Head(u).cmd = "AUTH_COOKIE_REQ", w.pc # "left",
         NEW r2, r2 = [r EXCEPT !.in_table = TRUE, !.status = "completed"],
         NEW m \in Down, m.cmd = "AUTH_COOKIE_REP"
  PROVE  SlotInv(r2, w, Tail(u), Append(d, m))
<1>1. r2.status = "completed" /\ r2.addr = r.addr /\ r2.script = r.script
  BY DEF Proc
<1>2. FetchInv(r2, w, Tail(u), Append(d, m))
  <2>1. FetchInv(r2, w, Tail(u), d)
    BY <1>1, TailFetch DEF SlotInv
  <2> QED
    BY <2>1, AppendFetch
<1>3. /\ w.pc = "wait_cookie" /\ ~r.script
      /\ Tail(u) = <<>> /\ \A c : Of(Tail(u), c) = {}
  BY CookieFacts
<1>4. Of(Append(d, m), "AUTH_COOKIE_REP") # {}
  <2>1. Of(Append(d, m), "AUTH_COOKIE_REP") = Of(d, "AUTH_COOKIE_REP") \cup {Len(d) + 1}
    BY OfAppend
  <2> QED
    BY <2>1
<1>5. LoginInv(r2, w, Tail(u), Append(d, m))
  BY <1>1, <1>3, <1>4 DEF LoginInv
<1> QED
  BY <1>1, <1>2, <1>3, <1>5 DEF SlotInv

\* It is accepted and the connect script starts.
LEMMA SlotScript ==
  ASSUME NEW r \in Proc, NEW w, NEW u \in Seq(Up), NEW d \in Seq(Down), SlotInv(r, w, u, d),
         r.status # "free", u # <<>>, Head(u).cmd = "AUTH_COOKIE_REQ",
         NEW r2, r2 = [r EXCEPT !.in_table = TRUE, !.script = TRUE, !.status = "failed"]
  PROVE  SlotInv(r2, w, Tail(u), d)
<1>1. r2.status = "failed" /\ r2.addr = r.addr /\ r2.script
  BY DEF Proc
<1>2. FetchInv(r2, w, Tail(u), d)
  <2>1. FetchInv(r, w, u, d)
    BY DEF SlotInv
  <2> QED
    BY <1>1, <2>1, TailFetch
<1>3. /\ w.pc \in {"wait_cookie", "left"} /\ r.status = "inactive"
      /\ Tail(u) = <<>> /\ \A c : Of(Tail(u), c) = {}
      /\ \A i \in Of(d, "AUTH_COOKIE_REP") : ~d[i].ok
  BY CookieFacts
<1>4. LoginInv(r2, w, Tail(u), d)
  BY <1>1, <1>3 DEF LoginInv
<1> QED
  BY <1>1, <1>2, <1>3, <1>4 DEF SlotInv

\* The script ended, well or not: the worker still waits, and gets the answer now.
LEMMA SlotScriptDone ==
  ASSUME NEW r \in Proc, NEW w \in Worker, NEW u \in Seq(Up), NEW d \in Seq(Down), SlotInv(r, w, u, d),
         r.script, w.pc # "left", NEW ok \in BOOLEAN,
         NEW r2, r2 = [r EXCEPT !.script = FALSE, !.status = IF ok THEN "completed" ELSE @],
         NEW m \in Down, m.cmd = "AUTH_COOKIE_REP", m.ok = ok
  PROVE  SlotInv(r2, w, u, Append(d, m))
<1>1. r2.status = (IF ok THEN "completed" ELSE r.status) /\ r2.addr = r.addr /\ ~r2.script
  BY DEF Proc
<1>2. r.status # "free" /\ LoginInv(r, w, u, d) /\ FetchInv(r, w, u, d)
  BY DEF SlotInv
<1>3. /\ r.status = "failed" /\ Of(u, "AUTH_COOKIE_REQ") = {} /\ w.pc = "wait_cookie"
      /\ Of(u, "CMD_TUN_MTU") = {} /\ \A i \in Of(d, "AUTH_COOKIE_REP") : ~d[i].ok
  BY <1>2 DEF LoginInv, Worker, SlotInv
<1>4. FetchInv(r2, w, u, Append(d, m))
  BY <1>1, <1>2, AppendFetch
<1>5. /\ Of(Append(d, m), "AUTH_COOKIE_REP") # {}
      /\ \A i \in Of(Append(d, m), "AUTH_COOKIE_REP") : Append(d, m)[i].ok => ok
  <2>1. Of(Append(d, m), "AUTH_COOKIE_REP") = Of(d, "AUTH_COOKIE_REP") \cup {Len(d) + 1}
    BY OfAppend
  <2>2. /\ Append(d, m)[Len(d) + 1] = m
        /\ \A i \in Of(d, "AUTH_COOKIE_REP") : Append(d, m)[i] = d[i]
    BY AtEnd DEF Of
  <2> QED
    BY <1>3, <2>1, <2>2
<1>6. LoginInv(r2, w, u, Append(d, m))
  BY <1>1, <1>3, <1>5 DEF LoginInv
<1> QED
  BY <1>1, <1>3, <1>4, <1>6 DEF SlotInv

\* main pushes a UDP socket between question and answer.
LEMMA SlotForward ==
  ASSUME NEW r \in Proc, NEW w, NEW u \in Seq(Up), NEW d \in Seq(Down), SlotInv(r, w, u, d),
         r.in_table, NEW r2, r2 = [r EXCEPT !.fd_age = 0],
         NEW m \in Down, m.cmd = "CMD_UDP_FD"
  PROVE  SlotInv(r2, w, u, Append(d, m))
<1>1. r2.status = r.status /\ r2.addr = r.addr /\ r2.script = r.script
  BY DEF Proc
<1>2. r.status # "free" /\ w.pc # "none" /\ LoginInv(r, w, u, d) /\ FetchInv(r, w, u, d)
  BY DEF SlotInv
<1>3. FetchInv(r2, w, u, Append(d, m))
  BY <1>1, <1>2, AppendFetch
<1>4. LoginInv(r2, w, u, Append(d, m))
  <2>1. Of(Append(d, m), "AUTH_COOKIE_REP") = Of(d, "AUTH_COOKIE_REP") /\ Append(d, m) # <<>>
    BY AtEnd, OfAppend
  <2>2. Fewer(d, Append(d, m), "AUTH_COOKIE_REP")
    BY FewerAppend
  <2>3. \A i \in Of(u, "AUTH_COOKIE_REQ") : i = Len(u) /\ Of(u, "AUTH_COOKIE_REQ") # {}
    BY <1>2 DEF LoginInv
  <2> QED
    BY <1>1, <1>2, <2>1, <2>2, <2>3, LoginKept
<1> QED
  BY <1>1, <1>2, <1>3, <1>4 DEF SlotInv

\* Nor when the worker sends another kind of message.
LEMMA SendFetch ==
  ASSUME NEW r, NEW w, NEW w2, NEW u \in Seq(Up), NEW d, FetchInv(r, w, u, d),
         NEW m \in Up, m.cmd # "RESUME_FETCH_REQ",
         w2.offered = w.offered, w2.resumed = w.resumed,
         w.pc \notin {"wait_resume", "rehandshake", "left"}
  PROVE  FetchInv(r, w2, u, d) /\ FetchInv(r, w2, Append(u, m), d)
<1>1. Fewer(u, Append(u, m), "RESUME_FETCH_REQ") /\ Fewer(d, d, "RESUME_FETCH_REP")
  BY FewerSame, FewerAppend
<1>2. Fewer(u, u, "RESUME_FETCH_REQ")
  BY FewerSame
<1> QED
  BY <1>1, <1>2, FetchKept

\* The worker sends something that is neither a question, a cookie nor an MTU, and
\* goes on or leaves (Handshaken and Delete).
LEMMA SlotSent ==
  ASSUME NEW r, NEW w \in Worker, NEW u \in Seq(Up), NEW d, SlotInv(r, w, u, d),
         w.pc = "handshake", NEW pc \in {"http", "left"}, NEW w2, w2 = [w EXCEPT !.pc = pc],
         NEW m \in Up, m.cmd \notin {"RESUME_FETCH_REQ", "AUTH_COOKIE_REQ", "CMD_TUN_MTU"}
  PROVE  /\ SlotInv(r, w2, u, d)
         /\ r.status # "free" => SlotInv(r, w2, Append(u, m), d)
<1>1. w2.pc = pc /\ w2.offered = w.offered /\ w2.resumed = w.resumed
  BY DEF Worker
<1>2. CASE r.status = "free"
  BY <1>1, <1>2 DEF SlotInv
<1>3. CASE r.status # "free"
  <2>1. FetchInv(r, w, u, d) /\ LoginInv(r, w, u, d)
    BY <1>3 DEF SlotInv
  <2>2. FetchInv(r, w2, u, d) /\ FetchInv(r, w2, Append(u, m), d)
    BY <1>1, <2>1, SendFetch
  <2>3. /\ Of(Append(u, m), "AUTH_COOKIE_REQ") = Of(u, "AUTH_COOKIE_REQ")
        /\ Of(Append(u, m), "CMD_TUN_MTU") = Of(u, "CMD_TUN_MTU")
    BY OfAppend
  <2>4. /\ r.status = "inactive" /\ ~r.script /\ Of(u, "AUTH_COOKIE_REQ") = {}
        /\ Of(u, "CMD_TUN_MTU") = {} /\ \A i \in Of(d, "AUTH_COOKIE_REP") : ~d[i].ok
    BY <2>1 DEF LoginInv
  <2>5. LoginInv(r, w2, u, d) /\ LoginInv(r, w2, Append(u, m), d)
    BY <1>1, <2>3, <2>4 DEF LoginInv
  <2> QED
    BY <1>1, <1>3, <2>2, <2>5 DEF SlotInv
<1> QED
  BY <1>2, <1>3

\* The worker asks for a TLS session, in its first handshake or in a later one.
LEMMA SlotFetch ==
  ASSUME NEW r, NEW w \in Worker, NEW u \in Seq(Up), NEW d, SlotInv(r, w, u, d),
         w.pc \in {"handshake", "tunnel"}, NEW id \in Ids, NEW w2,
         w2 = [w EXCEPT !.pc = IF @ = "handshake" THEN "wait_resume" ELSE "rehandshake",
                        !.offered = id, !.resumed = None],
         NEW m \in Up, m.cmd = "RESUME_FETCH_REQ", m.id = id
  PROVE  /\ r.status = "free" => SlotInv(r, w2, u, d)
         /\ r.status # "free" => SlotInv(r, w2, Append(u, m), d)
<1>1. /\ w2.pc = IF w.pc = "handshake" THEN "wait_resume" ELSE "rehandshake"
      /\ w2.offered = id /\ w2.resumed = None
  BY DEF Worker
<1>2. CASE r.status = "free"
  BY <1>1, <1>2 DEF SlotInv
<1>3. CASE r.status # "free"
  <2>1. FetchInv(r, w, u, d) /\ LoginInv(r, w, u, d)
    BY <1>3 DEF SlotInv
  <2>2. Of(Append(u, m), "RESUME_FETCH_REQ") = Of(u, "RESUME_FETCH_REQ") \cup {Len(u) + 1}
    BY OfAppend
  <2>3. FetchInv(r, w2, Append(u, m), d)
    <3>1. ~Stuck(d) => Of(u, "RESUME_FETCH_REQ") = {} /\ Of(d, "RESUME_FETCH_REP") = {}
      BY <2>1 DEF FetchInv
    <3>2. Append(u, m)[Len(u) + 1] = m
      BY AtEnd
    <3> QED
      BY <1>1, <2>2, <3>1, <3>2 DEF FetchInv
  <2>4. /\ Of(Append(u, m), "AUTH_COOKIE_REQ") = Of(u, "AUTH_COOKIE_REQ")
        /\ Of(Append(u, m), "CMD_TUN_MTU") = Of(u, "CMD_TUN_MTU")
    BY OfAppend
  <2>5. Of(u, "AUTH_COOKIE_REQ") = {}
    BY <2>1 DEF LoginInv
  <2>6. CASE w.pc = "handshake"
    <3>1. /\ w2.pc = "wait_resume" /\ r.status = "inactive" /\ ~r.script
          /\ Of(u, "CMD_TUN_MTU") = {} /\ \A i \in Of(d, "AUTH_COOKIE_REP") : ~d[i].ok
      BY <1>1, <2>1, <2>6 DEF LoginInv
    <3>2. LoginInv(r, w2, Append(u, m), d)
      BY <2>4, <2>5, <3>1 DEF LoginInv
    <3> QED
      BY <1>3, <2>3, <3>1, <3>2 DEF SlotInv
  <2>7. CASE w.pc = "tunnel"
    <3>1. w2.pc = "rehandshake" /\ r.status = "completed" /\ ~r.script
      BY <1>1, <2>1, <2>7 DEF LoginInv
    <3>2. Of(Append(u, m), "RESUME_FETCH_REQ") # {}
      BY <2>2
    <3>3. LoginInv(r, w2, Append(u, m), d)
      BY <2>4, <2>5, <3>1, <3>2 DEF LoginInv
    <3> QED
      BY <1>3, <2>3, <3>1, <3>3 DEF SlotInv
  <2> QED
    BY <2>6, <2>7
<1> QED
  BY <1>2, <1>3

\* The worker sends the cookie.
LEMMA SlotCookie ==
  ASSUME NEW r, NEW w \in Worker, NEW u \in Seq(Up), NEW d, SlotInv(r, w, u, d),
         w.pc = "http", NEW w2, w2 = [w EXCEPT !.pc = "wait_cookie"],
         NEW m \in Up, m.cmd = "AUTH_COOKIE_REQ"
  PROVE  /\ r.status = "free" => SlotInv(r, w2, u, d)
         /\ r.status # "free" => SlotInv(r, w2, Append(u, m), d)
<1>1. w2.pc = "wait_cookie" /\ w2.offered = w.offered /\ w2.resumed = w.resumed
  BY DEF Worker
<1>2. CASE r.status = "free"
  BY <1>1, <1>2 DEF SlotInv
<1>3. CASE r.status # "free"
  <2>1. FetchInv(r, w, u, d) /\ LoginInv(r, w, u, d)
    BY <1>3 DEF SlotInv
  <2>2. FetchInv(r, w2, Append(u, m), d)
    BY <1>1, <2>1, SendFetch
  <2>3. /\ Of(Append(u, m), "AUTH_COOKIE_REQ") = Of(u, "AUTH_COOKIE_REQ") \cup {Len(u) + 1}
        /\ Of(Append(u, m), "CMD_TUN_MTU") = Of(u, "CMD_TUN_MTU")
        /\ Len(Append(u, m)) = Len(u) + 1
    BY OfAppend, AtEnd
  <2>4. /\ r.status = "inactive" /\ ~r.script /\ Of(u, "AUTH_COOKIE_REQ") = {}
        /\ Of(u, "CMD_TUN_MTU") = {} /\ \A i \in Of(d, "AUTH_COOKIE_REP") : ~d[i].ok
    BY <2>1 DEF LoginInv
  <2>5. LoginInv(r, w2, Append(u, m), d)
    BY <1>1, <2>3, <2>4 DEF LoginInv
  <2> QED
    BY <1>1, <1>3, <2>2, <2>5 DEF SlotInv
<1> QED
  BY <1>2, <1>3

\* The worker in its tunnel sends an MTU.
LEMMA SlotMtu ==
  ASSUME NEW r, NEW w, NEW u \in Seq(Up), NEW d, SlotInv(r, w, u, d),
         w.pc = "tunnel", r.status # "free", NEW m \in Up, m.cmd = "CMD_TUN_MTU"
  PROVE  SlotInv(r, w, Append(u, m), d)
<1>1. FetchInv(r, w, u, d) /\ LoginInv(r, w, u, d)
  BY DEF SlotInv
<1>2. FetchInv(r, w, Append(u, m), d)
  BY <1>1, SendFetch
<1>3. Of(Append(u, m), "AUTH_COOKIE_REQ") = Of(u, "AUTH_COOKIE_REQ")
  BY OfAppend
<1>4. Of(u, "AUTH_COOKIE_REQ") = {} /\ r.status = "completed" /\ ~r.script
  BY <1>1 DEF LoginInv
<1>5. LoginInv(r, w, Append(u, m), d)
  BY <1>1, <1>3, <1>4 DEF LoginInv
<1> QED
  BY <1>2, <1>5 DEF SlotInv

\* The worker reads what it does not wait for, or an answer main did not mean well,
\* and leaves the body in the stream.
LEMMA SlotBody ==
  ASSUME NEW r, NEW w \in Worker, NEW u, NEW d \in Seq(Down), SlotInv(r, w, u, d), d # <<>>,
         NEW pc, pc = "left" \/ (w.pc = "wait_resume" /\ pc = "handshake")
                            \/ (w.pc = "rehandshake" /\ pc = "tunnel"),
         w.pc # "none", NEW w2, w2 = [w EXCEPT !.pc = pc],
         NEW d2, d2 = [d EXCEPT ![1] = [cmd |-> "body"]]
  PROVE  SlotInv(r, w2, u, d2)
<1>1. w2.pc = pc /\ w2.offered = w.offered /\ w2.resumed = w.resumed
  BY DEF Worker
<1>2. CASE r.status = "free"
  BY <1>1, <1>2 DEF SlotInv
<1>3. CASE r.status # "free"
  <2>1. FetchInv(r, w, u, d) /\ LoginInv(r, w, u, d)
    BY <1>3 DEF SlotInv
  <2>2. [cmd |-> "body"] \in Down
    BY DEF Down
  <2>3. Stuck(d2) /\ d2 # <<>>
    BY <2>2, AtBody
  <2>4. FetchInv(r, w2, u, d2)
    BY <1>1, <2>1, <2>3 DEF FetchInv
  <2>5. PICK k \in {0, 1} : \A i \in Of(d2, "AUTH_COOKIE_REP") :
          i + k \in Of(d, "AUTH_COOKIE_REP") /\ d2[i] = d[i + k]
    <3>1. Fewer(d, d2, "AUTH_COOKIE_REP")
      BY <2>2, FewerBody, Zenon
    <3> QED
      BY <3>1 DEF Fewer
  <2>6. \A i \in Of(d2, "AUTH_COOKIE_REP") : d2[i].ok => r.status = "completed"
    BY <2>1, <2>5 DEF LoginInv
  <2>7. \A i \in Of(u, "AUTH_COOKIE_REQ") : i = Len(u) /\ w.pc \in {"wait_cookie", "left"}
    BY <2>1 DEF LoginInv
  <2>8. LoginInv(r, w2, u, d2)
    BY <1>1, <2>1, <2>3, <2>6, <2>7 DEF LoginInv
  <2> QED
    BY <1>1, <1>3, <2>4, <2>8 DEF SlotInv
<1> QED
  BY <1>2, <1>3

\* The worker leaves on its own account.
LEMMA SlotLeft ==
  ASSUME NEW r, NEW w \in Worker, NEW u, NEW d, SlotInv(r, w, u, d),
         w.pc # "none", NEW w2, w2 = [w EXCEPT !.pc = "left"]
  PROVE  SlotInv(r, w2, u, d)
<1>1. w2.pc = "left" /\ w2.offered = w.offered /\ w2.resumed = w.resumed
  BY DEF Worker
<1>2. r.status # "free" => FetchInv(r, w2, u, d)
  BY <1>1 DEF FetchInv, SlotInv
<1>3. r.status # "free" => LoginInv(r, w2, u, d)
  BY <1>1 DEF LoginInv, SlotInv
<1> QED
  BY <1>1, <1>2, <1>3 DEF SlotInv

\* The worker reads the answer of the cache and resumes the TLS session, or not.
LEMMA SlotResumed ==
  ASSUME NEW r, NEW w \in Worker, NEW u, NEW d \in Seq(Down), SlotInv(r, w, u, d), d # <<>>,
         w.pc \in {"wait_resume", "rehandshake"}, Head(d).cmd = "RESUME_FETCH_REP",
         NEW hit \in BOOLEAN, hit => Head(d).data # None, NEW w2,
         w2 = [w EXCEPT !.pc = IF w.pc = "wait_resume" THEN "handshake" ELSE "tunnel",
                        !.resumed = IF hit THEN Head(d).data ELSE @]
  PROVE  SlotInv(r, w2, u, Tail(d))
<1>1. /\ w2.pc = IF w.pc = "wait_resume" THEN "handshake" ELSE "tunnel"
      /\ w2.offered = w.offered /\ w2.resumed = IF hit THEN Head(d).data ELSE w.resumed
  BY DEF Worker
<1>2. CASE r.status = "free"
  BY <1>1, <1>2 DEF SlotInv
<1>3. CASE r.status # "free"
  <2>1. FetchInv(r, w, u, d) /\ LoginInv(r, w, u, d) /\ ~Stuck(d)
    BY <1>3 DEF SlotInv, Stuck
  <2>2. 1 \in Of(d, "RESUME_FETCH_REP") /\ d[1] = Head(d)
    BY OfTail, AtHead
  <2>3. /\ Of(u, "RESUME_FETCH_REQ") = {} /\ \A i \in Of(d, "RESUME_FETCH_REP") : i = 1
        /\ hit => Head(d).data.id = w.offered /\ Head(d).data.addr = r.addr
        /\ w.resumed # None => w.resumed.id = w.offered /\ w.resumed.addr = r.addr
    BY <2>1, <2>2 DEF FetchInv
  <2>4. Of(Tail(d), "RESUME_FETCH_REP") = {}
    <3>1. \A i \in Of(Tail(d), "RESUME_FETCH_REP") : i \in Nat /\ i >= 1
      BY DEF Of
    <3>2. \A i \in Of(Tail(d), "RESUME_FETCH_REP") : i + 1 \in Of(d, "RESUME_FETCH_REP")
      BY OfTail
    <3> QED
      BY <2>3, <3>1, <3>2
  <2>5. FetchInv(r, w2, u, Tail(d))
    BY <1>1, <2>3, <2>4 DEF FetchInv
  <2>6. PICK k \in {0, 1} : \A i \in Of(Tail(d), "AUTH_COOKIE_REP") :
          i + k \in Of(d, "AUTH_COOKIE_REP") /\ Tail(d)[i] = d[i + k]
    BY FewerTail DEF Fewer
  <2>7. \A i \in Of(Tail(d), "AUTH_COOKIE_REP") : Tail(d)[i].ok => r.status = "completed"
    BY <2>1, <2>6 DEF LoginInv
  <2>8. LoginInv(r, w2, u, Tail(d))
    <3>1. /\ w.pc = "wait_resume" => r.status = "inactive" /\ ~r.script
          /\ w.pc = "rehandshake" => r.status = "completed"
          /\ Of(u, "AUTH_COOKIE_REQ") = {} /\ (r.script => r.status = "failed")
          /\ Of(u, "CMD_TUN_MTU") # {} => r.status = "completed"
      BY <2>1 DEF LoginInv
    <3>2. CASE w.pc = "wait_resume"
      <4>1. w2.pc = "handshake"
        BY <1>1, <3>2
      <4> QED
        BY <2>7, <3>1, <3>2, <4>1 DEF LoginInv
    <3>3. CASE w.pc = "rehandshake"
      <4>1. w2.pc = "tunnel"
        BY <1>1, <3>3
      <4> QED
        BY <2>7, <3>1, <3>3, <4>1 DEF LoginInv
    <3> QED
      BY <3>2, <3>3
  <2> QED
    BY <1>1, <1>3, <2>5, <2>8 DEF SlotInv
<1> QED
  BY <1>2, <1>3

\* The cache is not concerned when the worker reads something it does understand
\* while it does not wait for the cache.
LEMMA ReadFetch ==
  ASSUME NEW r, NEW w, NEW w2, NEW u, NEW d \in Seq(Down), FetchInv(r, w, u, d),
         d # <<>>, ~Stuck(d), w2.offered = w.offered, w2.resumed = w.resumed,
         w.pc \notin {"wait_resume", "rehandshake", "left"}
  PROVE  FetchInv(r, w2, u, Tail(d))
<1>1. Fewer(u, u, "RESUME_FETCH_REQ") /\ Fewer(d, Tail(d), "RESUME_FETCH_REP")
  BY FewerSame, FewerTail
<1> QED
  BY <1>1, FetchKept

\* The worker that waits for the answer to its cookie gets a good one.
LEMMA SlotTunnel ==
  ASSUME NEW r, NEW w \in Worker, NEW u, NEW d \in Seq(Down), SlotInv(r, w, u, d), d # <<>>,
         w.pc = "wait_cookie", Head(d).cmd = "AUTH_COOKIE_REP", Head(d).ok,
         NEW w2, w2 = [w EXCEPT !.pc = "tunnel"]
  PROVE  SlotInv(r, w2, u, Tail(d))
<1>1. w2.pc = "tunnel" /\ w2.offered = w.offered /\ w2.resumed = w.resumed
  BY DEF Worker
<1>2. CASE r.status = "free"
  BY <1>1, <1>2 DEF SlotInv
<1>3. CASE r.status # "free"
  <2>1. FetchInv(r, w, u, d) /\ LoginInv(r, w, u, d) /\ ~Stuck(d)
    BY <1>3 DEF SlotInv, Stuck
  <2>2. 1 \in Of(d, "AUTH_COOKIE_REP") /\ d[1] = Head(d)
    BY OfTail, AtHead
  <2>3. r.status = "completed" /\ ~r.script /\ Of(u, "AUTH_COOKIE_REQ") = {}
    BY <2>1, <2>2 DEF LoginInv
  <2>4. FetchInv(r, w2, u, Tail(d))
    BY <1>1, <2>1, ReadFetch
  <2>5. LoginInv(r, w2, u, Tail(d))
    BY <1>1, <2>3 DEF LoginInv
  <2> QED
    BY <1>1, <1>3, <2>4, <2>5 DEF SlotInv
<1> QED
  BY <1>2, <1>3

\* The worker in its tunnel takes a UDP socket.
LEMMA SlotUdp ==
  ASSUME NEW r, NEW w, NEW u, NEW d \in Seq(Down), SlotInv(r, w, u, d), d # <<>>,
         w.pc = "tunnel", Head(d).cmd = "CMD_UDP_FD",
         NEW w2, w2.pc = "tunnel", w2.offered = w.offered, w2.resumed = w.resumed
  PROVE  SlotInv(r, w2, u, Tail(d))
<1>1. CASE r.status = "free"
  BY <1>1 DEF SlotInv
<1>2. CASE r.status # "free"
  <2>1. FetchInv(r, w, u, d) /\ LoginInv(r, w, u, d) /\ ~Stuck(d)
    BY <1>2 DEF SlotInv, Stuck
  <2>2. FetchInv(r, w2, u, Tail(d))
    BY <2>1, ReadFetch
  <2>3. LoginInv(r, w2, u, Tail(d))
    BY <2>1 DEF LoginInv
  <2> QED
    BY <1>2, <2>2, <2>3 DEF SlotInv
<1> QED
  BY <1>1, <1>2

\* What the invariant does not look at may change.
LEMMA SlotSame ==
  ASSUME NEW r, NEW w, NEW u, NEW d, SlotInv(r, w, u, d), NEW r2, NEW w2,
         r2.status = r.status, r2.addr = r.addr, r2.script = r.script, r2.in_table = r.in_table,
         w2.pc = w.pc, w2.offered = w.offered, w2.resumed = w.resumed
  PROVE  SlotInv(r2, w2, u, d)
<1>1. FetchInv(r, w, u, d) => FetchInv(r2, w2, u, d)
  BY DEF FetchInv
<1>2. LoginInv(r, w, u, d) => LoginInv(r2, w2, u, d)
  BY DEF LoginInv
<1> QED
  BY <1>1, <1>2 DEF SlotInv

(***************************************************************************)
(* The cache                                                               *)
(***************************************************************************)

\* v is what expire_tls_sessions keeps of the first k entries of s, for k up to n.
IsKept(v, n, s) ==
  /\ v \in [0 .. n -> Seq(Entry)] /\ v[0] = <<>>
  /\ \A k \in 1 .. n :
       v[k] = IF s[k].age <= SessionExpiration THEN Append(v[k - 1], s[k]) ELSE v[k - 1]
  /\ \A k \in 0 .. n : Len(v[k]) <= k

\* It exists for every prefix and never has more entries than the prefix.
LEMMA KeptExists ==
  ASSUME NEW s \in Seq(Entry), NEW N \in Nat, N <= Len(s)
  PROVE  \E v : IsKept(v, N, s)
<1> DEFINE Bad == {n \in Nat : n <= Len(s) /\ ~ \E v : IsKept(v, n, s)}
<1>0. Len(s) \in Nat
  BY LenProperties
<1>1. SUFFICES ASSUME Bad # {} PROVE FALSE
  BY Zenon
<1>2. PICK n \in Bad : \A m \in Bad : n <= m
  BY <1>1, LeastNumber
<1>3. n \in Nat /\ n <= Len(s) /\ ~ \E v : IsKept(v, n, s)
  BY <1>2
<1>4. n # 0
  <2>1. <<>> \in Seq(Entry) /\ Len(<<>>) = 0
    BY EmptySeq
  <2>2. PICK v : v = [k \in 0 .. 0 |-> <<>>]
    OBVIOUS
  <2>3. v \in [0 .. 0 -> Seq(Entry)] /\ v[0] = <<>> /\ \A k \in 0 .. 0 : Len(v[k]) <= k
    <3>1. \A k \in 0 .. 0 : k = 0 /\ v[k] = <<>>
      BY <2>2
    <3> QED
      BY <2>1, <2>2, <3>1
  <2>4. IsKept(v, 0, s)
    BY <2>3 DEF IsKept
  <2> QED
    BY <2>4, <1>3
<1>5. PICK v : IsKept(v, n - 1, s)
  <2>1. n - 1 \in Nat /\ n - 1 \notin Bad /\ n - 1 <= Len(s)
    <3> HIDE DEF Bad
    <3> QED BY <1>0, <1>2, <1>3, <1>4
  <2> QED
    BY <2>1
<1>6. s[n] \in Entry /\ n \in 1 .. Len(s) /\ n - 1 \in 0 .. n - 1
  BY <1>0, <1>3, <1>4, ElementOfSeq
<1>7. v[n - 1] \in Seq(Entry) /\ Len(v[n - 1]) <= n - 1
  BY <1>5, <1>6 DEF IsKept
<1>8. PICK e : e = IF s[n].age <= SessionExpiration THEN Append(v[n - 1], s[n]) ELSE v[n - 1]
  OBVIOUS
<1>9. e \in Seq(Entry) /\ Len(e) <= n
  <2> HIDE DEF Entry
  <2>1. /\ Append(v[n - 1], s[n]) \in Seq(Entry)
        /\ Len(Append(v[n - 1], s[n])) = Len(v[n - 1]) + 1 /\ Len(v[n - 1]) \in Nat
    BY <1>6, <1>7, AtEnd
  <2> QED
    BY <1>3, <1>7, <1>8, <2>1
<1>10. PICK x : x = [k \in 0 .. n |-> IF k = n THEN e ELSE v[k]]
  OBVIOUS
<1>11. ASSUME NEW k \in 0 .. n PROVE x[k] \in Seq(Entry) /\ Len(x[k]) <= k
  <2>1. CASE k = n
    BY <1>9, <1>10, <2>1
  <2>2. CASE k # n
    <3>1. k \in 0 .. n - 1 /\ x[k] = v[k]
      BY <1>3, <1>10, <2>2
    <3> QED
      BY <1>5, <3>1 DEF IsKept
  <2> QED
    BY <2>1, <2>2
<1>12. ASSUME NEW k \in 1 .. n
       PROVE  x[k] = IF s[k].age <= SessionExpiration THEN Append(x[k - 1], s[k]) ELSE x[k - 1]
  <2>1. k - 1 \in 0 .. n /\ k \in 0 .. n /\ k - 1 # n /\ x[k - 1] = v[k - 1]
    BY <1>3, <1>10
  <2>2. CASE k = n
    BY <1>8, <1>10, <2>1, <2>2
  <2>3. CASE k # n
    <3>1. k \in 1 .. n - 1 /\ x[k] = v[k]
      BY <1>3, <1>10, <2>1, <2>3
    <3> QED
      BY <1>5, <2>1, <3>1 DEF IsKept
  <2> QED
    BY <2>2, <2>3
<1>13. x \in [0 .. n -> Seq(Entry)] /\ x[0] = <<>>
  <2>1. x[0] = v[0] /\ v[0] = <<>>
    BY <1>3, <1>4, <1>5, <1>10 DEF IsKept
  <2> QED
    BY <1>10, <1>11, <2>1
<1>14. IsKept(x, n, s)
  BY <1>11, <1>12, <1>13 DEF IsKept
<1> QED
  BY <1>3, <1>14

\* What expire_tls_sessions keeps is a sequence of entries, not longer than the cache.
LEMMA UnexpiredFacts ==
  ASSUME cache \in Seq(Entry)
  PROVE  Unexpired[Len(cache)] \in Seq(Entry) /\ Len(Unexpired[Len(cache)]) <= Len(cache)
<1> DEFINE Step(f) == [n \in 0 .. Len(cache) |->
             IF n = 0 THEN <<>>
             ELSE IF cache[n].age <= SessionExpiration THEN Append(f[n - 1], cache[n])
             ELSE f[n - 1]]
<1>1. Len(cache) \in Nat
  BY LenProperties
<1>2. PICK v : IsKept(v, Len(cache), cache)
  BY <1>1, KeptExists
<1>3. v = Step(v)
  <2>1. ASSUME NEW n \in 0 .. Len(cache)
        PROVE  v[n] = IF n = 0 THEN <<>>
                      ELSE IF cache[n].age <= SessionExpiration THEN Append(v[n - 1], cache[n])
                      ELSE v[n - 1]
    <3>1. CASE n = 0
      BY <1>2, <3>1 DEF IsKept
    <3>2. CASE n # 0
      <4>1. n \in 1 .. Len(cache)
        BY <1>1, <3>2
      <4> QED
        BY <1>2, <3>2, <4>1 DEF IsKept
    <3> QED
      BY <3>1, <3>2
  <2> QED
    BY <1>2, <2>1 DEF IsKept
<1>4. Unexpired = CHOOSE f : f = Step(f)
  BY DEF Unexpired
<1>5. PICK c : c = Unexpired /\ c = Step(c)
  <2> HIDE DEF Step
  <2> QED BY <1>3, <1>4
<1>6. c = v
  <2> DEFINE Bad == {n \in 0 .. Len(cache) : c[n] # v[n]}
  <2>1. SUFFICES ASSUME Bad # {} PROVE FALSE
    <3>1. ASSUME Bad = {} PROVE \A n \in 0 .. Len(cache) : c[n] = v[n]
      BY <3>1
    <3> QED
      BY <1>2, <1>5, <3>1 DEF IsKept
  <2>2. PICK n \in Bad : \A j \in Bad : n <= j
    <3>1. Bad \in SUBSET Nat
      BY <1>1
    <3> HIDE DEF Bad
    <3> QED
      BY <2>1, <3>1, LeastNumber
  <2>3. n \in 0 .. Len(cache) /\ c[n] # v[n]
    BY <2>2
  <2>4. n # 0
    BY <1>2, <1>5, <2>3 DEF IsKept
  <2>5. n - 1 \in 0 .. Len(cache) /\ n - 1 \notin Bad
    <3>1. n - 1 \in 0 .. Len(cache) /\ ~(n <= n - 1)
      BY <1>1, <2>3, <2>4
    <3> HIDE DEF Bad
    <3> QED
      BY <2>2, <3>1
  <2>6. c[n - 1] = v[n - 1]
    BY <2>5
  <2>7. c[n] = Step(v)[n]
    BY <1>5, <2>3, <2>6
  <2> QED
    BY <1>3, <2>3, <2>7
<1>7. v[Len(cache)] \in Seq(Entry) /\ Len(v[Len(cache)]) <= Len(cache)
  <2>1. Len(cache) \in 0 .. Len(cache)
    BY <1>1
  <2> QED
    BY <1>2, <2>1 DEF IsKept
<1> QED
  BY <1>5, <1>6, <1>7

\* A search that succeeds ends at one of the positions it looks for.
LEMMA FirstOf ==
  ASSUME NEW n \in Nat, NEW I \in SUBSET (1 .. n), I # {}
  PROVE  Min(I) \in I
<1>1. I \in SUBSET Nat
  OBVIOUS
<1>2. \E x \in I : \A y \in I : x <= y
  BY <1>1, LeastNumber
<1> QED
  BY <1>2 DEF Min

\* handle_resume_fetch_req brings nothing, or an entry with that ID stored from that
\* address.
LEMMA FetchedEntry ==
  ASSUME cache \in Seq(Entry), NEW id, NEW a
  PROVE  LET e == handle_resume_fetch_req(id, a)
         IN  e \in Entry \cup {None} /\ (e # None => e.id = id /\ e.addr = a)
<1> DEFINE I == {i \in 1 .. Len(cache) : cache[i].id = id /\ cache[i].addr = a}
<1>1. Len(cache) \in Nat
  BY LenProperties
<1>2. CASE I = {}
  BY <1>2 DEF handle_resume_fetch_req, SelectInSeq
<1>3. CASE I # {}
  <2>3. Min(I) \in I
    <3>1. I \in SUBSET (1 .. Len(cache))
      OBVIOUS
    <3> HIDE DEF I
    <3> QED BY <1>1, <1>3, <3>1, FirstOf
  <2>4. PICK k : k = Min(I)
    OBVIOUS
  <2>5. k \in 1 .. Len(cache) /\ cache[k].id = id /\ cache[k].addr = a
    BY <2>3, <2>4
  <2>6. cache[k] \in Entry
    BY <2>5, ElementOfSeq
  <2>7. handle_resume_fetch_req(id, a) = IF k = 0 THEN None ELSE cache[k]
    BY <1>3, <2>4 DEF handle_resume_fetch_req, SelectInSeq
  <2> QED
    BY <2>5, <2>6, <2>7
<1> QED
  BY <1>2, <1>3

\* An entry taken out of the cache.
LEMMA Removal ==
  ASSUME NEW s \in Seq(Entry), NEW k \in 1 .. Len(s)
  PROVE  RemoveAt(s, k) \in Seq(Entry) /\ Len(RemoveAt(s, k)) = Len(s) - 1
<1>1. Len(s) \in Nat /\ \A i \in 1 .. Len(s) : s[i] \in Entry
  BY LenProperties, ElementOfSeq
<1> HIDE DEF Entry
<1>2. /\ SubSeq(s, 1, k - 1) \in Seq(Entry) /\ Len(SubSeq(s, 1, k - 1)) = k - 1
  <2>1. \A i \in 1 .. k - 1 : s[i] \in Entry
    BY <1>1
  <2>2. k - 1 \in Int /\ 1 \in Int /\ (1 <= k - 1 \/ k - 1 = 0)
    BY <1>1
  <2>3. /\ SubSeq(s, 1, k - 1) \in Seq(Entry)
        /\ Len(SubSeq(s, 1, k - 1)) = IF 1 <= k - 1 THEN (k - 1) - 1 + 1 ELSE 0
    BY <2>1, <2>2, SubSeqProperties
  <2> QED
    BY <1>1, <2>2, <2>3
<1>3. SubSeq(s, k + 1, Len(s)) \in Seq(Entry) /\ Len(SubSeq(s, k + 1, Len(s))) = Len(s) - k
  <2>1. \A i \in k + 1 .. Len(s) : s[i] \in Entry
    BY <1>1
  <2>2. k + 1 \in Int /\ Len(s) \in Int
    BY <1>1
  <2>3. /\ SubSeq(s, k + 1, Len(s)) \in Seq(Entry)
        /\ Len(SubSeq(s, k + 1, Len(s))) = IF k + 1 <= Len(s) THEN Len(s) - (k + 1) + 1 ELSE 0
    BY <2>1, <2>2, SubSeqProperties
  <2> QED
    BY <1>1, <2>2, <2>3
<1>4. /\ RemoveAt(s, k) \in Seq(Entry)
      /\ Len(RemoveAt(s, k)) = Len(SubSeq(s, 1, k - 1)) + Len(SubSeq(s, k + 1, Len(s)))
  BY <1>2, <1>3, ConcatProperties DEF RemoveAt
<1>5. k \in Int /\ Len(s) \in Int
  BY <1>1
<1>6. (k - 1) + (Len(s) - k) = Len(s) - 1
  BY <1>5
<1>7. Len(RemoveAt(s, k)) = (k - 1) + (Len(s) - k)
  BY <1>2, <1>3, <1>4, Zenon
<1> QED
  BY <1>4, <1>6, <1>7, Zenon

(***************************************************************************)
(* The steps                                                               *)
(***************************************************************************)

\* WorkerChannelInv in three parts: the slots, the cache and the rest.
SlotsInv ==
  /\ proc \in [Procs -> Proc] /\ worker \in [Procs -> Worker]
  /\ up \in [Procs -> Seq(Up)] /\ down \in [Procs -> Seq(Down)]
  /\ \A p \in Procs : SlotInv(proc[p], worker[p], up[p], down[p])

CacheInv ==
  cache \in Seq(Entry) /\ entries \in Nat /\ entries = Len(cache) /\ entries <= MaxCache

OthersInv == client \in [Procs -> {"data", "hello"}] /\ shared \in BOOLEAN

\* Together they are WorkerChannelInv.
LEMMA Parts == WorkerChannelInv <=> SlotsInv /\ CacheInv /\ OthersInv
BY DEF WorkerChannelInv, TypeOK, SlotsInv, CacheInv, OthersInv

\* What a slot is after a step.
Slot(p, r, w, u, d) ==
  /\ proc' = [proc EXCEPT ![p] = r] /\ worker' = [worker EXCEPT ![p] = w]
  /\ up' = [up EXCEPT ![p] = u] /\ down' = [down EXCEPT ![p] = d]

\* A step that changes one slot, and leaves that one in order, leaves all in order.
LEMMA SlotStep ==
  ASSUME SlotsInv, NEW p \in Procs,
         NEW r \in Proc, NEW w \in Worker, NEW u \in Seq(Up), NEW d \in Seq(Down),
         SlotInv(r, w, u, d), Slot(p, r, w, u, d)
  PROVE  SlotsInv'
<1> HIDE DEF Proc, Worker, Up, Down
<1>1. /\ proc' \in [Procs -> Proc] /\ worker' \in [Procs -> Worker]
      /\ up' \in [Procs -> Seq(Up)] /\ down' \in [Procs -> Seq(Down)]
  BY DEF SlotsInv, Slot
<1>2. ASSUME NEW q \in Procs PROVE SlotInv(proc'[q], worker'[q], up'[q], down'[q])
  <2>1. CASE q = p
    <3>1. proc'[q] = r /\ worker'[q] = w /\ up'[q] = u /\ down'[q] = d
      BY <2>1 DEF SlotsInv, Slot
    <3> QED
      BY <3>1
  <2>2. CASE q # p
    <3>1. proc'[q] = proc[q] /\ worker'[q] = worker[q] /\ up'[q] = up[q] /\ down'[q] = down[q]
      BY <2>2 DEF SlotsInv, Slot
    <3> QED
      BY <3>1 DEF SlotsInv
  <2> QED
    BY <2>1, <2>2
<1>3. \A q \in Procs : SlotInv(proc'[q], worker'[q], up'[q], down'[q])
  BY <1>2
<1>4. \A q \in Procs : SlotInv(proc[q], worker[q], up[q], down[q])'
  BY <1>3 DEF SlotInv, FetchInv, LoginInv, Stuck, Of
<1> QED
  BY <1>1, <1>4 DEF SlotsInv

\* What is known of one slot.
LEMMA SlotFacts ==
  ASSUME SlotsInv, NEW p \in Procs
  PROVE  /\ proc[p] \in Proc /\ worker[p] \in Worker
         /\ up[p] \in Seq(Up) /\ down[p] \in Seq(Down)
         /\ SlotInv(proc[p], worker[p], up[p], down[p])
BY DEF SlotsInv

\* A component of a slot that stays.
LEMMA SlotStays ==
  ASSUME SlotsInv, NEW p \in Procs
  PROVE  /\ UNCHANGED proc => proc' = [proc EXCEPT ![p] = proc[p]]
         /\ UNCHANGED worker => worker' = [worker EXCEPT ![p] = worker[p]]
         /\ UNCHANGED up => up' = [up EXCEPT ![p] = up[p]]
         /\ UNCHANGED down => down' = [down EXCEPT ![p] = down[p]]
<1> HIDE DEF Proc, Worker, Up, Down
<1> QED
  BY DEF SlotsInv

\* New procs, new workers and the messages have their types.
LEMMA NewTyped ==
  /\ \A a \in Addrs : /\ NewProc(a) \in Proc /\ [NewProc(a) EXCEPT !.status = "free"] \in Proc
                       /\ NewProc(a).status = "inactive" /\ ~NewProc(a).script /\ ~NewProc(a).in_table
                       /\ [NewProc(a) EXCEPT !.status = "free"].status = "free"
                       /\ ~[NewProc(a) EXCEPT !.status = "free"].script
                       /\ ~[NewProc(a) EXCEPT !.status = "free"].in_table
  /\ \A pc \in {"none", "handshake"} :
       NewWorker(pc) \in Worker /\ NewWorker(pc).pc = pc /\ NewWorker(pc).resumed = None
<1>1. UDP_FD_RESEND_TIME + 1 \in 0 .. UDP_FD_RESEND_TIME + 1 /\ 0 \in 0 .. ACTIVE_SESSION_TIMEOUT
  BY WorkerChannelAssumption
<1> QED
  BY <1>1 DEF NewProc, Proc, NewWorker, Worker

\* An empty stream.
LEMMA NoMessages == \A c : Of(<<>>, c) = {} /\ ~Stuck(<<>>)
BY DEF Of, Stuck

\* main accepts a client and forks a worker.
LEMMA AcceptSlots ==
  ASSUME SlotsInv, NEW p \in Procs, NEW a \in Addrs, Accept(p, a)
  PROVE  SlotsInv'
<1> DEFINE r == NewProc(a) w == NewWorker("handshake")
<1>1. r \in Proc /\ w \in Worker /\ r.status = "inactive" /\ ~r.script /\ w.pc = "handshake" /\ w.resumed = None
  BY NewTyped
<1>2. up[p] = <<>> /\ down[p] = <<>> /\ up[p] \in Seq(Up) /\ down[p] \in Seq(Down)
  BY SlotFacts DEF Accept, Listed, SlotInv
<1>3. Slot(p, r, w, up[p], down[p])
  BY SlotStays DEF Slot, Accept
<1> HIDE DEF r, w
<1>4. FetchInv(r, w, <<>>, <<>>)
  BY <1>1, NoMessages DEF FetchInv
<1>5. LoginInv(r, w, <<>>, <<>>)
  BY <1>1, NoMessages DEF LoginInv
<1>6. SlotInv(r, w, up[p], down[p])
  BY <1>1, <1>2, <1>4, <1>5 DEF SlotInv
<1> QED
  BY <1>1, <1>2, <1>3, <1>6, SlotStep

\* main removes a proc.
LEMMA RemovedSlots ==
  ASSUME SlotsInv, NEW p \in Procs, Removed(p)
  PROVE  SlotsInv'
<1>1. /\ proc[p] \in Proc /\ worker[p] \in Worker
      /\ up[p] \in Seq(Up) /\ down[p] \in Seq(Down)
      /\ SlotInv(proc[p], worker[p], up[p], down[p])
  BY SlotFacts
<1>2. PICK r : r = [NewProc(proc[p].addr) EXCEPT !.status = "free"]
  OBVIOUS
<1>3. PICK w : w = IF worker[p].pc = "left" THEN NewWorker("none") ELSE worker[p]
  OBVIOUS
<1>4. PICK d : d = IF worker[p].pc = "left" THEN <<>> ELSE down[p]
  OBVIOUS
<1>5. proc[p].addr \in Addrs
  BY <1>1 DEF Proc
<1>6. r \in Proc /\ r.status = "free" /\ ~r.in_table /\ ~r.script
  BY <1>2, <1>5, NewTyped
<1>7. w \in Worker /\ (w.pc = "none" => d = <<>>)
  BY <1>1, <1>3, <1>4, NewTyped DEF SlotInv
<1>8. d \in Seq(Down) /\ <<>> \in Seq(Up)
  BY <1>1, <1>4, EmptySeq
<1>9. SlotInv(r, w, <<>>, d)
  BY <1>6, <1>7 DEF SlotInv
<1>10. Slot(p, r, w, <<>>, d)
  BY <1>2, <1>3, <1>4 DEF Slot, Removed
<1> QED
  BY <1>6, <1>7, <1>8, <1>9, <1>10, SlotStep

\* main answers: the proc is removed because the worker left, or the slot is what the
\* answer makes of it.
LEMMA ReplySlots ==
  ASSUME SlotsInv, NEW p \in Procs, NEW r \in Proc, NEW m \in Down, up[p] # <<>>,
         worker[p].pc # "left" => SlotInv(r, worker[p], Tail(up[p]), Append(down[p], m)),
         Reply(p, r, m)
  PROVE  SlotsInv'
<1>1. CASE worker[p].pc = "left"
  BY <1>1, RemovedSlots DEF Reply
<1>2. CASE worker[p].pc # "left"
  <2>1. worker[p] \in Worker /\ Tail(up[p]) \in Seq(Up) /\ Append(down[p], m) \in Seq(Down)
    BY SlotFacts, AtHead, AtEnd
  <2>2. Slot(p, r, worker[p], Tail(up[p]), Append(down[p], m))
    BY <1>2, SlotStays DEF Slot, Reply
  <2> QED
    BY <1>2, <2>1, <2>2, SlotStep
<1> QED
  BY <1>1, <1>2

\* The messages main sends.
LEMMA DownTyped ==
  /\ \A e \in Entry \cup {None} : [cmd |-> "RESUME_FETCH_REP", data |-> e] \in Down
  /\ \A b \in BOOLEAN : [cmd |-> "AUTH_COOKIE_REP", ok |-> b] \in Down
  /\ \A b, c \in BOOLEAN : [cmd |-> "CMD_UDP_FD", hello |-> b, own |-> c] \in Down
<1> HIDE DEF Entry
<1> QED
  BY DEF Down

\* The messages a worker sends.
LEMMA UpTyped ==
  /\ \A id \in Ids : \A c \in {"RESUME_FETCH_REQ", "RESUME_STORE_REQ", "RESUME_DELETE_REQ"} :
       [cmd |-> c, id |-> id] \in Up
  /\ [cmd |-> "AUTH_COOKIE_REQ"] \in Up /\ [cmd |-> "CMD_TUN_MTU"] \in Up
BY DEF Up

\* main answers from the cache.
LEMMA ResumeFetchSlots ==
  ASSUME SlotsInv, CacheInv, NEW p \in Procs, ResumeFetch(p)
  PROVE  SlotsInv'
<1>1. /\ proc[p] \in Proc /\ worker[p] \in Worker
      /\ up[p] \in Seq(Up) /\ down[p] \in Seq(Down)
      /\ SlotInv(proc[p], worker[p], up[p], down[p])
  BY SlotFacts
<1>2. proc[p].status # "free" /\ up[p] # <<>> /\ Head(up[p]).cmd = "RESUME_FETCH_REQ"
  BY DEF ResumeFetch, Request, Listed
<1>3. PICK e : e = handle_resume_fetch_req(Head(up[p]).id, proc[p].addr)
  OBVIOUS
<1>4. e \in Entry \cup {None} /\ (e # None => e.id = Head(up[p]).id /\ e.addr = proc[p].addr)
  BY <1>3, FetchedEntry DEF CacheInv
<1>5. PICK m : m = [cmd |-> "RESUME_FETCH_REP", data |-> e]
  OBVIOUS
<1>6. m \in Down /\ m.cmd = "RESUME_FETCH_REP" /\ m.data = e
  BY <1>4, <1>5, DownTyped
<1>7. PICK r : r = [proc[p] EXCEPT !.fetched = TRUE]
  OBVIOUS
<1>8. r \in Proc
  BY <1>1, <1>7 DEF Proc
<1>9. worker[p].pc # "left" => SlotInv(r, worker[p], Tail(up[p]), Append(down[p], m))
  BY <1>1, <1>2, <1>4, <1>6, <1>7, SlotFetched
<1>10. Removed(p) \/ Reply(p, r, m)
  BY <1>3, <1>5, <1>7 DEF ResumeFetch
<1> QED
  BY <1>2, <1>6, <1>8, <1>9, <1>10, RemovedSlots, ReplySlots

\* main serves a request without an answer.
LEMMA ServedSlots ==
  ASSUME SlotsInv, NEW p \in Procs,
         NEW c \in {"RESUME_STORE_REQ", "RESUME_DELETE_REQ", "CMD_TUN_MTU"}, Request(p, c), Served(p)
  PROVE  SlotsInv'
<1>1. /\ proc[p] \in Proc /\ worker[p] \in Worker
      /\ up[p] \in Seq(Up) /\ down[p] \in Seq(Down)
      /\ SlotInv(proc[p], worker[p], up[p], down[p])
  BY SlotFacts
<1>2. /\ proc[p].status # "free" /\ up[p] # <<>>
      /\ Head(up[p]).cmd \notin {"RESUME_FETCH_REQ", "AUTH_COOKIE_REQ"}
  BY DEF Request, Listed
<1>3. SlotInv(proc[p], worker[p], Tail(up[p]), down[p])
  BY <1>1, <1>2, SlotServed
<1>4. Tail(up[p]) \in Seq(Up)
  BY <1>1, <1>2, AtHead
<1>5. Slot(p, proc[p], worker[p], Tail(up[p]), down[p])
  BY SlotStays DEF Slot, Served
<1> QED
  BY <1>1, <1>3, <1>4, <1>5, SlotStep

\* main refuses a cookie.
LEMMA CookieRefusedSlots ==
  ASSUME SlotsInv, NEW p \in Procs, CookieRefused(p)
  PROVE  SlotsInv'
<1>1. /\ proc[p] \in Proc /\ worker[p] \in Worker
      /\ up[p] \in Seq(Up) /\ down[p] \in Seq(Down)
      /\ SlotInv(proc[p], worker[p], up[p], down[p])
  BY SlotFacts
<1>2. proc[p].status # "free" /\ up[p] # <<>> /\ Head(up[p]).cmd = "AUTH_COOKIE_REQ"
  BY DEF CookieRefused, Request, Listed
<1>3. PICK m : m = [cmd |-> "AUTH_COOKIE_REP", ok |-> FALSE]
  OBVIOUS
<1>4. m \in Down /\ m.cmd = "AUTH_COOKIE_REP" /\ ~m.ok
  BY <1>3, DownTyped
<1>5. PICK t \in BOOLEAN : Reply(p, [proc[p] EXCEPT !.status = "failed", !.in_table = t], m)
  BY <1>3 DEF CookieRefused
<1>6. PICK r : r = [proc[p] EXCEPT !.status = "failed", !.in_table = t]
  OBVIOUS
<1>7. r \in Proc
  BY <1>1, <1>6 DEF Proc
<1>8. worker[p].pc # "left" => SlotInv(r, worker[p], Tail(up[p]), Append(down[p], m))
  BY <1>1, <1>2, <1>4, <1>6, SlotRefused
<1>9. Reply(p, r, m)
  BY <1>5, <1>6
<1> QED
  BY <1>2, <1>4, <1>7, <1>8, <1>9, ReplySlots

\* main accepts a cookie, with or without a connect script.
LEMMA CookieAcceptedSlots ==
  ASSUME SlotsInv, NEW p \in Procs, CookieAccepted(p)
  PROVE  SlotsInv'
<1>1. /\ proc[p] \in Proc /\ worker[p] \in Worker
      /\ up[p] \in Seq(Up) /\ down[p] \in Seq(Down)
      /\ SlotInv(proc[p], worker[p], up[p], down[p])
  BY SlotFacts
<1>2. proc[p].status # "free" /\ up[p] # <<>> /\ Head(up[p]).cmd = "AUTH_COOKIE_REQ"
  BY DEF CookieAccepted, Request, Listed
<1>3. CASE ConnectScript
  <2>1. PICK r : r = [proc[p] EXCEPT !.in_table = TRUE, !.script = TRUE, !.status = "failed"]
    OBVIOUS
  <2>2. r \in Proc
    BY <1>1, <2>1 DEF Proc
  <2>3. SlotInv(r, worker[p], Tail(up[p]), down[p])
    BY <1>1, <1>2, <2>1, SlotScript
  <2>4. Tail(up[p]) \in Seq(Up)
    BY <1>1, <1>2, AtHead
  <2>5. proc' = [proc EXCEPT ![p] = r]
    BY <1>3, <2>1 DEF CookieAccepted
  <2>6. Slot(p, r, worker[p], Tail(up[p]), down[p])
    BY <1>3, <2>5, SlotStays DEF Slot, CookieAccepted
  <2> QED
    BY <1>1, <2>2, <2>3, <2>4, <2>6, SlotStep
<1>4. CASE ~ConnectScript
  <2>1. PICK m : m = [cmd |-> "AUTH_COOKIE_REP", ok |-> TRUE]
    OBVIOUS
  <2>2. m \in Down /\ m.cmd = "AUTH_COOKIE_REP"
    BY <2>1, DownTyped
  <2>3. PICK r : r = [proc[p] EXCEPT !.in_table = TRUE, !.status = "completed"]
    OBVIOUS
  <2>4. r \in Proc
    BY <1>1, <2>3 DEF Proc
  <2>5. worker[p].pc # "left" => SlotInv(r, worker[p], Tail(up[p]), Append(down[p], m))
    BY <1>1, <1>2, <2>2, <2>3, SlotAccepted
  <2>6. Reply(p, r, m)
    BY <1>4, <2>1, <2>3 DEF CookieAccepted
  <2> QED
    BY <1>2, <2>2, <2>4, <2>5, <2>6, ReplySlots
<1> QED
  BY <1>3, <1>4

\* The connect script ends.
LEMMA ScriptExitSlots ==
  ASSUME SlotsInv, NEW p \in Procs, NEW ok \in BOOLEAN, ScriptExit(p, ok)
  PROVE  SlotsInv'
<1>1. /\ proc[p] \in Proc /\ worker[p] \in Worker
      /\ up[p] \in Seq(Up) /\ down[p] \in Seq(Down)
      /\ SlotInv(proc[p], worker[p], up[p], down[p])
  BY SlotFacts
<1>2. CASE Removed(p)
  BY <1>2, RemovedSlots
<1>3. CASE ~Removed(p)
  <2>1. PICK m : m = [cmd |-> "AUTH_COOKIE_REP", ok |-> ok]
    OBVIOUS
  <2>2. m \in Down /\ m.cmd = "AUTH_COOKIE_REP" /\ m.ok = ok
    BY <2>1, DownTyped
  <2>3. PICK r : r = [proc[p] EXCEPT !.script = FALSE, !.status = IF ok THEN "completed" ELSE @]
    OBVIOUS
  <2>4. r \in Proc
    BY <1>1, <2>3 DEF Proc
  <2>5. /\ proc[p].script /\ worker[p].pc # "left"
        /\ proc' = [proc EXCEPT ![p].script = FALSE, ![p].status = IF ok THEN "completed" ELSE @]
        /\ down' = [down EXCEPT ![p] = Append(@, [cmd |-> "AUTH_COOKIE_REP", ok |-> ok])]
        /\ UNCHANGED <<up, worker>>
    BY <1>3 DEF ScriptExit
  <2>6. SlotInv(r, worker[p], up[p], Append(down[p], m))
    BY <1>1, <2>2, <2>3, <2>5, SlotScriptDone
  <2>7. Append(down[p], m) \in Seq(Down)
    BY <1>1, <2>2, AtEnd
  <2>8. Slot(p, r, worker[p], up[p], Append(down[p], m))
    BY <2>1, <2>3, <2>5, SlotStays DEF Slot
  <2> QED
    BY <1>1, <2>4, <2>6, <2>7, <2>8, SlotStep
<1> QED
  BY <1>2, <1>3

\* main passes a UDP socket.
LEMMA ForwardSlots ==
  ASSUME SlotsInv, NEW p \in Procs, NEW h \in BOOLEAN, NEW o \in BOOLEAN, Forward(p, h, o)
  PROVE  SlotsInv'
<1>1. /\ proc[p] \in Proc /\ worker[p] \in Worker
      /\ up[p] \in Seq(Up) /\ down[p] \in Seq(Down)
      /\ SlotInv(proc[p], worker[p], up[p], down[p])
  BY SlotFacts
<1>2. PICK m : m = [cmd |-> "CMD_UDP_FD", hello |-> h, own |-> o]
  OBVIOUS
<1>3. m \in Down /\ m.cmd = "CMD_UDP_FD"
  BY <1>2, DownTyped
<1>4. PICK r : r = [proc[p] EXCEPT !.fd_age = 0]
  OBVIOUS
<1>5. r \in Proc
  <2>1. 0 \in 0 .. UDP_FD_RESEND_TIME + 1
    BY WorkerChannelAssumption
  <2> QED
    BY <1>1, <1>4, <2>1 DEF Proc
<1>6. SlotInv(r, worker[p], up[p], Append(down[p], m))
  BY <1>1, <1>3, <1>4, SlotForward DEF Forward
<1>7. Append(down[p], m) \in Seq(Down)
  BY <1>1, <1>3, AtEnd
<1>8. Slot(p, r, worker[p], up[p], Append(down[p], m))
  BY <1>2, <1>4, SlotStays DEF Slot, Forward
<1> QED
  BY <1>1, <1>5, <1>6, <1>7, <1>8, SlotStep

\* A worker writes m, if main still listens: the slot is one of two.
LEMMA SendSlots ==
  ASSUME SlotsInv, NEW p \in Procs, NEW w \in Worker, NEW m \in Up,
         proc[p].status = "free" => SlotInv(proc[p], w, up[p], down[p]),
         proc[p].status # "free" => SlotInv(proc[p], w, Append(up[p], m), down[p]),
         Send(p, m), worker' = [worker EXCEPT ![p] = w], UNCHANGED <<proc, down>>
  PROVE  SlotsInv'
<1>1. /\ proc[p] \in Proc /\ worker[p] \in Worker
      /\ up[p] \in Seq(Up) /\ down[p] \in Seq(Down)
      /\ SlotInv(proc[p], worker[p], up[p], down[p])
  BY SlotFacts
<1>2. CASE proc[p].status = "free"
  <2>1. Slot(p, proc[p], w, up[p], down[p])
    BY <1>2, SlotStays DEF Slot, Send, Listed
  <2> QED
    BY <1>1, <1>2, <2>1, SlotStep
<1>3. CASE proc[p].status # "free"
  <2>1. Slot(p, proc[p], w, Append(up[p], m), down[p])
    BY <1>3, SlotStays DEF Slot, Send, Listed
  <2>2. Append(up[p], m) \in Seq(Up)
    BY <1>1, AtEnd
  <2> QED
    BY <1>1, <1>3, <2>1, <2>2, SlotStep
<1> QED
  BY <1>2, <1>3

\* A worker asks the cache.
LEMMA FetchSlots ==
  ASSUME SlotsInv, NEW p \in Procs, NEW id \in Ids, Fetch(p, id)
  PROVE  SlotsInv'
<1>1. /\ proc[p] \in Proc /\ worker[p] \in Worker
      /\ up[p] \in Seq(Up) /\ down[p] \in Seq(Down)
      /\ SlotInv(proc[p], worker[p], up[p], down[p])
  BY SlotFacts
<1>2. PICK m : m = [cmd |-> "RESUME_FETCH_REQ", id |-> id]
  OBVIOUS
<1>3. m \in Up /\ m.cmd = "RESUME_FETCH_REQ" /\ m.id = id
  BY <1>2, UpTyped
<1>4. PICK w : w = [worker[p] EXCEPT !.pc = IF @ = "handshake" THEN "wait_resume" ELSE "rehandshake",
                                     !.offered = id, !.resumed = None]
  OBVIOUS
<1>5. w \in Worker
  BY <1>1, <1>4 DEF Worker
<1>6. worker' = [worker EXCEPT ![p] = w]
  BY <1>4 DEF Fetch
<1>7. worker[p].pc \in {"handshake", "tunnel"}
  BY DEF Fetch, At
<1>8. /\ proc[p].status = "free" => SlotInv(proc[p], w, up[p], down[p])
      /\ proc[p].status # "free" => SlotInv(proc[p], w, Append(up[p], m), down[p])
  BY <1>1, <1>3, <1>4, <1>7, SlotFetch
<1>9. Send(p, m) /\ UNCHANGED <<proc, down>>
  BY <1>2 DEF Fetch
<1> QED
  BY <1>3, <1>5, <1>6, <1>8, <1>9, SendSlots

\* A worker ends its handshake.
LEMMA HandshakenSlots ==
  ASSUME SlotsInv, NEW p \in Procs, Handshaken(p)
  PROVE  SlotsInv'
<1>1. /\ proc[p] \in Proc /\ worker[p] \in Worker
      /\ up[p] \in Seq(Up) /\ down[p] \in Seq(Down)
      /\ SlotInv(proc[p], worker[p], up[p], down[p])
  BY SlotFacts
<1>2. PICK w : w = [worker[p] EXCEPT !.pc = "http"]
  OBVIOUS
<1>3. w \in Worker
  BY <1>1, <1>2 DEF Worker
<1>4. worker' = [worker EXCEPT ![p] = w] /\ worker[p].pc = "handshake" /\ UNCHANGED <<proc, down>>
  BY <1>2 DEF Handshaken, At
<1>5. ASSUME NEW m \in Up, m.cmd = "RESUME_STORE_REQ"
      PROVE  /\ SlotInv(proc[p], w, up[p], down[p])
             /\ proc[p].status # "free" => SlotInv(proc[p], w, Append(up[p], m), down[p])
  BY <1>1, <1>2, <1>4, <1>5, SlotSent
<1>6. CASE worker[p].resumed # None
  <2>1. Slot(p, proc[p], w, up[p], down[p])
    BY <1>4, <1>6, SlotStays DEF Slot, Handshaken
  <2>2. SlotInv(proc[p], w, up[p], down[p])
    <3>1. PICK e \in Ids : e = worker[p].resumed.id
      BY <1>1, <1>6 DEF Worker, Entry
    <3>2. [cmd |-> "RESUME_STORE_REQ", id |-> e] \in Up
      BY UpTyped
    <3> QED
      BY <1>5, <3>2
  <2> QED
    BY <1>1, <1>3, <2>1, <2>2, SlotStep
<1>7. CASE worker[p].resumed = None
  <2>1. PICK id \in Ids : Send(p, [cmd |-> "RESUME_STORE_REQ", id |-> id])
    BY <1>7 DEF Handshaken
  <2>2. PICK m : m = [cmd |-> "RESUME_STORE_REQ", id |-> id]
    OBVIOUS
  <2>3. m \in Up /\ m.cmd = "RESUME_STORE_REQ" /\ Send(p, m)
    BY <2>1, <2>2, UpTyped
  <2> QED
    BY <1>3, <1>4, <1>5, <2>3, SendSlots
<1> QED
  BY <1>6, <1>7

\* A worker asks to delete a TLS session and leaves.
LEMMA DeleteSlots ==
  ASSUME SlotsInv, NEW p \in Procs, NEW id \in Ids, Delete(p, id)
  PROVE  SlotsInv'
<1>1. /\ proc[p] \in Proc /\ worker[p] \in Worker
      /\ up[p] \in Seq(Up) /\ down[p] \in Seq(Down)
      /\ SlotInv(proc[p], worker[p], up[p], down[p])
  BY SlotFacts
<1>2. PICK m : m = [cmd |-> "RESUME_DELETE_REQ", id |-> id]
  OBVIOUS
<1>3. m \in Up /\ m.cmd = "RESUME_DELETE_REQ"
  BY <1>2, UpTyped
<1>4. PICK w : w = [worker[p] EXCEPT !.pc = "left"]
  OBVIOUS
<1>5. w \in Worker
  BY <1>1, <1>4 DEF Worker
<1>6. worker' = [worker EXCEPT ![p] = w] /\ worker[p].pc = "handshake"
  BY <1>4 DEF Delete, At
<1>7. /\ SlotInv(proc[p], w, up[p], down[p])
      /\ proc[p].status # "free" => SlotInv(proc[p], w, Append(up[p], m), down[p])
  BY <1>1, <1>3, <1>4, <1>6, SlotSent
<1>8. Send(p, m) /\ UNCHANGED <<proc, down>>
  BY <1>2 DEF Delete
<1> QED
  BY <1>3, <1>5, <1>6, <1>7, <1>8, SendSlots

\* A worker sends the cookie.
LEMMA AuthCookieSlots ==
  ASSUME SlotsInv, NEW p \in Procs, AuthCookie(p)
  PROVE  SlotsInv'
<1>1. /\ proc[p] \in Proc /\ worker[p] \in Worker
      /\ up[p] \in Seq(Up) /\ down[p] \in Seq(Down)
      /\ SlotInv(proc[p], worker[p], up[p], down[p])
  BY SlotFacts
<1>2. PICK m : m = [cmd |-> "AUTH_COOKIE_REQ"]
  OBVIOUS
<1>3. m \in Up /\ m.cmd = "AUTH_COOKIE_REQ"
  BY <1>2, UpTyped
<1>4. PICK w : w = [worker[p] EXCEPT !.pc = "wait_cookie"]
  OBVIOUS
<1>5. w \in Worker
  BY <1>1, <1>4 DEF Worker
<1>6. worker' = [worker EXCEPT ![p] = w] /\ worker[p].pc = "http"
  BY <1>4 DEF AuthCookie, At
<1>7. /\ proc[p].status = "free" => SlotInv(proc[p], w, up[p], down[p])
      /\ proc[p].status # "free" => SlotInv(proc[p], w, Append(up[p], m), down[p])
  BY <1>1, <1>3, <1>4, <1>6, SlotCookie
<1>8. Send(p, m) /\ UNCHANGED <<proc, down>>
  BY <1>2 DEF AuthCookie
<1> QED
  BY <1>3, <1>5, <1>6, <1>7, <1>8, SendSlots

\* A worker in its tunnel sends an MTU.
LEMMA SendMtuSlots ==
  ASSUME SlotsInv, NEW p \in Procs, SendMtu(p)
  PROVE  SlotsInv'
<1>1. /\ proc[p] \in Proc /\ worker[p] \in Worker
      /\ up[p] \in Seq(Up) /\ down[p] \in Seq(Down)
      /\ SlotInv(proc[p], worker[p], up[p], down[p])
  BY SlotFacts
<1>2. PICK m : m = [cmd |-> "CMD_TUN_MTU"]
  OBVIOUS
<1>3. m \in Up /\ m.cmd = "CMD_TUN_MTU"
  BY <1>2, UpTyped
<1>4. proc[p].status # "free" /\ worker[p].pc = "tunnel"
  BY DEF SendMtu, Listed, At
<1>5. SlotInv(proc[p], worker[p], Append(up[p], m), down[p])
  BY <1>1, <1>3, <1>4, SlotMtu
<1>6. worker' = [worker EXCEPT ![p] = worker[p]]
  BY SlotStays DEF SendMtu
<1>7. Send(p, m) /\ UNCHANGED <<proc, down>>
  BY <1>2 DEF SendMtu
<1> QED
  BY <1>1, <1>3, <1>4, <1>5, <1>6, <1>7, SendSlots

\* What a message is, by its command.
LEMMA DownFacts ==
  ASSUME NEW m \in Down
  PROVE  /\ m.cmd = "RESUME_FETCH_REP" => m.data \in Entry \cup {None}
         /\ m.cmd = "AUTH_COOKIE_REP" => "ok" \in DOMAIN m /\ m.ok \in BOOLEAN
         /\ m.cmd = "CMD_UDP_FD" => m.hello \in BOOLEAN /\ m.own \in BOOLEAN
<1> HIDE DEF Entry
<1> QED
  BY DEF Down

\* A worker leaves a body in the stream and goes on in state w.
LEMMA BodySlots ==
  ASSUME SlotsInv, NEW p \in Procs, NEW w \in Worker, down[p] # <<>>,
         SlotInv(proc[p], w, up[p], [down[p] EXCEPT ![1] = [cmd |-> "body"]]),
         LeaveBody(p), worker' = [worker EXCEPT ![p] = w], UNCHANGED <<proc, up>>
  PROVE  SlotsInv'
<1>1. /\ proc[p] \in Proc /\ worker[p] \in Worker
      /\ up[p] \in Seq(Up) /\ down[p] \in Seq(Down)
      /\ SlotInv(proc[p], worker[p], up[p], down[p])
  BY SlotFacts
<1>2. PICK d : d = [down[p] EXCEPT ![1] = [cmd |-> "body"]]
  OBVIOUS
<1>3. d \in Seq(Down)
  <2>1. [cmd |-> "body"] \in Down
    BY DEF Down
  <2> QED
    BY <1>1, <1>2, <2>1, AtBody
<1>4. down' = [down EXCEPT ![p] = d]
  BY <1>2 DEF LeaveBody
<1>5. Slot(p, proc[p], w, up[p], d)
  BY <1>4, SlotStays DEF Slot
<1> QED
  BY <1>1, <1>2, <1>3, <1>5, SlotStep

\* A worker reads while it waits for the cache.
LEMMA RecvResumeSlots ==
  ASSUME SlotsInv, NEW p \in Procs, RecvResume(p)
  PROVE  SlotsInv'
<1>1. /\ proc[p] \in Proc /\ worker[p] \in Worker
      /\ up[p] \in Seq(Up) /\ down[p] \in Seq(Down)
      /\ SlotInv(proc[p], worker[p], up[p], down[p])
  BY SlotFacts
<1>2. worker[p].pc \in {"wait_resume", "rehandshake"} /\ down[p] # <<>> /\ UNCHANGED <<proc, up>>
  BY DEF RecvResume, At
<1>3. PICK next : next = IF worker[p].pc = "wait_resume" THEN "handshake" ELSE "tunnel"
  OBVIOUS
<1>4. PICK hit \in BOOLEAN : hit = (/\ Head(down[p]).cmd = "RESUME_FETCH_REP" /\ Head(down[p]).data # None
                                     /\ Head(down[p]).data.age <= SessionExpiration)
  OBVIOUS
<1>5. PICK w : w = [worker[p] EXCEPT !.pc = next, !.resumed = IF hit THEN Head(down[p]).data ELSE @]
  OBVIOUS
<1>6. worker' = [worker EXCEPT ![p] = w]
  BY <1>3, <1>4, <1>5 DEF RecvResume, At, Answers
<1>7. Head(down[p]) \in Down /\ Tail(down[p]) \in Seq(Down)
  BY <1>1, <1>2, AtHead
<1>8. w \in Worker
  <2>1. hit => Head(down[p]).data \in Entry \cup {None}
    BY <1>4, <1>7, DownFacts
  <2> HIDE DEF Entry
  <2> QED
    BY <1>1, <1>3, <1>5, <2>1 DEF Worker
<1>9. CASE Head(down[p]).cmd = "RESUME_FETCH_REP"
  <2>1. SlotInv(proc[p], w, up[p], Tail(down[p]))
    BY <1>1, <1>2, <1>3, <1>4, <1>5, <1>9, SlotResumed
  <2>2. Slot(p, proc[p], w, up[p], Tail(down[p]))
    BY <1>2, <1>6, <1>9, SlotStays DEF Slot, RecvResume, Answers
  <2> QED
    BY <1>1, <1>7, <1>8, <2>1, <2>2, SlotStep
<1>10. CASE Head(down[p]).cmd # "RESUME_FETCH_REP"
  <2>1. w = [worker[p] EXCEPT !.pc = next]
    BY <1>1, <1>4, <1>5, <1>10 DEF Worker
  <2>2. SlotInv(proc[p], w, up[p], [down[p] EXCEPT ![1] = [cmd |-> "body"]])
    <3>1. \/ worker[p].pc = "wait_resume" /\ next = "handshake"
          \/ worker[p].pc = "rehandshake" /\ next = "tunnel"
      BY <1>2, <1>3
    <3>2. worker[p].pc # "none"
      BY <1>2
    <3> QED
      BY <1>1, <1>2, <2>1, <3>1, <3>2, SlotBody
  <2>3. LeaveBody(p)
    BY <1>10 DEF RecvResume, Answers
  <2> QED
    BY <1>2, <1>6, <1>8, <2>2, <2>3, BodySlots
<1> QED
  BY <1>9, <1>10

\* A worker reads while it waits for the answer to its cookie.
LEMMA RecvCookieSlots ==
  ASSUME SlotsInv, NEW p \in Procs, RecvCookie(p)
  PROVE  SlotsInv'
<1>1. /\ proc[p] \in Proc /\ worker[p] \in Worker
      /\ up[p] \in Seq(Up) /\ down[p] \in Seq(Down)
      /\ SlotInv(proc[p], worker[p], up[p], down[p])
  BY SlotFacts
<1>2. worker[p].pc = "wait_cookie" /\ down[p] # <<>> /\ UNCHANGED <<proc, up>>
  BY DEF RecvCookie, At
<1>3. Head(down[p]) \in Down /\ Tail(down[p]) \in Seq(Down)
  BY <1>1, <1>2, AtHead
<1>4. CASE Head(down[p]).cmd = "AUTH_COOKIE_REP" /\ Head(down[p]).ok
  <2>1. PICK w : w = [worker[p] EXCEPT !.pc = "tunnel"]
    OBVIOUS
  <2>2. w \in Worker
    BY <1>1, <2>1 DEF Worker
  <2>3. SlotInv(proc[p], w, up[p], Tail(down[p]))
    BY <1>1, <1>2, <1>4, <2>1, SlotTunnel
  <2>4. Slot(p, proc[p], w, up[p], Tail(down[p]))
    BY <1>2, <1>4, <2>1, SlotStays DEF Slot, RecvCookie, Answers
  <2> QED
    BY <1>1, <1>3, <2>2, <2>3, <2>4, SlotStep
<1>5. CASE ~(Head(down[p]).cmd = "AUTH_COOKIE_REP" /\ Head(down[p]).ok)
  <2>1. PICK w : w = [worker[p] EXCEPT !.pc = "left"]
    OBVIOUS
  <2>2. w \in Worker
    BY <1>1, <2>1 DEF Worker
  <2>3. SlotInv(proc[p], w, up[p], [down[p] EXCEPT ![1] = [cmd |-> "body"]])
    BY <1>1, <1>2, <2>1, SlotBody
  <2>4. ~(Answers(p, "AUTH_COOKIE_REP") /\ ("ok" \in DOMAIN Head(down[p]) => Head(down[p]).ok))
    BY <1>3, <1>5, DownFacts DEF Answers
  <2>5. LeaveBody(p) /\ worker' = [worker EXCEPT ![p] = w]
    BY <2>1, <2>4 DEF RecvCookie
  <2> QED
    BY <1>2, <2>2, <2>3, <2>5, BodySlots
<1> QED
  BY <1>4, <1>5

\* A worker in its tunnel takes a UDP socket.
LEMMA WorkerCommandSlots ==
  ASSUME SlotsInv, NEW p \in Procs, handle_worker_commands(p)
  PROVE  SlotsInv'
<1>1. /\ proc[p] \in Proc /\ worker[p] \in Worker
      /\ up[p] \in Seq(Up) /\ down[p] \in Seq(Down)
      /\ SlotInv(proc[p], worker[p], up[p], down[p])
  BY SlotFacts
<1>2. /\ worker[p].pc = "tunnel" /\ down[p] # <<>> /\ Head(down[p]).cmd = "CMD_UDP_FD"
      /\ down' = [down EXCEPT ![p] = Tail(@)] /\ UNCHANGED <<proc, up>>
  BY DEF handle_worker_commands, At
<1>3. PICK m : m = Head(down[p])
  OBVIOUS
<1>4. m.own \in BOOLEAN /\ Tail(down[p]) \in Seq(Down)
  BY <1>1, <1>2, <1>3, AtHead, DownFacts
<1>5. PICK w : /\ worker' = [worker EXCEPT ![p] = w]
               /\ \/ w = [worker[p] EXCEPT !.udp = "setup", !.own = m.own]
                  \/ w = worker[p]
                  \/ w = [worker[p] EXCEPT !.own = m.own]
  BY <1>3 DEF handle_worker_commands
<1>6. /\ w \in Worker /\ w.pc = worker[p].pc
      /\ w.offered = worker[p].offered /\ w.resumed = worker[p].resumed
  BY <1>1, <1>4, <1>5 DEF Worker
<1>7. SlotInv(proc[p], w, up[p], Tail(down[p]))
  BY <1>1, <1>2, <1>6, SlotUdp
<1>8. Slot(p, proc[p], w, up[p], Tail(down[p]))
  BY <1>2, <1>5, SlotStays DEF Slot
<1> QED
  BY <1>1, <1>4, <1>6, <1>7, <1>8, SlotStep

\* A worker leaves, on its own account or because it reads nonsense.
LEMMA LeaveSlots ==
  ASSUME SlotsInv, NEW p \in Procs, Leave(p) \/ BadDown(p)
  PROVE  SlotsInv'
<1>1. /\ proc[p] \in Proc /\ worker[p] \in Worker
      /\ up[p] \in Seq(Up) /\ down[p] \in Seq(Down)
      /\ SlotInv(proc[p], worker[p], up[p], down[p])
  BY SlotFacts
<1>2. CASE Leave(p) /\ proc[p].status = "free"
  <2>1. NewWorker("none") \in Worker /\ <<>> \in Seq(Down)
    BY NewTyped, EmptySeq
  <2>2. SlotInv(proc[p], NewWorker("none"), up[p], <<>>)
    BY <1>1, <1>2 DEF SlotInv
  <2>3. Slot(p, proc[p], NewWorker("none"), up[p], <<>>)
    BY <1>2, SlotStays DEF Slot, Leave, Listed
  <2> QED
    BY <1>1, <2>1, <2>2, <2>3, SlotStep
<1>3. CASE BadDown(p) \/ (Leave(p) /\ proc[p].status # "free")
  <2>1. PICK w : w = [worker[p] EXCEPT !.pc = "left"]
    OBVIOUS
  <2>2. w \in Worker
    BY <1>1, <2>1 DEF Worker
  <2>3. worker[p].pc # "none"
    BY <1>3 DEF Leave, Running, BadDown, At
  <2>4. SlotInv(proc[p], w, up[p], down[p])
    BY <1>1, <2>1, <2>3, SlotLeft
  <2>5. worker' = [worker EXCEPT ![p] = w] /\ UNCHANGED <<proc, up, down>>
    BY <1>3, <2>1 DEF Leave, BadDown, Listed
  <2>6. Slot(p, proc[p], w, up[p], down[p])
    BY <2>5, SlotStays DEF Slot
  <2> QED
    BY <1>1, <2>2, <2>4, <2>6, SlotStep
<1> QED
  BY <1>2, <1>3 DEF BadDown

\* The UDP of a worker changes and nothing else of its slot.
LEMMA UdpSlots ==
  ASSUME SlotsInv, NEW p \in Procs, PortChanges(p) \/ DtlsUp(p) \/ DtlsData(p)
  PROVE  SlotsInv'
<1>1. /\ proc[p] \in Proc /\ worker[p] \in Worker
      /\ up[p] \in Seq(Up) /\ down[p] \in Seq(Down)
      /\ SlotInv(proc[p], worker[p], up[p], down[p])
  BY SlotFacts
<1>2. PICK w : /\ worker' = [worker EXCEPT ![p] = w]
               /\ \/ w = [worker[p] EXCEPT !.own = FALSE]
                  \/ w = [worker[p] EXCEPT !.udp = "active", !.udp_age = 0]
                  \/ w = [worker[p] EXCEPT !.udp_age = 0]
  BY DEF PortChanges, DtlsUp, DtlsData
<1>3. 0 \in 0 .. ACTIVE_SESSION_TIMEOUT
  BY WorkerChannelAssumption
<1>4. /\ w \in Worker /\ w.pc = worker[p].pc
      /\ w.offered = worker[p].offered /\ w.resumed = worker[p].resumed
  BY <1>1, <1>2, <1>3 DEF Worker
<1>5. SlotInv(proc[p], w, up[p], down[p])
  BY <1>1, <1>4, SlotSame
<1>6. UNCHANGED <<proc, up, down>>
  BY DEF PortChanges, DtlsUp, DtlsData
<1>7. Slot(p, proc[p], w, up[p], down[p])
  BY <1>2, <1>6, SlotStays DEF Slot
<1> QED
  BY <1>1, <1>4, <1>5, <1>7, SlotStep

\* A step that leaves the slots alone.
LEMMA StillSlots ==
  ASSUME SlotsInv, UNCHANGED <<proc, worker, up, down>>
  PROVE  SlotsInv'
<1> HIDE DEF Proc, Worker, Up, Down
<1>1. /\ proc' \in [Procs -> Proc] /\ worker' \in [Procs -> Worker]
      /\ up' \in [Procs -> Seq(Up)] /\ down' \in [Procs -> Seq(Down)]
  BY DEF SlotsInv
<1>2. \A q \in Procs : SlotInv(proc'[q], worker'[q], up'[q], down'[q])
  BY DEF SlotsInv
<1>3. \A q \in Procs : SlotInv(proc[q], worker[q], up[q], down[q])'
  BY <1>2 DEF SlotInv, FetchInv, LoginInv, Stuck, Of
<1> QED
  BY <1>1, <1>3 DEF SlotsInv

\* An age grows and stays within its limit.
LEMMA OlderTyped ==
  ASSUME NEW limit \in Nat, NEW age \in 0 .. limit
  PROVE  Older(age, limit) \in 0 .. limit
BY DEF Older

\* Time goes on.
LEMMA TickSlots ==
  ASSUME SlotsInv, Tick
  PROVE  SlotsInv'
<1>1. ASSUME NEW p \in Procs
      PROVE  /\ proc'[p] \in Proc /\ worker'[p] \in Worker
             /\ SlotInv(proc'[p], worker'[p], up[p], down[p])
  <2>1. /\ proc[p] \in Proc /\ worker[p] \in Worker
        /\ SlotInv(proc[p], worker[p], up[p], down[p])
    BY SlotFacts
  <2>2. PICK a : a = Older(proc[p].fd_age, UDP_FD_RESEND_TIME + 1)
    OBVIOUS
  <2>3. PICK b : b = Older(worker[p].udp_age, ACTIVE_SESSION_TIMEOUT)
    OBVIOUS
  <2>4. a \in 0 .. UDP_FD_RESEND_TIME + 1 /\ b \in 0 .. ACTIVE_SESSION_TIMEOUT
    <3>1. UDP_FD_RESEND_TIME + 1 \in Nat /\ ACTIVE_SESSION_TIMEOUT \in Nat
      BY WorkerChannelAssumption
    <3>2. proc[p].fd_age \in 0 .. UDP_FD_RESEND_TIME + 1 /\ worker[p].udp_age \in 0 .. ACTIVE_SESSION_TIMEOUT
      BY <2>1 DEF Proc, Worker
    <3> QED
      BY <2>2, <2>3, <3>1, <3>2, OlderTyped
  <2>5. proc'[p] = [proc[p] EXCEPT !.fd_age = a] /\ worker'[p] = [worker[p] EXCEPT !.udp_age = b]
    BY <2>2, <2>3 DEF Tick
  <2>6. /\ proc'[p] \in Proc
        /\ proc'[p].status = proc[p].status /\ proc'[p].addr = proc[p].addr
        /\ proc'[p].script = proc[p].script /\ proc'[p].in_table = proc[p].in_table
    BY <2>1, <2>4, <2>5 DEF Proc
  <2>7. /\ worker'[p] \in Worker
        /\ worker'[p].pc = worker[p].pc /\ worker'[p].offered = worker[p].offered
        /\ worker'[p].resumed = worker[p].resumed
    BY <2>1, <2>4, <2>5 DEF Worker
  <2>8. SlotInv(proc'[p], worker'[p], up[p], down[p])
    BY <2>1, <2>6, <2>7, SlotSame
  <2> QED
    BY <2>6, <2>7, <2>8
<1>2. proc' \in [Procs -> Proc] /\ worker' \in [Procs -> Worker]
  BY <1>1 DEF Tick
<1>3. up' = up /\ down' = down
  BY DEF Tick
<1> HIDE DEF Proc, Worker, Up, Down
<1>4. up' \in [Procs -> Seq(Up)] /\ down' \in [Procs -> Seq(Down)]
  BY <1>3 DEF SlotsInv
<1>5. \A p \in Procs : SlotInv(proc[p], worker[p], up[p], down[p])'
  BY <1>1, <1>3 DEF SlotInv, FetchInv, LoginInv, Stuck, Of
<1> QED
  BY <1>2, <1>4, <1>5 DEF SlotsInv

\* The cache takes a TLS session unless it is full.
LEMMA StoreCache ==
  ASSUME SlotsInv, CacheInv, NEW p \in Procs, ResumeStore(p)
  PROVE  CacheInv'
<1>1. CASE entries >= MaxCache
  BY <1>1 DEF CacheInv, ResumeStore
<1>2. CASE ~(entries >= MaxCache)
  <2>1. /\ proc[p] \in Proc /\ Head(up[p]) \in Up /\ Head(up[p]).cmd = "RESUME_STORE_REQ"
    <3>1. up[p] # <<>> /\ up[p] \in Seq(Up) /\ proc[p] \in Proc
      BY SlotFacts DEF ResumeStore, Request
    <3> QED
      BY <3>1, AtHead DEF ResumeStore, Request
  <2>2. PICK e : e = [id |-> Head(up[p]).id, addr |-> proc[p].addr, age |-> 0]
    OBVIOUS
  <2>3. e \in Entry
    <3>1. Head(up[p]).id \in Ids
      BY <2>1 DEF Up
    <3>2. proc[p].addr \in Addrs /\ 0 \in 0 .. SessionExpiration + 1
      BY <2>1, WorkerChannelAssumption DEF Proc
    <3> QED
      BY <2>2, <3>1, <3>2 DEF Entry
  <2>4. cache' = Append(cache, e) /\ entries' = entries + 1
    BY <1>2, <2>2 DEF ResumeStore
  <2> HIDE DEF Entry
  <2>5. cache' \in Seq(Entry) /\ Len(cache') = Len(cache) + 1
    BY <2>3, <2>4, AtEnd DEF CacheInv
  <2> QED
    BY <1>2, <2>4, <2>5, WorkerChannelAssumption DEF CacheInv
<1> QED
  BY <1>1, <1>2

\* The cache loses the first entry of an ID.
LEMMA DeleteCache ==
  ASSUME CacheInv, NEW p \in Procs, ResumeDelete(p)
  PROVE  CacheInv'
<1> DEFINE I == {i \in 1 .. Len(cache) : cache[i].id = Head(up[p]).id}
<1>1. Len(cache) \in Nat
  BY DEF CacheInv
<1>2. CASE I = {}
  BY <1>2 DEF CacheInv, ResumeDelete, SelectInSeq
<1>3. CASE I # {}
  <2>1. Min(I) \in I
    <3>1. I \in SUBSET (1 .. Len(cache))
      OBVIOUS
    <3> HIDE DEF I
    <3> QED BY <1>1, <1>3, <3>1, FirstOf
  <2>2. PICK k : k = Min(I)
    OBVIOUS
  <2>3. k \in 1 .. Len(cache) /\ k # 0
    BY <2>1, <2>2
  <2>4. cache' = RemoveAt(cache, k) /\ entries' = entries - 1
    BY <1>3, <2>2, <2>3 DEF ResumeDelete, SelectInSeq
  <2> HIDE DEF I, Entry
  <2>5. cache' \in Seq(Entry) /\ Len(cache') = Len(cache) - 1
    BY <2>3, <2>4, Removal DEF CacheInv
  <2> QED
    BY <1>1, <2>3, <2>4, <2>5, WorkerChannelAssumption DEF CacheInv
<1> QED
  BY <1>2, <1>3

\* The cache loses what expired.
LEMMA ExpireCache ==
  ASSUME CacheInv, expire_tls_sessions
  PROVE  CacheInv'
<1>1. PICK k : k = Unexpired[Len(cache)]
  OBVIOUS
<1>2. k \in Seq(Entry) /\ Len(k) <= Len(cache) /\ Len(k) \in Nat /\ Len(cache) \in Nat
  <2>1. k \in Seq(Entry) /\ Len(k) <= Len(cache)
    BY <1>1, UnexpiredFacts DEF CacheInv
  <2> QED
    BY <2>1, LenProperties DEF CacheInv
<1>3. cache' = k /\ entries' = entries - (Len(cache) - Len(k))
  BY <1>1 DEF expire_tls_sessions
<1> HIDE DEF Entry
<1> QED
  BY <1>2, <1>3, WorkerChannelAssumption DEF CacheInv

\* The entries of the cache grow older.
LEMMA TickCache ==
  ASSUME CacheInv, Tick
  PROVE  CacheInv'
<1>1. /\ DOMAIN cache = 1 .. Len(cache) /\ Len(cache) \in Nat
      /\ \A k \in 1 .. Len(cache) : cache[k] \in Entry
  BY LenProperties, ElementOfSeq DEF CacheInv
<1>2. ASSUME NEW k \in 1 .. Len(cache) PROVE cache'[k] \in Entry
  <2>1. PICK a : a = Older(cache[k].age, SessionExpiration + 1)
    OBVIOUS
  <2>2. a \in 0 .. SessionExpiration + 1
    <3>1. cache[k].age \in 0 .. SessionExpiration + 1 /\ SessionExpiration + 1 \in Nat
      BY <1>1, WorkerChannelAssumption DEF Entry
    <3> QED
      BY <2>1, <3>1, OlderTyped
  <2>3. cache'[k] = [cache[k] EXCEPT !.age = a]
    BY <1>1, <2>1 DEF Tick
  <2> QED
    BY <1>1, <2>2, <2>3 DEF Entry
<1>3. DOMAIN cache' = 1 .. Len(cache) /\ cache' \in [1 .. Len(cache) -> Entry]
  BY <1>1, <1>2 DEF Tick
<1> HIDE DEF Entry
<1>4. cache' \in Seq(Entry) /\ Len(cache') = Len(cache)
  <2>1. cache' \in Seq(Entry)
    BY <1>1, <1>3, SeqDef
  <2> QED
    BY <1>1, <1>3, <2>1, LenProperties
<1> QED
  BY <1>4 DEF CacheInv, Tick

\* What the client of p sends stays one of the two things it may be.
LEMMA ClientTyped ==
  ASSUME OthersInv, NEW p \in Procs, NEW a,
         Accept(p, a) \/ ClientRestarts(p) \/ DtlsUp(p)
  PROVE  OthersInv'
BY DEF OthersInv, Accept, ClientRestarts, DtlsUp

\* The invariant holds at the start.
LEMMA WorkerChannelInit == Init => WorkerChannelInv
<1> SUFFICES ASSUME Init PROVE WorkerChannelInv
  OBVIOUS
<1>1. PICK a \in Addrs : proc = [p \in Procs |-> [NewProc(a) EXCEPT !.status = "free"]]
  BY DEF Init
<1>2. \A p \in Procs : /\ proc[p] \in Proc /\ proc[p].status = "free"
                        /\ ~proc[p].in_table /\ ~proc[p].script
  BY <1>1, NewTyped
<1>3. \A p \in Procs : worker[p] \in Worker
  BY NewTyped DEF Init
<1>4. /\ proc \in [Procs -> Proc] /\ worker \in [Procs -> Worker]
      /\ \A p \in Procs : up[p] = <<>> /\ down[p] = <<>>
  <2> HIDE DEF Proc, Worker
  <2> QED
    BY <1>1, <1>2, <1>3 DEF Init
<1>5. up \in [Procs -> Seq(Up)] /\ down \in [Procs -> Seq(Down)]
  BY EmptySeq DEF Init
<1>6. SlotsInv
  BY <1>2, <1>4, <1>5 DEF SlotsInv, SlotInv
<1>7. CacheInv
  BY EmptySeq, WorkerChannelAssumption DEF Init, CacheInv
<1>8. OthersInv
  BY DEF Init, OthersInv
<1> QED
  BY <1>6, <1>7, <1>8, Parts

\* Every step keeps it.
LEMMA WorkerChannelNext == WorkerChannelInv /\ [Next]_vars => WorkerChannelInv'
<1> SUFFICES ASSUME SlotsInv, CacheInv, OthersInv, [Next]_vars
             PROVE  SlotsInv' /\ CacheInv' /\ OthersInv'
  BY Parts, Zenon DEF WorkerChannelInv, TypeOK, SlotsInv, CacheInv, OthersInv
<1>1. ASSUME UNCHANGED <<cache, entries>> PROVE CacheInv'
  BY <1>1 DEF CacheInv
<1>2. ASSUME UNCHANGED <<client, shared>> PROVE OthersInv'
  BY <1>2 DEF OthersInv
<1>3. ASSUME NEW p \in Procs, NEW a \in Addrs, Accept(p, a)
      PROVE  SlotsInv' /\ CacheInv' /\ OthersInv'
  BY <1>1, <1>3, AcceptSlots, ClientTyped DEF Accept
<1>4. ASSUME NEW p \in Procs, NEW id \in Ids, Fetch(p, id) \/ Delete(p, id)
      PROVE  SlotsInv' /\ CacheInv' /\ OthersInv'
  BY <1>1, <1>2, <1>4, FetchSlots, DeleteSlots DEF Fetch, Delete
<1>5. ASSUME NEW p \in Procs, MainServes(p) PROVE SlotsInv' /\ CacheInv' /\ OthersInv'
  <2>1. CASE ResumeFetch(p)
    BY <1>1, <1>2, <2>1, ResumeFetchSlots DEF ResumeFetch
  <2>2. CASE ResumeStore(p)
    BY <1>2, <2>2, ServedSlots, StoreCache DEF ResumeStore
  <2>3. CASE ResumeDelete(p)
    BY <1>2, <2>3, ServedSlots, DeleteCache DEF ResumeDelete
  <2>4. CASE CookieRefused(p)
    BY <1>1, <1>2, <2>4, CookieRefusedSlots DEF CookieRefused
  <2>5. CASE CookieAccepted(p)
    BY <1>1, <1>2, <2>5, CookieAcceptedSlots DEF CookieAccepted
  <2>6. CASE TunMtu(p)
    BY <1>1, <1>2, <2>6, ServedSlots DEF TunMtu
  <2>7. CASE WorkerGone(p)
    BY <1>1, <1>2, <2>7, RemovedSlots DEF WorkerGone
  <2> QED
    BY <1>5, <2>1, <2>2, <2>3, <2>4, <2>5, <2>6, <2>7 DEF MainServes
<1>6. ASSUME NEW p \in Procs, NEW ok \in BOOLEAN, ScriptExit(p, ok) PROVE SlotsInv' /\ CacheInv' /\ OthersInv'
  BY <1>1, <1>2, <1>6, ScriptExitSlots DEF ScriptExit
<1>7. ASSUME NEW p \in Procs, HelloPacket(p) \/ DataPacket(p)
      PROVE  SlotsInv' /\ CacheInv' /\ OthersInv'
  <2>1. PICK h \in BOOLEAN, o \in BOOLEAN : Forward(p, h, o)
    BY <1>7 DEF HelloPacket, DataPacket
  <2> QED
    BY <1>1, <1>2, <2>1, ForwardSlots DEF Forward
<1>8. ASSUME NEW p \in Procs, WorkerReads(p) PROVE SlotsInv' /\ CacheInv' /\ OthersInv'
  <2>1. CASE RecvResume(p)
    BY <1>1, <1>2, <2>1, RecvResumeSlots DEF RecvResume
  <2>2. CASE RecvCookie(p)
    BY <1>1, <1>2, <2>2, RecvCookieSlots DEF RecvCookie
  <2>3. CASE handle_worker_commands(p)
    BY <1>1, <1>2, <2>3, WorkerCommandSlots DEF handle_worker_commands
  <2>4. CASE BadDown(p)
    BY <1>1, <1>2, <2>4, LeaveSlots DEF BadDown
  <2> QED
    BY <1>8, <2>1, <2>2, <2>3, <2>4 DEF WorkerReads
<1>9. ASSUME NEW p \in Procs, Handshaken(p) \/ AuthCookie(p) \/ SendMtu(p)
      PROVE  SlotsInv' /\ CacheInv' /\ OthersInv'
  BY <1>1, <1>2, <1>9, HandshakenSlots, AuthCookieSlots, SendMtuSlots DEF Handshaken, AuthCookie, SendMtu
<1>10. ASSUME NEW p \in Procs, Leave(p) PROVE SlotsInv' /\ CacheInv' /\ OthersInv'
  BY <1>1, <1>2, <1>10, LeaveSlots DEF Leave
<1>11. ASSUME NEW p \in Procs, ClientRestarts(p) PROVE SlotsInv' /\ CacheInv' /\ OthersInv'
  BY <1>1, <1>11, StillSlots, ClientTyped DEF ClientRestarts
<1>12. ASSUME NEW p \in Procs, DtlsUp(p) PROVE SlotsInv' /\ CacheInv' /\ OthersInv'
  BY <1>1, <1>12, UdpSlots, ClientTyped DEF DtlsUp
<1>13. ASSUME NEW p \in Procs, PortChanges(p) \/ DtlsData(p)
       PROVE  SlotsInv' /\ CacheInv' /\ OthersInv'
  BY <1>1, <1>2, <1>13, UdpSlots DEF PortChanges, DtlsData
<1>14. CASE expire_tls_sessions
  BY <1>2, <1>14, StillSlots, ExpireCache DEF expire_tls_sessions
<1>15. CASE Tick
  BY <1>2, <1>15, TickSlots, TickCache DEF Tick
<1>16. CASE UNCHANGED vars
  BY <1>1, <1>2, <1>16, StillSlots DEF vars
<1> QED
  BY <1>3, <1>4, <1>5, <1>6, <1>7, <1>8, <1>9, <1>10, <1>11, <1>12, <1>13, <1>14, <1>15, <1>16 DEF Next

(***************************************************************************)
(* Theorems                                                                *)
(***************************************************************************)

\* WorkerChannelInv is an invariant of the command sockets between main and its
\* workers, for every number of procs and every length of the streams.
THEOREM ChannelInvariant == Spec => []WorkerChannelInv
BY WorkerChannelInit, WorkerChannelNext, PTL DEF Spec

\* Every variable keeps its type, and no message on a socket is of a kind the other
\* side does not know.
THEOREM ChannelTyped == Spec => []TypeOK
<1>1. WorkerChannelInv => TypeOK
  BY DEF WorkerChannelInv
<1> QED
  BY <1>1, ChannelInvariant, PTL

\* main and every worker agree on the login, whatever UDP sockets are pushed onto the
\* stream between the cookie and its answer.
THEOREM MainAndWorkerAgree == Spec => []LoginAgreed
<1>1. ASSUME WorkerChannelInv PROVE LoginAgreed
  <2>1. SlotsInv
    BY <1>1, Parts
  <2>2. SUFFICES ASSUME NEW p \in Procs, proc[p].status # "free"
                 PROVE  /\ up[p] # <<>> => InPlace(p)
                        /\ At(p, {"tunnel", "rehandshake"}) => proc[p].status = "completed"
                        /\ /\ proc[p].status = "completed" /\ Running(p)
                           /\ up[p] = <<>> /\ down[p] = <<>>
                           => At(p, {"tunnel"})
    BY DEF LoginAgreed, Listed
  <2>3. /\ worker[p] \in Worker /\ up[p] \in Seq(Up) /\ down[p] \in Seq(Down)
        /\ LoginInv(proc[p], worker[p], up[p], down[p])
    BY <2>1, <2>2, SlotFacts DEF SlotInv
  <2>4. ASSUME up[p] # <<>> PROVE InPlace(p)
    <3>1. /\ Head(up[p]).cmd = "AUTH_COOKIE_REQ" => Of(up[p], "AUTH_COOKIE_REQ") # {}
          /\ Head(up[p]).cmd = "CMD_TUN_MTU" => Of(up[p], "CMD_TUN_MTU") # {}
      BY <2>3, <2>4, OfTail
    <3> QED
      BY <2>3, <3>1 DEF InPlace, LoginInv
  <2>5. At(p, {"tunnel", "rehandshake"}) => proc[p].status = "completed"
    BY <2>3 DEF At, LoginInv
  <2>6. ASSUME proc[p].status = "completed", Running(p), up[p] = <<>>, down[p] = <<>>
        PROVE  At(p, {"tunnel"})
    <3>1. Of(up[p], "RESUME_FETCH_REQ") = {} /\ Of(down[p], "AUTH_COOKIE_REP") = {}
      BY <2>6, NoMessages
    <3>2. worker[p].pc \notin {"handshake", "wait_resume", "http", "wait_cookie", "rehandshake"}
      BY <2>3, <2>6, <3>1 DEF LoginInv
    <3> QED
      BY <2>3, <2>6, <3>2 DEF Worker, Running, At
  <2> QED
    BY <2>4, <2>5, <2>6
<1> QED
  BY <1>1, ChannelInvariant, PTL

\* The count of the TLS session cache is exact and bounded, and a worker resumes only
\* what was stored from its client's address under the ID its client offered, also
\* when an answer comes late or is met by another question.
THEOREM CacheIsSound == Spec => []CacheSound
<1>1. ASSUME WorkerChannelInv PROVE CacheSound
  <2>1. SlotsInv /\ CacheInv
    BY <1>1, Parts
  <2>2. ASSUME NEW p \in Procs, proc[p].status # "free", worker[p].resumed # None
        PROVE  worker[p].resumed.id = worker[p].offered /\ worker[p].resumed.addr = proc[p].addr
    BY <2>1, <2>2, SlotFacts DEF SlotInv, FetchInv
  <2> QED
    BY <2>1, <2>2 DEF CacheSound, CacheInv, Listed
<1> QED
  BY <1>1, ChannelInvariant, PTL

=============================================================================
