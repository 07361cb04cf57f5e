----------------------------- MODULE CmdChannel -----------------------------
(***************************************************************************)
(* The socket pair between main and sec-mod (common.c,                     *)
(* main-sec-mod-cmd.c, sec-mod.c).  Both ends start conversations on it:   *)
(* main opens and closes sessions, sec-mod charges a wrong password to an  *)
(* address; and both then read the socket until the answer comes.  It is a *)
(* byte stream: a message is a 3-byte header and a body, and a reader that *)
(* meets a header it does not want leaves the body in the stream.          *)
(*                                                                         *)
(* sendmsg puts a whole message in the stream.  A body is counted in reads *)
(* of header size, which is how a reader that lost its place eats it.      *)
(***************************************************************************)
EXTENDS Integers, Sequences

CONSTANTS
  BansEnabled,  \* max-ban-score is not 0
  BodyReads,    \* header-sized reads that the shortest ban request's body takes
  MaxRequests,  \* bound: requests of main, however many in one turn of its loop
  MaxBans       \* bound: charges of sec-mod

ASSUME CmdChannelAssumption ==
  /\ BansEnabled \in BOOLEAN
  /\ BodyReads \in Nat \ {0}
  /\ MaxRequests \in Nat /\ MaxBans \in Nat

VARIABLES
  main,     \* "idle", the reply that main waits for, or "terminated"
  sec,      \* "idle", "BAN_IP_REPLY" while it waits for that, or "exited"
  to_sec,   \* the stream from main to sec-mod
  to_main,  \* the stream from sec-mod to main
  ready,    \* what select said of main's end in this turn of main's loop
  asked,    \* number of main's last request
  got,      \* number of the request whose reply main accepted last
  bans,     \* charges sent
  missed    \* history: requests that main gave up on

vars == <<main, sec, to_sec, to_main, ready, asked, got, bans, missed>>

\* The reply that belongs to a request of main.
ReplyTo == [SESSION_OPEN |-> "SESSION_REPLY", SESSION_CLOSE |-> "CLI_STATS"]

Requests == DOMAIN ReplyTo
Replies  == {ReplyTo[r] : r \in Requests}

Part ==
  [part : {"head"}, cmd : Requests \cup Replies \cup {"BAN_IP", "BAN_IP_REPLY"}, id : Nat]
    \cup [part : {"body"}, left : Nat]

TypeOK ==
  /\ main \in {"idle", "terminated"} \cup Replies
  /\ sec \in {"idle", "BAN_IP_REPLY", "exited"}
  /\ to_sec \in Seq(Part) /\ to_main \in Seq(Part)
  /\ ready \in BOOLEAN
  /\ asked \in Nat /\ got \in Nat /\ bans \in Nat /\ missed \in Nat

\* send_msg
Message(cmd, id) ==
  << [part |-> "head", cmd |-> cmd, id |-> id], [part |-> "body", left |-> BodyReads] >>

\* What may be left of stream q when a header was read that nobody had asked
\* for: the last read of a body may reach into the header behind it.
Misread(q) ==
  IF q[1].part = "head" THEN {Tail(q)}
  ELSE IF q[1].left > 1 THEN { << [q[1] EXCEPT !.left = @ - 1] >> \o Tail(q) }
  ELSE {SubSeq(q, n, Len(q)) : n \in {2, 3}}

\* The next header in stream q is that of a cmd.
Meets(q, cmd) == q[1].part = "head" /\ q[1].cmd = cmd

\* What is left of stream q when the message at its head was read.
Read(q) == SubSeq(q, 3, Len(q))

(***************************************************************************)
(* main                                                                    *)
(***************************************************************************)

\* session_open or session_close for a worker's command.
Request(r) ==
  /\ main = "idle"
  /\ sec # "exited"
  /\ asked < MaxRequests
  /\ main' = ReplyTo[r]
  /\ asked' = asked + 1
  /\ to_sec' = to_sec \o Message(r, asked + 1)
  /\ UNCHANGED <<sec, to_main, ready, got, bans, missed>>

\* recv_socket_msg while main waits for a reply: the reply, another header or
\* the end of the stream.
ReplyArrives ==
  /\ main \in Replies
  /\ to_main # <<>>
  /\ Meets(to_main, main)
  /\ got' = to_main[1].id
  /\ to_main' = Read(to_main)
  /\ main' = "idle"
  /\ UNCHANGED <<sec, to_sec, ready, asked, bans, missed>>

ReplyMisread ==
  /\ main \in Replies
  /\ to_main # <<>>
  /\ ~Meets(to_main, main)
  /\ to_main' \in Misread(to_main)
  /\ main' = "idle"
  /\ missed' = missed + 1
  /\ UNCHANGED <<sec, to_sec, ready, asked, got, bans>>

ReplyLost ==
  /\ main \in Replies
  /\ to_main = <<>>
  /\ sec = "exited"
  /\ main' = "idle"
  /\ missed' = missed + 1
  /\ UNCHANGED <<sec, to_sec, to_main, ready, asked, got, bans>>

\* The end of a turn, if select did not report the socket, and the next select.
Turn ==
  /\ main = "idle"
  /\ ~ready
  /\ ready' = (to_main # <<>> \/ sec = "exited")
  /\ UNCHANGED <<main, sec, to_sec, to_main, asked, got, bans, missed>>

\* Slip: the charge is noted but not answered.
BanServed_Silent == UNCHANGED to_sec

\* The reply of handle_sec_mod_commands.
BanServed == to_sec' = to_sec \o Message("BAN_IP_REPLY", 0)

\* The end of a turn in which the socket was reported: handle_sec_mod_commands.
ServeBan ==
  /\ main = "idle"
  /\ ready
  /\ to_main # <<>>
  /\ Meets(to_main, "BAN_IP")
  /\ to_main' = Read(to_main)
  /\ BanServed
  /\ ready' = FALSE
  /\ UNCHANGED <<main, sec, asked, got, bans, missed>>

\* Slip: main shrugs off what it does not understand.
Complains_Not(m) == m' = m

\* A bad command from sec-mod, or its end, terminates the server.
Complains(m) == m' = "terminated"

BadCommand ==
  /\ main = "idle"
  /\ ready
  /\ to_main # <<>>
  /\ ~Meets(to_main, "BAN_IP")
  /\ to_main' \in Misread(to_main)
  /\ Complains(main)
  /\ ready' = FALSE
  /\ UNCHANGED <<sec, to_sec, asked, got, bans, missed>>

SecModGone ==
  /\ main = "idle"
  /\ ready
  /\ to_main = <<>>
  /\ sec = "exited"
  /\ Complains(main)
  /\ ready' = FALSE
  /\ UNCHANGED <<sec, to_sec, to_main, asked, got, bans, missed>>

(***************************************************************************)
(* sec-mod                                                                 *)
(***************************************************************************)

\* Every path of the two session handlers that returns sends one reply.
Answer(r, id) == to_main' = to_main \o Message(ReplyTo[r], id)

\* serve_request on main's socket: a request, answered.
Serve ==
  /\ sec = "idle"
  /\ to_sec # <<>>
  /\ \E r \in Requests :
       /\ Meets(to_sec, r)
       /\ Answer(r, to_sec[1].id)
  /\ to_sec' = Read(to_sec)
  /\ UNCHANGED <<main, sec, ready, asked, got, bans, missed>>

\* serve_request on something else: an unknown type ends sec-mod; a length out
\* of range or a timeout drops what was read so far.
ServeGarbage ==
  /\ sec = "idle"
  /\ to_sec # <<>>
  /\ \A r \in Requests : ~Meets(to_sec, r)
  /\ \E rest \in Misread(to_sec) :
       \E n \in 0 .. Len(rest) : to_sec' = SubSeq(rest, n + 1, Len(rest))
  /\ sec' \in {"idle", "exited"}
  /\ UNCHANGED <<main, to_main, ready, asked, got, bans, missed>>

\* sec_mod_add_score_to_ip for the wrong password of a worker's client.
SendBan ==
  /\ sec = "idle"
  /\ BansEnabled
  /\ bans < MaxBans
  /\ bans' = bans + 1
  /\ sec' = "BAN_IP_REPLY"
  /\ to_main' = to_main \o Message("BAN_IP", 0)
  /\ UNCHANGED <<main, to_sec, ready, asked, got, missed>>

\* Its recv_msg: whatever header comes first ends the wait.
BanReplied ==
  /\ sec = "BAN_IP_REPLY"
  /\ to_sec # <<>>
  /\ to_sec' \in IF Meets(to_sec, sec) THEN {Read(to_sec)} ELSE Misread(to_sec)
  /\ sec' = "idle"
  /\ UNCHANGED <<main, to_main, ready, asked, got, bans, missed>>

\* sec-mod is killed or crashes.
SecModDies ==
  /\ sec # "exited"
  /\ main # "terminated"
  /\ sec' = "exited"
  /\ UNCHANGED <<main, to_sec, to_main, ready, asked, got, bans, missed>>

Init ==
  /\ main = "idle" /\ sec = "idle"
  /\ to_sec = <<>> /\ to_main = <<>>
  /\ ready = FALSE
  /\ asked = 0 /\ got = 0 /\ bans = 0 /\ missed = 0

MainSteps ==
  ReplyArrives \/ ReplyMisread \/ ReplyLost \/ Turn \/ ServeBan \/ BadCommand \/ SecModGone

SecModSteps == Serve \/ ServeGarbage \/ BanReplied

Next ==
  \/ \E r \in Requests : Request(r)
  \/ MainSteps
  \/ SecModSteps
  \/ SendBan
  \/ SecModDies

\* Each process keeps running: main's loop turns and sec-mod's loop serves
\* what is in its socket.
Fairness == WF_vars(MainSteps) /\ WF_vars(SecModSteps)

Spec == Init /\ [][Next]_vars /\ Fairness

(***************************************************************************)
(* Properties                                                              *)
(***************************************************************************)

\* All of the following is said of main's first misses.  Once it has given up
\* on more requests than the body of a ban request takes reads, the left-over
\* body is used up: the stream falls back in step one answer behind, or main
\* waits for an answer that sec-mod has dropped unread.
StillLost == missed <= BodyReads

\* A reply that main takes for an answer answers the request it waits for,
\* and not one it has given up on.
AnswerIsOwn == [][got' # got /\ StillLost => got' = asked]_vars

\* recv_socket_msg has no timeout, yet neither process is left waiting for a
\* reply: crossing requests end both waits, and sec-mod's end ends main's.
WaitsEnd ==
  /\ main \in Replies /\ StillLost ~> main \notin Replies
  /\ sec = "BAN_IP_REPLY" ~> (sec # "BAN_IP_REPLY" \/ main = "terminated" \/ ~StillLost)

\* Once main gave up on a request (its reply was misread or sec-mod is gone)
\* the server does not go on as if nothing happened: main terminates, unless
\* one turn's burst of requests used the left-over body up before main's loop
\* looked at the socket itself.
DesyncStops == (main = "idle" /\ got # asked) ~> (main = "terminated" \/ ~StillLost)

=============================================================================
