------------------------------- MODULE Server -------------------------------
(***************************************************************************)
(* The life of the server as a family of processes: main (main.c), the     *)
(* security module it forks at start (sec-mod.c), one worker per           *)
(* connection and the scripts main runs.  What is modelled is who is       *)
(* alive, which signals are on their way, and which configuration main and *)
(* sec-mod run on: start-up, SIGHUP, SIGTERM, SIGCHLD, the death of main   *)
(* and of sec-mod.  The sessions themselves are module Sessions.           *)
(*                                                                         *)
(* main and sec-mod block their signals except inside pselect, so a signal *)
(* waits there; its handler only sets a flag that check_other_work reads   *)
(* at the top of the loop.  A child runs with the handlers of main until   *)
(* it has installed its own: a signal that comes earlier sets a flag that  *)
(* this child never reads.                                                 *)
(***************************************************************************)
EXTENDS Integers

CONSTANTS
  Workers,   \* slots for worker processes
  Scripts,   \* slots for connect and disconnect scripts
  Files,     \* contents of the configuration file
  FirstFile, \* its content at start
  BadFile,   \* a content parse_cfg_file or check_cfg refuses
  MaxEdits,  \* bound: changes of the configuration file
  Total      \* rounds main waits for its children (10)

ASSUME ServerAssumption ==
  /\ MaxEdits \in Nat /\ Total \in Nat
  /\ BadFile \in Files /\ FirstFile \in Files \ {BadFile}

VARIABLES
  main,      \* where main is
  sig,       \* signals main has not yet received
  flags,     \* reload_conf, need_children_cleanup, terminate
  total,     \* rounds left in the final wait
  secmod,    \* the security module
  sec_sig,   \* signals of sec-mod, pending or flagged
  worker,    \* worker[w]
  listed,    \* the workers with a proc_st
  script,    \* script[x]: a script child of main
  file,      \* the configuration file
  edits,     \* number of changes of it
  conf,      \* what main runs on
  sec_conf,  \* what sec-mod runs on
  asked,     \* history: SIGHUP was sent since the last change of the file, when
             \* sec-mod was ready
  crashed    \* history: main ended in another way than by its final wait

vars == <<main, sig, flags, total, secmod, sec_sig, worker, listed, script,
          file, edits, conf, sec_conf, asked, crashed>>

conf_vars == <<file, edits, conf, sec_conf, asked>>

Signals == {"HUP", "TERM", "CHLD"}

\* "starting": the process runs with the signal handlers of main.
\* "told": a worker that has to leave: it got SIGTERM and has set its alarm of
\* two seconds, or main's end of its command socket is closed.
WorkerStates == {"free", "starting", "running", "told", "zombie"}

TypeOK ==
  /\ main \in {"init", "reload", "cleanup", "reap", "select", "gone"}
  /\ sig \subseteq Signals /\ flags \subseteq Signals
  /\ total \in 0 .. Total
  /\ secmod \in {"starting", "running", "zombie", "gone"}
  /\ sec_sig \subseteq {"HUP", "TERM"}
  /\ worker \in [Workers -> WorkerStates] /\ listed \subseteq Workers
  /\ script \in [Scripts -> {"free", "running", "zombie"}]
  /\ file \in Files /\ edits \in 0 .. MaxEdits
  /\ conf \in Files /\ sec_conf \in Files
  /\ asked \in BOOLEAN /\ crashed \in BOOLEAN

Init ==
  /\ main = "init" /\ sig = {} /\ flags = {} /\ total = Total
  /\ secmod = "starting" /\ sec_sig = {}
  /\ worker = [w \in Workers |-> "free"] /\ listed = {}
  /\ script = [x \in Scripts |-> "free"]
  /\ file = FirstFile /\ edits = 0
  /\ conf = file /\ sec_conf = file
  /\ asked = FALSE /\ crashed = FALSE

Alive(w) == worker[w] \in {"starting", "running", "told"}

SecModAlive == secmod \in {"starting", "running"}

(***************************************************************************)
(* Death                                                                   *)
(***************************************************************************)

\* main is gone.  The kernel sends SIGTERM to sec-mod (kill_on_parent_kill).
\* A worker that has dropped its privileges has lost that setting: all it is
\* sure to see is the end of its command socket.  Zombies are reaped by init.
MainDies ==
  /\ main' = "gone" /\ sig' = {} /\ flags' = {} /\ listed' = {}
  /\ sec_sig' = IF secmod = "running" THEN sec_sig \cup {"TERM"} ELSE sec_sig
  /\ secmod' = IF secmod = "zombie" THEN "gone" ELSE secmod
  /\ worker' = [w \in Workers |-> CASE worker[w] = "zombie" -> "free"
                                    [] Alive(w) -> "told"
                                    [] OTHER -> worker[w]]
  /\ script' = [x \in Scripts |-> IF script[x] = "zombie" THEN "free" ELSE script[x]]

\* SIGCHLD for main, if main is still there to get it.
Chld == IF main = "gone" THEN sig ELSE sig \cup {"CHLD"}

\* What is left of a dead child until main waits for it.
Dead == IF main = "gone" THEN "free" ELSE "zombie"

\* The configuration error, certificate error or crash of a running main.
MainFails ==
  /\ main # "gone"
  /\ MainDies
  /\ crashed' = TRUE
  /\ UNCHANGED <<total, conf_vars>>

SecModDies ==
  /\ secmod' = IF main = "gone" THEN "gone" ELSE "zombie"
  /\ sec_sig' = {}
  /\ sig' = Chld

\* sec-mod cannot read a key or open its socket, or it crashes.
SecModFails ==
  /\ SecModAlive
  /\ SecModDies
  /\ UNCHANGED <<main, flags, total, worker, listed, script, conf_vars, crashed>>

(***************************************************************************)
(* The operator                                                            *)
(***************************************************************************)

Edit(f) ==
  /\ main # "gone" /\ edits < MaxEdits /\ f # file
  /\ file' = f /\ edits' = edits + 1 /\ asked' = FALSE
  /\ UNCHANGED <<main, sig, flags, total, secmod, sec_sig, worker, listed, script,
                 conf, sec_conf, crashed>>

Hangup ==
  /\ main # "gone" /\ "HUP" \notin sig
  /\ sig' = sig \cup {"HUP"}
  /\ asked' = (asked \/ secmod = "running")
  /\ UNCHANGED <<main, flags, total, secmod, sec_sig, worker, listed, script,
                 file, edits, conf, sec_conf, crashed>>

Stop ==
  /\ main # "gone" /\ "TERM" \notin sig
  /\ sig' = sig \cup {"TERM"}
  /\ UNCHANGED <<main, flags, total, secmod, sec_sig, worker, listed, script,
                 conf_vars, crashed>>

(***************************************************************************)
(* main                                                                    *)
(***************************************************************************)

\* main has loaded the certificates and enters its loop; what came before is
\* already in the flags.
MainReady ==
  /\ main = "init"
  /\ main' = "reload"
  /\ flags' = flags \cup sig /\ sig' = {}
  /\ UNCHANGED <<total, secmod, sec_sig, worker, listed, script, conf_vars, crashed>>

\* pselect lets the signals in and returns with EINTR.
Wake ==
  /\ main = "select" /\ sig # {}
  /\ main' = "reload"
  /\ flags' = flags \cup sig /\ sig' = {}
  /\ UNCHANGED <<total, secmod, sec_sig, worker, listed, script, conf_vars, crashed>>

\* parse_cfg_file and check_cfg get through; otherwise they call exit.
Readable(f) == f # BadFile

\* A signal for sec-mod: before it has its own handlers it is lost.
ToSecMod(s) == IF secmod = "running" THEN sec_sig \cup {s} ELSE sec_sig

\* Slip: sec-mod is not told to reload.
Reload_NotForwarded ==
  /\ main = "reload"
  /\ "HUP" \in flags => Readable(file)
  /\ main' = "cleanup"
  /\ flags' = flags \ {"HUP"}
  /\ conf' = IF "HUP" \in flags THEN file ELSE conf
  /\ UNCHANGED <<sig, total, secmod, sec_sig, worker, listed, script, file, edits,
                 sec_conf, asked, crashed>>

\* check_other_work, reload_conf: the new configuration is read in place of the
\* old one and sec-mod is told to do the same.
Reload ==
  /\ main = "reload"
  /\ "HUP" \in flags => Readable(file)
  /\ main' = "cleanup"
  /\ flags' = flags \ {"HUP"}
  /\ conf' = IF "HUP" \in flags THEN file ELSE conf
  /\ sec_sig' = IF "HUP" \in flags THEN ToSecMod("HUP") ELSE sec_sig
  /\ UNCHANGED <<sig, total, secmod, worker, listed, script, file, edits,
                 sec_conf, asked, crashed>>

\* A configuration that cannot be read ends main on the spot: exit(1).
ReloadFails ==
  /\ main = "reload" /\ "HUP" \in flags /\ ~Readable(file)
  /\ MainDies
  /\ crashed' = TRUE
  /\ UNCHANGED <<total, conf_vars>>

\* remove_proc: main sends SIGTERM to the worker, unless it was the worker that
\* left, and closes its end of the command socket.
Told(w) == IF Alive(w) THEN "told" ELSE worker[w]

\* A proc leaves the list; a disconnect script may be started for it.
StartsScript(sc) ==
  {sc} \cup {[sc EXCEPT ![x] = "running"] : x \in {y \in Scripts : sc[y] = "free"}}

Zombies == {w \in Workers : worker[w] = "zombie"} \cup {x \in Scripts : script[x] = "zombie"}

\* Slip: one child is reaped per SIGCHLD, although signals do not queue.
reaped_One == IF Zombies = {} THEN {{}} ELSE {{c} : c \in Zombies}

\* cleanup_children waits for every child that has died.
reaped == {Zombies}

Reap(f, S) == [c \in DOMAIN f |-> IF c \in S THEN "free" ELSE f[c]]

\* cleanup_children; without sec-mod the server cannot go on.
cleanup_children ==
  /\ main = "cleanup" /\ "CHLD" \in flags
  /\ \E S \in reaped :
       worker' = Reap(worker, S) /\ script' = Reap(script, S)
  /\ secmod' = IF secmod = "zombie" THEN "gone" ELSE secmod
  /\ flags' = (flags \ {"CHLD"}) \cup (IF secmod = "zombie" THEN {"TERM"} ELSE {})
  /\ UNCHANGED <<main, sig, total, sec_sig, listed, conf_vars, crashed>>

\* Nothing more to do: back to pselect.
NoOtherWork ==
  /\ main = "cleanup" /\ flags = {}
  /\ main' = "select"
  /\ UNCHANGED <<sig, flags, total, secmod, sec_sig, worker, listed, script, conf_vars, crashed>>

\* kill_children: sec-mod first, then remove_proc for every client, and the
\* socket and pid files are removed.
kill_children ==
  /\ main = "cleanup" /\ flags = {"TERM"}
  /\ main' = "reap"
  /\ sec_sig' = ToSecMod("TERM")
  /\ worker' = [w \in Workers |-> IF w \in listed THEN Told(w) ELSE worker[w]]
  /\ listed' = {}
  /\ script' \in IF listed = {} THEN {script} ELSE StartsScript(script)
  /\ UNCHANGED <<sig, flags, total, secmod, conf_vars, crashed>>

NoChildren ==
  /\ secmod = "gone"
  /\ \A w \in Workers : worker[w] = "free"
  /\ \A x \in Scripts : script[x] = "free"

\* One round of the final wait: waitpid reaps one child or finds none that has
\* died; both count as a round.
WaitRound ==
  /\ main = "reap" /\ ~NoChildren /\ total > 0
  /\ total' = total - 1
  /\ \/ \E c \in Zombies : /\ worker' = Reap(worker, {c}) /\ script' = Reap(script, {c})
                          /\ UNCHANGED secmod
     \/ secmod = "zombie" /\ secmod' = "gone" /\ UNCHANGED <<worker, script>>
     \/ secmod # "zombie" /\ Zombies = {} /\ UNCHANGED <<worker, secmod, script>>
  /\ UNCHANGED <<main, sig, flags, sec_sig, listed, conf_vars, crashed>>

\* Slip: main goes on waiting.
ForceKill_Never == FALSE /\ UNCHANGED vars

\* "not everyone died; forcing kill": SIGKILL to the process group, main
\* included.
ForceKill ==
  /\ main = "reap" /\ ~NoChildren /\ total = 0
  /\ main' = "gone" /\ sig' = {} /\ flags' = {} /\ sec_sig' = {}
  /\ secmod' = "gone"
  /\ worker' = [w \in Workers |-> "free"] /\ script' = [x \in Scripts |-> "free"]
  /\ UNCHANGED <<total, listed, conf_vars, crashed>>

\* waitpid reports that there is no child left.
MainExits ==
  /\ main = "reap" /\ NoChildren
  /\ MainDies
  /\ UNCHANGED <<total, conf_vars, crashed>>

\* A connection is accepted: fork and new_proc.
Accept(w) ==
  /\ main = "select" /\ worker[w] = "free" /\ w \notin listed
  /\ worker' = [worker EXCEPT ![w] = "starting"]
  /\ listed' = listed \cup {w}
  /\ UNCHANGED <<main, sig, flags, total, secmod, sec_sig, script, conf_vars, crashed>>

\* handle_commands fails or finds the socket closed: remove_proc, with SIGTERM
\* when the worker broke the protocol.
RemoveProc(w) ==
  /\ main = "select" /\ w \in listed
  /\ listed' = listed \ {w}
  /\ worker' = [worker EXCEPT ![w] = Told(w)]
  /\ script' \in StartsScript(script)
  /\ UNCHANGED <<main, sig, flags, total, secmod, sec_sig, conf_vars, crashed>>

\* sec-mod closed the command socket, or sent what main does not expect.
SecModUnreadable ==
  /\ main = "select" /\ ~SecModAlive
  /\ main' = "reload"
  /\ flags' = flags \cup {"TERM"}
  /\ UNCHANGED <<sig, total, secmod, sec_sig, worker, listed, script, conf_vars, crashed>>

(***************************************************************************)
(* The children                                                            *)
(***************************************************************************)

\* sec_mod_server has installed its handlers and enters its loop.
SecModReady ==
  /\ secmod = "starting"
  /\ secmod' = "running"
  /\ UNCHANGED <<main, sig, flags, total, sec_sig, worker, listed, script, conf_vars, crashed>>

\* Nobody has main's end of sec-mod's command socket any more: workers and
\* scripts inherited it.  From then on the socket is always ready, serve_request
\* fails in every turn without ERR_BAD_COMMAND, and pselect, which has a ready
\* descriptor, need not let a signal in: sec-mod may go round for ever.
CmdEof ==
  /\ main = "gone"
  /\ \A w \in Workers : ~Alive(w)
  /\ \A x \in Scripts : script[x] # "running"

\* sec-mod's check_other_work: need_exit goes before need_reload.
SecModExits ==
  /\ secmod = "running" /\ "TERM" \in sec_sig
  /\ SecModDies
  /\ UNCHANGED <<main, flags, total, worker, listed, script, conf_vars, crashed>>

SecModReload ==
  /\ secmod = "running" /\ sec_sig = {"HUP"} /\ Readable(file)
  /\ sec_conf' = file /\ sec_sig' = {}
  /\ UNCHANGED <<main, sig, flags, total, secmod, worker, listed, script, file, edits,
                 conf, asked, crashed>>

SecModReloadFails ==
  /\ secmod = "running" /\ sec_sig = {"HUP"} /\ ~Readable(file)
  /\ SecModDies
  /\ UNCHANGED <<main, flags, total, worker, listed, script, conf_vars, crashed>>

\* vpn_server has installed the worker's handlers.
WorkerReady(w) ==
  /\ worker[w] = "starting"
  /\ worker' = [worker EXCEPT ![w] = "running"]
  /\ UNCHANGED <<main, sig, flags, total, secmod, sec_sig, listed, script, conf_vars, crashed>>

\* The worker leaves: the client is gone, its alarm goes off, or it meets the
\* closed command socket.
WorkerLeaves(w) ==
  /\ Alive(w)
  /\ worker' = [worker EXCEPT ![w] = Dead]
  /\ sig' = Chld
  /\ UNCHANGED <<main, flags, total, secmod, sec_sig, listed, script, conf_vars, crashed>>

ScriptEnds(x) ==
  /\ script[x] = "running"
  /\ script' = [script EXCEPT ![x] = Dead]
  /\ sig' = Chld
  /\ UNCHANGED <<main, flags, total, secmod, sec_sig, worker, listed, conf_vars, crashed>>

MainStep ==
  \/ MainReady \/ Wake \/ Reload \/ ReloadFails \/ cleanup_children \/ NoOtherWork
  \/ kill_children \/ WaitRound \/ ForceKill \/ MainExits \/ SecModUnreadable

SecModStep == SecModReady \/ SecModExits \/ SecModReload \/ SecModReloadFails

\* A step of sec-mod that is bound to come.
SecModTurn == ~CmdEof /\ SecModStep

Next ==
  \/ MainStep \/ SecModStep
  \/ MainFails \/ SecModFails
  \/ \E f \in Files : Edit(f)
  \/ Hangup \/ Stop
  \/ \E w \in Workers : Accept(w) \/ RemoveProc(w) \/ WorkerReady(w) \/ WorkerLeaves(w)
  \/ \E x \in Scripts : ScriptEnds(x)

(***************************************************************************)
(* main and sec-mod are scheduled and do not wait while a signal or a      *)
(* closed socket is there; sec-mod is bound to see a signal only as long   *)
(* as its command socket is not at its end.  main's descriptors are not    *)
(* ready in every turn for ever.  A worker that was told to leave, or has  *)
(* lost main, is ended by its alarm, the idle limits or the closed socket. *)
(* No script need ever end.                                                *)
(***************************************************************************)
Spec ==
  /\ Init /\ [][Next]_vars
  /\ WF_vars(MainStep)
  /\ WF_vars(SecModTurn)
  /\ \A w \in Workers : WF_vars(worker[w] = "told" /\ WorkerLeaves(w))

(***************************************************************************)
(* Properties                                                              *)
(***************************************************************************)

\* SIGTERM ends main even when a child does not hear it or a script hangs.  Then
\* no process of the server is left, and none of the workers however main ended;
\* a sec-mod whose main crashed may stay.
ServerStops ==
  /\ "TERM" \in sig ~> main = "gone"
  /\ main = "gone" ~> \A w \in Workers : ~Alive(w)
  /\ main = "gone" /\ ~crashed ~>
       ~SecModAlive /\ \A x \in Scripts : script[x] # "running"

\* After a SIGHUP that follows the last change of the file, main and sec-mod
\* both come to run on it, or the server ends; they never stay apart.
ReloadReaches ==
  asked ~> \/ conf = file /\ sec_conf = file
           \/ main = "gone"
           \/ ~asked

\* No dead child stays unreaped, worker, script or sec-mod, although SIGCHLD does
\* not queue and comes at any point of the loop.
ZombiesReaped ==
  /\ \A w \in Workers : worker[w] = "zombie" ~> worker[w] # "zombie"
  /\ \A x \in Scripts : script[x] = "zombie" ~> script[x] # "zombie"
  /\ secmod = "zombie" ~> secmod # "zombie"

=============================================================================
