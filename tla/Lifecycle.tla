------------------------------ MODULE Lifecycle ------------------------------
(***************************************************************************)
(* How the process comes up and goes down.  main() starts the log, then the *)
(* signaling side (workers first, then the accepting thread), then the      *)
(* media side, installs the SIGINT handler and joins.  SIGINT writes QUIT   *)
(* to both servers' pipes; each server stops and joins its own workers: the *)
(* SignalingServer before it closes its own pipe, the RtcServer after.      *)
(* Requests travel meanwhile: the signaling side accepts before the         *)
(* RtcServer exists, and answers go to workers that are closing.            *)
(*                                                                         *)
(* A pipe is not yet opened ("unset": _notify_send_fd is -1), open, "half"  *)
(* (the reading end is closed, a write raises SIGPIPE, which nobody         *)
(* handles) or closed (a write fails with EBADF and nothing happens).       *)
(* Of the lines logged, the model has each thread's last and main()'s.      *)
(* Full pipes, connections that close, routing by name: Signaling.          *)
(***************************************************************************)
EXTENDS Log, Naturals, FiniteSets

CONSTANTS Request,      \* each on a TCP connection of its own
          SigWorkers,   \* worker_num of the SignalingServer, as a sequence of threads
          RtcWorkers,   \* the RtcServer's
          SigSrv, RtcSrv,
          MaxSignals,   \* bound on the SIGINTs
          Null

Elems(s) == {s[i] : i \in DOMAIN s}
Server  == {SigSrv, RtcSrv}
SigWorker == Elems(SigWorkers)
RtcWorker == Elems(RtcWorkers)
Worker  == SigWorker \cup RtcWorker
Thread  == Server \cup Worker
Options(s) == IF s = SigSrv THEN SigWorkers ELSE RtcWorkers

\* What is written into the pipes, the notify() a thread may be in, and the SIGINTs.
NotifyInt == {"QUIT", "NEW_CONN", "RTC_MSG"}
Signal == 1..MaxSignals
Notification == [to : Worker \cup {RtcSrv}, int : NotifyInt]

ASSUME LifecycleAssumption ==
  /\ MaxSignals \in Nat /\ Null \notin Notification
  /\ SigWorkers \in Seq(SigWorker) /\ RtcWorkers \in Seq(RtcWorker)
  /\ SigSrv # RtcSrv /\ Server \cap Worker = {}
  /\ SigWorker \cap RtcWorker = {} /\ Null \notin Thread

VARIABLES
  mainPc,    \* where main() is
  created,   \* [Server -> how many times init() called _create_worker()]
  workers,   \* [Server -> _workers]
  loop,      \* [Thread -> "none", "run", "stopWorkers", "quit", "ending", "done"]
  stopAt,    \* [Server -> the worker _stop() is at, from 1]
  fds,       \* [Thread -> its notify pipe: "unset", "open", "half", "closed"]
  pipe,      \* [Thread -> the ints in it]
  pend,      \* [Thread -> the notify() it is about to make, or Null]
  queue,     \* [Thread -> its _q_msg]
  connq,     \* [SigWorker -> _q_connfd]
  conns,     \* [SigWorker -> open connections whose request was not read]
  owner,     \* [Request -> the SignalingWorker that has its connection, or Null]
  answered,  \* requests whose answer was put in their connection's reply_list
  handler,   \* [SIGINT -> what its signal_process() does next: "idle", "signaling" or "rtc"]
  signals,   \* SIGINTs raised
  early,     \* notify() calls that found the RtcServer's pipe not yet opened: history
  ended      \* "no", or how the process ended

boot  == <<mainPc, created, workers>>
media == <<queue, connq, conns, owner, answered, early>>
sig   == <<handler, signals>>
vars  == <<logVars, boot, loop, stopAt, fds, pipe, pend, media, sig, ended>>

Init ==
  /\ LogInit
  /\ mainPc = "conf" /\ created = [s \in Server |-> 0] /\ workers = [s \in Server |-> << >>]
  /\ loop = [t \in Thread |-> "none"] /\ stopAt = [s \in Server |-> 1]
  /\ fds = [t \in Thread |-> "unset"] /\ pipe = [t \in Thread |-> << >>]
  /\ pend = [t \in Thread |-> Null] /\ queue = [t \in Thread |-> << >>]
  /\ connq = [w \in SigWorker |-> << >>]
  /\ conns = [w \in SigWorker |-> {}] /\ owner = [r \in Request |-> Null]
  /\ answered = {} /\ handler = [i \in Signal |-> "idle"] /\ signals = 0 /\ early = 0 /\ ended = "no"

------------------------------------------------------------------------------
\* main()

Goto(pc) == mainPc' = pc
End(how) == ended' = how

\* main() logs why and returns -1: exit() with the threads still running.
Failure(line) ==
  /\ OnLogMessage(line) /\ End("exit1")
  /\ UNCHANGED <<boot, loop, stopAt, fds, pipe, pend, media, sig>>

\* load_general_conf(): the file is missing, is no YAML or lacks a key, or all is set.
LoadGeneralConf ==
  /\ mainPc = "conf"
  /\ \/ Goto("log") /\ UNCHANGED ended
     \/ End("exit1") /\ UNCHANGED mainPc
  /\ UNCHANGED <<logVars, created, workers, loop, stopAt, fds, pipe, pend, media, sig>>

\* init_log()
InitLog ==
  /\ mainPc = "log"
  /\ \/ StartLog /\ Goto("initSig") /\ UNCHANGED ended
     \/ End("exit1") /\ UNCHANGED <<mainPc, logVars>>
  /\ UNCHANGED <<created, workers, loop, stopAt, fds, pipe, pend, media, sig>>

\* pipe(), and a watcher for its reading end.
OpenPipe(t) == fds' = [fds EXCEPT ![t] = "open"]

\* start() of a worker or a server: its thread runs its loop.
RunLoop(t) == loop' = [loop EXCEPT ![t] = "run"]

\* create_tcp_server(): a listening socket, or -1 when one of its five calls fails.
CreateTcpServer == {"listening", "-1"}

\* SignalingServer::init() up to its workers.  Neither the configuration nor a pipe()
\* that fails leaves anything that main()'s return does not.
InitSignaling ==
  /\ mainPc = "initSig"
  /\ \E listen_fd \in CreateTcpServer :
       IF listen_fd = "-1" THEN Failure(SigSrv)
       ELSE /\ OpenPipe(SigSrv) /\ Goto("sigWorkers")
            /\ UNCHANGED <<logVars, created, workers, loop, stopAt, pipe, pend, media, sig,
                           ended>>

\* RtcServer::init() up to its workers: the configuration and the pipe.
InitRtc ==
  /\ mainPc = "initRtc"
  /\ \/ /\ OpenPipe(RtcSrv) /\ Goto("rtcWorkers")
        /\ UNCHANGED <<logVars, created, workers, loop, stopAt, pipe, pend, media, sig, ended>>
     \/ Failure(RtcSrv)

\* init() and start() of the next worker of s; one whose pipe() fails is not in
\* _workers and has no thread.
CreateWorker(s) ==
  /\ created[s] < Len(Options(s))
  /\ created' = [created EXCEPT ![s] = @ + 1]
  /\ LET w == Options(s)[created[s] + 1]
     IN \/ OpenPipe(w) /\ RunLoop(w) /\ workers' = [workers EXCEPT ![s] = Append(@, w)]
        \/ UNCHANGED <<fds, loop, workers>>
  /\ UNCHANGED <<logVars, mainPc, stopAt, pipe, pend, media, sig, ended>>

CreateSignalingWorker == mainPc = "sigWorkers" /\ CreateWorker(SigSrv)
CreateRtcWorker       == mainPc = "rtcWorkers" /\ CreateWorker(RtcSrv)

\* SignalingServer::start(), after which init_rtc_server() begins.
StartSignaling ==
  /\ mainPc = "sigWorkers" /\ created[SigSrv] = Len(Options(SigSrv))
  /\ RunLoop(SigSrv) /\ Goto("newRtc")
  /\ UNCHANGED <<logVars, created, workers, stopAt, fds, pipe, pend, media, sig, ended>>

\* RtcServer::start()
StartRtc ==
  /\ mainPc = "rtcWorkers" /\ created[RtcSrv] = Len(Options(RtcSrv))
  /\ RunLoop(RtcSrv) /\ Goto("install")
  /\ UNCHANGED <<logVars, created, workers, stopAt, fds, pipe, pend, media, sig, ended>>

\* g_rtc_server = new RtcServer().
NewRtcServer ==
  /\ mainPc = "newRtc" /\ Goto("initRtc")
  /\ UNCHANGED <<logVars, created, workers, loop, stopAt, fds, pipe, pend, media, sig, ended>>

\* signal(SIGINT, signal_process).
Install ==
  /\ mainPc = "install" /\ Goto("joinSig")
  /\ UNCHANGED <<logVars, created, workers, loop, stopAt, fds, pipe, pend, media, sig, ended>>

\* join() of both servers, the log's stop() and the return from main().
Join(s) ==
  /\ mainPc = IF s = SigSrv THEN "joinSig" ELSE "joinRtc"
  /\ loop[s] = "done"
  /\ Goto(IF s = SigSrv THEN "joinRtc" ELSE "stopLog")
  /\ UNCHANGED <<logVars, created, workers, loop, stopAt, fds, pipe, pend, media, sig, ended>>

MainStopLog ==
  /\ mainPc = "stopLog" /\ StopLog /\ Goto("joinLog")
  /\ UNCHANGED <<created, workers, loop, stopAt, fds, pipe, pend, media, sig, ended>>

Return ==
  /\ mainPc = "joinLog" /\ LogJoined /\ End("exit0")
  /\ UNCHANGED <<logVars, boot, loop, stopAt, fds, pipe, pend, media, sig>>

Main == \/ LoadGeneralConf \/ InitLog
        \/ InitSignaling \/ CreateSignalingWorker \/ StartSignaling
        \/ NewRtcServer \/ InitRtc \/ CreateRtcWorker \/ StartRtc
        \/ Install \/ MainStopLog \/ Return
        \/ \E s \in Server : Join(s)

------------------------------------------------------------------------------
\* The notify pipes

\* write() to the pipe of t: SIGPIPE's default action ends the process.  Nothing resets
\* _notify_send_fd, so a write after close() names a number that may be another file's
\* by then.  That file is not one of those followed here: every notify pipe is opened
\* before the first close(), and nobody accepts a connection any more.  A write to
\* a UDP socket that an RtcWorker opened meanwhile fails like EBADF does, for it is not
\* connected; a log file that is reopened just then would get the four bytes (not modelled).
Write(t, int) ==
  /\ pipe' = IF fds[t] = "open" THEN [pipe EXCEPT ![t] = Append(@, int)] ELSE pipe
  /\ IF fds[t] = "half" THEN End("SIGPIPE") ELSE UNCHANGED ended

\* notify(): the second half of whatever t is doing.
Notify(t) ==
  /\ pend[t] # Null /\ Write(pend[t].to, pend[t].int)
  /\ pend' = [pend EXCEPT ![t] = Null]
  /\ early' = IF pend[t].to = RtcSrv /\ fds[RtcSrv] = "unset" THEN early + 1 ELSE early
  /\ UNCHANGED <<logVars, boot, loop, stopAt, fds, queue, connq, conns, owner, answered, sig>>

Notifies(t, to, int) == pend' = [pend EXCEPT ![t] = [to |-> to, int |-> int]]

\* The callback of the pipe's watcher, for one int.
Reads(t, int) ==
  /\ loop[t] = "run" /\ pend[t] = Null
  /\ pipe[t] # << >> /\ Head(pipe[t]) = int
  /\ pipe' = [pipe EXCEPT ![t] = Tail(@)]

------------------------------------------------------------------------------
\* SIGINT: until the handler is installed it ends the process

Installed == mainPc \in {"joinSig", "joinRtc", "stopLog", "joinLog"}

Sigint ==
  /\ signals < MaxSignals /\ signals' = signals + 1
  /\ IF Installed THEN handler' = [handler EXCEPT ![signals'] = "signaling"] /\ UNCHANGED ended
                  ELSE End("SIGINT") /\ UNCHANGED handler
  /\ UNCHANGED <<logVars, boot, loop, stopAt, fds, pipe, pend, media>>

\* signal_process() for the i-th SIGINT: stop() of one server, then of the other.  The
\* signal is blocked only in the thread that runs it, so another thread may be in
\* the handler for the next SIGINT.
Handle(i) ==
  /\ handler[i] # "idle"
  /\ Write(IF handler[i] = "signaling" THEN SigSrv ELSE RtcSrv, "QUIT")
  /\ handler' = [handler EXCEPT ![i] = IF @ = "signaling" THEN "rtc" ELSE "idle"]
  /\ UNCHANGED <<logVars, boot, loop, stopAt, fds, pend, media, signals>>

------------------------------------------------------------------------------
\* _stop()

\* What the RtcServer's _stop() does first, and the SignalingServer's last, is
\* all a worker's does: delete the watchers and break the loop ...
AtQuit(t) == IF t = SigSrv THEN "stopWorkers" ELSE "quit"
AfterClose(t) == IF t = RtcSrv THEN "stopWorkers" ELSE "ending"
AfterWorkers(s) == IF s = SigSrv THEN "quit" ELSE "ending"

Quit(t) ==
  /\ Reads(t, "QUIT")
  /\ loop' = [loop EXCEPT ![t] = AtQuit(t)]
  /\ UNCHANGED <<logVars, boot, stopAt, fds, pend, media, sig, ended>>

\* ... then close(_notify_recv_fd) ...
CloseRecv(t) ==
  /\ loop[t] = "quit" /\ fds[t] = "open"
  /\ fds' = [fds EXCEPT ![t] = "half"]
  /\ UNCHANGED <<logVars, boot, loop, stopAt, pipe, pend, media, sig, ended>>

\* ... then close(_notify_send_fd).
CloseSend(t) ==
  /\ loop[t] = "quit" /\ fds[t] = "half"
  /\ fds' = [fds EXCEPT ![t] = "closed"]
  /\ loop' = [loop EXCEPT ![t] = AfterClose(t)]
  /\ UNCHANGED <<logVars, boot, stopAt, pipe, pend, media, sig, ended>>

\* Without the join.
JoinedAtOnce(w) == loop[w] # "none"

\* worker->join() returns when the worker's thread has ended.
Joined(w) == loop[w] = "done"

\* Joins without a stop().
StopsNothing(s) == UNCHANGED pend

\* worker->stop() of the next worker; the notify() follows.
Stops(s) == Notifies(s, workers[s][stopAt[s]], "QUIT")

StopWorker(s) ==
  /\ loop[s] = "stopWorkers" /\ stopAt[s] <= Len(workers[s]) /\ pend[s] = Null
  /\ Stops(s) /\ loop' = [loop EXCEPT ![s] = "joinWorker"]
  /\ UNCHANGED <<logVars, boot, stopAt, fds, pipe, media, sig, ended>>

JoinWorker(s) ==
  /\ loop[s] = "joinWorker" /\ pend[s] = Null /\ Joined(workers[s][stopAt[s]])
  /\ stopAt' = [stopAt EXCEPT ![s] = @ + 1]
  /\ loop' = [loop EXCEPT ![s] = "stopWorkers"]
  /\ UNCHANGED <<logVars, boot, fds, pipe, pend, media, sig, ended>>

WorkersStopped(s) ==
  /\ loop[s] = "stopWorkers" /\ stopAt[s] > Len(workers[s])
  /\ loop' = [loop EXCEPT ![s] = AfterWorkers(s)]
  /\ UNCHANGED <<logVars, boot, stopAt, fds, pipe, pend, media, sig, ended>>

\* ev_run() returns after the callbacks that were pending with the QUIT; the
\* thread's last line is "event loop stop".
ThreadEnds(t) ==
  /\ loop[t] = "ending" /\ pend[t] = Null
  /\ loop' = [loop EXCEPT ![t] = "done"]
  /\ OnLogMessage(t)
  /\ UNCHANGED <<boot, stopAt, fds, pipe, pend, media, sig, ended>>

------------------------------------------------------------------------------
\* Requests

\* accept_new_connect() and _dispatch_new_conn() to some worker; without workers
\* the connection is left as it is.
Accept(r, w) ==
  /\ loop[SigSrv] = "run" /\ pend[SigSrv] = Null /\ owner[r] = Null
  /\ w \in Elems(workers[SigSrv])
  /\ owner' = [owner EXCEPT ![r] = w]
  /\ connq' = [connq EXCEPT ![w] = Append(@, r)]
  /\ Notifies(SigSrv, w, "NEW_CONN")
  /\ UNCHANGED <<logVars, boot, loop, stopAt, fds, pipe, queue, conns, answered, early, sig, ended>>

\* _process_notify(NEW_CONN) and _new_conn().
NewConn(w) ==
  /\ Reads(w, "NEW_CONN")
  /\ conns' = [conns EXCEPT ![w] = @ \cup {Head(connq[w])}]
  /\ connq' = [connq EXCEPT ![w] = Tail(@)]
  /\ UNCHANGED <<logVars, boot, loop, stopAt, fds, pend, queue, owner, answered, early, sig, ended>>

\* push_msg() that notifies as well.
PushesTwice(t, to, r) ==
  /\ queue' = [queue EXCEPT ![to] = Append(@, r)]
  /\ pipe' = IF fds[to] = "open" THEN [pipe EXCEPT ![to] = Append(@, "RTC_MSG")] ELSE pipe
  /\ Notifies(t, to, "RTC_MSG")

\* send_rtc_msg(): push_msg(), then notify().
Pushes(t, to, r) ==
  /\ queue' = [queue EXCEPT ![to] = Append(@, r)]
  /\ Notifies(t, to, "RTC_MSG") /\ UNCHANGED pipe

HasRtcServer == mainPc \notin {"conf", "log", "initSig", "sigWorkers", "newRtc"}

\* _read_query() to g_rtc_server->send_rtc_msg(msg): the pointer is not tested.
ReadRequest(w, r) ==
  /\ loop[w] \in {"run", "ending"} /\ pend[w] = Null /\ r \in conns[w]
  /\ conns' = [conns EXCEPT ![w] = @ \ {r}]
  /\ IF HasRtcServer
     THEN Pushes(w, RtcSrv, r) /\ UNCHANGED ended
     ELSE End("SIGSEGV") /\ UNCHANGED <<queue, pend, pipe>>
  /\ UNCHANGED <<logVars, boot, loop, stopAt, fds, connq, owner, answered, early, sig>>

\* _generate_and_check_certificate(): there is one, or the generator fails.
GenerateCertificate == BOOLEAN

\* _get_worker(): none when _workers and worker_num differ.
HasWorkers == Len(workers[RtcSrv]) = Len(RtcWorkers)

\* send_rtc_msg() of RtcWorker w: push_msg() into q, then the notification.
ToWorker(w, r, q) == /\ queue' = [q EXCEPT ![w] = Append(@, r)]
                     /\ Notifies(RtcSrv, w, "RTC_MSG")

\* _process_rtc_msg() of the RtcServer: an empty queue gives a null message, which
\* is dereferenced; a message is dropped when there is no certificate or no worker.
RouteMsg ==
  /\ Reads(RtcSrv, "RTC_MSG")
  /\ IF queue[RtcSrv] = << >>
     THEN End("SIGSEGV") /\ UNCHANGED <<queue, pend>>
     ELSE LET r == Head(queue[RtcSrv])
              rest == [queue EXCEPT ![RtcSrv] = Tail(@)]
          IN /\ UNCHANGED ended
             /\ \E cert \in GenerateCertificate, w \in RtcWorker :
                  IF cert /\ HasWorkers
                  THEN ToWorker(w, r, rest)
                  ELSE queue' = rest /\ UNCHANGED pend
  /\ UNCHANGED <<logVars, boot, loop, stopAt, fds, connq, conns, owner, answered, early, sig>>

\* RtcWorker::_process_rtc_msg(): the message goes back to the worker named on it.
Execute(w) ==
  /\ Reads(w, "RTC_MSG")
  /\ LET r == Head(queue[w])
     IN IF queue[w] = << >> THEN UNCHANGED <<queue, pend>>
        ELSE /\ queue' = [queue EXCEPT ![w] = Tail(@), ![owner[r]] = Append(@, r)]
             /\ Notifies(w, owner[r], "RTC_MSG")
  /\ UNCHANGED <<logVars, boot, loop, stopAt, fds, connq, conns, owner, answered, early, sig, ended>>

\* SignalingWorker::_process_rtc_msg().
Answer(w) ==
  /\ Reads(w, "RTC_MSG")
  /\ IF queue[w] = << >> THEN UNCHANGED <<queue, answered>>
     ELSE /\ queue' = [queue EXCEPT ![w] = Tail(@)]
          /\ answered' = answered \cup {Head(queue[w])}
  /\ UNCHANGED <<logVars, boot, loop, stopAt, fds, pend, connq, conns, owner, early, sig, ended>>

------------------------------------------------------------------------------

LogStep == LogThread /\ UNCHANGED <<boot, loop, stopAt, fds, pipe, pend, media, sig, ended>>

\* Callbacks and last steps of one thread.
Serve(t) == \/ t \in SigWorker /\ (NewConn(t) \/ Answer(t) \/ \E r \in Request : ReadRequest(t, r))
            \/ t \in RtcWorker /\ Execute(t)
            \/ t = RtcSrv /\ RouteMsg
Stopping(t) == \/ Quit(t) \/ CloseRecv(t) \/ CloseSend(t) \/ ThreadEnds(t)
               \/ t \in Server /\ (StopWorker(t) \/ JoinWorker(t) \/ WorkersStopped(t))
ThreadStep(t) == ended = "no" /\ (Notify(t) \/ Serve(t) \/ Stopping(t))

Next == \/ ended = "no" /\ (Main \/ LogStep \/ Sigint \/ \E i \in Signal : Handle(i))
        \/ ended = "no" /\ \E r \in Request, w \in SigWorker : Accept(r, w)
        \/ \E t \in Thread : ThreadStep(t)

\* Threads are scheduled and the handlers return; clients and signals come or not.
Fairness == /\ WF_vars(ended = "no" /\ Main) /\ WF_vars(ended = "no" /\ LogStep)
            /\ \A i \in Signal : WF_vars(ended = "no" /\ Handle(i))
            /\ \A t \in Thread : WF_vars(ThreadStep(t))

Spec == Init /\ [][Next]_vars /\ Fairness

------------------------------------------------------------------------------
\* Properties

\* The log outlives every thread that writes to it (main.cpp:127-134): when main()
\* clears _running, each thread that was ever started has ended, the workers
\* because their server joined them before its own thread ended.  What they said last
\* may still be in the queue, and is then not written (log.cpp:102).
LogOutlivesThreads ==
  mainPc = "joinLog" => \A t \in Thread : loop[t] \in {"none", "done"}

\* Only a request that overtakes main() crashes the process: a null pointer is
\* dereferenced only while g_rtc_server is not assigned (signaling_worker.cpp:518),
\* never because an int in the RtcServer's pipe has no message (rtc_server.cpp:201).
CrashOnlyInStartup == ended = "SIGSEGV" => ~HasRtcServer

\* Where an int is in a pipe, and the threads about to write it to t.
Places(ints, int) == {i \in 1..Len(ints) : ints[i] = int}
Writers(t, int) == {u \in Thread : pend[u] = [to |-> t, int |-> int]}

\* The ints t has to come, not read or not yet written.
Ints(t, int) == Cardinality(Places(pipe[t], int)) + Cardinality(Writers(t, int))

\* The RtcServer is behind by the messages sent before its pipe was open and by no
\* other: each int makes it take one message, so as many stay in _q_msg until
\* later requests push them out (rtc_server.cpp:159).
LateByEarly ==
  ended = "no" /\ fds[RtcSrv] \in {"unset", "open"} /\ loop[RtcSrv] # "quit"
    => Len(queue[RtcSrv]) = Ints(RtcSrv, "RTC_MSG") + early

\* What main() leaves open between starting the SignalingWorkers and assigning
\* g_rtc_server has these two effects and no other.
EarlyRequests == CrashOnlyInStartup /\ LateByEarly

\* SIGINT ends the process: both servers stop, each waits for its workers and main()
\* for both, and none waits for another in a circle (main.cpp:87-134).
Terminates == Installed /\ (\E i \in Signal : handler[i] # "idle") ~> ended # "no"

------------------------------------------------------------------------------
\* The inductive invariant

\* What main() and the threads are made of.
ControlTypes ==
  /\ mainPc \in {"conf", "log", "initSig", "sigWorkers", "newRtc", "initRtc", "rtcWorkers",
                 "install", "joinSig", "joinRtc", "stopLog", "joinLog"}
  /\ created \in [Server -> Nat] /\ stopAt \in [Server -> Nat \ {0}]
  /\ workers \in [Server -> Seq(Worker)]
  /\ loop \in [Thread -> {"none", "run", "stopWorkers", "joinWorker", "quit", "ending", "done"}]
  /\ fds \in [Thread -> {"unset", "open", "half", "closed"}]

\* What main() has done by where it is: no log thread and no thread of a server runs
\* before it is started, the RtcServer has no pipe before its init(), and main() passes
\* a join() once the thread has ended.
MainAt ==
  /\ mainPc \in {"conf", "log"} => logPc = "none"
  /\ mainPc \in {"conf", "log", "initSig", "sigWorkers"} => loop[SigSrv] = "none"
  /\ ~HasRtcServer \/ mainPc \in {"initRtc", "rtcWorkers"} => loop[RtcSrv] = "none"
  /\ ~HasRtcServer \/ mainPc = "initRtc" => fds[RtcSrv] = "unset"
  /\ mainPc = "rtcWorkers" \/ loop[RtcSrv] = "run" => fds[RtcSrv] = "open"
  /\ mainPc \in {"joinRtc", "stopLog", "joinLog"} => loop[SigSrv] = "done"
  /\ mainPc \in {"stopLog", "joinLog"} => loop[RtcSrv] = "done"

\* A server joins the workers it started, in their order, and ends after the last.
JoinsItsWorkers(s) ==
  /\ Elems(workers[s]) \subseteq Elems(Options(s))
  /\ \A w \in Elems(Options(s)) : loop[w] # "none" => w \in Elems(workers[s])
  /\ loop[s] \in {"none", "run"} => stopAt[s] = 1
  /\ \A i \in DOMAIN workers[s] : i < stopAt[s] => loop[workers[s][i]] = "done"
  /\ loop[s] \in {"ending", "done"} \/ (s = SigSrv /\ loop[s] = "quit")
       => stopAt[s] > Len(workers[s])

ControlInv == ControlTypes /\ MainAt /\ \A s \in Server : JoinsItsWorkers(s)

\* What travels in pipes and queues.
MessageTypes ==
  /\ pipe \in [Thread -> Seq(NotifyInt)] /\ pend \in [Thread -> Notification \cup {Null}]
  /\ owner \in [Request -> SigWorker \cup {Null}] /\ early \in Nat

\* Whatever is under way belongs to a connection that a worker was given.
Given == {r \in Request : owner[r] # Null}
Owned == /\ queue \in [Thread -> Seq(Given)] /\ connq \in [SigWorker -> Seq(Given)]
         /\ conns \in [SigWorker -> SUBSET Given]

\* SignalingWorkers write to the RtcServer and nobody else does.
WritesTo ==
  \A t \in Thread : pend[t] # Null =>
    IF t \in SigWorker THEN pend[t] = [to |-> RtcSrv, int |-> "RTC_MSG"]
                       ELSE pend[t].to \in Worker

\* Each NEW_CONN finds its connection.
ConnPerInt == \A w \in SigWorker : Ints(w, "NEW_CONN") =< Len(connq[w])

MessageInv == MessageTypes /\ Owned /\ WritesTo /\ ConnPerInt /\ EarlyRequests

IInv == LogInv(Thread) /\ ControlInv /\ MessageInv
=============================================================================
