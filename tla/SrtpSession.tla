----------------------------- MODULE SrtpSession -----------------------------
(***************************************************************************)
(* The SrtpSessions of several SrtpTransports, and the libsrtp they share.  *)
(* Every RtcWorker thread sets up and resets the transports of its own      *)
(* streams; g_libsrtp_usage_count under g_libsrtp_lock decides when the     *)
(* library is initialised and shut down.  Each critical section and each    *)
(* call into libsrtp is a step, so that two threads may be anywhere in      *)
(* set_rtp_params() and reset_params() at the same time.                    *)
(*                                                                         *)
(* External: libsrtp and OpenSSL.  Sessions may be created, used and        *)
(* deallocated only between srtp_init() and srtp_shutdown().                *)
(***************************************************************************)
EXTENDS Naturals, FiniteSets

CONSTANTS Transport,   \* SrtpTransports, each on a thread of its own
          Suite,       \* crypto suites a handshake may select
          BadSuite,    \* those libsrtp has no policy for
          RtpTag, RtcpTag,  \* auth_tag_len of the two policies of a suite
          MaxSetups    \* bound: handshakes

Dir == {"send", "recv"}

ASSUME SrtpAssumption ==
  /\ IsFiniteSet(Transport) /\ Suite # {} /\ BadSuite \subseteq Suite /\ MaxSetups \in Nat
  /\ RtpTag \in [Suite -> Nat] /\ RtcpTag \in [Suite -> Nat]

VARIABLES
  usage,    \* g_libsrtp_usage_count
  lib,      \* libsrtp: "down", "init" (no event handler yet) or "up"
  exists,   \* _send_session and _recv_session are set
  inited,   \* _inited of each session
  key,      \* 0 while _session is null, else the handshake its key comes from
  tags,     \* the suite whose auth_tag_len the session recorded
  spc,      \* where the thread of a transport is
  setups    \* handshakes so far; a transport being set up uses the latest of its own

srtpVars == <<usage, lib, exists, inited, key, tags, spc, setups>>

\* Where a thread is: step, in which session, and the handshake and suite in use.
At(step, dir, hs, cs) == [step |-> step, dir |-> dir, hs |-> hs, cs |-> cs]
IdlePc == At("idle", "send", 0, CHOOSE s \in Suite : TRUE)

SrtpInit ==
  /\ usage = 0 /\ lib = "down"
  /\ exists = [t \in Transport |-> FALSE]
  /\ inited = [t \in Transport |-> [d \in Dir |-> FALSE]]
  /\ key = [t \in Transport |-> [d \in Dir |-> 0]]
  /\ tags = [t \in Transport |-> [d \in Dir |-> CHOOSE s \in Suite : TRUE]]
  /\ spc = [t \in Transport |-> IdlePc]
  /\ setups = 0

-----------------------------------------------------------------------------
\* is_srtp_active()
Active(t) == exists[t]

Goto(t, p) == spc' = [spc EXCEPT ![t] = p]
Step(t, s) == spc[t].step = s
GoOn(t, step, dir) == Goto(t, [spc[t] EXCEPT !.step = step, !.dir = dir])

\* _create_srtp_session()
CreateSessions(t) == exists' = [exists EXCEPT ![t] = TRUE]

\* _setup_dtls_srtp() after a handshake that selected suite cs: set_rtp_params()
\* creates both sessions.  _maybe_setup_dtls_srtp() comes here only while there
\* are none, so the branch that updates keys is never taken.
Setup(t, cs) ==
  /\ Step(t, "idle") /\ ~ Active(t)
  /\ setups < MaxSetups
  /\ setups' = setups + 1
  /\ CreateSessions(t)
  /\ Goto(t, At("count", "send", setups + 1, cs))
  /\ UNCHANGED <<usage, lib, inited, key, tags>>

\* _increment_libsrtp_usage_count_and_maybe_init() succeeds.
Count(t) ==
  /\ Step(t, "count")
  /\ usage' = usage + 1
  /\ lib' = IF usage = 0 THEN "up" ELSE lib
  /\ inited' = [inited EXCEPT ![t][spc[t].dir] = TRUE]
  /\ GoOn(t, "key", spc[t].dir)
  /\ UNCHANGED <<exists, key, tags, setups>>

\* srtp_init() or srtp_install_event_handler() fails, and set_rtp_params() resets.
CountFails(t) ==
  /\ Step(t, "count") /\ usage = 0
  /\ lib' \in {lib, "init"}
  /\ GoOn(t, "dealloc", "send")
  /\ UNCHANGED <<usage, exists, inited, key, tags, setups>>

\* _do_set_key() gets its policy and srtp_create() its session.
DoSetKey(t, d) ==
  /\ Step(t, "key") /\ spc[t].dir = d /\ spc[t].cs \notin BadSuite
  /\ key' = [key EXCEPT ![t][d] = spc[t].hs]
  /\ tags' = [tags EXCEPT ![t][d] = spc[t].cs]
  /\ UNCHANGED <<usage, lib, exists, inited, setups>>

\* set_send() succeeds, and set_rtp_params() goes on with set_recv().
SetSend(t) == DoSetKey(t, "send") /\ GoOn(t, "count", "recv")

\* set_recv() succeeds: both sessions have their keys.
SetRecv(t) == DoSetKey(t, "recv") /\ Goto(t, IdlePc)

\* _do_set_key() has no policy for the suite, or srtp_create() fails: reset_params().
SetKeyFails(t) ==
  /\ Step(t, "key")
  /\ GoOn(t, "dealloc", "send")
  /\ UNCHANGED <<usage, lib, exists, inited, key, tags, setups>>

-----------------------------------------------------------------------------
\* _on_dtls_state() leaves k_connected, or the transport is deleted: reset_params().
Reset(t) ==
  /\ Step(t, "idle") /\ Active(t)
  /\ GoOn(t, "dealloc", "send")
  /\ UNCHANGED <<usage, lib, exists, inited, key, tags, setups>>

\* ~SrtpSession(): srtp_dealloc(), if there is a session.
Dealloc(t) ==
  /\ Step(t, "dealloc")
  /\ key' = [key EXCEPT ![t][spc[t].dir] = 0]
  /\ GoOn(t, "uncount", spc[t].dir)
  /\ UNCHANGED <<usage, lib, exists, inited, tags, setups>>

\* Mutant: every destructor gives up a use, whether it had one or not.
UncountAlways(t) ==
  /\ Step(t, "uncount")
  /\ LET d == spc[t].dir
     IN /\ usage' = usage - 1
        /\ lib' = IF usage = 1 THEN "down" ELSE lib
        /\ inited' = [inited EXCEPT ![t][d] = FALSE]
        /\ IF d = "send" THEN GoOn(t, "dealloc", "recv") /\ UNCHANGED exists
           ELSE Goto(t, IdlePc) /\ exists' = [exists EXCEPT ![t] = FALSE]
  /\ UNCHANGED <<key, tags, setups>>

\* _decrement_libsrtp_usage_count_and_maybe_deinit(), if this session counted;
\* the send session goes first, then the receive session.
Uncount(t) ==
  /\ Step(t, "uncount")
  /\ LET d == spc[t].dir
     IN /\ usage' = IF inited[t][d] THEN usage - 1 ELSE usage
        /\ lib' = IF inited[t][d] /\ usage = 1 THEN "down" ELSE lib
        /\ inited' = [inited EXCEPT ![t][d] = FALSE]
        /\ IF d = "send" THEN GoOn(t, "dealloc", "recv") /\ UNCHANGED exists
           ELSE Goto(t, IdlePc) /\ exists' = [exists EXCEPT ![t] = FALSE]
  /\ UNCHANGED <<key, tags, setups>>

SrtpStep(t) ==
  \/ Count(t) \/ CountFails(t) \/ SetSend(t) \/ SetRecv(t) \/ SetKeyFails(t)
  \/ Dealloc(t) \/ Uncount(t)

-----------------------------------------------------------------------------
SrtpTypeOK ==
  /\ usage \in Nat /\ lib \in {"down", "init", "up"}
  /\ exists \in [Transport -> BOOLEAN]
  /\ inited \in [Transport -> [Dir -> BOOLEAN]]
  /\ key \in [Transport -> [Dir -> 0..MaxSetups]]
  /\ tags \in [Transport -> [Dir -> Suite]]
  /\ spc \in [Transport -> [step : {"idle", "count", "key", "dealloc", "uncount"},
                            dir : Dir, hs : 0..MaxSetups, cs : Suite]]
  /\ setups \in 0..MaxSetups

\* libsrtp is up, with its event handler, for every thread that has or is about to
\* create a session, whatever the other threads give up at the same moment or fail
\* to initialise.
LibraryUpInUse ==
  \A t \in Transport, d \in Dir :
    key[t][d] # 0 \/ (Step(t, "key") /\ spc[t].dir = d) => lib = "up"

\* Nothing is counted twice or for ever: when every thread is idle, the count is two
\* for each transport with keys.
UsageCounted ==
  (\A t \in Transport : Step(t, "idle")) =>
    usage = 2 * Cardinality({t \in Transport : Active(t)})

\* Between two callbacks an active transport has both of its keys, from one
\* handshake: half a set_rtp_params() is never seen.
BothKeysOrNone ==
  \A t \in Transport :
    Step(t, "idle") =>
      IF Active(t) THEN key[t]["send"] # 0 /\ key[t]["send"] = key[t]["recv"]
      ELSE \A d \in Dir : key[t][d] = 0 /\ ~ inited[t][d]

\* The sessions of all threads share one library, one count of its users and no keys.
SessionsSound == LibraryUpInUse /\ UsageCounted /\ BothKeysOrNone

-----------------------------------------------------------------------------
(* What SessionsSound rests on *)

\* The sessions that gave libsrtp a use and have not taken it back.
Counted == {s \in Transport \X Dir : inited[s[1]][s[2]]}

\* What the sessions of t have, by where its thread is in set_rtp_params() and
\* reset_params().
ThreadHas(t) ==
  LET pc == spc[t] IN
  /\ \A d \in Dir : key[t][d] # 0 => inited[t][d]
  /\ pc.step = "idle" =>
       IF exists[t] THEN /\ \A d \in Dir : inited[t][d]
                         /\ key[t]["send"] # 0 /\ key[t]["send"] = key[t]["recv"]
       ELSE \A d \in Dir : ~ inited[t][d]
  /\ pc.step # "idle" => exists[t]
  /\ pc.step \in {"count", "key"} =>
       /\ pc.hs # 0 /\ key[t]["recv"] = 0
       /\ inited[t][pc.dir] <=> pc.step = "key"
       /\ pc.dir = "send" => key[t]["send"] = 0 /\ ~ inited[t]["recv"]
       /\ pc.dir = "recv" => key[t]["send"] = pc.hs
  /\ pc.step = "uncount" => key[t][pc.dir] = 0
  /\ pc.step \in {"dealloc", "uncount"} /\ pc.dir = "recv" => ~ inited[t]["send"]

\* The inductive invariant of the sessions: the count is that of the sessions that
\* count, and the library is up while there are any.
SrtpInv ==
  /\ SrtpTypeOK
  /\ \A t \in Transport : ThreadHas(t)
  /\ usage = Cardinality(Counted)
  /\ usage > 0 => lib = "up"
=============================================================================
