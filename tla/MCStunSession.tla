---------------------------- MODULE MCStunSession ----------------------------
(***************************************************************************)
(* StunSession with requests of this session and of others.                 *)
(***************************************************************************)
EXTENDS StunSession

R(local, remote, pwd, user, mi, prio, other) ==
  [local |-> local, remote |-> remote, pwd |-> pwd, user |-> user, mi |-> mi,
   prio |-> prio, other |-> other]

\* Good ones with and without an attribute the server does not know; without
\* PRIORITY, MESSAGE-INTEGRITY or USERNAME; of an old session of the server or of
\* the client.
MCRequest == {R("L", "R", "lp", TRUE, TRUE, TRUE, 0), R("L", "R", "lp", TRUE, TRUE, TRUE, 6),
              R("L", "R", "lp", TRUE, TRUE, FALSE, 0), R("L", "R", "lp", TRUE, FALSE, TRUE, 0),
              R("L", "R", "lp", FALSE, TRUE, TRUE, 0), R("old", "R", "old", TRUE, TRUE, TRUE, 0),
              R("L", "R2", "old", TRUE, TRUE, TRUE, 0)}
=============================================================================
