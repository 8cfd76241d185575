----------------------------- MODULE MCLifecycle -----------------------------
(* One SignalingWorker, two RtcWorkers (so that a server joins its workers    *)
(* one by one), one request that may come at any time, and two SIGINTs: the   *)
(* second meets the pipes in every state of their closing.                    *)
EXTENDS Lifecycle

CONSTANTS s1, w1, w2, r1

MCSigWorkers == <<s1>>
MCRtcWorkers == <<w1, w2>>
=============================================================================
