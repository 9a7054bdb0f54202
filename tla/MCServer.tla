------------------------------ MODULE MCServer ------------------------------
(***************************************************************************)
(* Instances of Server for TLC.                                            *)
(***************************************************************************)
EXTENDS Server

\* One group of one server: the only topology in which every callback finds
\* its context.
OneServer == [g \in 0..0 |-> 1]

\* One group of three servers, and two groups of two and one.
ThreeServers == [g \in 0..0 |-> 3]
TwoGroups == [g \in 0..1 |-> IF g = 0 THEN 2 ELSE 1]

\* Clients may do anything, upstreams may fail anyhow.
AllEvents == EnvEvents

\* A client sends one request at a time but may leave before the answer; a
\* reply arrives in one piece.
OneAtATime == EnvEvents \ {"pipeline", "split_reply"}

\* A client waits for each answer before it sends or leaves; an upstream sends
\* its reply in one piece; uv_write accepts the request.  Anything else fails.
PatientEvents == EnvEvents \ {"hangup", "pipeline", "split_reply", "write_fail"}

\* Besides, an upstream that was connected does not fail.
PoliteEvents == PatientEvents \ {"send_fail", "read_fail"}
=============================================================================
