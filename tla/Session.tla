------------------------------ MODULE Session -------------------------------
(***************************************************************************)
(* What the front end promises a client that asks one thing at a time: the *)
(* answers come in the order of the requests, each made of the reply to    *)
(* its own request; a request is answered unless the client is dropped;    *)
(* nothing is sent once the connection is closing; a closing connection    *)
(* goes away.                                                              *)
(***************************************************************************)
EXTENDS Naturals, Sequences

VARIABLES
  link,    \* "absent", "open" or "closing"
  asked,   \* requests of this client
  answers  \* what it was sent

svars == <<link, asked, answers>>

Init == link = "absent" /\ asked = 0 /\ answers = <<>>

Connect ==
  /\ link = "absent"
  /\ link' \in {"open", "closing"}
  /\ asked' = 0 /\ answers' = <<>>

Ask ==
  /\ link = "open" /\ asked = Len(answers)
  /\ asked' = asked + 1
  /\ UNCHANGED <<link, answers>>

Answer ==
  /\ link = "open" /\ asked > Len(answers)
  /\ answers' = Append(answers, {asked})
  /\ UNCHANGED <<link, asked>>

Close == link = "open" /\ link' = "closing" /\ UNCHANGED <<asked, answers>>

Gone == link = "closing" /\ link' = "absent" /\ UNCHANGED <<asked, answers>>

Next == Connect \/ Ask \/ Answer \/ Close \/ Gone

SafeSpec == Init /\ [][Next]_svars

FairSpec ==
  /\ SafeSpec
  /\ WF_svars(Answer)
  /\ WF_svars(Gone)
=============================================================================
