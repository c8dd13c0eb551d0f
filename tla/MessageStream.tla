--------------------------- MODULE MessageStream ---------------------------
(***************************************************************************)
(* What the two ends of an RpcSession rely on, and the modules of the RPC  *)
(* client, server and registry build on: messages arrive whole and in      *)
(* order, none twice and none left out, until the receiving end gives the  *)
(* connection up; what is then still on its way is lost.  Framing relates  *)
(* the steps that move bytes to the steps of this specification.           *)
(***************************************************************************)
EXTENDS Naturals, Sequences

VARIABLES sent,      \* the messages sent, in order
          received,  \* the messages received, in order
          over       \* has the receiving end given up

vars == <<sent, received, over>>

Init == sent = <<>> /\ received = <<>> /\ over = FALSE

\* One message more, whatever it is.
Send == /\ sent' # <<>> /\ sent' = Append(sent, sent'[Len(sent')])
        /\ UNCHANGED <<received, over>>

\* The first message that has not arrived yet arrives.
Deliver == /\ ~over /\ Len(received) < Len(sent)
           /\ received' = Append(received, sent[Len(received) + 1])
           /\ UNCHANGED <<sent, over>>

GiveUp == ~over /\ over' = TRUE /\ UNCHANGED <<sent, received>>

Next == Send \/ Deliver \/ GiveUp

Spec == Init /\ [][Next]_vars
=============================================================================
