------------------------------ MODULE RpcCall ------------------------------
(***************************************************************************)
(* What RpcClient::call promises its callers, whatever the connection, the *)
(* send queue, the pending-call table and the heartbeat do underneath:     *)
(* every call runs at the server at most once, and a call comes back with  *)
(* an answer of the server only when the server has run that very call.    *)
(* RpcClient implements this specification under the mapping stated there. *)
(***************************************************************************)
EXTENDS Naturals

CONSTANTS Callers,      \* coroutines that use one RpcClient
          MaxCalls      \* bound: calls made in a behaviour

VARIABLES calling,      \* caller -> is a call of it in progress
          ticket,       \* caller -> number of its latest call
          outcome,      \* caller -> what its latest call came back with
          calls,        \* calls made so far
          executed      \* call -> how often the server has run it

vars == <<calling, ticket, outcome, calls, executed>>

\* Codes a call can come back with although the server never ran it.
LocalOutcomes == {"kRpcServerClosed", "kRpcCallTimeout"}

\* Codes that come from the server's answer, or from decoding it.
ServerOutcomes == {"kRpcSuccess", "kRpcNoMethod", "kRpcRetTypeNotMatch"}

Init == /\ calling = [c \in Callers |-> FALSE]
        /\ ticket = [c \in Callers |-> 0]
        /\ outcome = [c \in Callers |-> "none"]
        /\ calls = 0
        /\ executed = [t \in 1..MaxCalls |-> 0]

\* A caller starts a call.
Begin(c) == /\ ~calling[c]
            /\ calls < MaxCalls
            /\ calls' = calls + 1
            /\ calling' = [calling EXCEPT ![c] = TRUE]
            /\ ticket' = [ticket EXCEPT ![c] = calls + 1]
            /\ outcome' = [outcome EXCEPT ![c] = "none"]
            /\ UNCHANGED executed

\* A call is refused at once: there is no open connection.
Refuse(c) == /\ ~calling[c]
             /\ calls < MaxCalls
             /\ calls' = calls + 1
             /\ ticket' = [ticket EXCEPT ![c] = calls + 1]
             /\ outcome' = [outcome EXCEPT ![c] = "kRpcServerClosed"]
             /\ UNCHANGED <<calling, executed>>

\* The server runs call t, also when its caller has given up: but once.
Execute(t) == /\ executed[t] = 0
              /\ executed' = [executed EXCEPT ![t] = 1]
              /\ UNCHANGED <<calling, ticket, outcome, calls>>

\* A call in progress comes back.
Return(c, o) == /\ calling[c]
                /\ o \in ServerOutcomes => executed[ticket[c]] = 1
                /\ calling' = [calling EXCEPT ![c] = FALSE]
                /\ outcome' = [outcome EXCEPT ![c] = o]
                /\ UNCHANGED <<ticket, calls, executed>>

Next == \/ \E c \in Callers : Begin(c) \/ Refuse(c)
        \/ \E t \in 1..calls : Execute(t)
        \/ \E c \in Callers, o \in LocalOutcomes \cup ServerOutcomes : Return(c, o)

Spec == Init /\ [][Next]_vars
=============================================================================
