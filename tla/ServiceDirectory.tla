-------------------------- MODULE ServiceDirectory --------------------------
(***************************************************************************)
(* What those who use a service registry rely on: a set of services with   *)
(* the addresses that provide them.  Pairs are listed one at a time, by    *)
(* providers that announced their address, and only the end of a           *)
(* provider's connection takes any away: then all of its address, at once, *)
(* so that whoever discovers services sees all of an address's or none.    *)
(* RpcServiceRegistry implements this under the mapping stated there.      *)
(***************************************************************************)
CONSTANTS Conns, Services, Addrs

VARIABLES listed,     \* what can be discovered: services and addresses
          providers,  \* connections that provide services, and their addresses
          online      \* connections whose peer is there

vars == <<listed, providers, online>>

Announced(c) == \E p \in providers : p[1] = c

Init == listed = {} /\ providers = {} /\ online = {}

Come(c) == ~Announced(c) /\ online' = online \cup {c} /\ UNCHANGED <<listed, providers>>

Leave(c) == c \in online /\ online' = online \ {c} /\ UNCHANGED <<listed, providers>>

\* A provider gives its address, once.
Announce(c, a) == /\ c \in online /\ ~Announced(c)
                  /\ providers' = providers \cup {<<c, a>>}
                  /\ UNCHANGED <<listed, online>>

\* A service is listed at its provider's address.
Publish(p, s) == /\ listed' = listed \cup {<<s, p[2]>>}
                 /\ UNCHANGED <<providers, online>>

\* The registry is done with a provider that is gone.
Withdraw(p) == /\ p[1] \notin online
               /\ providers' = providers \ {p}
               /\ listed' = {e \in listed : e[2] # p[2]}
               /\ UNCHANGED online

Next == \/ \E c \in Conns : Come(c) \/ Leave(c) \/ \E a \in Addrs : Announce(c, a)
        \/ \E p \in providers : Withdraw(p) \/ \E s \in Services : Publish(p, s)

Spec == Init /\ [][Next]_vars
=============================================================================
