---------------------------- MODULE ConfigProofs ----------------------------
(***************************************************************************)
(* Proofs about Config for any number of threads, names, types and         *)
(* listeners.                                                              *)
(***************************************************************************)
EXTENDS Config, FiniteSetTheorems, TLAPS

(***************************************************************************)
(* The inductive invariant.                                                *)
(***************************************************************************)
Adding == {"count", "insert"}

Op ==
  [at : {"idle"}]
    \cup [at : {"make"}, name : Names, T : Types]
    \cup [at : {"notify"}, var : Vars, val : Values, todo : SUBSET Nat]
    \cup [at : {"assign"}, var : Vars, val : Values]
    \cup [at : Adding, var : Vars, cb : Callbacks, read : Nat]

\* An operation on a variable has one that was made, and a setter a value of
\* its type.
OpsTyped ==
  /\ op \in [Threads -> Op]
  /\ \A t \in Threads : op[t].at \in Adding \cup Setting => op[t].var \in DOMAIN type
  /\ \A t \in Threads : op[t].at \in Setting => op[t].val \in type[op[t].var]

\* The variables made are numbered from 1 and each has a name, so there is a
\* number left as long as there is a name without a variable.
Numbered ==
  /\ IsFiniteSet(DOMAIN type) /\ DOMAIN type = 1..Cardinality(DOMAIN type)
  /\ \A v \in DOMAIN type : \E n \in Names : map[n] = v
  /\ \A n \in Names : map[n] # 0 => map[n] \in DOMAIN type

\* The lock of a variable is held by the setters that call its listeners, or
\* by one thread that adds a listener.
LockHeld ==
  /\ \A t \in Threads, v \in Vars :
       t \in readers[v] <=> op[t].at = "notify" /\ op[t].var = v
  /\ \A t \in Threads : op[t].at \in Adding =>
       /\ readers[op[t].var] = {}
       /\ \A u \in Threads : op[u].at \in Adding /\ op[u].var = op[t].var => u = t

\* The callback that is being added is new, and those added have heard.
CallbacksNew ==
  /\ DOMAIN told \subseteq 1..added
  /\ \A t \in Threads : op[t].at \in Adding =>
       /\ op[t].cb \in 1..added /\ op[t].cb \notin DOMAIN told
       /\ \A u \in Threads : op[u].at \in Adding /\ op[u].cb = op[t].cb => u = t
  /\ \A v \in DOMAIN type : \A i \in DOMAIN m_listeners[v] :
       m_listeners[v][i] \in DOMAIN told

\* What a setter has left to call is registered.
TodoListed ==
  \A t \in Threads : op[t].at = "notify" =>
    op[t].todo \subseteq DOMAIN m_listeners[op[t].var]

\* No two variables share a type, so the counter of a type is one variable's.
OwnTypes == \A v, w \in DOMAIN type : type[v] = type[w] => v = w

\* The numbers in use were drawn from the counter, and what an addListener
\* has read is still there when it writes.
NumbersDrawn ==
  /\ \A k \in DOMAIN live : live[k] \in Vars \X Nat /\ live[k][1] \in DOMAIN type
  /\ OwnTypes =>
       /\ \A v \in DOMAIN type : \A i \in DOMAIN m_listeners[v] :
            i <= s_listener_id[type[v]]
       /\ \A t \in Threads :
            /\ op[t].at = "count" => op[t].read = s_listener_id[type[op[t].var]]
            /\ op[t].at = "insert" =>
                 s_listener_id[type[op[t].var]] \notin DOMAIN m_listeners[op[t].var]

IInv == /\ TypeOK /\ OpsTyped /\ Numbered /\ LockHeld /\ CallbacksNew
        /\ TodoListed /\ NumbersDrawn
        /\ OneVariable /\ ListenersExact
(***************************************************************************)
(* Numbers for variables.                                                  *)
(***************************************************************************)
\* A name without a variable leaves a number for a new one.
LEMMA RoomForVariable ==
  ASSUME TypeOK, Numbered, NEW n \in Names, map[n] = 0
  PROVE  /\ Cardinality(DOMAIN type) + 1 \in Vars
         /\ Cardinality(DOMAIN type) + 1 \notin DOMAIN type
         /\ Cardinality(DOMAIN type) \in Nat
<1> DEFINE S == DOMAIN type
           N == Names \ {n}
           f == [v \in S |-> CHOOSE m \in N : map[m] = v]
<1>1. IsFiniteSet(Names) /\ Cardinality(Names) \in Nat
  BY ConfigAssumption, FS_CardinalityType
<1>2. IsFiniteSet(N) /\ Cardinality(N) = Cardinality(Names) - 1
  BY <1>1, FS_RemoveElement
<1>3. IsFiniteSet(S) /\ Cardinality(S) \in Nat /\ S = 1..Cardinality(S)
  BY FS_CardinalityType DEF Numbered
<1>4. \A v \in S : v # 0
  BY <1>3
<1>5. \A v \in S : \E m \in N : map[m] = v
  BY <1>4 DEF Numbered
<1>6. \A v \in S : f[v] \in N /\ map[f[v]] = v
  BY <1>5
<1>7. f \in Injection(S, N)
  <2>1. f \in [S -> N]
    BY <1>6
  <2>2. \A v, w \in S : f[v] = f[w] => v = w
    BY <1>6
  <2> HIDE DEF f
  <2> QED BY <2>1, <2>2 DEF Injection, IsInjective
<1>8. Cardinality(S) <= Cardinality(N)
  BY <1>2, <1>7, FS_Injection
<1> QED BY <1>1, <1>2, <1>3, <1>8 DEF Vars

(***************************************************************************)
(* The initial state.                                                      *)
(***************************************************************************)
\* Nothing is made, held or added.
LEMMA InitIInv == Init => IInv
<1> SUFFICES ASSUME Init PROVE IInv
  OBVIOUS
<1>1. /\ DOMAIN type = {} /\ DOMAIN m_val = {} /\ DOMAIN m_listeners = {}
      /\ DOMAIN live = {} /\ DOMAIN told = {}
      /\ \A t \in Threads : op[t] = Idle /\ op[t].at = "idle"
  BY DEF Init, Idle
<1>2. TypeOK
  BY <1>1, ConfigAssumption DEF Init, TypeOK
<1>3. OpsTyped
  BY <1>1 DEF Init, OpsTyped, Op, Adding, Setting, Idle
<1>4. Numbered
  <2>1. IsFiniteSet({}) /\ Cardinality({}) = 0
    BY FS_EmptySet
  <2> QED BY <1>1, <2>1 DEF Init, Numbered
<1>5. LockHeld
  BY <1>1 DEF Init, LockHeld, Adding
<1>6. CallbacksNew
  BY <1>1 DEF CallbacksNew, Adding
<1>7. TodoListed /\ NumbersDrawn
  BY <1>1 DEF TodoListed, NumbersDrawn
<1>8. OneVariable
  BY DEF Init, OneVariable
<1>9. ListenersExact
  BY <1>1 DEF ListenersExact
<1> QED BY <1>2, <1>3, <1>4, <1>5, <1>6, <1>7, <1>8, <1>9 DEF IInv

(***************************************************************************)
(* The steps.                                                              *)
(***************************************************************************)
\* The first find of Lookup.
LEMMA LookupFindStep ==
  ASSUME IInv, NEW t \in Threads, NEW n \in Names, NEW T \in Types,
         LookupFind(t, n, T)
  PROVE  IInv'
<1>i. /\ TypeOK /\ OpsTyped /\ Numbered /\ LockHeld
      /\ CallbacksNew /\ TodoListed /\ NumbersDrawn /\ OneVariable
      /\ ListenersExact
  BY DEF IInv
<1>e. /\ UNCHANGED <<map, type, m_val, readers, cbVars>> /\ op[t] = Idle
  BY DEF LookupFind
<1>u. UNCHANGED <<m_listeners, s_listener_id, added, live, told, raced>>
  BY <1>e DEF cbVars, ghosts
<1>o. /\ \A u \in Threads : u # t => op'[u] = op[u]
      /\ op'[t].at \in {"idle", "make"} /\ op'[t] \in Op /\ op[t].at = "idle"
      /\ op' \in [Threads -> Op]
  BY <1>i, <1>e DEF LookupFind, Do, OpsTyped, Op, Idle
<1>a. \A u \in Threads : op'[u].at \in Adding \cup Setting => op'[u] = op[u] /\ u # t
  BY <1>o DEF Adding, Setting
<1>h. /\ handed' \in [Names -> SUBSET Vars]
      /\ \A m \in Names :
           \/ handed'[m] = handed[m]
           \/ handed'[m] \subseteq handed[m] \cup {map[m]} /\ map[m] # 0
  BY <1>i DEF LookupFind, Hand, Returned, TypeOK
<1>1. TypeOK'
  BY <1>i, <1>e, <1>u, <1>o, <1>h DEF TypeOK, Op, Adding
<1>2. OpsTyped'
  BY <1>i, <1>e, <1>o, <1>a DEF OpsTyped
<1>3. Numbered'
  BY <1>i, <1>e DEF Numbered
<1>4. LockHeld'
  BY <1>i, <1>e, <1>o, <1>a DEF LockHeld, Adding, Setting
<1>5. CallbacksNew'
  BY <1>i, <1>e, <1>u, <1>a DEF CallbacksNew, Adding, Setting
<1>6. TodoListed'
  BY <1>i, <1>e, <1>u, <1>a DEF TodoListed, Setting
<1>7. NumbersDrawn'
  BY <1>i, <1>e, <1>u, <1>a DEF NumbersDrawn, OwnTypes, Adding
<1>8. OneVariable'
  BY <1>i, <1>e, <1>h DEF OneVariable
<1>9. ListenersExact'
  BY <1>i, <1>e, <1>u, <1>a DEF ListenersExact, Setting
<1> QED BY <1>1, <1>2, <1>3, <1>4, <1>5, <1>6, <1>7, <1>8, <1>9 DEF IInv

\* The second find of Lookup finds what another thread made.
LEMMA LookupAgainStep ==
  ASSUME IInv, NEW t \in Threads, LookupMake(t), map[op[t].name] # 0
  PROVE  IInv'
<1>i. /\ TypeOK /\ OpsTyped /\ Numbered /\ LockHeld
      /\ CallbacksNew /\ TodoListed /\ NumbersDrawn /\ OneVariable
      /\ ListenersExact
  BY DEF IInv
<1>e. /\ UNCHANGED <<map, type, m_val, readers, m_listeners, s_listener_id, added,
                     live, told, raced>>
      /\ op[t].at = "make" /\ op' = [op EXCEPT ![t] = Idle]
      /\ Hand(op[t].name, Returned(op[t].name, op[t].T))
  BY DEF LookupMake, Do, ghosts
<1>n. op[t].name \in Names
  BY <1>i, <1>e DEF OpsTyped, Op, Adding
<1>o. /\ \A u \in Threads : u # t => op'[u] = op[u]
      /\ op'[t].at = "idle" /\ op' \in [Threads -> Op]
  BY <1>i, <1>e DEF OpsTyped, Op, Idle
<1>a. \A u \in Threads : op'[u].at \in Adding \cup Setting => op'[u] = op[u] /\ u # t
  BY <1>o DEF Adding, Setting
<1>h. /\ handed' \in [Names -> SUBSET Vars]
      /\ \A m \in Names :
           \/ handed'[m] = handed[m]
           \/ handed'[m] \subseteq handed[m] \cup {map[m]} /\ map[m] # 0
  BY <1>i, <1>e, <1>n DEF Hand, Returned, TypeOK
<1>1. TypeOK'
  BY <1>i, <1>e, <1>o, <1>h DEF TypeOK, Op, Adding
<1>2. OpsTyped'
  BY <1>i, <1>e, <1>o, <1>a DEF OpsTyped
<1>3. Numbered'
  BY <1>i, <1>e DEF Numbered
<1>4. LockHeld'
  BY <1>i, <1>e, <1>o, <1>a DEF LockHeld, Adding, Setting
<1>5. CallbacksNew'
  BY <1>i, <1>e, <1>a DEF CallbacksNew, Adding, Setting
<1>6. TodoListed'
  BY <1>i, <1>e, <1>a DEF TodoListed, Setting
<1>7. NumbersDrawn'
  BY <1>i, <1>e, <1>a DEF NumbersDrawn, OwnTypes, Adding
<1>8. OneVariable'
  BY <1>i, <1>e, <1>h DEF OneVariable
<1>9. ListenersExact'
  BY <1>i, <1>e, <1>a DEF ListenersExact, Setting
<1> QED BY <1>1, <1>2, <1>3, <1>4, <1>5, <1>6, <1>7, <1>8, <1>9 DEF IInv

\* The second find of Lookup fails and a new variable is made.
LEMMA LookupMakeStep ==
  ASSUME IInv, NEW t \in Threads, LookupMake(t), map[op[t].name] = 0
  PROVE  IInv'
<1>i. /\ TypeOK /\ OpsTyped /\ Numbered /\ LockHeld
      /\ CallbacksNew /\ TodoListed /\ NumbersDrawn /\ OneVariable
      /\ ListenersExact
  BY DEF IInv
<1> DEFINE n == op[t].name
           T == op[t].T
           w == Cardinality(DOMAIN type) + 1
<1>e. /\ UNCHANGED <<readers, s_listener_id, added, live, told, raced>>
      /\ op[t].at = "make" /\ op' = [op EXCEPT ![t] = Idle] /\ Make(n, T)
  BY DEF LookupMake, Do, ghosts
<1>n. n \in Names /\ T \in Types
  BY <1>i, <1>e DEF OpsTyped, Op, Adding
<1>w. w \in Vars /\ w \notin DOMAIN type /\ Cardinality(DOMAIN type) \in Nat
  BY <1>i, <1>n, RoomForVariable
<1>m. /\ map' = [map EXCEPT ![n] = w] /\ type' = Put(type, w, T)
      /\ m_val' = Put(m_val, w, Default[T]) /\ m_listeners' = Put(m_listeners, w, <<>>)
      /\ handed' = [handed EXCEPT ![n] = @ \cup {w}]
  BY <1>e DEF Make, Hand
<1>o. /\ \A u \in Threads : u # t => op'[u] = op[u]
      /\ op'[t].at = "idle" /\ op' \in [Threads -> Op]
  BY <1>i, <1>e DEF OpsTyped, Op, Idle
<1>a. \A u \in Threads : op'[u].at \in Adding \cup Setting => op'[u] = op[u] /\ u # t
  BY <1>o DEF Adding, Setting
<1>f. IsFiniteSet(DOMAIN type \cup {w}) /\ Cardinality(DOMAIN type \cup {w}) = w
  BY <1>i, <1>w, FS_AddElement DEF Numbered
<1> HIDE DEF n, T, w
<1>p. /\ DOMAIN type' = DOMAIN type \cup {w} /\ type'[w] = T
      /\ \A v \in DOMAIN type : type'[v] = type[v]
  BY <1>m, <1>w DEF Put
<1>q. /\ DOMAIN m_val' = DOMAIN type' /\ m_val'[w] = Default[T]
      /\ \A v \in DOMAIN type : m_val'[v] = m_val[v]
  BY <1>i, <1>m, <1>w, <1>p DEF TypeOK, Put
<1>r. /\ DOMAIN m_listeners' = DOMAIN type' /\ DOMAIN m_listeners'[w] = {}
      /\ \A v \in DOMAIN type : m_listeners'[v] = m_listeners[v]
  <2>1. m_listeners'[w] = <<>>
    BY <1>m DEF Put
  <2> QED BY <1>i, <1>m, <1>w, <1>p, <2>1 DEF TypeOK, Put
<1>1. TypeOK'
  <2>1. Default[T] \in T
    BY <1>n, ConfigAssumption
  <2>2. \A v \in DOMAIN type' : /\ type'[v] \in Types /\ m_val'[v] \in type'[v]
                                /\ DOMAIN m_listeners'[v] \subseteq Nat
    BY <1>i, <1>n, <1>p, <1>q, <1>r, <2>1 DEF TypeOK
  <2>3. map' \in [Names -> {0} \cup Vars] /\ handed' \in [Names -> SUBSET Vars]
    BY <1>i, <1>n, <1>w, <1>m DEF TypeOK
  <2>4. \A u \in Threads : op'[u].at \in {"idle", "make", "notify", "assign", "count", "insert"}
    BY <1>i, <1>o DEF TypeOK
  <2> QED BY <1>i, <1>e, <1>w, <1>p, <1>q, <1>r, <2>2, <2>3, <2>4 DEF TypeOK
<1>2. OpsTyped'
  BY <1>i, <1>o, <1>a, <1>p DEF OpsTyped, Setting
<1>3. Numbered'
  <2>1. IsFiniteSet(DOMAIN type') /\ DOMAIN type' = 1..Cardinality(DOMAIN type')
    <3>1. DOMAIN type = 1..(w - 1) /\ w \in Nat /\ w > 0
      BY <1>i, <1>w DEF Numbered, w
    <3>2. DOMAIN type \cup {w} = 1..w
      BY <3>1
    <3> QED BY <1>f, <1>p, <3>2
  <2>2. w # 0
    BY <1>w DEF Vars
  <2>3. map'[n] = w /\ \A m \in Names : m # n => map'[m] = map[m]
    BY <1>i, <1>m, <1>n DEF TypeOK
  <2>4. \A v \in DOMAIN type : \E m \in Names : m # n /\ map[m] = v
    <3>1. map[n] = 0 /\ 0 \notin DOMAIN type
      BY <1>i, <1>w DEF n, Numbered
    <3> QED BY <1>i, <3>1 DEF Numbered
  <2>5. \A v \in DOMAIN type' : \E m \in Names : map'[m] = v
    BY <1>n, <1>p, <2>3, <2>4
  <2>6. \A m \in Names : map'[m] # 0 => map'[m] \in DOMAIN type'
    BY <1>i, <1>p, <2>3 DEF Numbered
  <2> QED BY <2>1, <2>5, <2>6 DEF Numbered
<1>4. LockHeld'
  BY <1>i, <1>e, <1>o, <1>a DEF LockHeld, Adding, Setting
<1>5. CallbacksNew'
  BY <1>i, <1>e, <1>a, <1>p, <1>r DEF CallbacksNew, Adding, Setting
<1>6. TodoListed'
  BY <1>i, <1>e, <1>a, <1>p, <1>r, SMTT(30) DEF TodoListed, Setting, OpsTyped
<1>7. NumbersDrawn'
  <2>1. OwnTypes' => OwnTypes
    BY <1>p DEF OwnTypes
  <2> QED BY <1>i, <1>e, <1>a, <1>p, <1>r, <2>1 DEF NumbersDrawn, OpsTyped, Adding, Setting
<1>8. OneVariable'
  <2>1. handed[n] = {} /\ w # 0
    BY <1>i, <1>n, <1>w DEF OneVariable, n, Vars
  <2> QED BY <1>i, <1>m, <1>n, <2>1 DEF OneVariable, TypeOK
<1>9. ListenersExact'
  <2>1. OwnTypes' => OwnTypes
    BY <1>p DEF OwnTypes
  <2>2. \A k \in DOMAIN live : live[k][1] \in DOMAIN type
    BY <1>i DEF NumbersDrawn
  <2> QED BY <1>i, <1>e, <1>a, <1>p, <1>r, <2>1, <2>2
          DEF ListenersExact, OwnTypes, OpsTyped, Setting
<1> QED BY <1>1, <1>2, <1>3, <1>4, <1>5, <1>6, <1>7, <1>8, <1>9 DEF IInv

\* A setter takes the reader's lock and has all listeners to call.
LEMMA SetCompareStep ==
  ASSUME IInv, NEW t \in Threads, NEW v \in Vars, NEW x \in Values,
         SetCompare(t, v, x)
  PROVE  IInv'
<1>i. /\ TypeOK /\ OpsTyped /\ Numbered /\ LockHeld
      /\ CallbacksNew /\ TodoListed /\ NumbersDrawn /\ OneVariable
      /\ ListenersExact
  BY DEF IInv
<1> DEFINE o == [at |-> "notify", var |-> v, val |-> x, todo |-> DOMAIN m_listeners[v]]
<1>e. /\ UNCHANGED <<map, type, handed, m_val, m_listeners, s_listener_id, added,
                     live, told>>
      /\ v \in DOMAIN type /\ x \in type[v] /\ op[t] = Idle /\ ~Locked(v)
      /\ readers' = [readers EXCEPT ![v] = @ \cup {t}]
      /\ op' = [op EXCEPT ![t] = o]
  BY DEF SetCompare, Do, mapVars
<1>v. o \in Op /\ o.at = "notify" /\ o.var = v /\ o.val = x
        /\ o.todo = DOMAIN m_listeners[v]
  BY <1>i, <1>e DEF TypeOK, Op
<1> HIDE DEF o
<1>o. /\ \A u \in Threads : u # t => op'[u] = op[u]
      /\ op'[t] = o /\ op[t].at = "idle" /\ op' \in [Threads -> Op]
  BY <1>i, <1>e, <1>v DEF OpsTyped, Idle
<1>r. raced' \subseteq Callbacks
  <2>1. Registered(v) \subseteq Callbacks
    BY <1>i, <1>e DEF Registered, CallbacksNew, TypeOK
  <2> QED BY <1>i, <2>1 DEF SetCompare, TypeOK
<1>1. TypeOK'
  BY <1>i, <1>e, <1>r, <1>o, <1>v DEF TypeOK
<1>2. OpsTyped'
  BY <1>i, <1>e, <1>o, <1>v DEF OpsTyped, Adding, Setting
<1>3. Numbered'
  BY <1>i, <1>e DEF Numbered
<1>4. LockHeld'
  <2>1. \A u \in Threads, w \in Vars :
          u \in readers'[w] <=> u \in readers[w] \/ (u = t /\ w = v)
    BY <1>i, <1>e DEF TypeOK
  <2>2. \A u \in Threads : op'[u].at \in Adding => u # t /\ op[u].at \in Adding /\ op[u].var # v
    BY <1>e, <1>o, <1>v DEF Locked, Adding
  <2>3. \A u \in Threads : op'[u].at \in Adding => readers'[op'[u].var] = {}
    BY <1>i, <1>e, <1>o, <2>2 DEF LockHeld, TypeOK
  <2> QED BY <1>i, <1>o, <1>v, <2>1, <2>2, <2>3 DEF LockHeld
<1>5. CallbacksNew'
  BY <1>i, <1>e, <1>o, <1>v DEF CallbacksNew, Adding, Setting
<1>6. TodoListed'
  BY <1>i, <1>e, <1>o, <1>v DEF TodoListed, Setting
<1>7. NumbersDrawn'
  BY <1>i, <1>e, <1>o, <1>v DEF NumbersDrawn, OwnTypes, Adding
<1>8. OneVariable'
  BY <1>i, <1>e DEF OneVariable
<1>9. ListenersExact'
  BY <1>i, <1>e, <1>o, <1>v DEF ListenersExact, Setting
<1> QED BY <1>1, <1>2, <1>3, <1>4, <1>5, <1>6, <1>7, <1>8, <1>9 DEF IInv

\* A setter tells the next listener.
LEMMA SetNotifyStep ==
  ASSUME IInv, NEW t \in Threads, SetNotify(t)
  PROVE  IInv'
<1>i. /\ TypeOK /\ OpsTyped /\ Numbered /\ LockHeld
      /\ CallbacksNew /\ TodoListed /\ NumbersDrawn /\ OneVariable
      /\ ListenersExact
  BY DEF IInv
<1>h. op[t].at = "notify" /\ op[t] \in Op
  BY <1>i DEF SetNotify, OpsTyped
<1> DEFINE v == op[t].var
           x == op[t].val
<1>v. v \in DOMAIN type /\ v \in Vars /\ x \in type[v]
      /\ op[t] \in [at : {"notify"}, var : Vars, val : Values, todo : SUBSET Nat]
  BY <1>i, <1>h DEF OpsTyped, Op, Adding, Setting
<1>b. op[t].todo \subseteq DOMAIN m_listeners[v]
  BY <1>i, <1>h, Zenon DEF TodoListed
<1>p. PICK j \in op[t].todo :
        /\ op' = [op EXCEPT ![t] = [op[t] EXCEPT !.todo = @ \ {j}]]
        /\ told' = [told EXCEPT ![m_listeners[v][j]] = x]
  BY DEF SetNotify, Call, Do
<1>e. UNCHANGED <<map, type, handed, m_val, readers, m_listeners, s_listener_id,
                  added, live>>
  BY DEF SetNotify, mapVars
<1> DEFINE o == [op[t] EXCEPT !.todo = @ \ {j}]
<1>w. /\ o \in Op /\ o.at = "notify" /\ o.var = v /\ o.val = x
      /\ o.todo = op[t].todo \ {j}
  BY <1>v DEF Op
<1> HIDE DEF o, v, x
<1>o. /\ \A u \in Threads : u # t => op'[u] = op[u]
      /\ op'[t] = o /\ op' \in [Threads -> Op]
  BY <1>i, <1>p, <1>w DEF OpsTyped, o
<1>y. /\ \A u \in Threads : op'[u].at = op[u].at
      /\ \A u \in Threads : op'[u].at \in Adding => op'[u] = op[u]
      /\ \A u \in Threads : op'[u].at \in Setting =>
           op'[u].var = op[u].var /\ op'[u].val = op[u].val
      /\ \A u \in Threads : op'[u].at = "notify" => op'[u].todo \subseteq op[u].todo
  BY <1>h, <1>o, <1>w DEF Adding, v, x
<1>k. m_listeners[v][j] \in DOMAIN told /\ j \in DOMAIN m_listeners[v]
  BY <1>i, <1>h, <1>p, <1>v DEF CallbacksNew, TodoListed, v
<1>z. DOMAIN told' = DOMAIN told /\ raced' \subseteq raced
  BY <1>p DEF SetNotify, Call
<1>1. TypeOK'
  BY <1>i, <1>e, <1>y, <1>z DEF TypeOK
<1>2. OpsTyped'
  BY <1>i, <1>e, <1>o, <1>y DEF OpsTyped, Adding
<1>3. Numbered'
  BY <1>i, <1>e DEF Numbered
<1>4. LockHeld'
  BY <1>i, <1>e, <1>y DEF LockHeld, Setting
<1>5. CallbacksNew'
  BY <1>i, <1>e, <1>y, <1>z DEF CallbacksNew
<1>6. TodoListed'
  BY <1>b, <1>e, <1>i, <1>o, <1>w DEF TodoListed
<1>7. NumbersDrawn'
  BY <1>i, <1>e, <1>y DEF NumbersDrawn, OwnTypes, Adding
<1>8. OneVariable'
  BY <1>i, <1>e DEF OneVariable
<1>9. ListenersExact'
  BY <1>i, <1>e, <1>y DEF ListenersExact, Setting
<1> QED BY <1>1, <1>2, <1>3, <1>4, <1>5, <1>6, <1>7, <1>8, <1>9 DEF IInv

\* A setter has told all listeners and lets the reader's lock go.
LEMMA SetUnlockStep ==
  ASSUME IInv, NEW t \in Threads, SetUnlock(t)
  PROVE  IInv'
<1>i. /\ TypeOK /\ OpsTyped /\ Numbered /\ LockHeld
      /\ CallbacksNew /\ TodoListed /\ NumbersDrawn /\ OneVariable
      /\ ListenersExact
  BY DEF IInv
<1> DEFINE v == op[t].var
           x == op[t].val
           o == [at |-> "assign", var |-> v, val |-> x]
<1>e. /\ UNCHANGED <<map, type, handed, m_val, m_listeners, s_listener_id, added,
                     live, told, raced>>
      /\ op[t].at = "notify" /\ op[t].todo = {}
      /\ readers' = [readers EXCEPT ![v] = @ \ {t}]
      /\ op' = [op EXCEPT ![t] = o]
  BY DEF SetUnlock, Do, mapVars, cbVars, ghosts
<1>v. v \in DOMAIN type /\ v \in Vars /\ x \in type[v] /\ x \in Values
  BY <1>i, <1>e DEF OpsTyped, Op, Adding, Setting
<1>w. o \in Op /\ o.at = "assign" /\ o.var = v /\ o.val = x
  BY <1>v DEF Op
<1> HIDE DEF o, v, x
<1>o. /\ \A u \in Threads : u # t => op'[u] = op[u]
      /\ op'[t] = o /\ op' \in [Threads -> Op]
  BY <1>i, <1>e, <1>w DEF OpsTyped
<1>1. TypeOK'
  BY <1>i, <1>e, <1>o, <1>v, <1>w DEF TypeOK
<1>2. OpsTyped'
  BY <1>i, <1>e, <1>o, <1>v, <1>w DEF OpsTyped, Adding, Setting
<1>3. Numbered'
  BY <1>i, <1>e DEF Numbered
<1>4. LockHeld'
  <2>1. \A u \in Threads, y \in Vars :
          u \in readers'[y] <=> u \in readers[y] /\ ~(u = t /\ y = v)
    BY <1>i, <1>e, <1>v DEF TypeOK
  <2>2. \A u \in Threads : op'[u].at \in Adding => u # t /\ op'[u] = op[u]
    BY <1>o, <1>w DEF Adding
  <2>3. \A u \in Threads, y \in Vars :
          u \in readers'[y] <=> op'[u].at = "notify" /\ op'[u].var = y
    BY <1>i, <1>e, <1>o, <1>w, <2>1 DEF LockHeld, v
  <2>4. \A y \in Vars : readers'[y] \subseteq readers[y]
    BY <1>i, <1>e, <1>v DEF TypeOK
  <2>5. \A u \in Threads : op[u].at \in Adding => op[u].var \in Vars
    BY <1>i DEF OpsTyped, TypeOK
  <2>6. \A u \in Threads : op'[u].at \in Adding =>
          /\ readers'[op'[u].var] = {}
          /\ \A y \in Threads : op'[y].at \in Adding /\ op'[y].var = op'[u].var => y = u
    BY <1>i, <2>2, <2>4, <2>5 DEF LockHeld
  <2> QED BY <2>3, <2>6 DEF LockHeld
<1>5. CallbacksNew'
  BY <1>i, <1>e, <1>o, <1>w DEF CallbacksNew, Adding, Setting
<1>6. TodoListed'
  BY <1>i, <1>e, <1>o, <1>w DEF TodoListed, Setting, v, x
<1>7. NumbersDrawn'
  BY <1>i, <1>e, <1>o, <1>w DEF NumbersDrawn, OwnTypes, Adding
<1>8. OneVariable'
  BY <1>i, <1>e DEF OneVariable
<1>9. ListenersExact'
  BY <1>i, <1>e, <1>o, <1>w DEF ListenersExact, Setting
<1> QED BY <1>1, <1>2, <1>3, <1>4, <1>5, <1>6, <1>7, <1>8, <1>9 DEF IInv

\* A setter assigns the value all listeners were told of.
LEMMA SetAssignStep ==
  ASSUME IInv, NEW t \in Threads, SetAssign(t)
  PROVE  IInv'
<1>i. /\ TypeOK /\ OpsTyped /\ Numbered /\ LockHeld
      /\ CallbacksNew /\ TodoListed /\ NumbersDrawn /\ OneVariable
      /\ ListenersExact
  BY DEF IInv
<1> DEFINE v == op[t].var
           x == op[t].val
<1>e. /\ UNCHANGED <<map, type, handed, readers, m_listeners, s_listener_id, added,
                     live, told, raced>>
      /\ op[t].at = "assign"
      /\ m_val' = [m_val EXCEPT ![v] = x]
      /\ op' = [op EXCEPT ![t] = Idle]
  BY DEF SetAssign, Do, mapVars, cbVars, ghosts
<1>v. v \in DOMAIN type /\ x \in type[v]
  BY <1>i, <1>e DEF OpsTyped, Setting
<1> HIDE DEF v, x
<1>m. /\ DOMAIN m_val' = DOMAIN m_val /\ m_val'[v] = x
      /\ \A w \in DOMAIN type : w # v => m_val'[w] = m_val[w]
  BY <1>i, <1>e, <1>v DEF TypeOK
<1>o. /\ \A u \in Threads : u # t => op'[u] = op[u]
      /\ op'[t].at = "idle" /\ op' \in [Threads -> Op]
  BY <1>i, <1>e DEF OpsTyped, Op, Idle
<1>1. TypeOK'
  BY <1>i, <1>e, <1>o, <1>m, <1>v DEF TypeOK
<1>2. OpsTyped'
  BY <1>i, <1>e, <1>o DEF OpsTyped, Adding, Setting
<1>3. Numbered'
  BY <1>i, <1>e DEF Numbered
<1>4. LockHeld'
  BY <1>i, <1>e, <1>o DEF LockHeld, Adding, Setting
<1>5. CallbacksNew'
  BY <1>i, <1>e, <1>o DEF CallbacksNew, Adding, Setting
<1>6. TodoListed'
  BY <1>i, <1>e, <1>o DEF TodoListed, Setting
<1>7. NumbersDrawn'
  BY <1>i, <1>e, <1>o DEF NumbersDrawn, OwnTypes, Adding
<1>8. OneVariable'
  BY <1>i, <1>e DEF OneVariable
<1>9. ListenersExact'
  BY <1>i, <1>e, <1>o DEF ListenersExact, Setting
<1> QED BY <1>1, <1>2, <1>3, <1>4, <1>5, <1>6, <1>7, <1>8, <1>9 DEF IInv

\* addListener takes the writer's lock and reads the counter.
LEMMA AddReadStep ==
  ASSUME IInv, NEW t \in Threads, NEW v \in Vars, AddRead(t, v)
  PROVE  IInv'
<1>i. /\ TypeOK /\ OpsTyped /\ Numbered /\ LockHeld
      /\ CallbacksNew /\ TodoListed /\ NumbersDrawn /\ OneVariable
      /\ ListenersExact
  BY DEF IInv
<1> DEFINE o == [at |-> "count", var |-> v, cb |-> added + 1,
                 read |-> s_listener_id[type[v]]]
<1>e. /\ UNCHANGED <<map, type, handed, m_val, readers, m_listeners, s_listener_id,
                     live, told, raced>>
      /\ v \in DOMAIN type /\ op[t] = Idle /\ ~Locked(v) /\ readers[v] = {}
      /\ added < MaxAdds /\ added' = added + 1
      /\ op' = [op EXCEPT ![t] = o]
  BY DEF AddRead, Do, mapVars, Writable, ghosts
<1>a. added \in Nat /\ added' \in 0..MaxAdds /\ added + 1 \in Callbacks
      /\ added + 1 \notin 1..added /\ 1..added \subseteq 1..added'
  BY <1>i, <1>e, ConfigAssumption DEF TypeOK, Callbacks
<1>v. o \in Op /\ o.at = "count" /\ o.var = v /\ o.cb = added + 1
        /\ o.read = s_listener_id[type[v]]
  BY <1>i, <1>e, <1>a DEF TypeOK, Op, Adding
<1> HIDE DEF o
<1>o. /\ \A u \in Threads : u # t => op'[u] = op[u]
      /\ op'[t] = o /\ op[t].at = "idle" /\ op' \in [Threads -> Op]
  BY <1>i, <1>e, <1>v DEF OpsTyped, Idle
<1>x. \A u \in Threads : op[u].at \in Adding => op[u].var # v
  BY <1>e DEF Locked, Adding
<1>1. TypeOK'
  BY <1>i, <1>e, <1>a, <1>o, <1>v DEF TypeOK
<1>2. OpsTyped'
  BY <1>i, <1>e, <1>o, <1>v DEF OpsTyped, Adding, Setting
<1>3. Numbered'
  BY <1>i, <1>e DEF Numbered
<1>4. LockHeld'
  BY <1>i, <1>e, <1>o, <1>v, <1>x DEF LockHeld, Adding
<1>5. CallbacksNew'
  <2>1. DOMAIN told' \subseteq 1..added' /\ added + 1 \in 1..added'
        /\ added + 1 \notin DOMAIN told'
    BY <1>i, <1>e, <1>a DEF CallbacksNew
  <2>2. \A u \in Threads : u # t /\ op[u].at \in Adding =>
          op[u].cb \in 1..added' /\ op[u].cb # added + 1
    BY <1>i, <1>a DEF CallbacksNew
  <2>3. \A u \in Threads : op'[u].at \in Adding =>
          /\ op'[u].cb \in 1..added' /\ op'[u].cb \notin DOMAIN told'
          /\ \A y \in Threads : op'[y].at \in Adding /\ op'[y].cb = op'[u].cb => y = u
    BY <1>i, <1>e, <1>o, <1>v, <2>1, <2>2 DEF CallbacksNew, Adding
  <2> QED BY <1>i, <1>e, <2>1, <2>3 DEF CallbacksNew
<1>6. TodoListed'
  BY <1>i, <1>e, <1>o, <1>v DEF TodoListed, Setting
<1>7. NumbersDrawn'
  BY <1>i, <1>e, <1>o, <1>v DEF NumbersDrawn, OwnTypes, Adding
<1>8. OneVariable'
  BY <1>i, <1>e DEF OneVariable
<1>9. ListenersExact'
  BY <1>i, <1>e, <1>o, <1>v DEF ListenersExact, Setting
<1> QED BY <1>1, <1>2, <1>3, <1>4, <1>5, <1>6, <1>7, <1>8, <1>9 DEF IInv

\* addListener writes the counter.
LEMMA AddCountStep ==
  ASSUME IInv, NEW t \in Threads, AddCount(t)
  PROVE  IInv'
<1>i. /\ TypeOK /\ OpsTyped /\ Numbered /\ LockHeld
      /\ CallbacksNew /\ TodoListed /\ NumbersDrawn /\ OneVariable
      /\ ListenersExact
  BY DEF IInv
<1>h. op[t].at = "count" /\ op[t] \in Op
  BY <1>i DEF AddCount, OpsTyped
<1> DEFINE v == op[t].var
           r == op[t].read
           o == [op[t] EXCEPT !.at = "insert"]
<1>v. v \in DOMAIN type /\ type[v] \in Types /\ r \in Nat
      /\ op[t] \in [at : Adding, var : Vars, cb : Callbacks, read : Nat]
  BY <1>i, <1>h DEF OpsTyped, TypeOK, Op, Adding
<1>w. /\ o \in Op /\ o.at = "insert" /\ o.var = v /\ o.cb = op[t].cb /\ o.read = r
  BY <1>v DEF Op, Adding
<1>e. /\ UNCHANGED <<map, type, handed, m_val, readers, m_listeners, added, live, told, raced>>
      /\ op' = [op EXCEPT ![t] = o]
      /\ s_listener_id' = [s_listener_id EXCEPT ![type[v]] = r + 1]
  BY DEF AddCount, Do, mapVars, ghosts
<1>b. op[t].var = v /\ op[t].read = r
  OBVIOUS
<1>c. OwnTypes => r = s_listener_id[type[v]]
  BY <1>i, <1>h, Zenon DEF NumbersDrawn
<1> HIDE DEF o, v, r
<1>o. /\ \A u \in Threads : u # t => op'[u] = op[u]
      /\ op'[t] = o /\ op' \in [Threads -> Op]
  BY <1>i, <1>e, <1>w DEF OpsTyped
<1>y. /\ \A u \in Threads : op'[u].at \in Adding <=> op[u].at \in Adding
      /\ \A u \in Threads : op'[u].at \in Adding =>
           op'[u].var = op[u].var /\ op'[u].cb = op[u].cb
      /\ \A u \in Threads : op'[u].at \in Setting \/ op[u].at \in Setting =>
           op'[u] = op[u]
  BY <1>h, <1>b, <1>o, <1>w DEF Adding, Setting
<1>1. TypeOK'
  BY <1>i, <1>e, <1>o, <1>v, <1>w DEF TypeOK
<1>2. OpsTyped'
  BY <1>i, <1>e, <1>o, <1>y DEF OpsTyped
<1>3. Numbered'
  BY <1>i, <1>e DEF Numbered
<1>4. LockHeld'
  <2>1. \A u \in Threads, z \in Vars :
          u \in readers'[z] <=> op'[u].at = "notify" /\ op'[u].var = z
    BY <1>i, <1>e, <1>y DEF LockHeld, Setting
  <2>2. \A u \in Threads : op'[u].at \in Adding =>
          /\ readers'[op'[u].var] = {}
          /\ \A z \in Threads : op'[z].at \in Adding /\ op'[z].var = op'[u].var => z = u
    BY <1>i, <1>e, <1>y DEF LockHeld
  <2> QED BY <2>1, <2>2 DEF LockHeld
<1>5. CallbacksNew'
  BY <1>i, <1>e, <1>y DEF CallbacksNew
<1>6. TodoListed'
  BY <1>i, <1>e, <1>o, <1>w DEF TodoListed, Setting
<1>7. NumbersDrawn'
  <2>0. \A k \in DOMAIN live : live[k] \in Vars \X Nat /\ live[k][1] \in DOMAIN type
    BY <1>i DEF NumbersDrawn
  <2> SUFFICES ASSUME OwnTypes
               PROVE  /\ \A y \in DOMAIN type : \A i \in DOMAIN m_listeners[y] :
                           i <= s_listener_id'[type[y]]
                      /\ \A u \in Threads :
                           /\ op'[u].at = "count" =>
                                op'[u].read = s_listener_id'[type[op'[u].var]]
                           /\ op'[u].at = "insert" =>
                                s_listener_id'[type[op'[u].var]]
                                  \notin DOMAIN m_listeners[op'[u].var]
    BY <1>e, <2>0 DEF NumbersDrawn, OwnTypes
  <2>1. r = s_listener_id[type[v]] /\ s_listener_id'[type[v]] = r + 1
    BY <1>i, <1>c, <1>e, <1>v DEF TypeOK
  <2>2. \A y \in DOMAIN type : y # v => s_listener_id'[type[y]] = s_listener_id[type[y]]
    BY <1>i, <1>e, <1>v DEF OwnTypes, TypeOK
  <2>3. \A y \in DOMAIN type : \A i \in DOMAIN m_listeners[y] :
          i \in Nat /\ i <= s_listener_id[type[y]]
    BY <1>i DEF NumbersDrawn, TypeOK
  <2>4. \A y \in DOMAIN type : \A i \in DOMAIN m_listeners[y] :
          i <= s_listener_id'[type[y]]
    BY <1>v, <2>1, <2>2, <2>3
  <2>5. r + 1 \notin DOMAIN m_listeners[v]
    BY <1>v, <2>1, <2>3
  <2>6. \A u \in Threads : u # t /\ op[u].at \in Adding =>
          op[u].var \in DOMAIN type /\ op[u].var # v
    <3>1. op[t].at \in Adding
      BY <1>h, Zenon DEF Adding
    <3>2. \A u \in Threads : op[u].at \in Adding /\ op[u].var = v => u = t
      BY <1>i, <1>b, <3>1 DEF LockHeld
    <3> QED BY <1>i, <3>2 DEF OpsTyped
  <2>7. ASSUME NEW u \in Threads, u # t
        PROVE  /\ op'[u].at = "count" => op'[u].read = s_listener_id'[type[op'[u].var]]
               /\ op'[u].at = "insert" =>
                    s_listener_id'[type[op'[u].var]] \notin DOMAIN m_listeners[op'[u].var]
    BY <1>i, <1>o, <2>2, <2>6, <2>7 DEF NumbersDrawn, Adding
  <2> QED BY <1>o, <1>w, <2>1, <2>4, <2>5, <2>7
<1>8. OneVariable'
  BY <1>i, <1>e DEF OneVariable
<1>9. ListenersExact'
  BY <1>i, <1>e, <1>o, <1>w DEF ListenersExact, Setting
<1> QED BY <1>1, <1>2, <1>3, <1>4, <1>5, <1>6, <1>7, <1>8, <1>9 DEF IInv

\* addListener stores the callback under the number the counter has.
LEMMA AddInsertStep ==
  ASSUME IInv, NEW t \in Threads, AddInsert(t)
  PROVE  IInv'
<1>i. /\ TypeOK /\ OpsTyped /\ Numbered /\ LockHeld
      /\ CallbacksNew /\ TodoListed /\ NumbersDrawn /\ OneVariable
      /\ ListenersExact
  BY DEF IInv
<1>h. op[t].at = "insert" /\ op[t] \in Op
  BY <1>i DEF AddInsert, OpsTyped
<1> DEFINE v == op[t].var
           k == op[t].cb
           j == s_listener_id[type[v]]
<1>v. v \in DOMAIN type /\ v \in Vars /\ type[v] \in Types /\ j \in Nat
      /\ k \in 1..added /\ k \notin DOMAIN told /\ k \in Callbacks
  BY <1>i, <1>h DEF OpsTyped, TypeOK, Op, Adding, CallbacksNew
<1>e. /\ UNCHANGED <<map, type, handed, m_val, readers, s_listener_id, added>>
      /\ op' = [op EXCEPT ![t] = Idle]
      /\ m_listeners' = [m_listeners EXCEPT ![v] = Put(@, j, k)]
      /\ live' = Put(live, k, <<v, j>>)
      /\ told' = Put(told, k, m_val[v])
  BY DEF AddInsert, Do, mapVars
<1>b. /\ readers[v] = {}
      /\ \A u \in Threads : op[u].at \in Adding /\ op[u].var = v => u = t
      /\ \A u \in Threads : op[u].at \in Adding /\ op[u].cb = k => u = t
  <2>1. op[t].at \in Adding
    BY <1>h, Zenon DEF Adding
  <2> QED BY <1>i, <2>1, Zenon DEF LockHeld, CallbacksNew
<1>c. OwnTypes => j \notin DOMAIN m_listeners[v]
  BY <1>i, <1>h, Zenon DEF NumbersDrawn
<1>s. \A u \in Threads : op[u].at = "notify" => op[u].var # v
  BY <1>b, <1>i, <1>v, Zenon DEF LockHeld
<1>r. raced' \subseteq Callbacks
  BY <1>i, <1>v DEF AddInsert, TypeOK
<1> HIDE DEF v, k, j
<1>o. /\ \A u \in Threads : u # t => op'[u] = op[u]
      /\ op'[t].at = "idle" /\ op' \in [Threads -> Op]
  BY <1>i, <1>e DEF OpsTyped, Op, Idle
<1>a. \A u \in Threads : op'[u].at \in Adding \cup Setting => op'[u] = op[u] /\ u # t
  BY <1>o DEF Adding, Setting
<1>l. /\ DOMAIN m_listeners' = DOMAIN m_listeners
      /\ \A w \in DOMAIN type : w # v => m_listeners'[w] = m_listeners[w]
      /\ DOMAIN m_listeners'[v] = DOMAIN m_listeners[v] \cup {j}
      /\ m_listeners'[v][j] = k
      /\ \A i \in DOMAIN m_listeners[v] : i # j => m_listeners'[v][i] = m_listeners[v][i]
  <2>1. /\ DOMAIN m_listeners' = DOMAIN m_listeners
        /\ \A w \in DOMAIN type : w # v => m_listeners'[w] = m_listeners[w]
        /\ m_listeners'[v] = Put(m_listeners[v], j, k)
    BY <1>i, <1>e, <1>v DEF TypeOK
  <2> QED BY <2>1 DEF Put
<1>d. /\ DOMAIN told' = DOMAIN told \cup {k} /\ told'[k] = m_val[v]
      /\ \A y \in DOMAIN told : told'[y] = told[y]
  BY <1>e, <1>v DEF Put
<1>g. /\ DOMAIN live' = DOMAIN live \cup {k} /\ live'[k] = <<v, j>>
      /\ k \notin DOMAIN live
      /\ \A y \in DOMAIN live : live'[y] = live[y]
  BY <1>i, <1>e, <1>v DEF Put, TypeOK
<1>1. TypeOK'
  <2>1. \A w \in DOMAIN type : DOMAIN m_listeners'[w] \subseteq Nat
    BY <1>i, <1>l, <1>v DEF TypeOK
  <2>2. DOMAIN live' \subseteq DOMAIN told' /\ DOMAIN told' \subseteq Callbacks
    BY <1>i, <1>d, <1>g, <1>v DEF TypeOK
  <2>3. \A u \in Threads : op'[u].at \in {"idle", "make", "notify", "assign", "count", "insert"}
    BY <1>i, <1>o DEF TypeOK
  <2> QED BY <1>i, <1>e, <1>l, <1>r, <2>1, <2>2, <2>3 DEF TypeOK
<1>2. OpsTyped'
  BY <1>i, <1>e, <1>o, <1>a DEF OpsTyped
<1>3. Numbered'
  BY <1>i, <1>e DEF Numbered
<1>4. LockHeld'
  <2>1. \A u \in Threads, z \in Vars :
          u \in readers'[z] <=> op'[u].at = "notify" /\ op'[u].var = z
    BY <1>i, <1>h, <1>e, <1>o DEF LockHeld
  <2>2. \A u \in Threads : op'[u].at \in Adding =>
          /\ readers'[op'[u].var] = {}
          /\ \A z \in Threads : op'[z].at \in Adding /\ op'[z].var = op'[u].var => z = u
    BY <1>i, <1>e, <1>a DEF LockHeld
  <2> QED BY <2>1, <2>2 DEF LockHeld
<1>5. CallbacksNew'
  <2>1. DOMAIN told' \subseteq 1..added'
    BY <1>i, <1>e, <1>d, <1>v DEF CallbacksNew
  <2>2. \A u \in Threads : op'[u].at \in Adding =>
          /\ op'[u].cb \in 1..added' /\ op'[u].cb \notin DOMAIN told'
          /\ \A z \in Threads : op'[z].at \in Adding /\ op'[z].cb = op'[u].cb => z = u
    BY <1>i, <1>e, <1>a, <1>b, <1>d DEF CallbacksNew
  <2>3. \A w \in DOMAIN type' : \A i \in DOMAIN m_listeners'[w] :
          m_listeners'[w][i] \in DOMAIN told'
    BY <1>i, <1>e, <1>l, <1>d DEF CallbacksNew
  <2> QED BY <2>1, <2>2, <2>3 DEF CallbacksNew
<1>6. TodoListed'
  <2>1. ASSUME NEW u \in Threads, op'[u].at = "notify"
        PROVE  op'[u].todo \subseteq DOMAIN m_listeners'[op'[u].var]
    <3>1. op'[u] = op[u] /\ op[u].at = "notify" /\ op[u].var \in DOMAIN type /\ op[u].var # v
      BY <1>a, <1>i, <1>s, <2>1 DEF OpsTyped, Setting
    <3>2. m_listeners'[op[u].var] = m_listeners[op[u].var]
      BY <1>l, <3>1
    <3> QED BY <1>i, <3>1, <3>2 DEF TodoListed
  <2> QED BY <2>1 DEF TodoListed
<1>7. NumbersDrawn'
  <2>0. \A y \in DOMAIN live' : live'[y] \in Vars \X Nat /\ live'[y][1] \in DOMAIN type'
    BY <1>i, <1>e, <1>g, <1>v DEF NumbersDrawn
  <2> SUFFICES ASSUME OwnTypes
               PROVE  /\ \A y \in DOMAIN type : \A i \in DOMAIN m_listeners'[y] :
                           i <= s_listener_id[type[y]]
                      /\ \A u \in Threads :
                           /\ op'[u].at = "count" =>
                                op'[u].read = s_listener_id[type[op'[u].var]]
                           /\ op'[u].at = "insert" =>
                                s_listener_id[type[op'[u].var]]
                                  \notin DOMAIN m_listeners'[op'[u].var]
    BY <1>e, <2>0 DEF NumbersDrawn, OwnTypes
  <2>1. \A y \in DOMAIN type : \A i \in DOMAIN m_listeners'[y] : i <= s_listener_id[type[y]]
    BY <1>i, <1>l, <1>v DEF NumbersDrawn, j
  <2>2. \A u \in Threads : op'[u].at \in Adding =>
          op'[u] = op[u] /\ op[u].var \in DOMAIN type /\ op[u].var # v
    BY <1>i, <1>a, <1>b DEF OpsTyped
  <2>3. \A u \in Threads : op'[u].at \in Adding =>
          m_listeners'[op[u].var] = m_listeners[op[u].var]
    BY <1>l, <2>2
  <2> QED BY <1>i, <2>1, <2>2, <2>3 DEF NumbersDrawn, Adding
<1>8. OneVariable'
  BY <1>i, <1>e DEF OneVariable
<1>9. ListenersExact'
  <2> SUFFICES ASSUME OwnTypes
               PROVE  /\ \A w \in DOMAIN type : \A i \in DOMAIN m_listeners'[w] :
                           /\ m_listeners'[w][i] \in DOMAIN live'
                           /\ live'[m_listeners'[w][i]] = <<w, i>>
                      /\ \A y \in DOMAIN live' :
                           /\ live'[y][2] \in DOMAIN m_listeners'[live'[y][1]]
                           /\ m_listeners'[live'[y][1]][live'[y][2]] = y
                      /\ \A u \in Threads : op'[u].at = "notify" =>
                           op'[u].todo \subseteq DOMAIN m_listeners'[op'[u].var]
    BY <1>e DEF ListenersExact, OwnTypes
  <2>1. /\ \A w \in DOMAIN type : \A i \in DOMAIN m_listeners[w] :
             m_listeners[w][i] \in DOMAIN live /\ live[m_listeners[w][i]] = <<w, i>>
        /\ \A y \in DOMAIN live : live[y][2] \in DOMAIN m_listeners[live[y][1]]
                                  /\ m_listeners[live[y][1]][live[y][2]] = y
    BY <1>i DEF ListenersExact, OwnTypes
  <2>2. j \notin DOMAIN m_listeners[v]
    BY <1>c
  <2>3. \A w \in DOMAIN type : \A i \in DOMAIN m_listeners'[w] :
          /\ m_listeners'[w][i] \in DOMAIN live'
          /\ live'[m_listeners'[w][i]] = <<w, i>>
    BY <1>g, <1>l, <2>1, <2>2
  <2>4. \A y \in DOMAIN live : live[y][1] \in DOMAIN type
    BY <1>i DEF NumbersDrawn
  <2>5. ASSUME NEW y \in DOMAIN live
        PROVE  /\ live'[y][2] \in DOMAIN m_listeners'[live'[y][1]]
               /\ m_listeners'[live'[y][1]][live'[y][2]] = y
    <3>1. live'[y] = live[y]
      BY <1>g
    <3>2. CASE live[y][1] # v
      BY <1>l, <2>1, <2>4, <3>1, <3>2
    <3>3. CASE live[y][1] = v
      BY <1>l, <2>1, <2>2, <3>1, <3>3
    <3> QED BY <3>2, <3>3
  <2>6. live'[k][1] = v /\ live'[k][2] = j
    BY <1>g
  <2>7. \A u \in Threads : op'[u].at = "notify" =>
          op'[u].todo \subseteq DOMAIN m_listeners'[op'[u].var]
    BY <1>6, Zenon DEF TodoListed
  <2> QED BY <1>g, <1>l, <2>3, <2>5, <2>6, <2>7
<1> QED BY <1>1, <1>2, <1>3, <1>4, <1>5, <1>6, <1>7, <1>8, <1>9 DEF IInv

\* delListener takes a callback away.
LEMMA delListenerStep ==
  ASSUME IInv, NEW t \in Threads, NEW k \in Callbacks, delListener(t, k)
  PROVE  IInv'
<1>i. /\ TypeOK /\ OpsTyped /\ Numbered /\ LockHeld
      /\ CallbacksNew /\ TodoListed /\ NumbersDrawn /\ OneVariable
      /\ ListenersExact
  BY DEF IInv
<1> DEFINE v == live[k][1]
           j == live[k][2]
<1>e. /\ UNCHANGED <<map, type, handed, m_val, readers, op, s_listener_id, added, told, raced>>
      /\ k \in DOMAIN live /\ readers[v] = {}
      /\ m_listeners' = [m_listeners EXCEPT ![v] = Without(@, {j})]
      /\ live' = Without(live, {k})
  BY DEF delListener, mapVars, Writable, ghosts
<1>v. v \in DOMAIN type /\ v \in Vars /\ j \in Nat /\ live[k] = <<v, j>>
  BY <1>i, <1>e DEF NumbersDrawn
<1>s. \A u \in Threads : op[u].at = "notify" => op[u].var # v
  BY <1>i, <1>e, <1>v, Zenon DEF LockHeld
<1> HIDE DEF v, j
<1>p. /\ m_listeners'[v] = Without(m_listeners[v], {j})
      /\ \A w \in DOMAIN type : w # v => m_listeners'[w] = m_listeners[w]
      /\ DOMAIN m_listeners' = DOMAIN m_listeners
  BY <1>i, <1>e, <1>v DEF TypeOK
<1>q. /\ DOMAIN m_listeners'[v] = DOMAIN m_listeners[v] \ {j}
      /\ \A i \in DOMAIN m_listeners[v] \ {j} : m_listeners'[v][i] = m_listeners[v][i]
  BY <1>p DEF Without
<1>l. /\ \A w \in DOMAIN type : w # v => m_listeners'[w] = m_listeners[w]
      /\ DOMAIN m_listeners' = DOMAIN m_listeners
      /\ \A w \in DOMAIN type : \A i \in DOMAIN m_listeners'[w] :
           i \in DOMAIN m_listeners[w] /\ m_listeners'[w][i] = m_listeners[w][i]
  BY <1>p, <1>q
<1>g. /\ DOMAIN live' = DOMAIN live \ {k}
      /\ \A y \in DOMAIN live' : live'[y] = live[y]
  BY <1>e DEF Without
<1>1. TypeOK'
  BY <1>i, <1>e, <1>l, <1>g DEF TypeOK
<1>2. OpsTyped'
  BY <1>i, <1>e DEF OpsTyped
<1>3. Numbered'
  BY <1>i, <1>e DEF Numbered
<1>4. LockHeld'
  BY <1>i, <1>e DEF LockHeld
<1>5. CallbacksNew'
  <2>1. \A w \in DOMAIN type : \A i \in DOMAIN m_listeners'[w] :
          m_listeners'[w][i] \in DOMAIN told
    BY <1>i, <1>l, Zenon DEF CallbacksNew
  <2> QED BY <1>i, <1>e, <2>1, Zenon DEF CallbacksNew
<1>6. TodoListed'
  <2>1. \A u \in Threads : op[u].at \in Setting => op[u].var \in DOMAIN type
    BY <1>i DEF OpsTyped
  <2>2. \A u \in Threads : op[u].at = "notify" =>
          m_listeners'[op[u].var] = m_listeners[op[u].var]
    BY <1>l, <1>s, <2>1 DEF Setting
  <2> QED BY <1>e, <1>i, <2>2 DEF TodoListed
<1>7. NumbersDrawn'
  <2>1. \A u \in Threads : op[u].at \in Adding => op[u].var \in DOMAIN type
    BY <1>i DEF OpsTyped
  <2>2. \A y \in DOMAIN live' : live'[y] \in Vars \X Nat /\ live'[y][1] \in DOMAIN type'
    BY <1>i, <1>e, <1>g DEF NumbersDrawn
  <2> QED BY <1>i, <1>e, <1>l, <2>1, <2>2 DEF NumbersDrawn, OwnTypes, Adding
<1>8. OneVariable'
  BY <1>i, <1>e DEF OneVariable
<1>9. ListenersExact'
  <2> SUFFICES ASSUME OwnTypes
               PROVE  /\ \A w \in DOMAIN type : \A i \in DOMAIN m_listeners'[w] :
                           /\ m_listeners'[w][i] \in DOMAIN live'
                           /\ live'[m_listeners'[w][i]] = <<w, i>>
                      /\ \A y \in DOMAIN live' :
                           /\ live'[y][2] \in DOMAIN m_listeners'[live'[y][1]]
                           /\ m_listeners'[live'[y][1]][live'[y][2]] = y
                      /\ \A u \in Threads : op'[u].at = "notify" =>
                           op'[u].todo \subseteq DOMAIN m_listeners'[op'[u].var]
    BY <1>e DEF ListenersExact, OwnTypes
  <2>1. /\ \A w \in DOMAIN type : \A i \in DOMAIN m_listeners[w] :
             m_listeners[w][i] \in DOMAIN live /\ live[m_listeners[w][i]] = <<w, i>>
        /\ \A y \in DOMAIN live : live[y][2] \in DOMAIN m_listeners[live[y][1]]
                                  /\ m_listeners[live[y][1]][live[y][2]] = y
    BY <1>i DEF ListenersExact, OwnTypes
  <2>2. \A y \in DOMAIN live : live[y] \in Vars \X Nat /\ live[y][1] \in DOMAIN type
    BY <1>i DEF NumbersDrawn
  <2>5. \A w \in DOMAIN type : \A i \in DOMAIN m_listeners'[w] :
          m_listeners'[w][i] \in DOMAIN live' /\ live'[m_listeners'[w][i]] = <<w, i>>
    <3>1. ASSUME NEW w \in DOMAIN type, NEW i \in DOMAIN m_listeners'[w]
          PROVE  m_listeners[w][i] # k
      <4>1. i \in DOMAIN m_listeners[w] /\ ~(w = v /\ i = j)
        BY <1>l, <1>q, <3>1
      <4>2. live[m_listeners[w][i]] = <<w, i>>
        BY <2>1, <4>1
      <4> QED BY <1>v, <4>1, <4>2
    <3> QED BY <1>g, <1>l, <2>1, <3>1
  <2>6. ASSUME NEW y \in DOMAIN live'
        PROVE  /\ live'[y][2] \in DOMAIN m_listeners'[live'[y][1]]
               /\ m_listeners'[live'[y][1]][live'[y][2]] = y
    <3>1. live'[y] = live[y] /\ y \in DOMAIN live /\ y # k
      BY <1>g
    <3>2. CASE live[y][1] # v
      BY <1>l, <2>1, <2>2, <3>1, <3>2
    <3>3. CASE live[y][1] = v
      <4>1. live[y][2] # j
        BY <1>e, <1>v, <2>1, <3>1, <3>3
      <4> QED BY <1>q, <2>1, <3>1, <3>3, <4>1
    <3> QED BY <3>2, <3>3
  <2>7. \A u \in Threads : op'[u].at = "notify" =>
          op'[u].todo \subseteq DOMAIN m_listeners'[op'[u].var]
    BY <1>6, Zenon DEF TodoListed
  <2> QED BY <2>5, <2>6, <2>7
<1> QED BY <1>1, <1>2, <1>3, <1>4, <1>5, <1>6, <1>7, <1>8, <1>9 DEF IInv

\* clearListener takes all callbacks of a variable away.
LEMMA clearListenerStep ==
  ASSUME IInv, NEW t \in Threads, NEW v \in Vars, clearListener(t, v)
  PROVE  IInv'
<1>i. /\ TypeOK /\ OpsTyped /\ Numbered /\ LockHeld
      /\ CallbacksNew /\ TodoListed /\ NumbersDrawn /\ OneVariable
      /\ ListenersExact
  BY DEF IInv
<1>e. /\ UNCHANGED <<map, type, handed, m_val, readers, op, s_listener_id, added, told, raced>>
      /\ v \in DOMAIN type /\ readers[v] = {}
      /\ m_listeners' = [m_listeners EXCEPT ![v] = <<>>]
      /\ live' = Without(live, {k \in DOMAIN live : live[k][1] = v})
  BY DEF clearListener, mapVars, Writable, ghosts
<1>s. \A u \in Threads : op[u].at = "notify" => op[u].var # v
  BY <1>i, <1>e, Zenon DEF LockHeld
<1>l. /\ \A w \in DOMAIN type : w # v => m_listeners'[w] = m_listeners[w]
      /\ DOMAIN m_listeners' = DOMAIN m_listeners
      /\ DOMAIN m_listeners'[v] = {}
      /\ \A w \in DOMAIN type : \A i \in DOMAIN m_listeners'[w] :
           i \in DOMAIN m_listeners[w] /\ m_listeners'[w][i] = m_listeners[w][i]
  <2>1. /\ \A w \in DOMAIN type : w # v => m_listeners'[w] = m_listeners[w]
        /\ DOMAIN m_listeners' = DOMAIN m_listeners
        /\ m_listeners'[v] = <<>>
    BY <1>i, <1>e DEF TypeOK
  <2>2. DOMAIN m_listeners'[v] = {}
    BY <2>1
  <2> QED BY <2>1, <2>2
<1>g. /\ DOMAIN live' = {k \in DOMAIN live : live[k][1] # v}
      /\ \A y \in DOMAIN live' : live'[y] = live[y]
  BY <1>e DEF Without
<1>1. TypeOK'
  BY <1>i, <1>e, <1>l, <1>g DEF TypeOK
<1>2. OpsTyped'
  BY <1>i, <1>e DEF OpsTyped
<1>3. Numbered'
  BY <1>i, <1>e DEF Numbered
<1>4. LockHeld'
  BY <1>i, <1>e DEF LockHeld
<1>5. CallbacksNew'
  <2>1. \A w \in DOMAIN type : \A i \in DOMAIN m_listeners'[w] :
          m_listeners'[w][i] \in DOMAIN told
    BY <1>i, <1>l, Zenon DEF CallbacksNew
  <2> QED BY <1>i, <1>e, <2>1, Zenon DEF CallbacksNew
<1>6. TodoListed'
  <2>1. \A u \in Threads : op[u].at \in Setting => op[u].var \in DOMAIN type
    BY <1>i DEF OpsTyped
  <2>2. \A u \in Threads : op[u].at = "notify" =>
          m_listeners'[op[u].var] = m_listeners[op[u].var]
    BY <1>l, <1>s, <2>1 DEF Setting
  <2> QED BY <1>e, <1>i, <2>2 DEF TodoListed
<1>7. NumbersDrawn'
  <2>1. \A u \in Threads : op[u].at \in Adding => op[u].var \in DOMAIN type
    BY <1>i DEF OpsTyped
  <2>2. \A y \in DOMAIN live' : live'[y] \in Vars \X Nat /\ live'[y][1] \in DOMAIN type'
    BY <1>i, <1>e, <1>g DEF NumbersDrawn
  <2> QED BY <1>i, <1>e, <1>l, <2>1, <2>2 DEF NumbersDrawn, OwnTypes, Adding
<1>8. OneVariable'
  BY <1>i, <1>e DEF OneVariable
<1>9. ListenersExact'
  <2> SUFFICES ASSUME OwnTypes
               PROVE  /\ \A w \in DOMAIN type : \A i \in DOMAIN m_listeners'[w] :
                           /\ m_listeners'[w][i] \in DOMAIN live'
                           /\ live'[m_listeners'[w][i]] = <<w, i>>
                      /\ \A y \in DOMAIN live' :
                           /\ live'[y][2] \in DOMAIN m_listeners'[live'[y][1]]
                           /\ m_listeners'[live'[y][1]][live'[y][2]] = y
                      /\ \A u \in Threads : op'[u].at = "notify" =>
                           op'[u].todo \subseteq DOMAIN m_listeners'[op'[u].var]
    BY <1>e DEF ListenersExact, OwnTypes
  <2>1. /\ \A w \in DOMAIN type : \A i \in DOMAIN m_listeners[w] :
             m_listeners[w][i] \in DOMAIN live /\ live[m_listeners[w][i]] = <<w, i>>
        /\ \A y \in DOMAIN live : live[y][2] \in DOMAIN m_listeners[live[y][1]]
                                  /\ m_listeners[live[y][1]][live[y][2]] = y
    BY <1>i DEF ListenersExact, OwnTypes
  <2>2. \A y \in DOMAIN live : live[y] \in Vars \X Nat /\ live[y][1] \in DOMAIN type
    BY <1>i DEF NumbersDrawn
  <2>5. \A w \in DOMAIN type : \A i \in DOMAIN m_listeners'[w] :
          m_listeners'[w][i] \in DOMAIN live' /\ live'[m_listeners'[w][i]] = <<w, i>>
    BY <1>g, <1>l, <2>1
  <2>6. \A y \in DOMAIN live' :
          /\ live'[y][2] \in DOMAIN m_listeners'[live'[y][1]]
          /\ m_listeners'[live'[y][1]][live'[y][2]] = y
    BY <1>g, <1>l, <2>1, <2>2
  <2>7. \A u \in Threads : op'[u].at = "notify" =>
          op'[u].todo \subseteq DOMAIN m_listeners'[op'[u].var]
    BY <1>6, Zenon DEF TodoListed
  <2> QED BY <2>5, <2>6, <2>7
<1> QED BY <1>1, <1>2, <1>3, <1>4, <1>5, <1>6, <1>7, <1>8, <1>9 DEF IInv

\* Every step keeps the invariant.
LEMMA IInvStep == IInv /\ [Next]_vars => IInv'
<1> SUFFICES ASSUME IInv, [Next]_vars
             PROVE  IInv'
  OBVIOUS
<1>1. ASSUME NEW t \in Threads, NEW n \in Names, NEW T \in Types, LookupFind(t, n, T)
      PROVE  IInv'
  BY <1>1, LookupFindStep
<1>2. ASSUME NEW t \in Threads, LookupMake(t)
      PROVE  IInv'
  BY <1>2, LookupAgainStep, LookupMakeStep
<1>3. ASSUME NEW t \in Threads, NEW v \in Vars, NEW x \in Values, SetCompare(t, v, x)
      PROVE  IInv'
  BY <1>3, SetCompareStep
<1>4. ASSUME NEW t \in Threads, SetNotify(t) \/ SetUnlock(t) \/ SetAssign(t)
      PROVE  IInv'
  BY <1>4, SetNotifyStep, SetUnlockStep, SetAssignStep
<1>5. ASSUME NEW t \in Threads, NEW v \in Vars, AddRead(t, v) \/ clearListener(t, v)
      PROVE  IInv'
  BY <1>5, AddReadStep, clearListenerStep
<1>6. ASSUME NEW t \in Threads, AddCount(t) \/ AddInsert(t)
      PROVE  IInv'
  BY <1>6, AddCountStep, AddInsertStep
<1>7. ASSUME NEW t \in Threads, NEW k \in Callbacks, delListener(t, k)
      PROVE  IInv'
  BY <1>7, delListenerStep
<1>8. CASE UNCHANGED vars
  <2>1. UNCHANGED <<map, type, handed, m_val, readers, m_listeners, s_listener_id,
                    op, added, live, told, raced>>
    BY <1>8 DEF vars, ghosts
  <2> USE DEF IInv
  <2>2. TypeOK' /\ OpsTyped' /\ Numbered' /\ LockHeld'
    BY <2>1 DEF TypeOK, OpsTyped, Numbered, LockHeld
  <2>3. CallbacksNew' /\ TodoListed' /\ NumbersDrawn'
    BY <2>1 DEF CallbacksNew, TodoListed, NumbersDrawn, OwnTypes
  <2>4. OneVariable' /\ ListenersExact'
    BY <2>1 DEF OneVariable, ListenersExact
  <2> QED BY <2>2, <2>3, <2>4
<1> QED
  BY <1>1, <1>2, <1>3, <1>4, <1>5, <1>6, <1>7, <1>8 DEF Next

(***************************************************************************)
(* What the listeners have heard.                                          *)
(***************************************************************************)
\* A callback is registered once.
CallbacksOnce ==
  \A v, w \in DOMAIN type :
    \A i \in DOMAIN m_listeners[v], j \in DOMAIN m_listeners[w] :
      m_listeners[v][i] = m_listeners[w][j] => v = w /\ i = j

\* The value listener i of variable v has while t alone is setting v.
Heeded(t, v, i) ==
  IF op[t].at = "notify" /\ i \in op[t].todo THEN m_val[v] ELSE op[t].val

\* A listener that did not race a setter has the value of the variable or, if
\* one setter has told it already, the one that setter will assign.
Followed ==
  \A v \in DOMAIN type : \A i \in DOMAIN m_listeners[v] :
    \/ m_listeners[v][i] \in raced
    \/ Setters(v) = {} /\ told[m_listeners[v][i]] = m_val[v]
    \/ \E t \in Threads : /\ Setters(v) = {t}
                         /\ told[m_listeners[v][i]] = Heeded(t, v, i)

Heard == CallbacksOnce /\ Followed

\* Nothing is registered at first.
LEMMA InitHeard == Init => Heard
<1> SUFFICES ASSUME Init PROVE Heard
  OBVIOUS
<1>1. DOMAIN type = {}
  BY DEF Init
<1> QED BY <1>1 DEF Heard, CallbacksOnce, Followed

\* What the listeners have heard is what the property says.
LEMMA HeardCurrent == Heard => ListenersCurrent
<1> SUFFICES ASSUME Heard, NEW v \in DOMAIN type, Setters(v) = {},
                    NEW i \in DOMAIN m_listeners[v], m_listeners[v][i] \notin raced
             PROVE  told[m_listeners[v][i]] = m_val[v]
  BY DEF ListenersCurrent, Registered
<1> QED BY DEF Heard, Followed

\* A step that calls nobody, assigns nothing and leaves the setters alone
\* keeps what the listeners have heard; it may take listeners away.
LEMMA QuietStep ==
  ASSUME Heard, UNCHANGED <<told, raced>>,
         \A v \in DOMAIN type' : \A i \in DOMAIN m_listeners'[v] :
           /\ v \in DOMAIN type /\ i \in DOMAIN m_listeners[v]
           /\ m_listeners'[v][i] = m_listeners[v][i] /\ m_val'[v] = m_val[v],
         \A u \in Threads : op'[u].at \in Setting \/ op[u].at \in Setting => op'[u] = op[u]
  PROVE  Heard'
<1>1. \A v : Setters(v)' = Setters(v)
  BY DEF Setters
<1>2. CallbacksOnce'
  BY DEF Heard, CallbacksOnce
<1>3. ASSUME NEW v \in DOMAIN type', NEW i \in DOMAIN m_listeners'[v]
      PROVE  \/ m_listeners'[v][i] \in raced'
             \/ Setters(v)' = {} /\ told'[m_listeners'[v][i]] = m_val'[v]
             \/ \E t \in Threads : /\ Setters(v)' = {t}
                                  /\ told'[m_listeners'[v][i]] = Heeded(t, v, i)'
  <2>1. /\ v \in DOMAIN type /\ i \in DOMAIN m_listeners[v]
        /\ m_listeners'[v][i] = m_listeners[v][i] /\ m_val'[v] = m_val[v]
    BY <1>3
  <2>2. ASSUME NEW t \in Threads, Setters(v) = {t}
        PROVE  Heeded(t, v, i)' = Heeded(t, v, i)
    <3>1. op'[t] = op[t]
      BY <2>2 DEF Setters
    <3> QED BY <2>1, <3>1 DEF Heeded
  <2> QED BY <1>1, <2>1, <2>2 DEF Heard, Followed
<1> QED BY <1>2, <1>3 DEF Heard, Followed

\* A setter that begins, alone or beside others.
LEMMA SetCompareHeard ==
  ASSUME IInv, Heard, NEW t \in Threads, NEW v \in Vars, NEW x \in Values,
         SetCompare(t, v, x)
  PROVE  Heard'
<1>i. TypeOK /\ OpsTyped /\ CallbacksOnce /\ Followed
  BY DEF IInv, Heard
<1> DEFINE o == [at |-> "notify", var |-> v, val |-> x, todo |-> DOMAIN m_listeners[v]]
<1>e. /\ UNCHANGED <<type, m_val, m_listeners, told>> /\ op[t].at = "idle"
      /\ v \in DOMAIN type /\ op'[t] = o
      /\ \A u \in Threads : u # t => op'[u] = op[u]
      /\ raced' = IF Setters(v) = {} THEN raced ELSE raced \cup Registered(v)
  BY <1>i DEF SetCompare, Do, mapVars, Idle, OpsTyped
<1>v. o.at = "notify" /\ o.var = v /\ o.val = x /\ o.todo = DOMAIN m_listeners[v]
  OBVIOUS
<1> HIDE DEF o
<1>1. Setters(v)' = Setters(v) \cup {t} /\ \A w : w # v => Setters(w)' = Setters(w)
  BY <1>e, <1>v DEF Setters, Setting
<1>2. CallbacksOnce'
  BY <1>i, <1>e DEF CallbacksOnce
<1>3. ASSUME NEW w \in DOMAIN type, NEW i \in DOMAIN m_listeners[w]
      PROVE  \/ m_listeners[w][i] \in raced'
             \/ Setters(w)' = {} /\ told[m_listeners[w][i]] = m_val[w]
             \/ \E u \in Threads : /\ Setters(w)' = {u}
                                  /\ told[m_listeners[w][i]] = Heeded(u, w, i)'
  <2>0. raced \subseteq raced'
    BY <1>e
  <2>1. CASE w # v
    <3>1. \A u \in Threads : Setters(w) = {u} => u # t
      BY <1>e DEF Setters, Setting
    <3>2. \A u \in Threads : Setters(w) = {u} => Heeded(u, w, i)' = Heeded(u, w, i)
      BY <1>e, <3>1 DEF Heeded
    <3> QED BY <1>i, <1>1, <1>3, <2>0, <2>1, <3>2 DEF Followed
  <2>2. CASE w = v /\ Setters(v) = {}
    <3>1. Setters(v)' = {t} /\ Heeded(t, v, i)' = m_val[v]
      BY <1>1, <1>3, <1>e, <1>v, <2>2 DEF Heeded
    <3>2. m_listeners[v][i] \in raced \/ told[m_listeners[v][i]] = m_val[v]
      BY <1>i, <1>3, <2>2 DEF Followed
    <3> QED BY <2>0, <2>2, <3>1, <3>2
  <2>3. CASE w = v /\ Setters(v) # {}
    <3>1. m_listeners[v][i] \in Registered(v)
      BY <1>3, <2>3 DEF Registered
    <3> QED BY <1>e, <2>3, <3>1
  <2> QED BY <2>1, <2>2, <2>3
<1> QED BY <1>2, <1>3, <1>e DEF Heard, Followed

\* A setter that calls a listener: if it is alone, its value is the latest.
LEMMA SetNotifyHeard ==
  ASSUME IInv, Heard, NEW t \in Threads, SetNotify(t)
  PROVE  Heard'
<1>i. TypeOK /\ OpsTyped /\ CallbacksNew /\ TodoListed /\ CallbacksOnce /\ Followed
  BY DEF IInv, Heard
<1> DEFINE v == op[t].var
<1>v. v \in DOMAIN type /\ op[t].at = "notify" /\ op[t].todo \subseteq DOMAIN m_listeners[v]
      /\ op[t] \in [at : {"notify"}, var : Vars, val : Values, todo : SUBSET Nat]
  BY <1>i DEF SetNotify, OpsTyped, TodoListed, Op, Adding, Setting
<1>p. PICK j \in op[t].todo :
        /\ op' = [op EXCEPT ![t] = [op[t] EXCEPT !.todo = @ \ {j}]]
        /\ told' = [told EXCEPT ![m_listeners[v][j]] = op[t].val]
        /\ raced' = IF Setters(v) = {t} THEN raced \ {m_listeners[v][j]} ELSE raced
  BY DEF SetNotify, Call, Do
<1>e. UNCHANGED <<type, m_val, m_listeners>>
  BY DEF SetNotify, mapVars
<1> DEFINE o == [op[t] EXCEPT !.todo = @ \ {j}]
           k == m_listeners[v][j]
<1>w. o.at = "notify" /\ o.var = v /\ o.val = op[t].val /\ o.todo = op[t].todo \ {j}
  BY <1>v
<1>o. /\ op'[t] = o /\ \A u \in Threads : u # t => op'[u] = op[u]
  BY <1>i, <1>p DEF OpsTyped
<1>b. /\ j \in DOMAIN m_listeners[v] /\ k \in DOMAIN told /\ op[t].var = v
      /\ told' = [told EXCEPT ![k] = op[t].val]
      /\ raced' = IF Setters(v) = {t} THEN raced \ {k} ELSE raced
  BY <1>i, <1>p, <1>v DEF CallbacksNew
<1> HIDE DEF o, v, k
<1>1. \A w : Setters(w)' = Setters(w)
  BY <1>b, <1>o, <1>v, <1>w DEF Setters, Setting
<1>2. CallbacksOnce'
  BY <1>i, <1>e DEF CallbacksOnce
<1>t. t \in Setters(v)
  BY <1>b, <1>v DEF Setters, Setting
<1>3. ASSUME NEW w \in DOMAIN type, NEW i \in DOMAIN m_listeners[w]
      PROVE  \/ m_listeners[w][i] \in raced'
             \/ Setters(w)' = {} /\ told'[m_listeners[w][i]] = m_val[w]
             \/ \E u \in Threads : /\ Setters(w)' = {u}
                                  /\ told'[m_listeners[w][i]] = Heeded(u, w, i)'
  <2>1. CASE w = v /\ i = j
    <3>1. m_listeners[w][i] = k
      BY <2>1 DEF k
    <3>2. CASE Setters(v) = {t}
      <4>1. Heeded(t, w, i)' = op[t].val
        BY <1>o, <1>w, <2>1 DEF Heeded
      <4>2. told'[k] = op[t].val
        BY <1>b
      <4> QED BY <1>1, <2>1, <3>1, <3>2, <4>1, <4>2
    <3>3. CASE Setters(v) # {t}
      <4>1. m_listeners[v][j] \in raced
        <5>1. \/ m_listeners[v][j] \in raced \/ Setters(v) = {}
              \/ \E u \in Threads : Setters(v) = {u}
          BY <1>b, <1>i, <1>v DEF Followed
        <5> QED BY <1>t, <3>3, <5>1
      <4> QED BY <1>b, <2>1, <3>3, <4>1
    <3> QED BY <3>2, <3>3
  <2>2. CASE ~(w = v /\ i = j)
    <3>1. m_listeners[w][i] # k
      BY <1>b, <1>i, <1>v, <2>2 DEF CallbacksOnce, k
    <3>2. told'[m_listeners[w][i]] = told[m_listeners[w][i]]
      <4>1. m_listeners[w][i] \in DOMAIN told
        BY <1>i DEF CallbacksNew
      <4> QED BY <1>b, <3>1, <4>1
    <3>3. m_listeners[w][i] \in raced => m_listeners[w][i] \in raced'
      BY <1>b, <3>1
    <3>4. ASSUME NEW u \in Threads, Setters(w) = {u}
          PROVE  Heeded(u, w, i)' = Heeded(u, w, i)
      <4>1. CASE u # t
        BY <1>e, <1>o, <4>1 DEF Heeded
      <4>2. CASE u = t
        <5>1. w = v
          BY <1>b, <3>4, <4>2 DEF Setters
        <5>2. i # j
          BY <2>2, <5>1
        <5> QED BY <1>e, <1>o, <1>v, <1>w, <4>2, <5>2 DEF Heeded
      <4> QED BY <4>1, <4>2
    <3> QED BY <1>1, <1>i, <3>2, <3>3, <3>4 DEF Followed
  <2> QED BY <2>1, <2>2
<1> QED BY <1>2, <1>3, <1>e DEF Heard, Followed

\* A setter that has called everybody.
LEMMA SetUnlockHeard ==
  ASSUME IInv, Heard, NEW t \in Threads, SetUnlock(t)
  PROVE  Heard'
<1>i. TypeOK /\ OpsTyped /\ CallbacksOnce /\ Followed
  BY DEF IInv, Heard
<1> DEFINE o == [at |-> "assign", var |-> op[t].var, val |-> op[t].val]
<1>e. /\ UNCHANGED <<type, m_val, m_listeners, told, raced>>
      /\ op[t].at = "notify" /\ op[t].todo = {} /\ op'[t] = o
      /\ \A u \in Threads : u # t => op'[u] = op[u]
  BY <1>i DEF SetUnlock, Do, mapVars, cbVars, ghosts, OpsTyped
<1>v. o.at = "assign" /\ o.var = op[t].var /\ o.val = op[t].val
  OBVIOUS
<1> HIDE DEF o
<1>1. \A w : Setters(w)' = Setters(w)
  BY <1>e, <1>v DEF Setters, Setting
<1>2. CallbacksOnce'
  BY <1>i, <1>e DEF CallbacksOnce
<1>3. \A u \in Threads : \A w, i : Heeded(u, w, i)' = Heeded(u, w, i)
  BY <1>e, <1>v DEF Heeded
<1> QED BY <1>1, <1>2, <1>3, <1>e, <1>i DEF Heard, Followed

\* A setter that assigns: alone, what the listeners were told.
LEMMA SetAssignHeard ==
  ASSUME IInv, Heard, NEW t \in Threads, SetAssign(t)
  PROVE  Heard'
<1>i. TypeOK /\ OpsTyped /\ CallbacksOnce /\ Followed
  BY DEF IInv, Heard
<1>p. PICK v \in DOMAIN type : op[t].var = v
  BY <1>i DEF SetAssign, OpsTyped, Setting
<1>q. PICK x : op[t].val = x
  OBVIOUS
<1>e. /\ UNCHANGED <<type, m_listeners, told, raced>>
      /\ op[t].at = "assign" /\ op'[t].at = "idle"
      /\ m_val' = [m_val EXCEPT ![v] = x] /\ op[t].var = v /\ op[t].val = x
      /\ \A u \in Threads : u # t => op'[u] = op[u]
  BY <1>i, <1>p, <1>q DEF SetAssign, Do, mapVars, cbVars, ghosts, OpsTyped, Setting, Idle
<1>m. m_val'[v] = x /\ \A w \in DOMAIN type : w # v => m_val'[w] = m_val[w]
  BY <1>e, <1>i DEF TypeOK
<1>1. /\ Setters(v)' = Setters(v) \ {t} /\ t \in Setters(v)
      /\ \A w : w # v => Setters(w)' = Setters(w) /\ t \notin Setters(w)
  <2>1. t \in Setters(v) /\ \A w : w # v => t \notin Setters(w)
    BY <1>e DEF Setters, Setting
  <2>2. \A w : t \notin Setters(w)'
    BY <1>e DEF Setters, Setting
  <2>3. \A w : \A u \in Threads : u # t => (u \in Setters(w)' <=> u \in Setters(w))
    BY <1>e DEF Setters
  <2>4. \A w : Setters(w) \subseteq Threads /\ Setters(w)' \subseteq Threads
    BY DEF Setters
  <2>5. Setters(v)' = Setters(v) \ {t}
    BY <2>1, <2>2, <2>3, <2>4
  <2>6. ASSUME NEW w, w # v
        PROVE  Setters(w)' = Setters(w)
    BY <2>1, <2>2, <2>3, <2>4, <2>6
  <2> QED BY <2>1, <2>5, <2>6
<1>2. CallbacksOnce'
  BY <1>i, <1>e DEF CallbacksOnce
<1>3. ASSUME NEW w \in DOMAIN type, NEW i \in DOMAIN m_listeners[w]
      PROVE  \/ m_listeners[w][i] \in raced
             \/ Setters(w)' = {} /\ told[m_listeners[w][i]] = m_val'[w]
             \/ \E u \in Threads : /\ Setters(w)' = {u}
                                  /\ told[m_listeners[w][i]] = Heeded(u, w, i)'
  <2>1. CASE w # v
    <3>1. \A u \in Threads : Setters(w) = {u} => Heeded(u, w, i)' = Heeded(u, w, i)
      BY <1>1, <1>e, <1>m, <2>1 DEF Heeded
    <3> QED BY <1>1, <1>i, <1>m, <2>1, <3>1 DEF Followed
  <2>2. CASE w = v
    <3>1. \/ m_listeners[v][i] \in raced
          \/ Setters(v) = {t} /\ told[m_listeners[v][i]] = Heeded(t, v, i)
      BY <1>1, <1>i, <2>2 DEF Followed
    <3>2. Heeded(t, v, i) = x
      BY <1>e DEF Heeded
    <3> QED BY <1>1, <1>m, <2>2, <3>1, <3>2
  <2> QED BY <2>1, <2>2
<1> QED BY <1>2, <1>3, <1>e DEF Heard, Followed

\* A callback that is added starts with the value of the variable, and races
\* whoever is setting it.
LEMMA AddInsertHeard ==
  ASSUME IInv, Heard, NEW t \in Threads, AddInsert(t)
  PROVE  Heard'
<1>i. TypeOK /\ OpsTyped /\ CallbacksNew /\ CallbacksOnce /\ Followed
  BY DEF IInv, Heard
<1> DEFINE v == op[t].var
           k == op[t].cb
           j == s_listener_id[type[v]]
<1>v. v \in DOMAIN type /\ k \notin DOMAIN told /\ op[t].at = "insert"
  BY <1>i DEF AddInsert, OpsTyped, Adding, CallbacksNew
<1>e. /\ UNCHANGED <<type, m_val>> /\ op'[t].at = "idle"
      /\ \A u \in Threads : u # t => op'[u] = op[u]
      /\ m_listeners'[v] = Put(m_listeners[v], j, k)
      /\ \A w \in DOMAIN type : w # v => m_listeners'[w] = m_listeners[w]
      /\ told' = Put(told, k, m_val[v])
      /\ raced' = IF Setters(v) = {} THEN raced ELSE raced \cup {k}
  BY <1>i, <1>v DEF AddInsert, Do, mapVars, TypeOK, OpsTyped, Idle
<1> HIDE DEF v, k, j
<1>l. /\ j \in DOMAIN m_listeners'[v] /\ m_listeners'[v][j] = k
      /\ \A w \in DOMAIN type : \A i \in DOMAIN m_listeners'[w] :
           \/ w = v /\ i = j
           \/ /\ i \in DOMAIN m_listeners[w] /\ m_listeners'[w][i] = m_listeners[w][i]
              /\ m_listeners[w][i] \in DOMAIN told
  <2>1. /\ DOMAIN m_listeners'[v] = DOMAIN m_listeners[v] \cup {j}
        /\ m_listeners'[v][j] = k
        /\ \A i \in DOMAIN m_listeners[v] : i # j => m_listeners'[v][i] = m_listeners[v][i]
    BY <1>e DEF Put
  <2> QED BY <1>e, <1>i, <2>1 DEF CallbacksNew
<1>d. told'[k] = m_val[v] /\ \A y \in DOMAIN told : told'[y] = told[y]
  BY <1>e, <1>v DEF Put
<1>1. \A w : Setters(w)' = Setters(w) /\ t \notin Setters(w)
  BY <1>e, <1>v DEF Setters, Setting
<1>2. CallbacksOnce'
  BY <1>e, <1>i, <1>l, <1>v DEF CallbacksOnce
<1>3. ASSUME NEW w \in DOMAIN type, NEW i \in DOMAIN m_listeners'[w]
      PROVE  \/ m_listeners'[w][i] \in raced'
             \/ Setters(w)' = {} /\ told'[m_listeners'[w][i]] = m_val[w]
             \/ \E u \in Threads : /\ Setters(w)' = {u}
                                  /\ told'[m_listeners'[w][i]] = Heeded(u, w, i)'
  <2>1. CASE w = v /\ i = j
    BY <1>1, <1>d, <1>e, <1>l, <2>1
  <2>2. CASE ~(w = v /\ i = j)
    <3>1. /\ i \in DOMAIN m_listeners[w] /\ m_listeners'[w][i] = m_listeners[w][i]
          /\ told'[m_listeners[w][i]] = told[m_listeners[w][i]]
      BY <1>d, <1>l, <2>2
    <3>2. \A u \in Threads : Setters(w) = {u} => Heeded(u, w, i)' = Heeded(u, w, i)
      BY <1>1, <1>e DEF Heeded
    <3>3. raced \subseteq raced'
      BY <1>e
    <3> QED BY <1>1, <1>i, <3>1, <3>2, <3>3 DEF Followed
  <2> QED BY <2>1, <2>2
<1> QED BY <1>2, <1>3, <1>e DEF Heard, Followed

\* Every step keeps what the listeners have heard.
LEMMA HeardStep == IInv /\ Heard /\ [Next]_vars => Heard'
<1> SUFFICES ASSUME IInv, Heard, [Next]_vars
             PROVE  Heard'
  OBVIOUS
<1>i. TypeOK /\ OpsTyped /\ Numbered /\ NumbersDrawn
  BY DEF IInv
<1>1. ASSUME NEW t \in Threads, NEW n \in Names, NEW T \in Types, LookupFind(t, n, T)
      PROVE  Heard'
  <2>1. /\ UNCHANGED <<type, m_val, m_listeners, told, raced>>
        /\ op[t].at = "idle" /\ op'[t].at \in {"idle", "make"}
        /\ \A u \in Threads : u # t => op'[u] = op[u]
    BY <1>i, <1>1 DEF LookupFind, Do, cbVars, ghosts, Idle, OpsTyped
  <2> QED BY <2>1, QuietStep DEF Setting
<1>2. ASSUME NEW t \in Threads, LookupMake(t)
      PROVE  Heard'
  <2>1. /\ UNCHANGED <<told, raced>> /\ op[t].at = "make" /\ op'[t].at = "idle"
        /\ \A u \in Threads : u # t => op'[u] = op[u]
    BY <1>i, <1>2 DEF LookupMake, Do, ghosts, Idle, OpsTyped
  <2>2. \A v \in DOMAIN type' : \A i \in DOMAIN m_listeners'[v] :
          /\ v \in DOMAIN type /\ i \in DOMAIN m_listeners[v]
          /\ m_listeners'[v][i] = m_listeners[v][i] /\ m_val'[v] = m_val[v]
    <3>1. CASE UNCHANGED <<type, m_val, m_listeners>>
      BY <3>1
    <3>2. CASE map[op[t].name] = 0 /\ Make(op[t].name, op[t].T)
      <4> DEFINE w == Cardinality(DOMAIN type) + 1
      <4>1. w \notin DOMAIN type
        <5>1. op[t].name \in Names
          BY <1>i, <2>1 DEF OpsTyped, Op, Adding
        <5> QED BY <1>i, <3>2, <5>1, RoomForVariable
      <4>2. /\ type' = Put(type, w, op[t].T) /\ m_val' = Put(m_val, w, Default[op[t].T])
            /\ m_listeners' = Put(m_listeners, w, <<>>)
        BY <3>2 DEF Make
      <4> HIDE DEF w
      <4>3. /\ DOMAIN type' = DOMAIN type \cup {w} /\ m_listeners'[w] = <<>>
            /\ \A v \in DOMAIN type : m_listeners'[v] = m_listeners[v] /\ m_val'[v] = m_val[v]
        BY <1>i, <4>1, <4>2 DEF Put, TypeOK
      <4>4. DOMAIN m_listeners'[w] = {}
        BY <4>3
      <4> QED BY <4>3, <4>4
    <3> QED BY <1>2, <3>1, <3>2 DEF LookupMake
  <2> QED BY <2>1, <2>2, QuietStep DEF Setting
<1>3. ASSUME NEW t \in Threads, NEW v \in Vars, NEW x \in Values, SetCompare(t, v, x)
      PROVE  Heard'
  BY <1>3, SetCompareHeard
<1>4. ASSUME NEW t \in Threads, SetNotify(t) \/ SetUnlock(t) \/ SetAssign(t)
      PROVE  Heard'
  BY <1>4, SetNotifyHeard, SetUnlockHeard, SetAssignHeard
<1>5. ASSUME NEW t \in Threads, NEW v \in Vars, AddRead(t, v)
      PROVE  Heard'
  <2>1. /\ UNCHANGED <<type, m_val, m_listeners, told, raced>>
        /\ op[t].at = "idle" /\ op'[t].at = "count"
        /\ \A u \in Threads : u # t => op'[u] = op[u]
    BY <1>i, <1>5 DEF AddRead, Do, mapVars, ghosts, Idle, OpsTyped
  <2> QED BY <2>1, QuietStep DEF Setting
<1>6. ASSUME NEW t \in Threads, AddCount(t)
      PROVE  Heard'
  <2>1. /\ UNCHANGED <<type, m_val, m_listeners, told, raced>>
        /\ op[t].at = "count" /\ op' = [op EXCEPT ![t] = [op[t] EXCEPT !.at = "insert"]]
    BY <1>6 DEF AddCount, Do, mapVars, ghosts
  <2>2. op[t] \in [at : Adding, var : Vars, cb : Callbacks, read : Nat]
    BY <1>i, <2>1 DEF OpsTyped, Op
  <2>3. op'[t].at = "insert" /\ \A u \in Threads : u # t => op'[u] = op[u]
    BY <1>i, <2>1, <2>2 DEF OpsTyped
  <2> QED BY <2>1, <2>3, QuietStep DEF Setting
<1>7. ASSUME NEW t \in Threads, AddInsert(t)
      PROVE  Heard'
  BY <1>7, AddInsertHeard
<1>8. ASSUME NEW t \in Threads, NEW k \in Callbacks, delListener(t, k)
      PROVE  Heard'
  <2>1. /\ UNCHANGED <<type, m_val, op, told, raced>> /\ live[k][1] \in DOMAIN type
        /\ m_listeners' = [m_listeners EXCEPT ![live[k][1]] = Without(@, {live[k][2]})]
    BY <1>i, <1>8 DEF delListener, mapVars, ghosts, NumbersDrawn
  <2>2. \A v \in DOMAIN type : \A i \in DOMAIN m_listeners'[v] :
          i \in DOMAIN m_listeners[v] /\ m_listeners'[v][i] = m_listeners[v][i]
    <3>1. /\ m_listeners'[live[k][1]] = Without(m_listeners[live[k][1]], {live[k][2]})
          /\ \A v \in DOMAIN type : v # live[k][1] => m_listeners'[v] = m_listeners[v]
      BY <1>i, <2>1 DEF TypeOK
    <3> QED BY <3>1 DEF Without
  <2> QED BY <2>1, <2>2, QuietStep
<1>9. ASSUME NEW t \in Threads, NEW v \in Vars, clearListener(t, v)
      PROVE  Heard'
  <2>1. /\ UNCHANGED <<type, m_val, op, told, raced>> /\ v \in DOMAIN type
        /\ m_listeners' = [m_listeners EXCEPT ![v] = <<>>]
    BY <1>9 DEF clearListener, mapVars, ghosts
  <2>2. m_listeners'[v] = <<>> /\ \A w \in DOMAIN type : w # v => m_listeners'[w] = m_listeners[w]
    BY <1>i, <2>1 DEF TypeOK
  <2>3. DOMAIN m_listeners'[v] = {}
    BY <2>2
  <2> QED BY <2>1, <2>2, <2>3, QuietStep
<1>10. CASE UNCHANGED vars
  <2>1. UNCHANGED <<type, m_val, m_listeners, op, told, raced>>
    BY <1>10 DEF vars
  <2> QED BY <2>1, QuietStep
<1> QED
  BY <1>1, <1>2, <1>3, <1>4, <1>5, <1>6, <1>7, <1>8, <1>9, <1>10 DEF Next

(***************************************************************************)
(* The theorems.                                                           *)
(***************************************************************************)
\* The invariant holds throughout.
LEMMA Invariant == Spec => []IInv
<1>1. Init => IInv
  BY InitIInv
<1>2. IInv /\ [Next]_vars => IInv'
  BY IInvStep
<1> QED BY <1>1, <1>2, PTL DEF Spec

\* The configuration's state always has its type (TypeOK): in particular a
\* variable's value is of the type Lookup made it with, and the numbers of
\* variables do not run out.
THEOREM TypeCorrect == Spec => []TypeOK
<1>1. IInv => TypeOK
  BY DEF IInv
<1> QED BY <1>1, Invariant, PTL

\* Config::Lookup hands one variable out for a name (OneVariable), however
\* many threads look it up for the first time between its two finds.
THEOREM LookupsAgree == Spec => []OneVariable
<1>1. IInv => OneVariable
  BY DEF IInv
<1> QED BY <1>1, Invariant, PTL

\* A listener's latest value is the variable's whenever nobody is setting it,
\* unless the listener was added, or setters overlapped, while a value was on
\* its way and no single setter has called it since (ListenersCurrent):
\* ConfigVar::setValue compares, tells and assigns under three locks, yet one
\* setter at a time leaves no listener behind.
THEOREM ListenersStayCurrent == Spec => []ListenersCurrent
<1>1. Init => Heard
  BY InitHeard
<1>2. IInv /\ Heard /\ [Next]_vars => Heard'
  BY HeardStep
<1>3. Heard => ListenersCurrent
  BY HeardCurrent
<1> QED BY <1>1, <1>2, <1>3, Invariant, PTL DEF Spec

\* While every variable has a type of its own, addListener, delListener and
\* clearListener keep exactly the callbacks added and not removed, each under
\* the number its owner got (ListenersExact), although the counter of
\* numbers is read and written without a lock of its own.
THEOREM ListenersAreExact == Spec => []ListenersExact
<1>1. IInv => ListenersExact
  BY DEF IInv
<1> QED BY <1>1, Invariant, PTL
=============================================================================
