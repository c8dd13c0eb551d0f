------------------------------- MODULE Config -------------------------------
(***************************************************************************)
(* Config and ConfigVar of utils/config.{h,cpp}: the map of variables, and *)
(* each variable's value and listeners, used by several coroutines at a    *)
(* time.                                                                   *)
(*                                                                         *)
(* What is done under a writer's lock without a call or a race is one      *)
(* step, taken while nobody holds the lock; the reader's lock is held over *)
(* the calls of the listeners.  The counter of listener numbers belongs to *)
(* the type, not to the variable: two coroutines may have it in hand, each *)
(* under the lock of its own variable.  Reads (getValue, toString,         *)
(* getListener, Lookup without a default, LookupBase, Visit) change        *)
(* nothing; LoadFromYaml is a fromString after the other.                  *)
(***************************************************************************)
EXTENDS Naturals, FiniteSets

CONSTANTS Threads,
          Names,         \* well-formed names of variables
          Types,         \* types, each the set of its values
          Default,       \* the default a caller of Lookup gives, by type
          MaxAdds        \* bound: calls of addListener

Values == UNION Types
Vars == 1..Cardinality(Names)
Callbacks == 1..MaxAdds

ASSUME ConfigAssumption ==
  /\ IsFiniteSet(Names) /\ MaxAdds \in Nat
  /\ \A T \in Types : Default[T] \in T

VARIABLES map,           \* GetConfigMap(): the variable of a name, or 0
          type,          \* the types of the variables made so far
          m_val,         \* their values
          m_listeners,   \* their callbacks by number
          s_listener_id, \* the latest number, for each type
          readers,       \* who holds the reader's lock of a variable
          op,            \* the operation each thread is in, and where
          handed,        \* what Lookup returned for a name
          added,         \* calls of addListener so far
          live,          \* callbacks added and not removed: variable, number
          told,          \* ghost: the latest value a callback was given
          raced          \* ghost: callbacks whose value may not be the latest

vars == <<map, type, m_val, m_listeners, s_listener_id, readers, op, handed,
          added, live, told, raced>>
mapVars == <<map, type, handed>>
ghosts == <<told, raced>>
cbVars == <<m_listeners, s_listener_id, added, live, ghosts>>

Idle == [at |-> "idle"]
Put(f, x, y) == [z \in DOMAIN f \cup {x} |-> IF z = x THEN y ELSE f[z]]
Without(f, S) == [z \in DOMAIN f \ S |-> f[z]]
Do(t, o) == op' = [op EXCEPT ![t] = o]

Init ==
  /\ map = [n \in Names |-> 0] /\ type = <<>> /\ m_val = <<>> /\ m_listeners = <<>>
  /\ s_listener_id = [T \in Types |-> 0] /\ readers = [v \in Vars |-> {}]
  /\ op = [t \in Threads |-> Idle] /\ handed = [n \in Names |-> {}]
  /\ added = 0 /\ live = <<>> /\ told = <<>> /\ raced = {}

-----------------------------------------------------------------------------
(* Config::Lookup with a default.                                          *)

\* A variable of another type gives nullptr, 0.
Returned(n, T) == IF type[map[n]] = T THEN {map[n]} ELSE {}
Hand(n, V) == handed' = [handed EXCEPT ![n] = @ \cup V]

\* The first find, under the reader's lock.
LookupFind(t, n, T) ==
  /\ op[t] = Idle
  /\ \/ map[n] # 0 /\ Hand(n, Returned(n, T)) /\ UNCHANGED op
     \/ map[n] = 0 /\ Do(t, [at |-> "make", name |-> n, T |-> T]) /\ UNCHANGED handed
  /\ UNCHANGED <<map, type, m_val, readers, cbVars>>

\* A new variable takes the name.
Make(n, T) ==
  LET v == Cardinality(DOMAIN type) + 1 IN
  /\ map' = [map EXCEPT ![n] = v] /\ type' = Put(type, v, T)
  /\ m_val' = Put(m_val, v, Default[T]) /\ m_listeners' = Put(m_listeners, v, <<>>)
  /\ Hand(n, {v})

\* A mutant of LookupMake: the name is not looked up again.
LookupMakeBlind(t) ==
  /\ op[t].at = "make" /\ Do(t, Idle)
  /\ Cardinality(DOMAIN type) < Cardinality(Vars)
  /\ Make(op[t].name, op[t].T)
  /\ UNCHANGED <<readers, s_listener_id, added, live, ghosts>>

\* The second find, and the new variable, under the writer's lock.
LookupMake(t) ==
  /\ op[t].at = "make" /\ Do(t, Idle)
  /\ \/ /\ map[op[t].name] # 0 /\ Hand(op[t].name, Returned(op[t].name, op[t].T))
        /\ UNCHANGED <<map, type, m_val, m_listeners>>
     \/ map[op[t].name] = 0 /\ Make(op[t].name, op[t].T)
  /\ UNCHANGED <<readers, s_listener_id, added, live, ghosts>>

-----------------------------------------------------------------------------
(* ConfigVar::setValue and fromString.                                     *)

\* A thread in addListener holds the writer's lock of its variable.
Locked(v) == \E t \in Threads : op[t].at \in {"count", "insert"} /\ op[t].var = v

\* The calls of setValue that are between the comparison and the assignment.
Setting == {"notify", "assign"}
Setters(v) == {t \in Threads : op[t].at \in Setting /\ op[t].var = v}

Registered(v) == {m_listeners[v][i] : i \in DOMAIN m_listeners[v]}

\* The comparison, under the reader's lock, which is kept for the listeners.
\* Two setters may tell the listeners, and assign, in different orders.
SetCompare(t, v, x) ==
  /\ op[t] = Idle /\ v \in DOMAIN type /\ x \in type[v] /\ ~Locked(v)
  /\ x # m_val[v]
  /\ readers' = [readers EXCEPT ![v] = @ \cup {t}]
  /\ Do(t, [at |-> "notify", var |-> v, val |-> x, todo |-> DOMAIN m_listeners[v]])
  /\ raced' = IF Setters(v) = {} THEN raced ELSE raced \cup Registered(v)
  /\ UNCHANGED <<mapVars, m_val, m_listeners, s_listener_id, added, live, told>>

\* Callback k gets the new value, the latest if there is no other setter.
Call(t, k) ==
  /\ told' = [told EXCEPT ![k] = op[t].val]
  /\ raced' = IF Setters(op[t].var) = {t} THEN raced \ {k} ELSE raced

\* A mutant of SetNotify: the first listener is the only one called.
SetNotifyFirst(t) ==
  /\ op[t].at = "notify"
  /\ \E i \in op[t].todo :
       /\ \A j \in op[t].todo : i <= j
       /\ Do(t, [op[t] EXCEPT !.todo = {}])
       /\ Call(t, m_listeners[op[t].var][i])
  /\ UNCHANGED <<mapVars, m_val, readers, m_listeners, s_listener_id, added, live>>

\* The next listener, in the order of the numbers.
SetNotify(t) ==
  /\ op[t].at = "notify"
  /\ \E i \in op[t].todo :
       /\ \A j \in op[t].todo : i <= j
       /\ Do(t, [op[t] EXCEPT !.todo = @ \ {i}])
       /\ Call(t, m_listeners[op[t].var][i])
  /\ UNCHANGED <<mapVars, m_val, readers, m_listeners, s_listener_id, added, live>>

SetUnlock(t) ==
  /\ op[t].at = "notify" /\ op[t].todo = {}
  /\ readers' = [readers EXCEPT ![op[t].var] = @ \ {t}]
  /\ Do(t, [at |-> "assign", var |-> op[t].var, val |-> op[t].val])
  /\ UNCHANGED <<mapVars, m_val, cbVars>>

Writable(v) == readers[v] = {} /\ ~Locked(v)

\* m_val = val, under the writer's lock.
SetAssign(t) ==
  /\ op[t].at = "assign" /\ Writable(op[t].var)
  /\ m_val' = [m_val EXCEPT ![op[t].var] = op[t].val] /\ Do(t, Idle)
  /\ UNCHANGED <<mapVars, readers, cbVars>>

-----------------------------------------------------------------------------
(* ConfigVar: listeners.                                                   *)

\* addListener: ++s_listener_id reads the counter of the type ...
AddRead(t, v) ==
  /\ op[t] = Idle /\ v \in DOMAIN type /\ Writable(v) /\ added < MaxAdds
  /\ added' = added + 1
  /\ Do(t, [at |-> "count", var |-> v, cb |-> added', read |-> s_listener_id[type[v]]])
  /\ UNCHANGED <<mapVars, m_val, readers, m_listeners, s_listener_id, live, ghosts>>

\* ... and writes it ...
AddCount(t) ==
  /\ op[t].at = "count" /\ Do(t, [op[t] EXCEPT !.at = "insert"])
  /\ s_listener_id' = [s_listener_id EXCEPT ![type[op[t].var]] = op[t].read + 1]
  /\ UNCHANGED <<mapVars, m_val, readers, m_listeners, added, live, ghosts>>

\* ... and the callback is stored under the number the counter has by then.
\* Its owner starts with the value of the variable, and hears nothing of one
\* that a setter is about to assign.
AddInsert(t) ==
  /\ op[t].at = "insert" /\ Do(t, Idle)
  /\ LET v == op[t].var  k == op[t].cb  i == s_listener_id[type[v]] IN
       /\ m_listeners' = [m_listeners EXCEPT ![v] = Put(@, i, k)]
       /\ live' = Put(live, k, <<v, i>>)
       /\ told' = Put(told, k, m_val[v])
       /\ raced' = IF Setters(v) = {} THEN raced ELSE raced \cup {k}
  /\ UNCHANGED <<mapVars, m_val, readers, s_listener_id, added>>

\* delListener(id), by the owner of callback k; clearListener.
delListener(t, k) ==
  /\ op[t] = Idle /\ k \in DOMAIN live /\ Writable(live[k][1])
  /\ m_listeners' = [m_listeners EXCEPT ![live[k][1]] = Without(@, {live[k][2]})]
  /\ live' = Without(live, {k})
  /\ UNCHANGED <<mapVars, m_val, readers, op, s_listener_id, added, ghosts>>

\* A mutant of clearListener: the lock of the readers is enough for it.
clearListenerShared(t, v) ==
  /\ op[t] = Idle /\ v \in DOMAIN type /\ ~Locked(v)
  /\ m_listeners' = [m_listeners EXCEPT ![v] = <<>>]
  /\ live' = Without(live, {k \in DOMAIN live : live[k][1] = v})
  /\ UNCHANGED <<mapVars, m_val, readers, op, s_listener_id, added, ghosts>>

clearListener(t, v) ==
  /\ op[t] = Idle /\ v \in DOMAIN type /\ Writable(v) /\ m_listeners[v] # <<>>
  /\ m_listeners' = [m_listeners EXCEPT ![v] = <<>>]
  /\ live' = Without(live, {k \in DOMAIN live : live[k][1] = v})
  /\ UNCHANGED <<mapVars, m_val, readers, op, s_listener_id, added, ghosts>>

-----------------------------------------------------------------------------
Next == \E t \in Threads :
  \/ \E n \in Names, T \in Types : LookupFind(t, n, T)
  \/ LookupMake(t)
  \/ \E v \in Vars, x \in Values : SetCompare(t, v, x)
  \/ SetNotify(t) \/ SetUnlock(t) \/ SetAssign(t)
  \/ \E v \in Vars : AddRead(t, v) \/ clearListener(t, v)
  \/ AddCount(t) \/ AddInsert(t)
  \/ \E k \in Callbacks : delListener(t, k)

Spec == Init /\ [][Next]_vars

(***************************************************************************)
(* Properties.                                                             *)
(***************************************************************************)
\* The type of the configuration's state.
TypeOK ==
  /\ map \in [Names -> {0} \cup Vars] /\ DOMAIN type \subseteq Vars
  /\ DOMAIN m_val = DOMAIN type /\ DOMAIN m_listeners = DOMAIN type
  /\ \A v \in DOMAIN type : /\ type[v] \in Types /\ m_val[v] \in type[v]
                            /\ DOMAIN m_listeners[v] \subseteq Nat
  /\ s_listener_id \in [Types -> Nat] /\ readers \in [Vars -> SUBSET Threads]
  /\ handed \in [Names -> SUBSET Vars] /\ added \in 0..MaxAdds
  /\ DOMAIN live \subseteq DOMAIN told /\ DOMAIN told \subseteq Callbacks
  /\ raced \subseteq Callbacks
  /\ \A t \in Threads : op[t].at \in {"idle", "make", "notify", "assign", "count", "insert"}

\* However many coroutines look a name up for the first time at once, they
\* all get the one variable of that name.
OneVariable == \A n \in Names : handed[n] \subseteq {map[n]} \ {0}

\* setValue tells the listeners under one lock and assigns under another, and
\* who registers in between is not told.  Still a listener has the value of
\* the variable whenever no setter is under way, unless it was added while
\* one was about to assign, or two overlapped, and no single setter has
\* called it since.
ListenersCurrent ==
  \A v \in DOMAIN type :
    Setters(v) = {} => \A k \in Registered(v) \ raced : told[k] = m_val[v]

\* As long as no two variables share a type, a variable's listeners are those
\* added and not removed, each under the number its owner has, and a setter
\* calls no other: never one whose removal has returned.
ListenersExact ==
  (\A v, w \in DOMAIN type : type[v] = type[w] => v = w) =>
    /\ \A v \in DOMAIN type : \A i \in DOMAIN m_listeners[v] :
         m_listeners[v][i] \in DOMAIN live /\ live[m_listeners[v][i]] = <<v, i>>
    /\ \A k \in DOMAIN live : live[k][2] \in DOMAIN m_listeners[live[k][1]]
                              /\ m_listeners[live[k][1]][live[k][2]] = k
    /\ \A t \in Threads : op[t].at = "notify" =>
         op[t].todo \subseteq DOMAIN m_listeners[op[t].var]
=============================================================================
