----------------------------- MODULE Serializer -----------------------------
(***************************************************************************)
(* Serializer (rpc/serializer.h): how values and STL containers are put    *)
(* into a ByteArray and taken out of it.  The overload the compiler picks  *)
(* is given by a type, a record:                                           *)
(*   bool; int and uint of a width; real, a float or double of a width, by *)
(*   its bits; string; seq, a vector or list; set, a set or unordered_set; *)
(*   tuple.                                                                *)
(* A set is written in the order its elements are met, so it is given as   *)
(* the sequence of them.  map, unordered_map and pair are left out: their  *)
(* operator<< begins with "this <<" and does not compile.                  *)
(***************************************************************************)
EXTENDS Codec

Small == {"8", "16"}

RECURSIVE Serialize(_, _, _)

\* operator<< for a container: its size, then its items.
SerializeItems(T, v, m_endian) ==
  FoldLeft(LAMBDA bs, x : bs \o Serialize(T.of, x, m_endian), writeUint[Len(v)], v)

\* operator<< for a tuple: its fields.
SerializeFields(T, v, m_endian) ==
  FlattenSeq([i \in 1..Len(v) |-> Serialize(T.of[i], v[i], m_endian)])

\* serialize() for the basic types, operator<< for the others.
Serialize(T, v, m_endian) ==
  CASE T.kind = "bool" -> writeFint("8", IF v THEN 1 ELSE 0, m_endian)
    [] T.kind = "real" -> writeFuint(T.w, v, m_endian)
    [] T.kind = "uint" -> IF T.w \in Small THEN writeFuint(T.w, v, m_endian) ELSE writeUint[v]
    [] T.kind = "int" -> IF T.w \in Small THEN writeFint(T.w, v, m_endian) ELSE writeInt(T.w, v)
    [] T.kind = "string" -> writeStringVint(v)
    [] T.kind \in {"seq", "set"} -> SerializeItems(T, v, m_endian)
    [] T.kind = "tuple" -> SerializeFields(T, v, m_endian)

RECURSIVE Deserialize(_, _, _, _)
RECURSIVE DeserializeItems(_, _, _, _, _)
RECURSIVE DeserializeFields(_, _, _, _, _)
RECURSIVE Default(_)

\* T v{}
Default(T) == CASE T.kind = "bool" -> FALSE
                [] T.kind \in {"real", "uint", "int"} -> 0
                [] T.kind \in {"string", "seq"} -> <<>>
                [] T.kind = "set" -> {}
                [] T.kind = "tuple" -> [i \in 1..Len(T.of) |-> Default(T.of[i])]

\* push_back for a vector or list, insert for a set.
Added(T, into, x) == IF T.kind = "set" THEN into \cup {x} ELSE Append(into, x)

\* n items of a container are read and added to those it has.
DeserializeItems(T, n, into, s, m_endian) ==
  IF n = 0 THEN Got(into, s)
  ELSE LET r == Deserialize(T.of, Default(T.of), s, m_endian) IN
       IF r.threw THEN r
       ELSE DeserializeItems(T, n - 1, Added(T, into, r.val), r.rest, m_endian)

\* The fields of a tuple from the i-th on.
DeserializeFields(T, i, into, s, m_endian) ==
  IF i > Len(T.of) THEN Got(into, s)
  ELSE LET r == Deserialize(T.of[i], into[i], s, m_endian) IN
       IF r.threw THEN r
       ELSE DeserializeFields(T, i + 1, [into EXCEPT ![i] = r.val], r.rest, m_endian)

\* deserialize() and operator>>, into a variable that holds "into": basic
\* types replace it, containers are added to.
Deserialize(T, into, s, m_endian) ==
  CASE T.kind = "bool" -> Converted(readFint("8", s, m_endian), LAMBDA v : v # 0)
    [] T.kind = "real" -> readFuint(T.w, s, m_endian)
    [] T.kind = "uint" -> IF T.w \in Small THEN readFuint(T.w, s, m_endian) ELSE readUint(T.w, s)
    [] T.kind = "int" -> IF T.w \in Small THEN readFint(T.w, s, m_endian) ELSE readInt(T.w, s)
    [] T.kind = "string" -> readStringVint(s)
    [] T.kind \in {"seq", "set"} ->
         LET n == readUint("64", s) IN
         IF n.threw THEN n ELSE DeserializeItems(T, n.val, into, n.rest, m_endian)
    [] T.kind = "tuple" -> DeserializeFields(T, 1, into, s, m_endian)
=============================================================================
