----------------------------- MODULE ByteArray -----------------------------
(***************************************************************************)
(* ByteArray of utils/byte_array.{h,cpp}: bytes in a list of nodes of one  *)
(* size, a position, and m_cur, the node the next operation starts in; and *)
(* SocketStream::read and write of net/socketstream.cpp, which move bytes  *)
(* between a socket and the array through iovecs.                          *)
(*                                                                         *)
(* Node number k holds cells k * m_base_size onward, so the loops over the *)
(* nodes have closed forms; m_cur is the number of a node, or the number   *)
(* of nodes for nullptr.  The typed writes and reads are writes and reads  *)
(* of so many bytes.  A nullptr dereferenced ends the process.             *)
(***************************************************************************)
EXTENDS Naturals, Sequences

CONSTANTS m_base_size,  \* size of a node
          Values,       \* values of a byte
          Junk,         \* the value of a byte that was never written
          MaxNodes,     \* bound: nodes in the list
          MaxOp         \* bound: bytes moved by one operation

ASSUME ByteArrayAssumption == /\ m_base_size \in Nat \ {0}
                              /\ MaxNodes \in Nat \ {0}
                              /\ MaxOp \in Nat
                              /\ Junk \notin Values

VARIABLES m_position, m_size,
          nodes,        \* length of the list: m_capacity / m_base_size
          m_cur,        \* number of the current node; "nodes" is nullptr
          cell,         \* the memory of the nodes
          io,           \* bytes the latest operation moved, in or out
          threw,        \* did the latest operation throw
          crashed

vars == <<m_position, m_size, nodes, m_cur, cell, io, threw, crashed>>

Bytes == Values \cup {Junk}
Strings == UNION {[1..n -> Values] : n \in 0..MaxOp}
Cells == 0..(MaxNodes * m_base_size - 1)

m_capacity == nodes * m_base_size
getReadSize == m_size - m_position
getCapacity == m_capacity - m_position

\* The place of the current position in its node.
npos == m_position % m_base_size

\* A mutant of Start: the place in the node is forgotten.
StartOfNode(k) == k * m_base_size

\* Where an operation that finds node k current starts.
Start(k) == k * m_base_size + npos

Larger(a, b) == IF a > b THEN a ELSE b

\* n bytes of memory from cell i on.
Memory(i, n) == [j \in 1..n |-> cell[i + j - 1]]

\* The memory with bs stored from cell i on.
Stored(i, bs) ==
  [j \in Cells |-> IF j >= i /\ j < i + Len(bs) THEN bs[j - i + 1] ELSE cell[j]]

Init ==
  /\ m_position = 0 /\ m_size = 0 /\ nodes = 1 /\ m_cur = 0
  /\ cell = [j \in Cells |-> Junk]
  /\ io = <<>> /\ threw = FALSE /\ crashed = FALSE

\* addCapacity: the length of the list with room for n bytes more, and the
\* current node, which is the first new one if there was no room at all.
NodesFor(n) ==
  IF getCapacity >= n THEN nodes
  ELSE nodes + (n - getCapacity + m_base_size - 1) \div m_base_size

CurFor(n) == IF getCapacity < n /\ getCapacity = 0 THEN nodes ELSE m_cur

addCapacity(n) == NodesFor(n) <= MaxNodes /\ nodes' = NodesFor(n)

Throw == /\ threw' = TRUE /\ io' = <<>>
         /\ UNCHANGED <<m_position, m_size, nodes, m_cur, cell, crashed>>

Crash == /\ crashed' = TRUE
         /\ UNCHANGED <<m_position, m_size, nodes, m_cur, cell, io, threw>>

\* A mutant of clear: the first node is freed with the others.
clearAll ==
  /\ ~crashed
  /\ m_position' = 0 /\ m_size' = 0 /\ nodes' = 0 /\ m_cur' = 0
  /\ cell' = [j \in Cells |-> Junk]
  /\ io' = <<>> /\ threw' = FALSE
  /\ UNCHANGED crashed

clear ==
  /\ ~crashed
  /\ m_position' = 0 /\ m_size' = 0 /\ nodes' = 1 /\ m_cur' = 0
  /\ cell' = [j \in Cells |-> IF j < m_base_size THEN cell[j] ELSE Junk]
  /\ io' = <<>> /\ threw' = FALSE
  /\ UNCHANGED crashed

\* write: nothing for no bytes, else from the current node on.
write(bs) ==
  LET n == Len(bs) IN
  /\ ~crashed /\ io' = bs /\ threw' = FALSE
  /\ IF n = 0 THEN UNCHANGED <<m_position, m_size, nodes, m_cur, cell>>
     ELSE /\ addCapacity(n)
          /\ cell' = Stored(Start(CurFor(n)), bs)
          /\ m_position' = m_position + n
          /\ m_cur' = CurFor(n) + (npos + n) \div m_base_size
          /\ m_size' = Larger(m_size, m_position + n)
  /\ UNCHANGED crashed

\* read: within one node m_cur moves on only for a read of the whole node,
\* also when the read stops at the node's end.
read(n) ==
  /\ ~crashed
  /\ \/ n > getReadSize /\ Throw
     \/ n <= getReadSize /\ m_cur = nodes /\ Crash
     \/ /\ n <= getReadSize /\ m_cur < nodes
        /\ io' = Memory(Start(m_cur), n)
        /\ m_position' = m_position + n
        /\ m_cur' = IF npos + n <= m_base_size
                      THEN IF n = m_base_size THEN m_cur + 1 ELSE m_cur
                      ELSE m_cur + (npos + n) \div m_base_size
        /\ threw' = FALSE
        /\ UNCHANGED <<m_size, nodes, cell, crashed>>

\* toString, by read(buf, size, position): finds its node from m_root; with
\* the position at the capacity that is nullptr.
toString ==
  /\ ~crashed
  /\ \/ m_position = m_capacity /\ Crash
     \/ /\ m_position < m_capacity
        /\ io' = Memory(m_position, getReadSize)
        /\ threw' = FALSE
        /\ UNCHANGED <<m_position, m_size, nodes, m_cur, cell, crashed>>

\* A mutant of SetPosition: the last byte of a node counts as the next's.
SetPositionEarly(p, k) ==
  IF p > k * m_base_size
    THEN threw' = TRUE /\ UNCHANGED <<m_position, m_size, m_cur>>
    ELSE /\ m_position' = p
         /\ m_size' = Larger(m_size, p)
         /\ m_cur' = (p + 1) \div m_base_size
         /\ threw' = FALSE

\* What setPosition assigns, for a list of length k.
SetPosition(p, k) ==
  IF p > k * m_base_size
    THEN threw' = TRUE /\ UNCHANGED <<m_position, m_size, m_cur>>
    ELSE /\ m_position' = p
         /\ m_size' = Larger(m_size, p)
         /\ m_cur' = p \div m_base_size
         /\ threw' = FALSE

setPosition(p) ==
  /\ ~crashed
  /\ SetPosition(p, nodes)
  /\ io' = <<>>
  /\ UNCHANGED <<nodes, cell, crashed>>

\* getReadBuffers and getWriteBuffers: the bytes the iovecs hold for len
\* asked.  len does not shrink from node to node: over the end of a node it
\* is counted from the next one on, and no node is enough if it is larger.
Fits(len) == npos + len <= m_base_size \/ len <= m_base_size
Gathered(len) == IF npos + len <= m_base_size THEN len ELSE m_base_size - npos + len

\* SocketStream::read: the socket fills k bytes of the iovecs.
streamRead(len) ==
  /\ ~crashed
  /\ IF ~Fits(len) THEN NodesFor(len) <= MaxNodes /\ Crash
     ELSE \E k \in 1..Gathered(len) : \E bs \in [1..k -> Values] :
            /\ addCapacity(len)
            /\ cell' = Stored(Start(CurFor(len)), bs)
            /\ SetPosition(m_position + k, NodesFor(len))
            /\ io' = bs /\ UNCHANGED crashed

\* SocketStream::write: the socket takes k bytes of the iovecs.
streamWrite(asked) ==
  LET len == IF asked > getReadSize THEN getReadSize ELSE asked IN
  /\ ~crashed /\ len > 0
  /\ IF ~Fits(len) THEN Crash
     ELSE \E k \in 1..Gathered(len) :
            /\ io' = Memory(Start(m_cur), k)
            /\ SetPosition(m_position + k, nodes)
            /\ UNCHANGED <<nodes, cell, crashed>>

Next == \/ \E bs \in Strings : write(bs)
        \/ \E n \in 0..MaxOp : read(n)
        \/ toString
        \/ \E p \in 0..(MaxNodes * m_base_size) : setPosition(p)
        \/ clear
        \/ \E n \in 1..MaxOp : streamRead(n) \/ streamWrite(n)

Spec == Init /\ [][Next]_vars

(***************************************************************************)
(* Properties.                                                             *)
(***************************************************************************)
\* The type of the array's state.
TypeOK ==
  /\ m_position \in Nat /\ m_size \in Nat /\ nodes \in 1..MaxNodes
  /\ m_cur \in Nat /\ cell \in [Cells -> Bytes] /\ io \in Seq(Bytes)
  /\ threw \in BOOLEAN /\ crashed \in BOOLEAN

\* The position is within the data, the data within the nodes, and m_cur is
\* never ahead of the position: whatever the operations, in any order, one
\* that returns has neither read nor written memory outside the nodes.
InBounds == /\ m_position <= m_size
            /\ m_size <= m_capacity
            /\ m_cur <= m_position \div m_base_size

\* m_cur is the node of the position.
Aligned == m_cur = m_position \div m_base_size

Abstract == INSTANCE ByteBuffer WITH
              data <- Memory(0, m_size), position <- m_position

\* As long as m_cur is the node of the position, whatever the operations
\* before, an operation does what it does on a plain buffer: what is read is
\* what was written there, over any number of nodes.  Left out is a step that
\* moves the position beyond the data without writing (setPosition, and the
\* write of a stream that sends more than was asked), and a crash.
ImplementsByteBuffer ==
  /\ Abstract!Init
  /\ [][Aligned => \/ [Abstract!Next]_(Abstract!vars)
                   \/ m_position' > m_size /\ UNCHANGED cell]_vars
=============================================================================
