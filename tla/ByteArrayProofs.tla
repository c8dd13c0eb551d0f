-------------------------- MODULE ByteArrayProofs --------------------------
(***************************************************************************)
(* Proofs about ByteArray for any node size, values and bounds.            *)
(***************************************************************************)
EXTENDS ByteArray, Codec, SequenceTheorems, TLAPS

(***************************************************************************)
(* Facts about division.                                                   *)
(***************************************************************************)
\* Quotient and remainder.
LEMMA DivMod ==
  ASSUME NEW a \in Nat, NEW b \in Nat \ {0}
  PROVE  /\ a \div b \in Nat /\ a % b \in Nat
         /\ a % b < b
         /\ a = (a \div b) * b + (a % b)
BY Z3

\* The quotient is determined.
LEMMA DivUnique ==
  ASSUME NEW b \in Nat \ {0}, NEW q \in Nat, NEW r \in Nat, r < b
  PROVE  (q * b + r) \div b = q /\ (q * b + r) % b = r
BY Z3

\* Products grow with their factors.
LEMMA MulMono ==
  ASSUME NEW b \in Nat, NEW p \in Nat, NEW q \in Nat, p <= q
  PROVE  p * b <= q * b /\ p * b \in Nat
BY Z3

\* A product determines the order of its factors.
LEMMA MulOrder ==
  ASSUME NEW b \in Nat \ {0}, NEW p \in Nat, NEW q \in Nat, p * b < (q + 1) * b
  PROVE  p <= q
BY Z3

\* A node further on for every m_base_size bytes.
LEMMA DivAdd ==
  ASSUME NEW a \in Nat, NEW n \in Nat, NEW b \in Nat \ {0}
  PROVE  (a + n) \div b = a \div b + ((a % b) + n) \div b
BY Z3, DivMod

\* The bytes of the nodes for n bytes are enough for them.
LEMMA DivUp ==
  ASSUME NEW n \in Nat, NEW b \in Nat \ {0}
  PROVE  ((n + b - 1) \div b) * b >= n
BY Z3, DivMod

(***************************************************************************)
(* The array's sizes.  InBounds with the type is inductive: an operation   *)
(* starts at or before the position, and makes room before it writes.      *)
(***************************************************************************)
\* The type of what the operations change, the flags aside.
DataTypes ==
  /\ m_position \in Nat /\ m_size \in Nat /\ nodes \in 1..MaxNodes
  /\ m_cur \in Nat /\ cell \in [Cells -> Bytes] /\ io \in Seq(Bytes)

IInv == DataTypes /\ InBounds

\* What follows of an array whose position and data are within its nodes.
LEMMA Within ==
  ASSUME IInv
  PROVE  /\ m_base_size \in Nat \ {0} /\ MaxNodes \in Nat
         /\ npos \in Nat /\ npos < m_base_size
         /\ m_position \div m_base_size \in Nat
         /\ m_position = (m_position \div m_base_size) * m_base_size + npos
         /\ m_capacity \in Nat /\ m_capacity <= MaxNodes * m_base_size
         /\ getReadSize \in Nat /\ getCapacity \in Nat
         /\ Start(m_cur) \in Nat /\ Start(m_cur) <= m_position
         /\ Aligned => Start(m_cur) = m_position
<1>1. m_base_size \in Nat \ {0} /\ MaxNodes \in Nat /\ m_position \in Nat
      /\ m_cur \in Nat /\ nodes \in Nat /\ nodes <= MaxNodes
  BY ByteArrayAssumption DEF IInv, DataTypes
<1>2. /\ npos \in Nat /\ npos < m_base_size
      /\ m_position \div m_base_size \in Nat
      /\ m_position = (m_position \div m_base_size) * m_base_size + npos
  BY <1>1, DivMod DEF npos
<1>3. m_capacity \in Nat /\ m_capacity <= MaxNodes * m_base_size
  BY <1>1, MulMono DEF m_capacity
<1>4. getReadSize \in Nat /\ getCapacity \in Nat
  BY <1>1, <1>3 DEF IInv, DataTypes, InBounds, getReadSize, getCapacity
<1>5. m_cur * m_base_size <= (m_position \div m_base_size) * m_base_size
      /\ m_cur * m_base_size \in Nat
  BY <1>1, <1>2, MulMono DEF IInv, InBounds
<1>6. Start(m_cur) \in Nat /\ Start(m_cur) <= m_position
  BY <1>1, <1>2, <1>5 DEF Start
<1>7. Aligned => Start(m_cur) = m_position
  BY <1>2 DEF Aligned, Start
<1> QED BY <1>1, <1>2, <1>3, <1>4, <1>6, <1>7

\* addCapacity makes room for n bytes at the position, and what is written
\* then starts at or before the position.
LEMMA RoomFor ==
  ASSUME IInv, NEW n \in Nat, NodesFor(n) <= MaxNodes
  PROVE  /\ NodesFor(n) \in 1..MaxNodes /\ nodes <= NodesFor(n)
         /\ m_position + n <= NodesFor(n) * m_base_size
         /\ m_capacity <= NodesFor(n) * m_base_size
         /\ NodesFor(n) * m_base_size \in Nat
         /\ NodesFor(n) * m_base_size <= MaxNodes * m_base_size
         /\ CurFor(n) \in Nat /\ CurFor(n) <= m_position \div m_base_size
         /\ Start(CurFor(n)) \in Nat /\ Start(CurFor(n)) <= m_position
         /\ Aligned => Start(CurFor(n)) = m_position
                         /\ CurFor(n) = m_position \div m_base_size
<1> DEFINE b == m_base_size
           q == m_position \div m_base_size
           g == getCapacity
           more == (n - g + b - 1) \div b
<1>1. b \in Nat \ {0} /\ MaxNodes \in Nat /\ q \in Nat /\ g \in Nat
      /\ m_capacity \in Nat /\ npos \in Nat
      /\ m_position = q * b + npos /\ npos < b
  BY Within
<1>2. m_position \in Nat /\ nodes \in 1..MaxNodes /\ nodes \in Nat /\ m_cur \in Nat
      /\ m_cur <= q /\ m_capacity = nodes * b /\ g = m_capacity - m_position
  BY <1>1 DEF IInv, DataTypes, InBounds, m_capacity, getCapacity
<1>3. m_cur * b <= q * b /\ m_cur * b \in Nat
  BY <1>1, <1>2, MulMono
<1>4. CASE g >= n
  <2>1. NodesFor(n) = nodes /\ CurFor(n) = m_cur
    BY <1>4, <1>1 DEF NodesFor, CurFor
  <2>2. m_position + n <= nodes * b /\ nodes * b <= MaxNodes * b
    BY <1>1, <1>2, <1>4, MulMono
  <2> QED BY <1>1, <1>2, <2>1, <2>2, Within DEF Aligned
<1>5. CASE g < n
  <2>1. NodesFor(n) = nodes + more
    BY <1>1, <1>5 DEF NodesFor
  <2>2. n - g \in Nat
    BY <1>1, <1>5
  <2>3. more * b >= n - g /\ more \in Nat
    <3>1. n - g + b - 1 \in Nat
      BY <1>1, <2>2
    <3>2. more \in Nat
      BY <1>1, <3>1, DivMod
    <3>3. more * b >= n - g
      BY <1>1, <2>2, DivUp
    <3> QED BY <3>2, <3>3
  <2> HIDE DEF more
  <2>4. NodesFor(n) \in Nat /\ NodesFor(n) \in 1..MaxNodes /\ nodes <= NodesFor(n)
    BY <1>1, <1>2, <2>1, <2>3
  <2>5. NodesFor(n) * b = nodes * b + more * b /\ more * b \in Nat
    BY <1>1, <1>2, <2>1, <2>3, Z3
  <2>6. NodesFor(n) * b <= MaxNodes * b /\ NodesFor(n) * b \in Nat
    BY <1>1, <2>4, MulMono
  <2>7. m_position + n <= NodesFor(n) * b /\ m_capacity <= NodesFor(n) * b
    BY <1>1, <1>2, <2>2, <2>3, <2>5
  <2>8. CASE g # 0
    <3>1. CurFor(n) = m_cur
      BY <2>8 DEF CurFor
    <3> QED BY <1>1, <1>2, <2>4, <2>6, <2>7, <3>1, Within DEF Aligned
  <2>9. CASE g = 0
    <3>1. CurFor(n) = nodes
      BY <1>5, <2>9 DEF CurFor
    <3>2. m_position = nodes * b + 0
      BY <1>1, <1>2, <2>9
    <3>3. q = nodes /\ npos = 0
      <4>1. 0 < b /\ 0 \in Nat
        BY <1>1
      <4>2. (nodes * b + 0) \div b = nodes /\ (nodes * b + 0) % b = 0
        BY <1>1, <1>2, <4>1, DivUnique
      <4> QED BY <3>2, <4>2 DEF npos
    <3>4. Start(CurFor(n)) = m_position
      BY <1>1, <1>2, <3>1, <3>2, <3>3 DEF Start
    <3> QED BY <1>1, <1>2, <2>4, <2>6, <2>7, <3>1, <3>3, <3>4
  <2> QED BY <2>8, <2>9
<1> QED BY <1>1, <1>4, <1>5

\* The iovecs getReadBuffers and getWriteBuffers fill, which may hold more
\* bytes than were asked for, lie within k nodes if the bytes asked for do.
LEMMA GatheredFits ==
  ASSUME IInv, NEW len \in Nat \ {0}, Fits(len), NEW k \in Nat,
         m_position + len <= k * m_base_size
  PROVE  /\ Gathered(len) \in Nat
         /\ m_position + Gathered(len) <= k * m_base_size
<1> DEFINE b == m_base_size
           q == m_position \div m_base_size
<1>1. b \in Nat \ {0} /\ q \in Nat /\ npos \in Nat /\ npos < b
      /\ m_position = q * b + npos
  BY Within
<1>2. CASE npos + len <= b
  BY <1>1, <1>2 DEF Gathered, IInv, DataTypes
<1>3. CASE npos + len > b
  <2>1. Gathered(len) = b - npos + len /\ len <= b
    BY <1>1, <1>3 DEF Gathered, Fits
  <2>2. q * b + b < k * b
    BY <1>1, <1>3, Z3
  <2>3. k >= q + 2
    <3> HIDE DEF b, q
    <3> QED BY <1>1, <2>2, Z3
  <2>4. (q + 2) * b <= k * b /\ (q + 2) * b = q * b + b + b
    <3> HIDE DEF b, q
    <3> QED BY <1>1, <2>3, Z3
  <2> QED BY <1>1, <2>1, <2>4, Z3
<1> QED BY <1>1, <1>2, <1>3

\* What a string of bytes is.
LEMMA StringFacts ==
  ASSUME NEW n \in Nat, NEW bs \in [1..n -> Values]
  PROVE  /\ Len(bs) = n /\ bs \in Seq(Bytes)
         /\ \A j \in 1..n : bs[j] \in Bytes
BY DEF Bytes

\* Memory within the nodes is a string of bytes.
LEMMA MemoryType ==
  ASSUME IInv, NEW i \in Nat, NEW n \in Nat, i + n <= MaxNodes * m_base_size
  PROVE  /\ Memory(i, n) \in Seq(Bytes) /\ Len(Memory(i, n)) = n
         /\ \A j \in 1..n : Memory(i, n)[j] = cell[i + j - 1] /\ cell[i + j - 1] \in Bytes
<1>1. MaxNodes * m_base_size \in Nat
  BY ByteArrayAssumption, MulMono
<1>2. \A j \in 1..n : i + j - 1 \in Cells
  BY <1>1 DEF Cells
<1>3. \A j \in 1..n : cell[i + j - 1] \in Bytes
  BY <1>2 DEF IInv, DataTypes
<1>4. Memory(i, n) \in [1..n -> Bytes]
  BY <1>3 DEF Memory
<1> QED BY <1>3, <1>4 DEF Memory

\* Storing a string leaves memory memory.
LEMMA StoredType ==
  ASSUME IInv, NEW i \in Nat, NEW n \in Nat, NEW bs \in [1..n -> Values]
  PROVE  Stored(i, bs) \in [Cells -> Bytes]
<1>1. Len(bs) = n /\ \A j \in 1..n : bs[j] \in Bytes
  BY StringFacts
<1>2. \A j \in Cells : j \in Int
  BY DEF Cells
<1>3. \A j \in Cells : j >= i /\ j < i + n => bs[j - i + 1] \in Bytes
  BY <1>1, <1>2
<1>4. \A j \in Cells : cell[j] \in Bytes
  BY DEF IInv, DataTypes
<1> QED BY <1>1, <1>3, <1>4 DEF Stored

(***************************************************************************)
(* The steps.                                                              *)
(***************************************************************************)
\* The array starts with one empty node.
LEMMA InitIInv == Init => IInv
<1> SUFFICES ASSUME Init PROVE IInv
  OBVIOUS
<1>1. DataTypes
  BY ByteArrayAssumption DEF Init, DataTypes, Bytes
<1>2. 0 \div m_base_size = 0
  <2>1. m_base_size \in Nat \ {0} /\ 0 < m_base_size /\ 0 * m_base_size + 0 = 0
    BY ByteArrayAssumption
  <2> QED BY <2>1, DivUnique, Z3
<1>3. InBounds
  BY <1>2, ByteArrayAssumption DEF Init, InBounds, m_capacity
<1> QED BY <1>1, <1>3 DEF IInv

\* What setPosition assigns is in bounds, for a list of k nodes.
LEMMA SetPositionStep ==
  ASSUME IInv, NEW p \in Nat, NEW k \in 1..MaxNodes, nodes <= k,
         SetPosition(p, k), nodes' = k, cell' \in [Cells -> Bytes],
         io' \in Seq(Bytes)
  PROVE  IInv'
<1>1. m_base_size \in Nat \ {0} /\ k \in Nat /\ nodes \in Nat
      /\ k * m_base_size \in Nat /\ nodes * m_base_size <= k * m_base_size
      /\ nodes * m_base_size \in Nat
  BY ByteArrayAssumption, MulMono DEF IInv, DataTypes
<1>2. m_position \in Nat /\ m_size \in Nat /\ m_cur \in Nat
      /\ m_position <= m_size /\ m_size <= nodes * m_base_size
      /\ m_cur <= m_position \div m_base_size
  BY DEF IInv, DataTypes, InBounds, m_capacity
<1>3. CASE p > k * m_base_size
  <2>1. UNCHANGED <<m_position, m_size, m_cur>>
    BY <1>3 DEF SetPosition
  <2> QED BY <1>1, <1>2, <2>1, SMTT(30) DEF IInv, DataTypes, InBounds, m_capacity
<1>4. CASE p <= k * m_base_size
  <2>1. m_position' = p /\ m_size' = Larger(m_size, p) /\ m_cur' = p \div m_base_size
    BY <1>1, <1>4 DEF SetPosition
  <2>2. p \div m_base_size \in Nat
    BY <1>1, DivMod
  <2>3. m_size' \in Nat /\ p <= m_size' /\ m_size' <= k * m_base_size
    BY <1>1, <1>2, <1>4, <2>1 DEF Larger
  <2> QED BY <1>1, <2>1, <2>2, <2>3 DEF IInv, DataTypes, InBounds, m_capacity
<1> QED BY <1>1, <1>3, <1>4

\* A step that leaves the sizes alone.
LEMMA QuietStep ==
  ASSUME IInv, UNCHANGED <<m_position, m_size, nodes, m_cur, cell>>,
         io' \in Seq(Bytes)
  PROVE  IInv'
BY DEF IInv, DataTypes, InBounds, m_capacity

\* write stays in bounds.
LEMMA WriteStep ==
  ASSUME IInv, NEW n \in Nat, NEW bs \in [1..n -> Values], write(bs)
  PROVE  IInv'
<1>1. Len(bs) = n /\ bs \in Seq(Bytes)
  BY StringFacts
<1>2. io' \in Seq(Bytes)
  BY <1>1 DEF write
<1>3. CASE n = 0
  BY <1>1, <1>2, <1>3, QuietStep DEF write
<1>4. CASE n # 0
  <2>1. /\ nodes' = NodesFor(n) /\ NodesFor(n) <= MaxNodes
        /\ cell' = Stored(Start(CurFor(n)), bs)
        /\ m_position' = m_position + n
        /\ m_cur' = CurFor(n) + (npos + n) \div m_base_size
        /\ m_size' = Larger(m_size, m_position + n)
    BY <1>1, <1>4 DEF write, addCapacity
  <2>2. cell' \in [Cells -> Bytes]
    BY <2>1, RoomFor, StoredType
  <2>3. /\ m_base_size \in Nat \ {0} /\ npos + n \in Nat
        /\ m_position \in Nat /\ m_size \in Nat /\ m_size <= m_capacity
        /\ m_capacity \in Nat /\ m_position \div m_base_size \in Nat
    <3>1. /\ m_base_size \in Nat \ {0} /\ npos \in Nat /\ m_capacity \in Nat
          /\ m_position \div m_base_size \in Nat
      BY Within
    <3>2. m_position \in Nat /\ m_size \in Nat /\ m_size <= m_capacity
      BY DEF IInv, DataTypes, InBounds
    <3> QED BY <3>1, <3>2
  <2>4. (npos + n) \div m_base_size \in Nat
    BY <2>3, DivMod
  <2>5. (m_position + n) \div m_base_size =
          m_position \div m_base_size + (npos + n) \div m_base_size
    BY <2>3, DivAdd, ZenonT(30) DEF npos
  <2>6. m_cur' \in Nat /\ m_cur' <= m_position' \div m_base_size
    <3>1. CurFor(n) \in Nat /\ CurFor(n) <= m_position \div m_base_size
      BY <2>1, RoomFor
    <3>2. m_position' \div m_base_size =
            m_position \div m_base_size + (npos + n) \div m_base_size
      BY <2>1, <2>5
    <3> QED BY <2>1, <2>3, <2>4, <3>1, <3>2, SMTT(30)
  <2>7. m_size' \in Nat /\ m_position' <= m_size'
        /\ m_size' <= NodesFor(n) * m_base_size
    BY <2>1, <2>3, RoomFor, SMTT(30) DEF Larger
  <2>8. nodes' \in 1..MaxNodes /\ m_position' \in Nat
    BY <2>1, <2>3, RoomFor
  <2>9. InBounds'
    BY <2>1, <2>6, <2>7 DEF InBounds, m_capacity
  <2> QED BY <1>2, <2>2, <2>6, <2>7, <2>8, <2>9 DEF IInv, DataTypes
<1> QED BY <1>3, <1>4

\* read stays in bounds.
LEMMA ReadStep ==
  ASSUME IInv, NEW n \in Nat, read(n)
  PROVE  IInv'
<1>1. CASE n > getReadSize /\ Throw
  BY <1>1, QuietStep DEF Throw
<1>2. CASE Crash
  BY <1>2, QuietStep DEF Crash, IInv, DataTypes
<1>3. CASE /\ n <= getReadSize /\ m_cur < nodes
           /\ io' = Memory(Start(m_cur), n)
           /\ m_position' = m_position + n
           /\ m_cur' = IF npos + n <= m_base_size
                         THEN IF n = m_base_size THEN m_cur + 1 ELSE m_cur
                         ELSE m_cur + (npos + n) \div m_base_size
           /\ UNCHANGED <<m_size, nodes, cell>>
  <2>1. /\ m_base_size \in Nat \ {0} /\ npos \in Nat /\ m_position \in Nat
        /\ m_size \in Nat /\ m_size <= m_capacity /\ m_cur \in Nat
        /\ m_capacity \in Nat /\ m_capacity <= MaxNodes * m_base_size
        /\ m_position \div m_base_size \in Nat
        /\ m_cur <= m_position \div m_base_size
        /\ Start(m_cur) \in Nat /\ Start(m_cur) <= m_position
        /\ m_position + n <= m_size /\ MaxNodes * m_base_size \in Nat
    <3>1. /\ m_base_size \in Nat \ {0} /\ npos \in Nat /\ MaxNodes \in Nat
          /\ m_capacity \in Nat /\ m_capacity <= MaxNodes * m_base_size
          /\ m_position \div m_base_size \in Nat
          /\ Start(m_cur) \in Nat /\ Start(m_cur) <= m_position
      BY Within
    <3>2. /\ m_position \in Nat /\ m_size \in Nat /\ m_size <= m_capacity
          /\ m_cur \in Nat /\ m_cur <= m_position \div m_base_size
      BY DEF IInv, DataTypes, InBounds
    <3>3. m_position + n <= m_size
      BY <1>3, <3>2 DEF getReadSize
    <3>4. MaxNodes * m_base_size \in Nat
      BY <3>1, MulMono
    <3> QED BY <3>1, <3>2, <3>3, <3>4
  <2>2. io' \in Seq(Bytes)
    <3>1. Start(m_cur) + n <= MaxNodes * m_base_size
      BY <2>1
    <3> QED BY <1>3, <2>1, <3>1, MemoryType
  <2> DEFINE d == (npos + n) \div m_base_size
  <2>3. d \in Nat
    BY <2>1, DivMod
  <2>4. (m_position + n) \div m_base_size = m_position \div m_base_size + d
    BY <2>1, DivAdd, ZenonT(30) DEF npos
  <2>5. n = m_base_size => d >= 1
    <3> SUFFICES ASSUME n = m_base_size PROVE d >= 1
      OBVIOUS
    <3>1. m_base_size <= npos + n /\ npos + n \in Nat
      BY <2>1
    <3>2. npos + n = d * m_base_size + ((npos + n) % m_base_size)
          /\ (npos + n) % m_base_size < m_base_size
          /\ (npos + n) % m_base_size \in Nat
      BY <2>1, <3>1, DivMod
    <3>3. d = 0 => d * m_base_size = 0
      BY <2>1
    <3> HIDE DEF d
    <3> QED BY <2>1, <2>3, <3>1, <3>2, <3>3
  <2> HIDE DEF d
  <2>6. m_cur' \in Nat /\ m_cur' <= m_position \div m_base_size + d
    BY <1>3, <2>1, <2>3, <2>5 DEF d
  <2> QED BY <1>3, <2>1, <2>2, <2>4, <2>6 DEF IInv, DataTypes, InBounds, m_capacity
<1> QED BY <1>1, <1>2, <1>3 DEF read

\* SocketStream::read stays in bounds.
LEMMA StreamReadStep ==
  ASSUME IInv, NEW len \in Nat \ {0}, streamRead(len)
  PROVE  IInv'
<1>1. CASE Crash
  BY <1>1, QuietStep DEF Crash, IInv, DataTypes
<1>2. ASSUME Fits(len), NEW k \in 1..Gathered(len), NEW bs \in [1..k -> Values],
             addCapacity(len),
             cell' = Stored(Start(CurFor(len)), bs),
             SetPosition(m_position + k, NodesFor(len)),
             io' = bs
      PROVE  IInv'
  <2>1. NodesFor(len) <= MaxNodes /\ nodes' = NodesFor(len)
    BY <1>2 DEF addCapacity
  <2>2. NodesFor(len) \in 1..MaxNodes /\ nodes <= NodesFor(len)
        /\ Start(CurFor(len)) \in Nat
    BY <2>1, RoomFor
  <2>3. k \in Nat /\ m_position + k \in Nat
    BY <1>2 DEF IInv, DataTypes
  <2>4. cell' \in [Cells -> Bytes]
    BY <1>2, <2>2, <2>3, StoredType
  <2>5. io' \in Seq(Bytes)
    BY <1>2, <2>3, StringFacts
  <2> QED BY <1>2, <2>1, <2>2, <2>3, <2>4, <2>5, SetPositionStep
<1> QED BY <1>1, <1>2 DEF streamRead

\* SocketStream::write stays in bounds.
LEMMA StreamWriteStep ==
  ASSUME IInv, NEW asked \in Nat \ {0}, streamWrite(asked)
  PROVE  IInv'
<1> DEFINE len == IF asked > getReadSize THEN getReadSize ELSE asked
<1>1. len \in Nat \ {0} /\ len <= getReadSize /\ getReadSize \in Nat
  BY Within DEF streamWrite
<1>2. Crash \/ /\ Fits(len)
               /\ \E k \in 1..Gathered(len) :
                    /\ io' = Memory(Start(m_cur), k)
                    /\ SetPosition(m_position + k, nodes)
                    /\ UNCHANGED <<nodes, cell>>
  BY DEF streamWrite
<1> HIDE DEF len
<1>3. CASE Crash
  BY <1>3, QuietStep DEF Crash, IInv, DataTypes
<1>4. ASSUME Fits(len), NEW k \in 1..Gathered(len),
             io' = Memory(Start(m_cur), k),
             SetPosition(m_position + k, nodes),
             UNCHANGED <<nodes, cell>>
      PROVE  IInv'
  <2>1. /\ m_position \in Nat /\ m_size \in Nat /\ nodes \in 1..MaxNodes
        /\ nodes \in Nat /\ m_position + len <= nodes * m_base_size
        /\ nodes * m_base_size <= MaxNodes * m_base_size
        /\ nodes * m_base_size \in Nat /\ MaxNodes * m_base_size \in Nat
        /\ Start(m_cur) \in Nat /\ Start(m_cur) <= m_position
    BY <1>1, Within, MulMono, ByteArrayAssumption
    DEF IInv, DataTypes, InBounds, getReadSize, m_capacity
  <2>2. Gathered(len) \in Nat /\ m_position + Gathered(len) <= nodes * m_base_size
    BY <1>1, <1>4, <2>1, GatheredFits
  <2>3. k \in Nat /\ m_position + k \in Nat
        /\ Start(m_cur) + k <= MaxNodes * m_base_size
    BY <2>1, <2>2
  <2>4. io' \in Seq(Bytes)
    BY <1>4, <2>1, <2>3, MemoryType
  <2>5. cell' \in [Cells -> Bytes]
    BY <1>4 DEF IInv, DataTypes
  <2> QED BY <1>4, <2>1, <2>3, <2>4, <2>5, SetPositionStep
<1> QED BY <1>2, <1>3, <1>4

\* Every step stays in bounds.
LEMMA IInvStep == IInv /\ [Next]_vars => IInv'
<1> SUFFICES ASSUME IInv, [Next]_vars
             PROVE  IInv'
  OBVIOUS
<1>1. ASSUME NEW bs \in Strings, write(bs)
      PROVE  IInv'
  <2>1. PICK n \in 0..MaxOp : bs \in [1..n -> Values]
    BY DEF Strings
  <2> QED BY <1>1, <2>1, WriteStep, ByteArrayAssumption
<1>2. ASSUME NEW n \in 0..MaxOp, read(n)
      PROVE  IInv'
  BY <1>2, ReadStep, ByteArrayAssumption
<1>3. CASE toString
  <2>1. CASE Crash
    BY <2>1, QuietStep DEF Crash, IInv, DataTypes
  <2>2. CASE /\ io' = Memory(m_position, getReadSize)
             /\ UNCHANGED <<m_position, m_size, nodes, m_cur, cell>>
    <3>1. m_position + getReadSize <= MaxNodes * m_base_size
          /\ m_position \in Nat /\ getReadSize \in Nat
      BY Within, SMTT(30) DEF IInv, DataTypes, InBounds, getReadSize
    <3> QED BY <2>2, <3>1, MemoryType, QuietStep
  <2> QED BY <1>3, <2>1, <2>2 DEF toString
<1>4. ASSUME NEW p \in 0..(MaxNodes * m_base_size), setPosition(p)
      PROVE  IInv'
  <2>1. p \in Nat /\ nodes \in 1..MaxNodes /\ nodes <= nodes
        /\ cell' \in [Cells -> Bytes] /\ io' \in Seq(Bytes) /\ nodes' = nodes
    BY <1>4 DEF setPosition, IInv, DataTypes
  <2> QED BY <1>4, <2>1, SetPositionStep DEF setPosition
<1>5. CASE clear
  <2>1. /\ m_position' = 0 /\ m_size' = 0 /\ nodes' = 1 /\ m_cur' = 0
        /\ cell' = [j \in Cells |-> IF j < m_base_size THEN cell[j] ELSE Junk]
        /\ io' = <<>>
    BY <1>5 DEF clear
  <2>2. cell' \in [Cells -> Bytes]
    BY <2>1 DEF IInv, DataTypes, Bytes
  <2>3. DataTypes'
    BY <2>1, <2>2, ByteArrayAssumption DEF DataTypes
  <2>4. 0 \div m_base_size = 0
    <3>1. m_base_size \in Nat \ {0} /\ 0 < m_base_size /\ 0 * m_base_size + 0 = 0
      BY ByteArrayAssumption
    <3> QED BY <3>1, DivUnique, Z3
  <2> QED BY <2>1, <2>3, <2>4, ByteArrayAssumption DEF IInv, InBounds, m_capacity
<1>6. ASSUME NEW n \in 1..MaxOp, streamRead(n) \/ streamWrite(n)
      PROVE  IInv'
  <2>1. n \in Nat \ {0}
    BY ByteArrayAssumption
  <2> QED BY <1>6, <2>1, StreamReadStep, StreamWriteStep
<1>7. CASE UNCHANGED vars
  BY <1>7, QuietStep DEF vars, IInv, DataTypes
<1> QED
  BY <1>1, <1>2, <1>3, <1>4, <1>5, <1>6, <1>7 DEF Next

\* The flags stay Boolean.
LEMMA FlagsStep ==
  threw \in BOOLEAN /\ crashed \in BOOLEAN /\ [Next]_vars
    => threw' \in BOOLEAN /\ crashed' \in BOOLEAN
BY Zenon DEF Next, write, read, toString, setPosition, clear, streamRead,
   streamWrite, SetPosition, Throw, Crash, vars

\* The array's state always has its type (TypeOK).
THEOREM TypeCorrect == Spec => []TypeOK
<1> DEFINE Flags == threw \in BOOLEAN /\ crashed \in BOOLEAN
<1>1. Init => IInv /\ Flags
  BY InitIInv DEF Init
<1>2. IInv /\ Flags /\ [Next]_vars => IInv' /\ Flags'
  BY IInvStep, FlagsStep
<1>3. IInv /\ Flags => TypeOK
  BY DEF IInv, DataTypes, TypeOK
<1> QED BY <1>1, <1>2, <1>3, PTL DEF Spec

\* Whatever the sequence of writes, reads, setPosition, clear and stream
\* operations, the position stays within the data, the data within the
\* nodes, and m_cur at or before the node of the position (InBounds): for
\* every node size, an operation that returns has stayed within the list of
\* nodes (those that run off its end are the model's crashes).
THEOREM StaysInBounds == Spec => []InBounds
<1>1. Init => IInv
  BY InitIInv
<1>2. IInv /\ [Next]_vars => IInv'
  BY IInvStep
<1>3. IInv => InBounds
  BY DEF IInv
<1> QED BY <1>1, <1>2, <1>3, PTL DEF Spec

(***************************************************************************)
(* The array is a buffer.                                                  *)
(***************************************************************************)
\* A string is the part of a sequence it agrees with.
LEMMA PartOf ==
  ASSUME NEW S, NEW d \in Seq(S), NEW i \in Nat, NEW n \in Nat, i + n <= Len(d),
         NEW e \in Seq(S), Len(e) = n, \A j \in 1..n : e[j] = d[i + j]
  PROVE  e = SubSeq(d, i + 1, i + n)
<1> DEFINE t == SubSeq(d, i + 1, i + n)
<1>1. Len(d) \in Nat /\ \A j \in (i + 1)..(i + n) : d[j] \in S
  BY LenProperties, ElementOfSeq
<1>2. t \in Seq(S) /\ Len(t) = n /\ \A j \in 1..n : t[j] = d[i + j]
  <2>1. i + 1 \in Int /\ i + n \in Int /\ (i + n) - (i + 1) + 1 = n
    OBVIOUS
  <2>2. /\ t \in Seq(S)
        /\ Len(t) = IF i + 1 <= i + n THEN (i + n) - (i + 1) + 1 ELSE 0
        /\ \A j \in 1..((i + n) - (i + 1) + 1) : t[j] = d[(i + 1) + j - 1]
    BY <1>1, <2>1, SubSeqProperties, SMTT(30)
  <2>3. \A j \in 1..n : (i + 1) + j - 1 = i + j
    OBVIOUS
  <2> HIDE DEF t
  <2> QED BY <2>1, <2>2, <2>3
<1> HIDE DEF t
<1>3. e = t
  BY <1>2, SeqEqual
<1> QED BY <1>3 DEF t

\* A sequence that has s from the place after p on, and is d elsewhere.
LEMMA Overwritten ==
  ASSUME NEW S, NEW d \in Seq(S), NEW p \in Nat, p <= Len(d), NEW s \in Seq(S),
         NEW e \in Seq(S), Len(e) = Larger(Len(d), p + Len(s)),
         \A i \in 1..p : e[i] = d[i],
         \A i \in 1..Len(s) : e[p + i] = s[i],
         \A i \in (p + Len(s) + 1)..Len(d) : e[i] = d[i]
  PROVE  e = SubSeq(d, 1, p) \o s \o SubSeq(d, p + Len(s) + 1, Len(d))
<1> DEFINE a == SubSeq(d, 1, p)
           z == SubSeq(d, p + Len(s) + 1, Len(d))
<1>1. Len(d) \in Nat /\ Len(s) \in Nat
  BY LenProperties
<1>2. \A i \in 1..Len(d) : d[i] \in S
  BY ElementOfSeq
<1>3. a \in Seq(S) /\ Len(a) = p /\ \A i \in 1..p : a[i] = d[i]
  <2>1. /\ a \in Seq(S) /\ Len(a) = IF 1 <= p THEN p - 1 + 1 ELSE 0
        /\ \A i \in 1..(p - 1 + 1) : a[i] = d[1 + i - 1]
    BY <1>1, <1>2, SubSeqProperties
  <2>2. p - 1 + 1 = p /\ \A i \in 1..p : 1 + i - 1 = i
    OBVIOUS
  <2> HIDE DEF a
  <2> QED BY <2>1, <2>2
<1>4. /\ z \in Seq(S)
      /\ Len(z) = IF p + Len(s) + 1 <= Len(d) THEN Len(d) - (p + Len(s) + 1) + 1 ELSE 0
      /\ \A i \in 1..(Len(d) - (p + Len(s) + 1) + 1) : z[i] = d[p + Len(s) + 1 + i - 1]
  <2>1. p + Len(s) + 1 \in Int /\ Len(d) \in Int
    BY <1>1
  <2>2. \A i \in (p + Len(s) + 1)..Len(d) : d[i] \in S
    BY <1>1, <1>2
  <2> QED BY <2>1, <2>2, SubSeqProperties
<1> HIDE DEF a, z
<1>5. /\ a \o s \in Seq(S) /\ Len(a \o s) = p + Len(s)
      /\ \A i \in 1..(p + Len(s)) : (a \o s)[i] = IF i <= p THEN a[i] ELSE s[i - p]
  <2>1. /\ a \o s \in Seq(S) /\ Len(a \o s) = Len(a) + Len(s)
        /\ \A i \in 1..(Len(a) + Len(s)) :
             (a \o s)[i] = IF i <= Len(a) THEN a[i] ELSE s[i - Len(a)]
    BY <1>3, ConcatProperties, Zenon
  <2>2. Len(a) = p
    BY <1>3
  <2> QED BY <2>1, <2>2, Zenon
<1> DEFINE w == a \o s
<1>7. /\ w \in Seq(S) /\ Len(w) = p + Len(s)
      /\ \A i \in 1..(p + Len(s)) : w[i] = IF i <= p THEN a[i] ELSE s[i - p]
  BY <1>5
<1> HIDE DEF w
<1>6. /\ w \o z \in Seq(S) /\ Len(w \o z) = Len(w) + Len(z)
      /\ \A i \in 1..(Len(w) + Len(z)) :
           (w \o z)[i] = IF i <= Len(w) THEN w[i] ELSE z[i - Len(w)]
  <2>1. w \in Seq(S)
    BY <1>7
  <2>2. z \in Seq(S)
    BY <1>4
  <2> QED BY <2>1, <2>2, ConcatProperties, Zenon
<1>8. Len(w \o z) = Len(e) /\ Len(z) \in Nat
  <2>1. Len(w \o z) = p + Len(s) + Len(z) /\ Len(z) \in Nat
    BY <1>4, <1>6, <1>7, LenProperties
  <2>2. CASE p + Len(s) + 1 <= Len(d)
    <3>1. Len(z) = Len(d) - (p + Len(s) + 1) + 1
      BY <1>1, <1>4, <2>2
    <3>2. Len(e) = Len(d)
      BY <1>1, <2>2 DEF Larger
    <3>3. p + Len(s) + (Len(d) - (p + Len(s) + 1) + 1) = Len(d)
      BY <1>1
    <3> QED BY <2>1, <3>1, <3>2, <3>3
  <2>3. CASE ~(p + Len(s) + 1 <= Len(d))
    <3>1. Len(z) = 0
      BY <1>4, <2>3
    <3>2. Len(e) = p + Len(s)
      BY <1>1, <2>3 DEF Larger
    <3>3. p + Len(s) + 0 = p + Len(s)
      BY <1>1
    <3> QED BY <2>1, <3>1, <3>2, <3>3
  <2> QED BY <2>2, <2>3
<1>9. ASSUME NEW i \in 1..Len(e)
      PROVE  e[i] = (w \o z)[i]
  <2>1. i \in Nat /\ 1 <= i
    BY <1>1 DEF Larger
  <2>2. CASE i <= p
    <3>1. i \in 1..p /\ i \in 1..(p + Len(s)) /\ i \in 1..(Len(w) + Len(z)) /\ i <= Len(w)
      BY <1>1, <1>7, <1>8, <2>1, <2>2
    <3>2. (w \o z)[i] = w[i] /\ w[i] = a[i]
      BY <1>6, <1>7, <2>2, <3>1
    <3> QED BY <1>3, <3>1, <3>2
  <2>3. CASE p < i /\ i <= p + Len(s)
    <3>0. i \in 1..(p + Len(s)) /\ i \in 1..(Len(w) + Len(z)) /\ i <= Len(w) /\ ~(i <= p)
      BY <1>1, <1>7, <1>8, <2>1, <2>3
    <3>1. (w \o z)[i] = s[i - p]
      BY <1>6, <1>7, <3>0
    <3>2. i - p \in 1..Len(s) /\ p + (i - p) = i
      BY <1>1, <2>1, <2>3
    <3>3. e[p + (i - p)] = s[i - p]
      BY <3>2
    <3> QED BY <3>1, <3>2, <3>3
  <2>4. CASE p + Len(s) < i
    <3>1. (w \o z)[i] = z[i - (p + Len(s))]
      <4>1. i \in 1..(Len(w) + Len(z)) /\ ~(i <= Len(w))
        BY <1>1, <1>6, <1>7, <1>8, <2>1, <2>4
      <4> QED BY <1>6, <1>7, <4>1
    <3>2. i <= Len(d) /\ i \in (p + Len(s) + 1)..Len(d)
      BY <1>1, <2>1, <2>4 DEF Larger
    <3>3. i - (p + Len(s)) \in 1..(Len(d) - (p + Len(s) + 1) + 1)
          /\ p + Len(s) + 1 + (i - (p + Len(s))) - 1 = i
      BY <1>1, <2>1, <2>4, <3>2
    <3>4. z[i - (p + Len(s))] = d[i]
      BY <1>4, <3>3
    <3> QED BY <3>1, <3>2, <3>4
  <2>5. i <= p \/ (p < i /\ i <= p + Len(s)) \/ p + Len(s) < i
    BY <1>1, <2>1
  <2> QED BY <2>2, <2>3, <2>4, <2>5
<1>10. e = w \o z
  BY <1>6, <1>8, <1>9, SeqEqual
<1> QED BY <1>10 DEF w, a, z

\* The bytes of the array, as the buffer's data.
LEMMA DataIs ==
  ASSUME IInv
  PROVE  /\ Memory(0, m_size) \in Seq(Bytes) /\ Len(Memory(0, m_size)) = m_size
         /\ m_size \in Nat /\ m_position \in Nat /\ m_position <= m_size
         /\ m_size <= MaxNodes * m_base_size /\ MaxNodes * m_base_size \in Nat
         /\ \A j \in 1..m_size : Memory(0, m_size)[j] = cell[j - 1]
<1>1. m_size \in Nat /\ m_position \in Nat /\ m_position <= m_size /\ m_size <= m_capacity
  BY DEF IInv, DataTypes, InBounds
<1>2. m_capacity \in Nat /\ m_capacity <= MaxNodes * m_base_size
  BY Within
<1>3. MaxNodes * m_base_size \in Nat
  BY ByteArrayAssumption, MulMono
<1>4. m_size <= MaxNodes * m_base_size
  BY <1>1, <1>2, <1>3
<1>5. 0 \in Nat /\ 0 + m_size <= MaxNodes * m_base_size
  BY <1>1, <1>4
<1>6. /\ Memory(0, m_size) \in Seq(Bytes) /\ Len(Memory(0, m_size)) = m_size
      /\ \A j \in 1..m_size : Memory(0, m_size)[j] = cell[0 + j - 1]
  BY <1>1, <1>5, MemoryType
<1>7. \A j \in 1..m_size : 0 + j - 1 = j - 1
  BY <1>1
<1> QED BY <1>1, <1>3, <1>4, <1>6, <1>7

\* A step that stores a string at the position and moves past it is a Put.
LEMMA PutStep ==
  ASSUME IInv, IInv', NEW n \in Nat, NEW bs \in [1..n -> Values],
         cell' = Stored(m_position, bs), m_position' = m_position + n,
         m_size' = Larger(m_size, m_position + n), io' = bs, threw' = FALSE
  PROVE  Abstract!Put
<1> DEFINE d == Memory(0, m_size)
           e == Memory(0, m_size)'
<1>1. Len(bs) = n /\ bs \in Seq(Bytes)
  BY StringFacts
<1>2. /\ d \in Seq(Bytes) /\ Len(d) = m_size /\ m_size \in Nat /\ m_position \in Nat
      /\ m_position <= m_size /\ \A j \in 1..m_size : d[j] = cell[j - 1]
      /\ MaxNodes * m_base_size \in Nat
  BY DataIs
<1>3. m_size' \in Nat /\ m_size' <= MaxNodes * m_base_size
  <2>1. nodes' \in Nat /\ nodes' <= MaxNodes /\ m_size' \in Nat
        /\ m_size' <= nodes' * m_base_size
    BY ByteArrayAssumption DEF IInv, DataTypes, InBounds, m_capacity
  <2>2. nodes' * m_base_size <= MaxNodes * m_base_size /\ nodes' * m_base_size \in Nat
    BY <2>1, ByteArrayAssumption, MulMono
  <2> QED BY <1>2, <2>1, <2>2
<1>4. \A j \in 1..m_size' : 0 + j - 1 \in Cells /\ 0 + j - 1 = j - 1
  BY <1>2, <1>3 DEF Cells
<1>5. e = [j \in 1..m_size' |-> cell'[0 + j - 1]]
  BY DEF Memory
<1>6. \A j \in 1..m_size' : e[j] = cell'[j - 1] /\ cell'[j - 1] \in Bytes
  BY <1>4, <1>5 DEF IInv, DataTypes
<1>7. e \in Seq(Bytes) /\ Len(e) = m_size'
  <2>1. e \in [1..m_size' -> Bytes]
    BY <1>4, <1>5, <1>6
  <2> HIDE DEF e
  <2> QED BY <1>3, <2>1
<1> HIDE DEF d, e
<1>8. \A i \in 1..m_position : e[i] = d[i]
  <2> SUFFICES ASSUME NEW i \in 1..m_position PROVE e[i] = d[i]
    OBVIOUS
  <2>1. i \in 1..m_size /\ i \in 1..m_size' /\ i - 1 < m_position
    BY <1>2 DEF Larger
  <2>2. cell'[i - 1] = cell[i - 1]
    BY <1>1, <1>2, <1>4, <2>1 DEF Stored
  <2> QED BY <1>2, <1>6, <2>1, <2>2
<1>9. \A i \in 1..n : e[m_position + i] = bs[i]
  <2> SUFFICES ASSUME NEW i \in 1..n PROVE e[m_position + i] = bs[i]
    OBVIOUS
  <2>1. PICK q \in 1..m_size' : q = m_position + i
    BY <1>2 DEF Larger
  <2>2. q - 1 >= m_position /\ q - 1 < m_position + n /\ q - 1 - m_position + 1 = i
    BY <1>2, <2>1
  <2>3. cell'[q - 1] = bs[i]
    BY <1>1, <1>2, <1>4, <2>1, <2>2 DEF Stored
  <2>4. e[q] = cell'[q - 1]
    BY <1>6
  <2> QED BY <2>1, <2>3, <2>4
<1>10. \A i \in (m_position + n + 1)..m_size : e[i] = d[i]
  <2> SUFFICES ASSUME NEW i \in (m_position + n + 1)..m_size PROVE e[i] = d[i]
    OBVIOUS
  <2>1. i \in 1..m_size /\ i \in 1..m_size' /\ ~(i - 1 < m_position + n)
    BY <1>2 DEF Larger
  <2>2. cell'[i - 1] = cell[i - 1]
    BY <1>1, <1>2, <1>4, <2>1 DEF Stored
  <2> QED BY <1>2, <1>6, <2>1, <2>2
<1>11. e = SubSeq(d, 1, m_position) \o bs \o SubSeq(d, m_position + n + 1, m_size)
  <2>1. Len(e) = Larger(Len(d), m_position + Len(bs))
    BY <1>1, <1>2, <1>7
  <2>2. m_position <= Len(d)
    BY <1>2
  <2>3. \A i \in 1..Len(bs) : e[m_position + i] = bs[i]
    BY <1>1, <1>9
  <2>4. \A i \in (m_position + Len(bs) + 1)..Len(d) : e[i] = d[i]
    BY <1>1, <1>2, <1>10
  <2>5. e = SubSeq(d, 1, m_position) \o bs \o SubSeq(d, m_position + Len(bs) + 1, Len(d))
    BY <1>1, <1>2, <1>7, <1>8, <2>1, <2>2, <2>3, <2>4, Overwritten, ZenonT(30)
  <2> QED BY <1>1, <1>2, <2>5
<1> QED BY <1>1, <1>2, <1>11 DEF Abstract!Put, d, e

\* A step that hands out bytes at the position and moves past them is a Take.
LEMMA TakeStep ==
  ASSUME IInv, NEW n \in Nat, m_position + n <= m_size,
         io' = Memory(m_position, n), m_position' = m_position + n,
         threw' = FALSE, UNCHANGED <<m_size, cell>>
  PROVE  Abstract!Next
<1> DEFINE d == Memory(0, m_size)
<1>1. /\ d \in Seq(Bytes) /\ Len(d) = m_size /\ m_size \in Nat /\ m_position \in Nat
      /\ m_position <= m_size /\ \A j \in 1..m_size : d[j] = cell[j - 1]
      /\ MaxNodes * m_base_size \in Nat /\ m_size <= MaxNodes * m_base_size
  BY DataIs
<1>2. m_position + n <= MaxNodes * m_base_size
  BY <1>1
<1>3. io' \in Seq(Bytes) /\ Len(io') = n
      /\ \A j \in 1..n : io'[j] = cell[m_position + j - 1]
  BY <1>1, <1>2, MemoryType
<1>5. d' = d
  BY DEF Memory
<1> HIDE DEF d
<1>4. ASSUME NEW j \in 1..n
      PROVE  io'[j] = d[m_position + j]
  <2>1. m_position + j \in 1..m_size
    BY <1>1
  <2>2. d[m_position + j] = cell[m_position + j - 1]
    BY <1>1, <2>1
  <2> QED BY <1>3, <2>2
<1>6. io' = SubSeq(d, m_position + 1, m_position + n)
  <2>1. d \in Seq(Bytes) /\ m_position \in Nat /\ m_position + n <= Len(d)
    BY <1>1
  <2> QED BY <1>3, <1>4, <2>1, PartOf, SMTT(30)
<1>7. n \in 0..(Len(d) - m_position)
  BY <1>1
<1> QED BY <1>5, <1>6, <1>7 DEF Abstract!Next, Abstract!Take, Abstract!Rest, d

\* What a step may be, in the terms of the buffer.
BufferStep == \/ [Abstract!Next]_(Abstract!vars)
              \/ m_position' > m_size /\ UNCHANGED cell

\* A step that throws or crashes.
LEMMA NoStep ==
  ASSUME Throw \/ Crash
  PROVE  BufferStep
<1>1. UNCHANGED <<Memory(0, m_size), m_position>>
  BY DEF Throw, Crash, Memory
<1>2. CASE Throw
  BY <1>1, <1>2 DEF Throw, BufferStep, Abstract!Next, Abstract!Throw
<1>3. CASE Crash
  BY <1>1, <1>3 DEF Crash, BufferStep, Abstract!vars
<1> QED BY <1>2, <1>3

\* write is a Put, also of no bytes.
LEMMA WritePuts ==
  ASSUME IInv, IInv', Aligned, NEW n \in Nat, NEW bs \in [1..n -> Values], write(bs)
  PROVE  BufferStep
<1>1. Len(bs) = n
  BY StringFacts
<1>2. io' = bs /\ threw' = FALSE
  BY DEF write
<1>3. CASE n = 0
  <2>1. UNCHANGED <<m_position, m_size, cell>>
    BY <1>1, <1>3 DEF write
  <2>2. m_position \in Nat /\ m_position + 0 = m_position /\ m_position + 0 <= m_size
    BY DEF IInv, DataTypes, InBounds
  <2>3. io' = Memory(m_position, 0)
    BY <1>2, <1>3 DEF Memory
  <2> QED BY <1>2, <2>1, <2>2, <2>3, TakeStep DEF BufferStep
<1>4. CASE n # 0
  <2>1. /\ NodesFor(n) <= MaxNodes /\ cell' = Stored(Start(CurFor(n)), bs)
        /\ m_position' = m_position + n /\ m_size' = Larger(m_size, m_position + n)
    BY <1>1, <1>4 DEF write, addCapacity
  <2>2. Start(CurFor(n)) = m_position
    BY <2>1, RoomFor
  <2>3. Abstract!Put
    BY <1>2, <2>1, <2>2, PutStep
  <2> QED BY <2>3 DEF BufferStep, Abstract!Next
<1> QED BY <1>3, <1>4

\* read is a Take, or throws.
LEMMA ReadTakes ==
  ASSUME IInv, Aligned, NEW n \in Nat, read(n)
  PROVE  BufferStep
<1>1. CASE n > getReadSize /\ Throw
  BY <1>1, NoStep
<1>2. CASE n <= getReadSize /\ m_cur = nodes /\ Crash
  BY <1>2, NoStep
<1>3. CASE /\ n <= getReadSize /\ io' = Memory(Start(m_cur), n)
           /\ m_position' = m_position + n /\ threw' = FALSE
           /\ UNCHANGED <<m_size, nodes, cell, crashed>>
  <2>1. Start(m_cur) = m_position /\ m_position + n <= m_size
    BY <1>3, Within DEF IInv, DataTypes, getReadSize
  <2> QED BY <1>3, <2>1, TakeStep DEF BufferStep
<1> QED BY <1>1, <1>2, <1>3, Zenon DEF read

\* toString is a Show.
LEMMA ToStringShows ==
  ASSUME IInv, toString
  PROVE  BufferStep
<1>1. CASE Crash
  BY <1>1, NoStep
<1>2. CASE ~Crash
  <2> DEFINE d == Memory(0, m_size)
             r == getReadSize
  <2>1. /\ io' = Memory(m_position, r) /\ threw' = FALSE
        /\ UNCHANGED <<m_position, m_size, cell>>
    BY <1>2 DEF toString
  <2>2. /\ d \in Seq(Bytes) /\ Len(d) = m_size /\ m_size \in Nat /\ m_position \in Nat
        /\ m_position <= m_size /\ \A j \in 1..m_size : d[j] = cell[j - 1]
        /\ MaxNodes * m_base_size \in Nat /\ m_size <= MaxNodes * m_base_size
    BY DataIs
  <2>3. r \in Nat /\ m_position + r = m_size
    BY <2>2 DEF getReadSize
  <2>4. d' = d
    BY <2>1 DEF Memory
  <2> HIDE DEF d, r
  <2>5. io' \in Seq(Bytes) /\ Len(io') = r
        /\ \A j \in 1..r : io'[j] = cell[m_position + j - 1]
    BY <2>1, <2>2, <2>3, MemoryType
  <2>6. ASSUME NEW j \in 1..r
        PROVE  io'[j] = d[m_position + j]
    <3>1. m_position + j \in 1..m_size
      BY <2>2, <2>3
    <3>2. d[m_position + j] = cell[m_position + j - 1]
      BY <2>2, <3>1
    <3> QED BY <2>5, <3>2
  <2>7. io' = SubSeq(d, m_position + 1, m_position + r)
    <3>1. d \in Seq(Bytes) /\ m_position \in Nat /\ m_position + r <= Len(d)
      BY <2>2, <2>3
    <3> QED BY <2>3, <2>5, <2>6, <3>1, PartOf, Zenon
  <2>8. Abstract!Show
    BY <2>1, <2>2, <2>3, <2>4, <2>7 DEF Abstract!Show, d
  <2> QED BY <2>8 DEF BufferStep, Abstract!Next
<1> QED BY <1>1, <1>2

\* setPosition is a Move within the data.
LEMMA SetPositionMoves ==
  ASSUME IInv, NEW p \in Nat, setPosition(p)
  PROVE  BufferStep
<1>1. /\ m_size \in Nat /\ m_position \in Nat /\ m_position <= m_size
      /\ Len(Memory(0, m_size)) = m_size
  BY DataIs
<1>2. SetPosition(p, nodes) /\ io' = <<>> /\ UNCHANGED cell
  BY DEF setPosition
<1>3. CASE p > nodes * m_base_size
  <2>1. threw' = TRUE /\ UNCHANGED <<m_position, m_size>>
    BY <1>2, <1>3 DEF SetPosition
  <2>2. UNCHANGED Memory(0, m_size)
    BY <1>2, <2>1 DEF Memory
  <2> QED BY <1>2, <2>1, <2>2 DEF BufferStep, Abstract!Next, Abstract!Throw
<1>4. CASE ~(p > nodes * m_base_size)
  <2>1. m_position' = p /\ m_size' = Larger(m_size, p) /\ threw' = FALSE
    BY <1>2, <1>4 DEF SetPosition
  <2>2. CASE p > m_size
    BY <1>2, <2>1, <2>2 DEF BufferStep
  <2>3. CASE p <= m_size
    <3>1. m_size' = m_size
      BY <1>1, <2>1, <2>3 DEF Larger
    <3>2. UNCHANGED Memory(0, m_size)
      BY <1>2, <3>1 DEF Memory
    <3>3. p \in 0..Len(Memory(0, m_size))
      BY <1>1, <2>3
    <3> QED BY <1>2, <2>1, <3>2, <3>3 DEF BufferStep, Abstract!Next, Abstract!Move
  <2> QED BY <1>1, <2>2, <2>3
<1> QED BY <1>3, <1>4

\* clear is a Clear.
LEMMA ClearClears ==
  ASSUME clear
  PROVE  BufferStep
<1>1. m_position' = 0 /\ m_size' = 0 /\ io' = <<>> /\ threw' = FALSE
  BY DEF clear
<1>2. Memory(0, m_size)' = <<>>
  BY <1>1 DEF Memory
<1> QED BY <1>1, <1>2 DEF BufferStep, Abstract!Next, Abstract!Clear

\* SocketStream::read puts what the socket gave, all of it within the nodes.
LEMMA StreamReadPuts ==
  ASSUME IInv, IInv', Aligned, NEW len \in Nat \ {0}, streamRead(len)
  PROVE  BufferStep
<1>1. CASE ~Fits(len)
  BY <1>1, NoStep DEF streamRead
<1>2. CASE Fits(len)
  <2>1. PICK k \in 1..Gathered(len) : \E bs \in [1..k -> Values] :
          /\ NodesFor(len) <= MaxNodes
          /\ cell' = Stored(Start(CurFor(len)), bs)
          /\ SetPosition(m_position + k, NodesFor(len)) /\ io' = bs
    BY <1>2 DEF streamRead, addCapacity
  <2>2. PICK bs \in [1..k -> Values] :
          /\ NodesFor(len) <= MaxNodes
          /\ cell' = Stored(Start(CurFor(len)), bs)
          /\ SetPosition(m_position + k, NodesFor(len)) /\ io' = bs
    BY <2>1
  <2>3. /\ m_position + len <= NodesFor(len) * m_base_size
        /\ NodesFor(len) \in Nat /\ NodesFor(len) * m_base_size \in Nat
        /\ Start(CurFor(len)) = m_position
    BY <2>2, RoomFor, ByteArrayAssumption
  <2>4. Gathered(len) \in Nat /\ m_position + Gathered(len) <= NodesFor(len) * m_base_size
    BY <1>2, <2>3, GatheredFits
  <2>5. k \in Nat /\ m_position \in Nat
    BY <2>4 DEF IInv, DataTypes
  <2>6. ~(m_position + k > NodesFor(len) * m_base_size)
    BY <2>3, <2>4, <2>5
  <2>7. m_position' = m_position + k /\ m_size' = Larger(m_size, m_position + k)
        /\ threw' = FALSE
    BY <2>2, <2>6 DEF SetPosition
  <2>8. Abstract!Put
    BY <2>2, <2>3, <2>5, <2>7, PutStep
  <2> QED BY <2>8 DEF BufferStep, Abstract!Next
<1> QED BY <1>1, <1>2

\* SocketStream::write takes what the socket took, or moves beyond the data.
LEMMA StreamWriteTakes ==
  ASSUME IInv, Aligned, NEW asked \in Nat, streamWrite(asked)
  PROVE  BufferStep
<1> DEFINE len == IF asked > getReadSize THEN getReadSize ELSE asked
<1>1. /\ getReadSize \in Nat /\ m_position \in Nat /\ m_size \in Nat
      /\ m_capacity \in Nat /\ Start(m_cur) = m_position /\ nodes \in Nat
  BY Within DEF IInv, DataTypes
<1>2. len \in Nat \ {0} /\ len <= getReadSize
  BY <1>1 DEF streamWrite
<1>3. m_position + len <= nodes * m_base_size /\ nodes * m_base_size \in Nat
  BY <1>1, <1>2 DEF IInv, InBounds, getReadSize, m_capacity
<1>4. IF ~Fits(len) THEN Crash
      ELSE \E k \in 1..Gathered(len) :
             /\ io' = Memory(Start(m_cur), k)
             /\ SetPosition(m_position + k, nodes)
             /\ UNCHANGED <<nodes, cell, crashed>>
  BY DEF streamWrite
<1> HIDE DEF len
<1>5. CASE ~Fits(len)
  BY <1>4, <1>5, NoStep
<1>6. CASE Fits(len)
  <2>1. PICK k \in 1..Gathered(len) :
          /\ io' = Memory(Start(m_cur), k)
          /\ SetPosition(m_position + k, nodes) /\ UNCHANGED cell
    BY <1>4, <1>6
  <2>2. Gathered(len) \in Nat /\ m_position + Gathered(len) <= nodes * m_base_size
    BY <1>1, <1>2, <1>3, <1>6, GatheredFits
  <2>3. k \in Nat /\ ~(m_position + k > nodes * m_base_size)
    BY <1>1, <1>3, <2>2
  <2>4. m_position' = m_position + k /\ m_size' = Larger(m_size, m_position + k)
        /\ threw' = FALSE
    BY <2>1, <2>3 DEF SetPosition
  <2>5. CASE m_position + k > m_size
    BY <2>1, <2>4, <2>5 DEF BufferStep
  <2>6. CASE m_position + k <= m_size
    <3>1. m_size' = m_size
      BY <1>1, <2>3, <2>4, <2>6 DEF Larger
    <3> QED BY <1>1, <2>1, <2>3, <2>4, <2>6, <3>1, TakeStep DEF BufferStep
  <2> QED BY <1>1, <2>3, <2>5, <2>6
<1> QED BY <1>5, <1>6

\* Every step of an array whose current node is the node of its position is
\* a step of the buffer.
LEMMA StepsAreBufferSteps == IInv /\ IInv' /\ [Next]_vars => (Aligned => BufferStep)
<1> SUFFICES ASSUME IInv, IInv', [Next]_vars, Aligned PROVE BufferStep
  OBVIOUS
<1>1. CASE UNCHANGED vars
  BY <1>1 DEF vars, BufferStep, Abstract!vars, Memory
<1>2. CASE \E bs \in Strings : write(bs)
  <2>1. PICK bs \in Strings : write(bs)
    BY <1>2
  <2>2. PICK n \in 0..MaxOp : bs \in [1..n -> Values]
    BY DEF Strings
  <2> QED BY <2>1, <2>2, WritePuts, ByteArrayAssumption
<1>3. CASE \E n \in 0..MaxOp : read(n)
  BY <1>3, ReadTakes, ByteArrayAssumption
<1>4. CASE toString
  BY <1>4, ToStringShows
<1>5. CASE \E p \in 0..(MaxNodes * m_base_size) : setPosition(p)
  <2>1. MaxNodes * m_base_size \in Nat
    BY DataIs
  <2> QED BY <1>5, <2>1, SetPositionMoves
<1>6. CASE clear
  BY <1>6, ClearClears
<1>7. CASE \E n \in 1..MaxOp : streamRead(n)
  BY <1>7, StreamReadPuts, ByteArrayAssumption
<1>8. CASE \E n \in 1..MaxOp : streamWrite(n)
  BY <1>8, StreamWriteTakes, ByteArrayAssumption
<1> QED BY <1>1, <1>2, <1>3, <1>4, <1>5, <1>6, <1>7, <1>8 DEF Next

\* As long as m_cur is the node of the position, an operation of the array
\* does what it does on a plain buffer, whatever the node size and over any
\* number of nodes.
THEOREM ActsAsBuffer == Spec => ImplementsByteBuffer
<1>1. Init => Abstract!Init
  BY DEF Init, Abstract!Init, Memory
<1>2. Init => IInv
  BY InitIInv
<1>3. IInv /\ [Next]_vars => IInv'
  BY IInvStep
<1>4. IInv /\ IInv' /\ [Next]_vars
        => [Aligned => \/ [Abstract!Next]_(Abstract!vars)
                       \/ m_position' > m_size /\ UNCHANGED cell]_vars
  BY StepsAreBufferSteps DEF BufferStep
<1> QED BY <1>1, <1>2, <1>3, <1>4, PTL DEF Spec, ImplementsByteBuffer
(***************************************************************************)
(* Signed integers of variable length (writeInt32, readInt64, ...): what   *)
(* EncodeZigzag and DecodeZigzag do to a value of any width.  TLC          *)
(* enumerates the values of narrow types, this is about 32 and 64 bits     *)
(* too.  Of the modulus, 2 to the number of bits, it uses that it is even. *)
(***************************************************************************)
\* A signed integer survives the cast to an unsigned one of its width and
\* back (writeFint, readFint).
LEMMA CastRoundTrip ==
  ASSUME NEW w, NEW h \in Nat \ {0}, Modulus(w) = 2 * h, NEW v \in Signed(w)
  PROVE  AsUnsigned(w, v) \in Unsigned(w) /\ AsSigned(w, AsUnsigned(w, v)) = v
<1> DEFINE M == Modulus(w)
<1>1. M = 2 * h /\ M \div 2 = h /\ v \in Int /\ -h <= v /\ v < h
  BY DEF Signed
<1> HIDE DEF M
<1>2. (v % M) = IF v < 0 THEN v + M ELSE v
  BY <1>1
<1> QED BY <1>1, <1>2 DEF AsSigned, AsUnsigned, Unsigned, Signed, M

\* DecodeZigzag takes back what EncodeZigzag made of a signed integer, the
\* smallest one included, whose negation overflows on the way; and what is
\* made of it is an unsigned integer of the same width, nothing cut off.
THEOREM ZigzagRoundTrip ==
  ASSUME NEW w, NEW h \in Nat \ {0}, Modulus(w) = 2 * h, NEW v \in Signed(w)
  PROVE  /\ EncodeZigzag(w, v) \in Unsigned(w)
         /\ DecodeZigzag(w, EncodeZigzag(w, v)) = v
<1> DEFINE M == Modulus(w)
<1>1. M = 2 * h /\ M \div 2 = h /\ v \in Int /\ -h <= v /\ v < h
  BY DEF Signed
<1> HIDE DEF M
<1>2. CASE v >= 0
  <2>1. (v * 2) % M = 2 * v
    BY <1>1, <1>2
  <2>2. EncodeZigzag(w, v) = 2 * v
    BY <1>1, <1>2, <2>1 DEF EncodeZigzag, AsUnsigned, M
  <2>3. ((2 * v) % 2) = 0 /\ (2 * v) \div 2 = v
    BY <1>1, <1>2
  <2> QED BY <1>1, <1>2, <2>2, <2>3 DEF DecodeZigzag, AsSigned, Unsigned, Signed, M
<1>3. CASE v < 0
  <2>1. ((-v) % M) = -v
    BY <1>1, <1>3
  <2>2. (((-v) * 2 - 1) % M) = -2 * v - 1
    BY <1>1, <1>3
  <2>3. EncodeZigzag(w, v) = -2 * v - 1
    BY <1>1, <1>3, <2>1, <2>2 DEF EncodeZigzag, AsUnsigned, M
  <2>4. ((-2 * v - 1) % 2) = 1 /\ (-2 * v - 1) \div 2 = -v - 1
    BY <1>1, <1>3
  <2> QED BY <1>1, <1>3, <2>3, <2>4 DEF DecodeZigzag, AsSigned, Unsigned, Signed, M
<1> QED BY <1>1, <1>2, <1>3
=============================================================================
