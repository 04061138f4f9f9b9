----------------------------- MODULE PipeProofs -----------------------------
(***************************************************************************)
(* The ring buffer of a pipe, for every size and every set of bytes: its   *)
(* positions always describe one stretch of the ring, and the ring is a    *)
(* bounded first-in first-out channel.  And the pool behind the descriptor *)
(* tables, for every number of processes, descriptors and pipes: its       *)
(* counts go with the descriptors that are open.                           *)
(***************************************************************************)
EXTENDS PipeRing, Descriptors, Induction

-----------------------------------------------------------------------------
(* Positions.                                                              *)

\* A position below the size is itself.
LEMMA ModSmall ==
  ASSUME NEW a \in 0 .. BufferSize - 1
  PROVE  a % BufferSize = a
  BY BufferAssumption

\* A position that went round once.
LEMMA ModOnce ==
  ASSUME NEW a \in BufferSize .. 2 * BufferSize - 1
  PROVE  a % BufferSize = a - BufferSize
  BY BufferAssumption

\* A distance to a position behind.
LEMMA ModBelow ==
  ASSUME NEW a \in - BufferSize .. - 1
  PROVE  a % BufferSize = a + BufferSize
  BY BufferAssumption

\* The slot i steps behind slot a: one wrap at most.
LEMMA Stepped ==
  ASSUME NEW a \in Slots, NEW i \in 0 .. BufferSize
  PROVE  /\ (a + i) % BufferSize = IF a + i < BufferSize THEN a + i ELSE a + i - BufferSize
         /\ (a + i) % BufferSize \in Slots
  <1>1. CASE a + i < BufferSize
    BY <1>1, ModSmall, BufferAssumption DEF Slots
  <1>2. CASE ~(a + i < BufferSize)
    BY <1>2, ModOnce, BufferAssumption DEF Slots
  <1>3. QED BY <1>1, <1>2

\* The distance from slot a to slot k, going forward.
LEMMA Distance ==
  ASSUME NEW a \in Slots, NEW k \in Slots
  PROVE  /\ (k - a) % BufferSize = IF a <= k THEN k - a ELSE k - a + BufferSize
         /\ (k - a) % BufferSize \in Slots
  <1>1. CASE a <= k
    BY <1>1, ModSmall, BufferAssumption DEF Slots
  <1>2. CASE ~(a <= k)
    BY <1>2, ModBelow, BufferAssumption DEF Slots
  <1>3. QED BY <1>1, <1>2

\* Two moves by c and n are one by their sum.
LEMMA SteppedTwice ==
  ASSUME NEW a \in Slots, NEW c \in 0 .. BufferSize, NEW n \in 0 .. BufferSize,
         c + n <= BufferSize
  PROVE  (((a + c) % BufferSize) + n) % BufferSize = (a + (c + n)) % BufferSize
  <1> DEFINE x == (a + c) % BufferSize
             y == (x + n) % BufferSize
             z == (a + (c + n)) % BufferSize
  <1>1. BufferSize \in Nat \ {0} /\ c + n \in 0 .. BufferSize
    BY BufferAssumption
  <1>2. x = (IF a + c < BufferSize THEN a + c ELSE a + c - BufferSize) /\ x \in Slots
    BY Stepped
  <1>3. z = IF a + (c + n) < BufferSize THEN a + (c + n) ELSE a + (c + n) - BufferSize
    BY <1>1, Stepped
  <1> HIDE DEF x
  <1>4. y = IF x + n < BufferSize THEN x + n ELSE x + n - BufferSize
    BY <1>2, Stepped
  <1> HIDE DEF y, z
  <1>5. y = z
    BY <1>1, <1>2, <1>3, <1>4 DEF Slots
  <1>6. QED BY <1>5 DEF x, y, z

\* Seen from the write position the slots follow in the order of their age:
\* first the free ones, c places behind the read position, then the used ones.
LEMMA AgeOrder ==
  ASSUME NEW r \in Slots, NEW c \in 0 .. BufferSize, NEW i \in 1 .. BufferSize
  PROVE  (((r + i - 1) % BufferSize) - ((r + c) % BufferSize)) % BufferSize
            = IF i > c THEN i - c - 1 ELSE BufferSize + i - c - 1
  <1> DEFINE s == (r + i - 1) % BufferSize
             w == (r + c) % BufferSize
  <1>0. BufferSize \in Nat \ {0} /\ i - 1 \in 0 .. BufferSize
    BY BufferAssumption
  <1>1. /\ s = IF r + i - 1 < BufferSize THEN r + i - 1 ELSE r + i - 1 - BufferSize
        /\ s \in Slots
    BY <1>0, Stepped, r + (i - 1) = r + i - 1, Zenon DEF Slots
  <1>2. /\ w = IF r + c < BufferSize THEN r + c ELSE r + c - BufferSize
        /\ w \in Slots
    BY <1>0, Stepped
  <1>3. (s - w) % BufferSize = IF w <= s THEN s - w ELSE s - w + BufferSize
    BY <1>1, <1>2, Distance
  <1> HIDE DEF s, w
  <1>4. (s - w) % BufferSize = IF i > c THEN i - c - 1 ELSE BufferSize + i - c - 1
    BY <1>0, <1>1, <1>2, <1>3 DEF Slots
  <1>5. QED BY <1>4 DEF s, w

-----------------------------------------------------------------------------
(* One write, one read.                                                    *)

\* The inductive invariant as a property of one ring.
RingOK(p) ==
    /\ p \in PipeType
    /\ (p.read_pos + p.count) % BufferSize = p.write_pos

\* Two sequences of one length with equal elements are equal.
LEMMA SeqEqual ==
  ASSUME NEW S, NEW s \in Seq(S), NEW t \in Seq(S), Len(s) = Len(t),
         \A i \in 1 .. Len(s) : s[i] = t[i]
  PROVE  s = t
  OBVIOUS

\* The type, the length and the elements of a concatenation.
LEMMA Concatenated ==
  ASSUME NEW S, NEW s \in Seq(S), NEW t \in Seq(S)
  PROVE  /\ s \o t \in Seq(S)
         /\ Len(s \o t) = Len(s) + Len(t)
         /\ \A i \in 1 .. Len(s) + Len(t) :
               (s \o t)[i] = IF i <= Len(s) THEN s[i] ELSE t[i - Len(s)]
  OBVIOUS

\* The data of a write is a sequence.
LEMMA DataIsSequence ==
  ASSUME NEW data \in Data
  PROVE  data \in Seq(Bytes) /\ Len(data) \in 1 .. BufferSize
  BY BufferAssumption DEF Data

\* Contents is a sequence as long as the count says.
LEMMA ContentsLength ==
  ASSUME NEW p, RingOK(p)
  PROVE  /\ Contents(p) \in Seq(Bytes) /\ Len(Contents(p)) = p.count
         /\ \A i \in 1 .. p.count :
                Contents(p)[i] = p.buffer[(p.read_pos + i - 1) % BufferSize]
  <1>1. /\ p.count \in 0 .. BufferSize /\ p.read_pos \in Slots
        /\ p.buffer \in [Slots -> Bytes] /\ BufferSize \in Nat \ {0}
    BY BufferAssumption DEF RingOK, PipeType
  <1>2. Contents(p) = [i \in 1 .. p.count |-> p.buffer[(p.read_pos + i - 1) % BufferSize]]
    BY <1>1 DEF Contents, ReadBytes, AtMost
  <1>3. ASSUME NEW i \in 1 .. p.count
        PROVE  p.buffer[(p.read_pos + i - 1) % BufferSize] \in Bytes
    <2>1. i - 1 \in 0 .. BufferSize /\ p.read_pos + (i - 1) = p.read_pos + i - 1
      BY <1>1 DEF Slots
    <2>2. (p.read_pos + i - 1) % BufferSize \in Slots
      BY <2>1, <1>1, Stepped, Zenon
    <2>3. QED BY <2>2, <1>1
  <1>4. Contents(p) \in [1 .. p.count -> Bytes]
    BY <1>2, <1>3
  <1>5. Contents(p) \in Seq(Bytes) /\ Len(Contents(p)) = p.count
    BY <1>1, <1>4
  <1>6. \A i \in 1 .. p.count :
           Contents(p)[i] = p.buffer[(p.read_pos + i - 1) % BufferSize]
    BY <1>2, Zenon
  <1>7. QED BY <1>5, <1>6

\* A write leaves a ring in order and appends the longest prefix of its data
\* that fits (Pipe::write).
LEMMA WriteAppends ==
  ASSUME NEW p, RingOK(p), NEW data \in Data
  PROVE  /\ RingOK(Write(p, data))
         /\ Contents(Write(p, data))
              = Contents(p) \o SubSeq(data, 1, AtMost(Len(data), BufferSize - p.count))
  <1> DEFINE n == AtMost(Len(data), BufferSize - p.count)
             q == Write(p, data)
  <1>1. /\ p \in PipeType /\ BufferSize \in Nat \ {0}
        /\ p.count \in 0 .. BufferSize /\ p.read_pos \in Slots /\ p.write_pos \in Slots
        /\ p.buffer \in [Slots -> Bytes]
        /\ p.write_pos = (p.read_pos + p.count) % BufferSize
    BY BufferAssumption DEF RingOK, PipeType
  <1>2. data \in Seq(Bytes) /\ Len(data) \in 1 .. BufferSize
    BY DataIsSequence, Zenon
  <1>3. n \in 0 .. BufferSize /\ n <= Len(data) /\ p.count + n \in 0 .. BufferSize
    BY <1>1, <1>2 DEF AtMost
  <1>4. q = [p EXCEPT !.buffer = Filled(p, data, n),
                      !.write_pos = (@ + n) % BufferSize,
                      !.count = @ + n]
    BY DEF Write
  <1> HIDE DEF n
  <1>5. /\ Filled(p, data, n) \in [Slots -> Bytes]
        /\ \A k \in Slots : Filled(p, data, n)[k] =
               IF (k - p.write_pos) % BufferSize < n
               THEN data[((k - p.write_pos) % BufferSize) + 1] ELSE p.buffer[k]
    <2>1. ASSUME NEW k \in Slots
          PROVE  (IF (k - p.write_pos) % BufferSize < n
                  THEN data[((k - p.write_pos) % BufferSize) + 1] ELSE p.buffer[k]) \in Bytes
      <3>1. (k - p.write_pos) % BufferSize \in Slots
        BY <1>1, Distance
      <3>2. CASE (k - p.write_pos) % BufferSize < n
        <4> DEFINE d == (k - p.write_pos) % BufferSize
        <4>0. d \in Slots /\ d < n
          BY <3>1, <3>2
        <4> HIDE DEF d
        <4>1. d + 1 \in 1 .. Len(data)
          BY <1>1, <1>2, <1>3, <4>0 DEF Slots
        <4>2. QED BY <1>2, <3>2, <4>1 DEF d
      <3>3. CASE ~((k - p.write_pos) % BufferSize < n)
        BY <1>1, <3>3
      <3>4. QED BY <3>2, <3>3
    <2>2. QED BY <2>1 DEF Filled
  <1>6. /\ (p.write_pos + n) % BufferSize \in Slots
        /\ (p.read_pos + (p.count + n)) % BufferSize = (p.write_pos + n) % BufferSize
    BY <1>1, <1>3, Stepped, SteppedTwice
  <1>7. /\ q \in PipeType
        /\ q.buffer = Filled(p, data, n) /\ q.read_pos = p.read_pos
        /\ q.count = p.count + n /\ q.write_pos = (p.write_pos + n) % BufferSize
    BY <1>1, <1>3, <1>4, <1>5, <1>6, Zenon DEF PipeType
  <1> HIDE DEF q
  <1>8. RingOK(q)
    BY <1>6, <1>7 DEF RingOK
  <1>9. Contents(q) = Contents(p) \o SubSeq(data, 1, n)
    <2>1. /\ Contents(p) \in Seq(Bytes) /\ Len(Contents(p)) = p.count
          /\ \A i \in 1 .. p.count :
                Contents(p)[i] = p.buffer[(p.read_pos + i - 1) % BufferSize]
      BY ContentsLength
    <2>2. /\ Contents(q) \in Seq(Bytes) /\ Len(Contents(q)) = p.count + n
          /\ \A i \in 1 .. p.count + n :
                Contents(q)[i] = Filled(p, data, n)[(p.read_pos + i - 1) % BufferSize]
      BY <1>7, <1>8, ContentsLength
    <2> DEFINE old == Contents(p)
               new == SubSeq(data, 1, n)
    <2>3. /\ new \in Seq(Bytes) /\ Len(new) = n
          /\ \A i \in 1 .. n : new[i] = data[i]
      BY <1>2, <1>3
    <2>4. ASSUME NEW i \in 1 .. p.count + n
          PROVE  Contents(q)[i] = IF i <= p.count THEN Contents(p)[i] ELSE data[i - p.count]
      <3> DEFINE k == (p.read_pos + i - 1) % BufferSize
      <3>1. i \in 1 .. BufferSize /\ i - 1 \in 0 .. BufferSize
            /\ p.read_pos + (i - 1) = p.read_pos + i - 1
        BY <1>1, <1>3, SMTT(30) DEF Slots
      <3>2. k \in Slots
        BY <1>1, <3>1, Stepped
      <3>3. (k - p.write_pos) % BufferSize
               = IF i > p.count THEN i - p.count - 1 ELSE BufferSize + i - p.count - 1
        BY <1>1, <3>1, AgeOrder
      <3> HIDE DEF k
      <3>4. Contents(q)[i] = IF (k - p.write_pos) % BufferSize < n
                             THEN data[((k - p.write_pos) % BufferSize) + 1] ELSE p.buffer[k]
        BY <1>5, <2>2, <3>2, Zenon DEF k
      <3>5. CASE i <= p.count
        <4>1. ~((k - p.write_pos) % BufferSize < n)
          BY <1>1, <1>3, <3>1, <3>3, <3>5, SMTT(30)
        <4>2. i \in 1 .. p.count
          BY <1>1, <3>1, <3>5
        <4>3. QED BY <2>1, <3>4, <3>5, <4>1, <4>2, Zenon DEF k
      <3>6. CASE ~(i <= p.count)
        <4>1. /\ (k - p.write_pos) % BufferSize < n
              /\ ((k - p.write_pos) % BufferSize) + 1 = i - p.count
          BY <1>1, <1>3, <3>1, <3>3, <3>6
        <4>2. QED BY <3>4, <3>6, <4>1, Zenon
      <3>7. QED BY <3>5, <3>6
    <2>5. /\ old \in Seq(Bytes) /\ new \in Seq(Bytes)
          /\ Len(old) = p.count /\ Len(new) = n
      BY <2>1, <2>3
    <2> HIDE DEF old, new
    <2>6. /\ old \o new \in Seq(Bytes) /\ Len(old \o new) = p.count + n
          /\ \A i \in 1 .. p.count + n :
                (old \o new)[i] = IF i <= p.count THEN old[i] ELSE new[i - p.count]
      <3>1. /\ old \o new \in Seq(Bytes) /\ Len(old \o new) = Len(old) + Len(new)
            /\ \A i \in 1 .. Len(old) + Len(new) :
                  (old \o new)[i] = IF i <= Len(old) THEN old[i] ELSE new[i - Len(old)]
        BY <2>5, Concatenated, Zenon
      <3>2. QED BY <2>5, <3>1, Zenon
    <2>7. ASSUME NEW i \in 1 .. p.count + n
          PROVE  Contents(q)[i] = (old \o new)[i]
      <3>1. ~(i <= p.count) => i - p.count \in 1 .. n
        BY <1>1, <1>3
      <3>2. (old \o new)[i] = IF i <= p.count THEN old[i] ELSE data[i - p.count]
        BY <2>3, <2>6, <3>1, Zenon
      <3>3. QED BY <2>4, <3>2 DEF old
    <2>8. Contents(q) = old \o new
      BY <2>2, <2>6, <2>7, SeqEqual, Zenon
    <2>9. QED BY <2>8 DEF old, new
  <1>10. QED BY <1>8, <1>9, Zenon DEF n, q

\* A read leaves a ring in order and takes what it returns off the front: at
\* least one byte of a pipe that is not empty (Pipe::read).
LEMMA ReadTakes ==
  ASSUME NEW p, RingOK(p), NEW m \in 1 .. BufferSize
  PROVE  /\ RingOK(Read(p, m))
         /\ Contents(p) = ReadBytes(p, m) \o Contents(Read(p, m))
         /\ p.count > 0 => ReadBytes(p, m) # <<>>
  <1> DEFINE n == AtMost(m, p.count)
             q == Read(p, m)
             got == ReadBytes(p, m)
  <1>1. /\ p \in PipeType /\ BufferSize \in Nat \ {0}
        /\ p.count \in 0 .. BufferSize /\ p.read_pos \in Slots /\ p.write_pos \in Slots
        /\ p.write_pos = (p.read_pos + p.count) % BufferSize
    BY BufferAssumption DEF RingOK, PipeType
  <1>2. /\ n \in 0 .. BufferSize /\ n <= p.count /\ p.count - n \in 0 .. BufferSize
        /\ p.count > 0 => n > 0
    BY <1>1 DEF AtMost
  <1>3. q = [p EXCEPT !.read_pos = (@ + n) % BufferSize, !.count = @ - n]
    BY DEF Read
  <1>4. got = [i \in 1 .. n |-> p.buffer[(p.read_pos + i - 1) % BufferSize]]
    BY DEF ReadBytes
  <1> HIDE DEF n, q, got
  <1>5. /\ (p.read_pos + n) % BufferSize \in Slots
        /\ (((p.read_pos + n) % BufferSize) + (p.count - n)) % BufferSize = p.write_pos
    <2>1. n + (p.count - n) = p.count
      BY <1>1, <1>2
    <2>2. QED BY <1>1, <1>2, <2>1, Stepped, SteppedTwice
  <1>6. /\ q \in PipeType
        /\ q.buffer = p.buffer /\ q.read_pos = (p.read_pos + n) % BufferSize
        /\ q.count = p.count - n /\ q.write_pos = p.write_pos
    BY <1>1, <1>2, <1>3, <1>5, Zenon DEF PipeType
  <1>7. RingOK(q)
    BY <1>5, <1>6 DEF RingOK
  <1>8. /\ Contents(p) \in Seq(Bytes) /\ Len(Contents(p)) = p.count
        /\ \A i \in 1 .. p.count :
              Contents(p)[i] = p.buffer[(p.read_pos + i - 1) % BufferSize]
    BY ContentsLength
  <1>9. /\ Contents(q) \in Seq(Bytes) /\ Len(Contents(q)) = p.count - n
        /\ \A i \in 1 .. p.count - n :
              Contents(q)[i] = p.buffer[(((p.read_pos + n) % BufferSize) + i - 1) % BufferSize]
    BY <1>6, <1>7, ContentsLength
  <1>10. /\ got \in Seq(Bytes) /\ Len(got) = n
         /\ \A i \in 1 .. n : got[i] = Contents(p)[i]
    <2>1. \A i \in 1 .. n : i \in 1 .. p.count
      BY <1>1, <1>2
    <2>2. \A i \in 1 .. n : got[i] = Contents(p)[i]
      BY <1>4, <1>8, <2>1
    <2>3. \A i \in 1 .. n : Contents(p)[i] \in Bytes
      BY <1>8, <2>1
    <2>4. got \in [1 .. n -> Bytes]
      BY <1>4, <2>2, <2>3, Zenon
    <2>5. QED BY <1>2, <2>2, <2>4
  <1>11. ASSUME NEW i \in 1 .. p.count, ~(i <= n)
         PROVE  Contents(p)[i] = Contents(q)[i - n]
    <2> DEFINE j == i - n
    <2>1. /\ j \in 1 .. p.count - n /\ j - 1 \in 0 .. BufferSize /\ n + (j - 1) <= BufferSize
          /\ n + (j - 1) = i - 1
      BY <1>1, <1>2, <1>11
    <2>2. p.read_pos + (n + (j - 1)) = p.read_pos + i - 1
      BY <1>1, <2>1 DEF Slots
    <2> HIDE DEF j
    <2>3. (((p.read_pos + n) % BufferSize) + (j - 1)) % BufferSize
             = (p.read_pos + i - 1) % BufferSize
      BY <1>1, <1>2, <2>1, <2>2, SteppedTwice
    <2>4. ((p.read_pos + n) % BufferSize) + (j - 1) = ((p.read_pos + n) % BufferSize) + j - 1
      <3> DEFINE x == (p.read_pos + n) % BufferSize
      <3>1. x \in Slots
        BY <1>5
      <3> HIDE DEF x
      <3>2. x + (j - 1) = x + j - 1
        BY <1>1, <1>2, <2>1, <3>1, Zenon DEF Slots
      <3>3. QED BY <3>2 DEF x
    <2>5. Contents(q)[j] = p.buffer[(p.read_pos + i - 1) % BufferSize]
      BY <1>9, <2>1, <2>3, <2>4, Zenon
    <2>6. QED BY <1>8, <2>5 DEF j
  <1>12. Contents(p) = got \o Contents(q)
    <2>0. /\ got \o Contents(q) \in Seq(Bytes)
          /\ Len(got \o Contents(q)) = Len(got) + Len(Contents(q))
      BY <1>9, <1>10, Concatenated, Zenon
    <2>1. Len(got \o Contents(q)) = p.count
      BY <1>1, <1>2, <1>9, <1>10, <2>0, SMTT(30)
    <2>2. ASSUME NEW i \in 1 .. p.count
          PROVE  (got \o Contents(q))[i] = IF i <= n THEN got[i] ELSE Contents(q)[i - n]
      <3>1. Len(got) + Len(Contents(q)) = p.count
        BY <2>0, <2>1
      <3>2. QED BY <1>9, <1>10, <3>1, Concatenated, SMTT(30)
    <2>3. ASSUME NEW i \in 1 .. p.count
          PROVE  Contents(p)[i] = (got \o Contents(q))[i]
      <3>1. CASE i <= n
        <4>1. i \in 1 .. n
          BY <1>1, <1>2, <3>1
        <4>2. QED BY <1>10, <2>2, <3>1, <4>1
      <3>2. CASE ~(i <= n)
        BY <1>11, <2>2, <3>2, Zenon
      <3>3. QED BY <3>1, <3>2, Zenon
    <2>4. QED BY <1>8, <2>0, <2>1, <2>3, SeqEqual, Zenon
  <1>13. p.count > 0 => got # <<>>
    BY <1>1, <1>2, <1>10
  <1>14. QED BY <1>7, <1>12, <1>13 DEF q, got

-----------------------------------------------------------------------------
(* The slot of the pool.                                                   *)

\* The counts of open ends play no part in the ring.
LEMMA EndsApart ==
  ASSUME NEW p, RingOK(p),
         NEW q \in {OpenRead(p), OpenWrite(p), CloseRead(p), CloseWrite(p), Allocate(p)}
  PROVE  RingOK(q) /\ Contents(q) = Contents(p)
  <1>1. /\ q \in PipeType
        /\ q.buffer = p.buffer /\ q.count = p.count
        /\ q.read_pos = p.read_pos /\ q.write_pos = p.write_pos
    <2>1. p \in PipeType /\ p.readers \in Nat /\ p.writers \in Nat
      BY DEF RingOK, PipeType
    <2>2. CASE q = OpenRead(p)
      BY <2>1, <2>2 DEF OpenRead, PipeType
    <2>3. CASE q = OpenWrite(p)
      BY <2>1, <2>3 DEF OpenWrite, PipeType
    <2>4. CASE q = CloseRead(p)
      BY <2>1, <2>4 DEF CloseRead, PipeType
    <2>5. CASE q = CloseWrite(p)
      BY <2>1, <2>5 DEF CloseWrite, PipeType
    <2>6. CASE q = Allocate(p)
      <3> DEFINE o == OpenRead(p)
      <3>1. /\ o \in PipeType
            /\ o.buffer = p.buffer /\ o.count = p.count
            /\ o.read_pos = p.read_pos /\ o.write_pos = p.write_pos
        BY <2>1 DEF OpenRead, PipeType
      <3>2. q = OpenWrite(o)
        BY <2>6 DEF Allocate
      <3> HIDE DEF o
      <3>3. o.writers \in Nat
        BY <3>1 DEF PipeType
      <3>4. QED BY <3>1, <3>2, <3>3 DEF OpenWrite, PipeType
    <2>7. QED BY <2>2, <2>3, <2>4, <2>5, <2>6
  <1>2. QED BY <1>1 DEF RingOK, Contents, ReadBytes

\* The first pipe of the slot is empty and in order.
LEMMA NewPipeOK == RingOK(NewPipe) /\ Contents(NewPipe) = <<>>
  <1>1. 0 \in Slots /\ BufferSize \in Nat /\ 0 \in Bytes /\ 0 \in 0 .. BufferSize
    BY BufferAssumption DEF Slots
  <1>2. NewPipe \in PipeType
    BY <1>1 DEF NewPipe, PipeType
  <1>3. (0 + 0) % BufferSize = 0
    BY <1>1, ModSmall DEF Slots
  <1>4. RingOK(NewPipe)
    BY <1>2, <1>3 DEF RingOK, NewPipe
  <1>5. Contents(NewPipe) \in Seq(Bytes) /\ Len(Contents(NewPipe)) = 0
    BY <1>4, ContentsLength DEF NewPipe
  <1>6. QED BY <1>4, <1>5

\* What one step of the slot does: the ring stays in order, and its contents
\* change as those of the channel do, or not at all.
LEMMA RingStep ==
  ASSUME PositionsAgree, [RingNext]_ringVars
  PROVE  PositionsAgree' /\ [Chan!ChannelNext]_<<Contents(pipe), delivered>>
  <1>0. RingOK(pipe)
    BY DEF PositionsAgree, RingOK
  <1> USE DEF PositionsAgree
  <1>1. ASSUME pipe' \in {OpenRead(pipe), OpenWrite(pipe), CloseRead(pipe),
                          CloseWrite(pipe), Allocate(pipe)},
               UNCHANGED delivered
        PROVE  PositionsAgree' /\ UNCHANGED <<Contents(pipe), delivered>>
    <2>1. RingOK(pipe') /\ Contents(pipe') = Contents(pipe)
      BY <1>0, <1>1, EndsApart, Zenon
    <2>2. QED BY <1>1, <2>1, Zenon DEF RingOK
  <1>2. CASE AllocateSlot
    BY <1>1, <1>2 DEF AllocateSlot
  <1>3. CASE OpenEnd
    BY <1>1, <1>3 DEF OpenEnd
  <1>4. CASE CloseEnd
    BY <1>1, <1>4 DEF CloseEnd
  <1>5. ASSUME NEW data \in Data, WriteData(data)
        PROVE  PositionsAgree' /\ Chan!ChannelNext
    <2>1. /\ pipe' = Write(pipe, data) /\ pipe.count # BufferSize
          /\ delivered' = <<>>
      BY <1>5 DEF WriteData, CanWrite, IsFull
    <2>2. /\ RingOK(pipe')
          /\ Contents(pipe') = Contents(pipe)
                \o SubSeq(data, 1, AtMost(Len(data), BufferSize - pipe.count))
      BY <1>0, <2>1, WriteAppends, Zenon
    <2>3. Len(Contents(pipe)) = pipe.count /\ pipe.count \in 0 .. BufferSize
      BY <1>0, ContentsLength DEF RingOK, PipeType
    <2>4. data # <<>> /\ Len(data) \in Nat
      BY DataIsSequence
    <2>5. /\ BufferSize - Len(Contents(pipe)) > 0
          /\ AtMost(Len(data), BufferSize - pipe.count)
                = IF Len(data) < BufferSize - Len(Contents(pipe)) THEN Len(data)
                  ELSE BufferSize - Len(Contents(pipe))
      BY <2>1, <2>3, <2>4, BufferAssumption DEF AtMost
    <2>6. Chan!Send(data)
      BY <2>1, <2>2, <2>4, <2>5, Zenon DEF Chan!Send, Chan!Room
    <2>7. Len(Contents(pipe')) = pipe'.count
      BY <2>2, ContentsLength, Zenon
    <2>8. pipe'.count # pipe.count
      <3>1. pipe'.count = pipe.count + AtMost(Len(data), BufferSize - pipe.count)
        BY <1>0, <2>1 DEF Write, RingOK, PipeType
      <3>2. Len(data) \in Nat \ {0}
        BY DataIsSequence, BufferAssumption
      <3>3. QED BY <2>1, <2>3, <3>1, <3>2, BufferAssumption DEF AtMost
    <2>9. Len(Contents(pipe')) # Len(Contents(pipe))
      BY <2>3, <2>7, <2>8
    <2>10. Chan!ChannelNext
      BY <2>6, <2>9, Zenon DEF Chan!ChannelNext
    <2>11. QED BY <2>2, <2>10, Zenon DEF RingOK
  <1>6. ASSUME NEW m \in 1 .. BufferSize, ReadData(m)
        PROVE  PositionsAgree' /\ Chan!ChannelNext
    <2>1. /\ pipe' = Read(pipe, m) /\ delivered' = ReadBytes(pipe, m)
          /\ pipe.count # 0
      BY <1>6 DEF ReadData, IsEmpty
    <2>2. pipe.count > 0
      BY <1>0, <2>1, BufferAssumption DEF RingOK, PipeType
    <2>3. /\ RingOK(pipe')
          /\ Contents(pipe) = delivered' \o Contents(pipe')
          /\ delivered' # <<>>
      BY <1>0, <2>1, <2>2, ReadTakes, Zenon
    <2>4. /\ Len(Contents(pipe')) = pipe'.count
          /\ Len(Contents(pipe)) = pipe.count
      BY <1>0, <2>3, ContentsLength, Zenon
    <2>5. pipe'.count # pipe.count
      BY <1>0, <2>1, <2>2, BufferAssumption DEF Read, AtMost, RingOK, PipeType
    <2>6. Len(Contents(pipe')) # Len(Contents(pipe))
      BY <2>4, <2>5
    <2>7. Chan!ChannelNext
      BY <2>3, <2>6, Zenon DEF Chan!ChannelNext, Chan!Receive
    <2>8. QED BY <2>3, <2>7, Zenon DEF RingOK
  <1>7. CASE UNCHANGED ringVars
    BY <1>7 DEF ringVars, Contents, ReadBytes
  <1>8. QED BY <1>1, <1>2, <1>3, <1>4, <1>5, <1>6, <1>7, Zenon DEF RingNext

\* For every size of the buffer and every set of bytes: positions and count
\* describe one stretch of the ring, whatever is opened, closed, written and
\* read (the loops of Pipe::write and Pipe::read).
THEOREM PositionsStayAgreed == RingSpec => []PositionsAgree
  <1>1. RingInit => PositionsAgree
    BY NewPipeOK DEF RingInit, PositionsAgree, RingOK
  <1>2. PositionsAgree /\ [RingNext]_ringVars => PositionsAgree'
    BY RingStep
  <1>3. QED BY <1>1, <1>2, PTL DEF RingSpec

\* For every size of the buffer and every set of bytes: the slot implements
\* the channel.  No byte is lost, repeated or out of order, a write takes all
\* that fits, and what one pipe leaves unread the next one reads.
THEOREM RingIsChannel == RingSpec => ImplementsChannel
  <1>1. RingInit => Chan!ChannelInit
    BY NewPipeOK DEF RingInit, Chan!ChannelInit
  <1>2. PositionsAgree /\ [RingNext]_ringVars
           => [Chan!ChannelNext]_<<Contents(pipe), delivered>>
    BY RingStep
  <1>3. QED
    BY <1>1, <1>2, PositionsStayAgreed, PTL
    DEF RingSpec, ImplementsChannel, Chan!ChannelSpec

-----------------------------------------------------------------------------
(* The counts of the pool and the descriptors of the processes.            *)

Tables == [Procs -> [Fds -> Entries]]

\* The descriptors for e in the tables t, and the opens of e that the pool pl
\* counts: Holders and EndCount for any tables and any pool.
Held(t, e) == {h \in Procs \X Fds : t[h[1]][h[2]] = e}
Opens(pl, e) == IF e = ReadEnd(e.id) THEN pl[e.id].readers ELSE pl[e.id].writers

\* Tables with one descriptor, or all of a process's, replaced.
SetFd(t, p, fd, x) == [t EXCEPT ![p][fd] = x]
SetFds(t, p, r) == [t EXCEPT ![p] = r]

\* Every ring of the pool is in order.
PoolOK(pl) == pl \in [Ids -> PipeType] /\ \A i \in Ids : RingOK(pl[i])

\* The inductive invariant: the accounts, and nothing in the table of a
\* process that does not run, so that fork finds the child's table empty.
IoInv ==
    /\ EndsAccounted
    /\ PoolOK(pool)
    /\ \A p \in Procs : life[p] # "alive" => table[p] = EmptyTable

\* The pipe ends, by their kind and their pipe.
LEMMA Ends ==
  /\ \A i \in Ids : ReadEnd(i) \in PipeEnds /\ WriteEnd(i) \in PipeEnds
  /\ \A e \in PipeEnds : e.id \in Ids /\ (e = ReadEnd(e.id) \/ e = WriteEnd(e.id))
  /\ \A i, j : ReadEnd(i) # WriteEnd(j)
  /\ \A i, j : ReadEnd(i) = ReadEnd(j) => i = j
  /\ \A i, j : WriteEnd(i) = WriteEnd(j) => i = j
  /\ \A i : ReadEnd(i).id = i /\ WriteEnd(i).id = i
  /\ NoFd \notin PipeEnds /\ File \notin PipeEnds
  <1>1. \A i : /\ ReadEnd(i).id = i /\ ReadEnd(i).kind = "PipeRead"
              /\ WriteEnd(i).id = i /\ WriteEnd(i).kind = "PipeWrite"
    BY DEF ReadEnd, WriteEnd
  <1>2. NoFd.kind = "None" /\ File.kind = "File"
    BY DEF NoFd, File
  <1>3. /\ \A i \in Ids : ReadEnd(i) \in PipeEnds /\ WriteEnd(i) \in PipeEnds
        /\ \A e \in PipeEnds : \E i \in Ids : e = ReadEnd(i) \/ e = WriteEnd(i)
    BY DEF PipeEnds
  <1>4. "PipeRead" # "PipeWrite" /\ "None" \notin {"PipeRead", "PipeWrite"}
        /\ "File" \notin {"PipeRead", "PipeWrite"}
    OBVIOUS
  <1>5. QED BY <1>1, <1>2, <1>3, <1>4, SMTT(30)

\* The descriptors for an end are finitely many.
LEMMA HeldFinite ==
  ASSUME NEW t, NEW e
  PROVE  IsFiniteSet(Held(t, e)) /\ Cardinality(Held(t, e)) \in Nat
  <1>1. IsFiniteSet(Procs) /\ IsFiniteSet(Fds)
    BY FS_Interval, DescriptorsAssumption DEF Procs, Fds
  <1>2. IsFiniteSet(Procs \X Fds)
    BY <1>1, FS_Product
  <1>3. Held(t, e) \in SUBSET (Procs \X Fds)
    BY DEF Held
  <1>4. QED BY <1>2, <1>3, FS_Subset, FS_CardinalityType, Zenon

\* One descriptor set to x: one more for x, one less for what it was.
LEMMA SetDescriptor ==
  ASSUME NEW t \in Tables, NEW p \in Procs, NEW fd \in Fds, NEW x \in Entries, NEW e
  PROVE  /\ SetFd(t, p, fd, x) \in Tables
         /\ Cardinality(Held(SetFd(t, p, fd, x), e)) = Cardinality(Held(t, e))
               + (IF x = e THEN 1 ELSE 0) - (IF t[p][fd] = e THEN 1 ELSE 0)
  <1> DEFINE u == SetFd(t, p, fd, x)
             h == <<p, fd>>
             rest == Held(t, e) \ {h}
  <1>1. u \in Tables
    BY DEF Tables, SetFd
  <1>2. \A q \in Procs, f \in Fds : u[q][f] = IF q = p /\ f = fd THEN x ELSE t[q][f]
    BY DEF Tables, SetFd
  <1> HIDE DEF u
  <1>3. /\ h \in Held(t, e) <=> t[p][fd] = e
        /\ h \in Held(u, e) <=> x = e
    BY <1>2 DEF Held
  <1>4. Held(u, e) \ {h} = rest
    BY <1>2 DEF Held
  <1>5. /\ Cardinality(rest) = IF h \in Held(t, e) THEN Cardinality(Held(t, e)) - 1
                               ELSE Cardinality(Held(t, e))
        /\ Cardinality(rest) = IF h \in Held(u, e) THEN Cardinality(Held(u, e)) - 1
                               ELSE Cardinality(Held(u, e))
    BY <1>4, HeldFinite, FS_RemoveElement, Zenon
  <1>6. Cardinality(Held(t, e)) \in Nat /\ Cardinality(Held(u, e)) \in Nat
    BY HeldFinite
  <1>7. Cardinality(Held(u, e)) = Cardinality(Held(t, e))
           + (IF x = e THEN 1 ELSE 0) - (IF t[p][fd] = e THEN 1 ELSE 0)
    BY <1>3, <1>5, <1>6
  <1>8. QED BY <1>1, <1>7 DEF u

\* An empty table replaced by another one: as many more for each pipe end as
\* the other has.
LEMMA SetTable ==
  ASSUME NEW t \in Tables, NEW p \in Procs, t[p] = EmptyTable,
         NEW r \in [Fds -> Entries], NEW e \in PipeEnds
  PROVE  /\ SetFds(t, p, r) \in Tables
         /\ CountBelow(r, MaxFds, e) \in Nat
         /\ Cardinality(Held(SetFds(t, p, r), e))
               = Cardinality(Held(t, e)) + CountBelow(r, MaxFds, e)
  <1> DEFINE u == SetFds(t, p, r)
             F == {f \in Fds : f < MaxFds /\ r[f] = e}
             G == {p} \X F
  <1>1. u \in Tables
    BY DEF Tables, SetFds
  <1>2. \A q \in Procs, f \in Fds : u[q][f] = IF q = p THEN r[f] ELSE t[q][f]
    BY DEF Tables, SetFds
  <1>3. \A f \in Fds : t[p][f] # e /\ f < MaxFds
    BY Ends, DescriptorsAssumption DEF EmptyTable, Fds
  <1>4. F \subseteq Fds /\ IsFiniteSet(F) /\ Cardinality(F) \in Nat
    <2>1. IsFiniteSet(Fds) /\ F \in SUBSET Fds
      BY FS_Interval, DescriptorsAssumption DEF Fds
    <2>2. QED BY <2>1, FS_Subset, FS_CardinalityType
  <1>5. IsFiniteSet(G) /\ Cardinality(G) = Cardinality(F)
    <2>1. IsFiniteSet({p}) /\ Cardinality({p}) = 1
      BY FS_Singleton, Zenon
    <2> HIDE DEF F
    <2>2. IsFiniteSet(G) /\ Cardinality(G) = 1 * Cardinality(F)
      BY <1>4, <2>1, FS_Product
    <2> HIDE DEF G
    <2>3. QED BY <1>4, <2>2
  <1> HIDE DEF u
  <1>6. Held(u, e) = Held(t, e) \cup G /\ Held(t, e) \cap G = {}
    <2>1. \A q \in Procs, f \in Fds : <<q, f>> \in Held(u, e) <=> <<q, f>> \in Held(t, e) \cup G
      BY <1>2, <1>3 DEF Held
    <2>2. Held(u, e) \subseteq Procs \X Fds /\ Held(t, e) \cup G \subseteq Procs \X Fds
      BY <1>4 DEF Held
    <2>3. Held(t, e) \cap G = {}
      BY <1>3 DEF Held
    <2>4. QED BY <2>1, <2>2, <2>3
  <1> HIDE DEF F, G
  <1>7. Cardinality(Held(u, e)) = Cardinality(Held(t, e)) + Cardinality(G)
    <2>1. Cardinality(Held(u, e))
             = Cardinality(Held(t, e)) + Cardinality(G) - Cardinality(Held(t, e) \cap G)
      BY <1>5, <1>6, HeldFinite, FS_Union, Zenon
    <2>2. Cardinality(Held(t, e) \cap G) = 0
      BY <1>6, FS_EmptySet, Zenon
    <2>3. Cardinality(Held(t, e)) \in Nat /\ Cardinality(G) \in Nat
      BY <1>4, <1>5, HeldFinite, Zenon
    <2>4. QED BY <2>1, <2>2, <2>3
  <1>8. CountBelow(r, MaxFds, e) = Cardinality(F)
    BY Zenon DEF CountBelow, F
  <1>9. QED BY <1>1, <1>4, <1>5, <1>7, <1>8 DEF u

\* An open counts at its own end, when the pipe is found (Pipe::open_read,
\* Pipe::open_write).
LEMMA OpenedCounts ==
  ASSUME NEW pl, PoolOK(pl), NEW e \in Entries, NEW f \in PipeEnds
  PROVE  /\ PoolOK(Opened(pl, e))
         /\ Opens(pl, f) \in Nat
         /\ Opens(Opened(pl, e), f)
              = Opens(pl, f) + (IF f = e /\ Found(pl, e) THEN 1 ELSE 0)
  <1>1. /\ pl \in [Ids -> PipeType] /\ \A i \in Ids : RingOK(pl[i])
        /\ \A i \in Ids : pl[i].readers \in Nat /\ pl[i].writers \in Nat
    BY Zenon DEF PoolOK, PipeType
  <1>2. f.id \in Ids /\ Opens(pl, f) \in Nat
    BY <1>1, Ends DEF Opens
  <1>3. CASE e \notin PipeEnds \/ ~Found(pl, e)
    BY <1>2, <1>3 DEF Opened
  <1>4. CASE e \in PipeEnds /\ Found(pl, e)
    <2> DEFINE i == e.id
               q == IF e = ReadEnd(i) THEN OpenRead(pl[i]) ELSE OpenWrite(pl[i])
               ql == [pl EXCEPT ![i] = q]
    <2>1. i \in Ids
      BY <1>4, Ends
    <2>2. Opened(pl, e) = ql
      BY <1>4, Zenon DEF Opened
    <2>3. RingOK(q) /\ q \in PipeType
      BY <1>1, <2>1, EndsApart, Zenon DEF RingOK
    <2>4. /\ q.readers = pl[i].readers + (IF e = ReadEnd(i) THEN 1 ELSE 0)
          /\ q.writers = pl[i].writers + (IF e = ReadEnd(i) THEN 0 ELSE 1)
      BY <1>1, <2>1 DEF OpenRead, OpenWrite, PipeType
    <2> HIDE DEF q
    <2>5. PoolOK(ql)
      BY <1>1, <2>1, <2>3, Zenon DEF PoolOK
    <2>6. \A j \in Ids : ql[j] = IF j = i THEN q ELSE pl[j]
      BY <1>1, <2>1
    <2> HIDE DEF ql
    <2>7. Opens(ql, f) = Opens(pl, f) + (IF f = e THEN 1 ELSE 0)
      <3>1. CASE f.id # i
        BY <1>2, <2>6, <3>1, SMTT(30) DEF Opens
      <3>2. CASE f.id = i
        <4>1. /\ f = e <=> (f = ReadEnd(i) <=> e = ReadEnd(i))
          BY <1>4, <3>2, Ends, Zenon
        <4>2. QED BY <1>1, <1>2, <2>4, <2>6, <3>2, <4>1, Zenon DEF Opens
      <3>3. QED BY <3>1, <3>2, Zenon
    <2>8. QED BY <1>2, <1>4, <2>2, <2>5, <2>7, Zenon
  <1>5. QED BY <1>3, <1>4, Zenon

\* A close is undone at its own end, unless nothing is open there
\* (Pipe::close_read, Pipe::close_write).
LEMMA ClosedCounts ==
  ASSUME NEW pl, PoolOK(pl), NEW e \in Entries, NEW f \in PipeEnds
  PROVE  /\ PoolOK(Closed(pl, e))
         /\ Opens(Closed(pl, e), f)
              = Opens(pl, f) - (IF f = e /\ Opens(pl, e) > 0 THEN 1 ELSE 0)
  <1>1. /\ pl \in [Ids -> PipeType] /\ \A i \in Ids : RingOK(pl[i])
        /\ \A i \in Ids : pl[i].readers \in Nat /\ pl[i].writers \in Nat
    BY DEF PoolOK, PipeType
  <1>2. f.id \in Ids /\ Opens(pl, f) \in Nat
    BY <1>1, Ends DEF Opens
  <1>3. CASE e \notin PipeEnds \/ ~Found(pl, e)
    <2>1. e \in PipeEnds => Opens(pl, e) = 0
      BY <1>1, <1>3, Ends DEF Found, IsAllocated, Opens
    <2>2. QED BY <1>2, <1>3, <2>1 DEF Closed
  <1>4. CASE e \in PipeEnds /\ Found(pl, e)
    <2> DEFINE i == e.id
               q == IF e = ReadEnd(i) THEN CloseRead(pl[i]) ELSE CloseWrite(pl[i])
               ql == [pl EXCEPT ![i] = q]
    <2>1. i \in Ids
      BY <1>4, Ends
    <2>2. Closed(pl, e) = ql
      BY <1>4 DEF Closed
    <2>3. RingOK(q) /\ q \in PipeType
      BY <1>1, <2>1, EndsApart, Zenon DEF RingOK
    <2>4. /\ q.readers = pl[i].readers
                 - (IF e = ReadEnd(i) /\ pl[i].readers > 0 THEN 1 ELSE 0)
          /\ q.writers = pl[i].writers
                 - (IF e # ReadEnd(i) /\ pl[i].writers > 0 THEN 1 ELSE 0)
      BY <1>1, <2>1 DEF CloseRead, CloseWrite, PipeType
    <2> HIDE DEF q
    <2>5. PoolOK(ql)
      BY <1>1, <2>1, <2>3 DEF PoolOK
    <2>6. \A j \in Ids : ql[j] = IF j = i THEN q ELSE pl[j]
      BY <1>1, <2>1
    <2> HIDE DEF ql
    <2>7. Opens(ql, f) = Opens(pl, f) - (IF f = e /\ Opens(pl, e) > 0 THEN 1 ELSE 0)
      <3>1. CASE f.id # i
        BY <1>2, <2>6, <3>1, SMTT(30) DEF Opens
      <3>2. CASE f.id = i
        <4>1. /\ f = e <=> (f = ReadEnd(i) <=> e = ReadEnd(i))
          BY <1>4, <3>2, Ends
        <4>2. QED BY <1>1, <1>2, <2>4, <2>6, <3>2, <4>1, Zenon DEF Opens
      <3>3. QED BY <3>1, <3>2, Zenon
    <2>8. QED BY <1>4, <2>2, <2>5, <2>7, Zenon
  <1>5. QED BY <1>3, <1>4, Zenon

\* LeastOf chooses an element of a nonempty set of numbers.
LEMMA LeastOfIn ==
  ASSUME NEW S \in SUBSET Nat, S # {}
  PROVE  LeastOf(S) \in S
  BY LeastNat, Zenon DEF LeastOf

\* Under the accounts a descriptor never refers to a pipe that is free.
LEMMA HeldIsOpen ==
  ASSUME IoInv, NEW p \in Procs, NEW fd \in Fds
  PROVE  /\ table[p][fd] \in Entries
         /\ table[p][fd] \in PipeEnds => Opens(pool, table[p][fd]) > 0
         /\ Found(pool, table[p][fd])
  <1> DEFINE e == table[p][fd]
  <1>1. e \in Entries /\ pool \in [Ids -> PipeType] /\ lost \in [PipeEnds -> Nat]
    BY DEF IoInv, EndsAccounted, IoTypeOK
  <1>2. ASSUME e \in PipeEnds
        PROVE  Opens(pool, e) > 0
    <2>1. <<p, fd>> \in Held(table, e)
      BY DEF Held
    <2>2. Cardinality(Held(table, e)) \in Nat /\ Cardinality(Held(table, e)) # 0
      BY <2>1, HeldFinite, FS_EmptySet
    <2>3. Opens(pool, e) = Cardinality(Held(table, e)) + lost[e]
      BY <1>2 DEF IoInv, EndsAccounted, EndCount, Opens, Holders, Held
    <2>4. lost[e] \in Nat
      BY <1>1, <1>2, Zenon
    <2>5. QED BY <2>2, <2>3, <2>4
  <1>3. Found(pool, e)
    BY <1>1, <1>2, Ends, Zenon DEF Found, Opens, IsAllocated, PipeType
  <1>4. QED BY <1>1, <1>2, <1>3

-----------------------------------------------------------------------------
(* The calls.                                                              *)

\* The invariant in terms of the tables and the pool.
LEMMA IoInvMeans ==
  IoInv <=> /\ table \in Tables /\ PoolOK(pool)
            /\ life \in [Procs -> {"unborn", "alive", "gone"}]
            /\ lost \in [PipeEnds -> Nat]
            /\ \A e \in PipeEnds : Opens(pool, e) = Cardinality(Held(table, e)) + lost[e]
            /\ \A p \in Procs : life[p] # "alive" => table[p] = EmptyTable
  BY Zenon DEF IoInv, EndsAccounted, IoTypeOK, EndCount, Opens, Holders, Held, Tables, PoolOK

\* The same after a step.
LEMMA IoInvAfter ==
  ASSUME table' \in Tables, PoolOK(pool'),
         life' \in [Procs -> {"unborn", "alive", "gone"}],
         lost' \in [PipeEnds -> Nat],
         \A e \in PipeEnds : Opens(pool', e) = Cardinality(Held(table', e)) + lost'[e],
         \A p \in Procs : life'[p] # "alive" => table'[p] = EmptyTable
  PROVE  IoInv'
  BY Zenon DEF IoInv, EndsAccounted, IoTypeOK, EndCount, Opens, Holders, Held, Tables, PoolOK

\* pipe: each end of the new pipe has its descriptor or is lost.
LEMMA PipeAccounts ==
  ASSUME IoInv, NEW p \in Procs, SysPipe(p)
  PROVE  IoInv'
  <1> DEFINE free == {i \in Ids : ~IsAllocated(pool[i])}
             i    == LeastOf(free)
             F    == FreeFds(p)
             rfd  == LeastOf(F)
             wfd  == LeastOf(F \ {rfd})
             n    == Cardinality(F)
             r    == ReadEnd(i)
             w    == WriteEnd(i)
  <1>1. /\ table \in Tables /\ PoolOK(pool)
        /\ life \in [Procs -> {"unborn", "alive", "gone"}]
        /\ lost \in [PipeEnds -> Nat]
        /\ \A e \in PipeEnds : Opens(pool, e) = Cardinality(Held(table, e)) + lost[e]
        /\ \A q \in Procs : life[q] # "alive" => table[q] = EmptyTable
    BY IoInvMeans
  <1>2. /\ life[p] = "alive" /\ free # {} /\ UNCHANGED life
        /\ pool' = [pool EXCEPT ![i] = Allocate(@)]
        /\ table' = [table EXCEPT ![p] =
                        CASE n = 0 -> @
                          [] n = 1 -> [@ EXCEPT ![rfd] = r]
                          [] n > 1 -> [@ EXCEPT ![rfd] = r, ![wfd] = w]]
        /\ lost' = [lost EXCEPT ![r] = @ + (IF n = 0 THEN 1 ELSE 0),
                                ![w] = @ + (IF n < 2 THEN 1 ELSE 0)]
    BY DEF SysPipe
  <1>3. i \in Ids /\ ~IsAllocated(pool[i])
    <2>1. free \subseteq Nat
      BY DescriptorsAssumption DEF Ids
    <2> HIDE DEF free
    <2>2. i \in free
      BY <1>2, <2>1, LeastOfIn, Zenon
    <2>3. QED BY <2>2 DEF free
  <1>4. /\ F \subseteq Fds /\ IsFiniteSet(F) /\ n \in Nat
        /\ \A fd \in F : table[p][fd] = NoFd
        /\ n > 0 => rfd \in F
        /\ n > 1 => wfd \in F /\ wfd # rfd
    <2>1. F \subseteq Fds /\ Fds \subseteq Nat /\ \A fd \in F : table[p][fd] = NoFd
      BY DescriptorsAssumption DEF FreeFds, Fds
    <2>2. IsFiniteSet(F) /\ n \in Nat
      <3>1. IsFiniteSet(Fds)
        BY FS_Interval, DescriptorsAssumption DEF Fds
      <3>2. QED BY <2>1, <3>1, FS_Subset, FS_CardinalityType, Zenon
    <2> HIDE DEF F
    <2>3. n > 0 => rfd \in F
      <3>1. n > 0 => F # {}
        BY FS_EmptySet
      <3>2. QED BY <2>1, <3>1, LeastOfIn, Zenon
    <2>4. n > 1 => wfd \in F \ {rfd}
      <3> HIDE DEF rfd
      <3>1. n > 1 => Cardinality(F \ {rfd}) > 0
        <4>1. Cardinality(F \ {rfd}) = IF rfd \in F THEN n - 1 ELSE n
          BY <2>2, FS_RemoveElement, Zenon
        <4> HIDE DEF n
        <4>2. QED BY <2>2, <4>1
      <3>2. n > 1 => F \ {rfd} # {}
        BY <3>1, FS_EmptySet
      <3>3. F \ {rfd} \in SUBSET Nat
        BY <2>1, Zenon
      <3>4. QED BY <3>2, <3>3, LeastOfIn
    <2>5. QED BY <2>1, <2>2, <2>3, <2>4, Zenon
  <1> HIDE DEF free, i, F, rfd, wfd, n
  <1>5. r \in PipeEnds /\ w \in PipeEnds /\ r # w /\ r \in Entries /\ w \in Entries
    BY <1>3, Ends DEF Entries
  <1>6. /\ PoolOK(pool')
        /\ \A e \in PipeEnds : Opens(pool', e)
              = Opens(pool, e) + (IF e = r THEN 1 ELSE 0) + (IF e = w THEN 1 ELSE 0)
    <2>1. Found(pool, r) = FALSE /\ pool \in [Ids -> PipeType]
          /\ RingOK(pool[i])
      BY <1>1, <1>3, <1>5, Ends, Zenon DEF Found, PoolOK
    <2>2. RingOK(Allocate(pool[i])) /\ Allocate(pool[i]) \in PipeType
      BY <2>1, EndsApart, Zenon DEF RingOK
    <2>3. PoolOK(pool')
      BY <1>1, <1>2, <1>3, <2>2 DEF PoolOK
    <2>4. /\ Allocate(pool[i]).readers = pool[i].readers + 1
          /\ Allocate(pool[i]).writers = pool[i].writers + 1
          /\ \A j \in Ids : pool[j].readers \in Nat /\ pool[j].writers \in Nat
      BY <1>3, <2>1 DEF Allocate, OpenRead, OpenWrite, PipeType
    <2>5. \A j \in Ids : pool'[j] = IF j = i THEN Allocate(pool[i]) ELSE pool[j]
      BY <1>2, <1>3, <2>1
    <2>6. ASSUME NEW e \in PipeEnds
          PROVE  Opens(pool', e)
                   = Opens(pool, e) + (IF e = r THEN 1 ELSE 0) + (IF e = w THEN 1 ELSE 0)
      <3>1. e.id \in Ids /\ (e = ReadEnd(e.id) \/ e = WriteEnd(e.id))
        BY Ends, Zenon
      <3>2. CASE e.id # i
        <4>1. e # r /\ e # w
          BY <3>2, Ends, Zenon
        <4>2. QED BY <2>4, <2>5, <3>1, <3>2, <4>1, SMTT(30) DEF Opens
      <3>3. CASE e.id = i
        <4>1. e = r \/ e = w
          BY <3>1, <3>3, Zenon
        <4>2. QED BY <1>5, <2>4, <2>5, <3>1, <3>3, <4>1, SMTT(30) DEF Opens
      <3>4. QED BY <3>2, <3>3
    <2>7. QED BY <2>3, <2>6, Zenon
  <1>7. /\ lost' \in [PipeEnds -> Nat]
        /\ \A e \in PipeEnds : lost'[e] = lost[e]
              + (IF e = r /\ n = 0 THEN 1 ELSE 0) + (IF e = w /\ n < 2 THEN 1 ELSE 0)
    BY <1>1, <1>2, <1>4, <1>5, SMTT(30)
  <1>8. /\ table' \in Tables
        /\ \A e \in PipeEnds : Cardinality(Held(table', e)) = Cardinality(Held(table, e))
              + (IF e = r /\ n > 0 THEN 1 ELSE 0) + (IF e = w /\ n > 1 THEN 1 ELSE 0)
    <2>0. \A e \in PipeEnds : Cardinality(Held(table, e)) \in Nat /\ e # NoFd
      BY HeldFinite, Ends, Zenon
    <2>1. CASE n = 0
      <3>1. table' = table
        BY <1>1, <1>2, <2>1 DEF Tables
      <3>2. QED BY <1>1, <2>0, <2>1, <3>1
    <2>2. CASE n = 1
      <3>1. table' = SetFd(table, p, rfd, r) /\ table[p][rfd] = NoFd /\ rfd \in Fds
        BY <1>1, <1>2, <1>4, <2>2 DEF Tables, SetFd
      <3>2. table' \in Tables
        BY <1>1, <1>5, <3>1, SetDescriptor, Zenon
      <3>3. ASSUME NEW e \in PipeEnds
            PROVE  Cardinality(Held(table', e))
                      = Cardinality(Held(table, e)) + (IF r = e THEN 1 ELSE 0) - 0
        BY <1>1, <1>5, <2>0, <3>1, SetDescriptor
      <3>4. QED BY <2>0, <2>2, <3>2, <3>3
    <2>3. CASE n > 1
      <3> DEFINE t == SetFd(table, p, rfd, r)
      <3>1. /\ rfd \in Fds /\ wfd \in Fds /\ wfd # rfd
            /\ table[p][rfd] = NoFd /\ table[p][wfd] = NoFd
        BY <1>4, <2>3
      <3>2. table' = [table EXCEPT ![p] = [@ EXCEPT ![rfd] = r, ![wfd] = w]]
        BY <1>2, <1>4, <2>3
      <3>3. table' = SetFd(t, p, wfd, w) /\ t[p][wfd] = NoFd
        BY <1>1, <3>1, <3>2, Zenon DEF Tables, SetFd
      <3>4. /\ t \in Tables
            /\ \A e \in PipeEnds : Cardinality(Held(t, e))
                  = Cardinality(Held(table, e)) + (IF e = r THEN 1 ELSE 0)
        <4> HIDE DEF r
        <4>1. t \in Tables
          BY <1>1, <1>5, <3>1, SetDescriptor
        <4>2. ASSUME NEW e \in PipeEnds
              PROVE  Cardinality(Held(t, e))
                        = Cardinality(Held(table, e)) + (IF r = e THEN 1 ELSE 0) - 0
          BY <1>1, <1>5, <2>0, <3>1, SetDescriptor, SMTT(30)
        <4> HIDE DEF t
        <4>3. QED BY <2>0, <4>1, <4>2
      <3> HIDE DEF t
      <3>5. /\ table' \in Tables
            /\ \A e \in PipeEnds : Cardinality(Held(table', e))
                  = Cardinality(Held(t, e)) + (IF e = w THEN 1 ELSE 0)
        <4>1. \A e \in PipeEnds : Cardinality(Held(t, e)) \in Nat
          BY HeldFinite, Zenon
        <4> HIDE DEF w
        <4>2. table' \in Tables
          BY <1>5, <3>1, <3>3, <3>4, SetDescriptor, Zenon
        <4>3. ASSUME NEW e \in PipeEnds
              PROVE  Cardinality(Held(table', e))
                        = Cardinality(Held(t, e)) + (IF w = e THEN 1 ELSE 0) - 0
          BY <1>5, <2>0, <3>1, <3>3, <3>4, SetDescriptor, SMTT(30)
        <4>4. QED BY <4>1, <4>2, <4>3, SMTT(30)
      <3> HIDE DEF r, w
      <3>6. ASSUME NEW e \in PipeEnds
            PROVE  Cardinality(Held(table', e)) = Cardinality(Held(table, e))
                     + (IF e = r /\ n > 0 THEN 1 ELSE 0) + (IF e = w /\ n > 1 THEN 1 ELSE 0)
        BY <1>4, <2>0, <2>3, <3>4, <3>5
      <3>7. QED BY <3>5, <3>6, Zenon
    <2>4. QED BY <1>4, <2>1, <2>2, <2>3, SMTT(30)
  <1>9. \A e \in PipeEnds : Opens(pool', e) = Cardinality(Held(table', e)) + lost'[e]
    <2>1. ASSUME NEW e \in PipeEnds
          PROVE  Opens(pool', e) = Cardinality(Held(table', e)) + lost'[e]
      <3>1. lost[e] \in Nat /\ Cardinality(Held(table, e)) \in Nat
        BY <1>1, HeldFinite
      <3>2. QED BY <1>1, <1>4, <1>5, <1>6, <1>7, <1>8, <3>1, SMTT(30)
    <2>2. QED BY <2>1, Zenon
  <1>10. \A q \in Procs : life'[q] # "alive" => table'[q] = EmptyTable
    BY <1>1, <1>2 DEF Tables
  <1>11. QED BY <1>1, <1>2, <1>6, <1>7, <1>8, <1>9, <1>10, IoInvAfter, Zenon

\* dup2: the target's descriptor is closed, overwritten and lost, or was free.
LEMMA Dup2Accounts ==
  ASSUME IoInv, NEW p \in Procs, NEW oldfd \in Fds, NEW newfd \in Fds,
         SysDup2(p, oldfd, newfd)
  PROVE  IoInv'
  <1> DEFINE e      == table[p][oldfd]
             target == table[p][newfd]
             closes == newfd >= FirstFd /\ target # NoFd
             pool1  == IF closes THEN Closed(pool, target) ELSE pool
             ok     == (closes => Found(pool, target)) /\ Found(pool1, e)
             x      == IF ok THEN e ELSE IF closes THEN NoFd ELSE target
  <1>1. /\ table \in Tables /\ PoolOK(pool)
        /\ life \in [Procs -> {"unborn", "alive", "gone"}]
        /\ lost \in [PipeEnds -> Nat]
        /\ \A f \in PipeEnds : Opens(pool, f) = Cardinality(Held(table, f)) + lost[f]
        /\ \A q \in Procs : life[q] # "alive" => table[q] = EmptyTable
    BY IoInvMeans, Zenon
  <1>2. /\ life[p] = "alive" /\ UNCHANGED life
        /\ pool' = IF ok THEN Opened(pool1, e) ELSE pool1
        /\ lost' = IF ok /\ newfd < FirstFd /\ target \in PipeEnds
                   THEN [lost EXCEPT ![target] = @ + 1] ELSE lost
    BY Zenon DEF SysDup2
  <1>3. table' = SetFd(table, p, newfd, x)
    BY <1>1, Zenon DEF SysDup2, Tables, SetFd
  <1>4. /\ e \in Entries /\ target \in Entries /\ Found(pool, e) /\ Found(pool, target)
        /\ target \in PipeEnds => Opens(pool, target) > 0
        /\ NoFd \in Entries /\ NoFd \notin PipeEnds
    <2>1. NoFd \in Entries /\ NoFd \notin PipeEnds
      BY Ends, Zenon DEF Entries
    <2>2. QED BY <2>1, HeldIsOpen, Zenon
  <1> HIDE DEF e, target
  <1>5. x \in Entries /\ (ok \/ closes)
    BY <1>4
  <1>6. ok => Found(pool1, e)
    BY Zenon
  <1>7. \A f \in PipeEnds :
           /\ x = f <=> ((ok /\ e = f) \/ (~ok /\ ~closes /\ target = f))
           /\ f = target => (closes <=> newfd >= FirstFd)
    BY <1>4
  <1>8. /\ closes => pool1 = Closed(pool, target)
        /\ ~closes => pool1 = pool
    BY Zenon
  <1> HIDE DEF closes, pool1, ok, x
  <1>9. table' \in Tables
    BY <1>1, <1>3, <1>5, SetDescriptor, Zenon
  <1>10. ASSUME NEW f \in PipeEnds
         PROVE  Cardinality(Held(table', f)) = Cardinality(Held(table, f))
                  + (IF x = f THEN 1 ELSE 0) - (IF target = f THEN 1 ELSE 0)
    <2>1. table \in Tables
      BY <1>1, Zenon
    <2>2. QED BY <1>3, <1>5, <2>1, SetDescriptor DEF target
  <1>11. \A f \in PipeEnds : Opens(pool, f) \in Nat
    BY <1>1, <1>4, OpenedCounts, Zenon
  <1>12. PoolOK(pool) /\ \E f : f \in PipeEnds
    <2>1. ReadEnd(0) \in PipeEnds
      BY DescriptorsAssumption, Ends DEF Ids
    <2>2. QED BY <1>1, <2>1, Zenon
  <1>13. PoolOK(pool1)
    <2>1. PoolOK(Closed(pool, target))
      BY <1>4, <1>12, ClosedCounts, Zenon
    <2>2. QED BY <1>8, <1>12, <2>1, Zenon
  <1>14. ASSUME NEW f \in PipeEnds
         PROVE  /\ Opens(pool1, f) \in Nat
                /\ Opens(pool1, f) = Opens(pool, f) - (IF f = target /\ closes THEN 1 ELSE 0)
    <2>1. Opens(pool, f) \in Nat /\ Opens(pool1, f) \in Nat
      BY <1>4, <1>11, <1>13, OpenedCounts, Zenon
    <2>2. CASE closes
      <3>1. Opens(Closed(pool, target), f)
              = Opens(pool, f) - (IF f = target /\ Opens(pool, target) > 0 THEN 1 ELSE 0)
        BY <1>4, <1>12, ClosedCounts, Zenon
      <3>2. f = target => Opens(pool, target) > 0
        BY <1>4, Zenon
      <3>3. QED BY <1>8, <2>1, <2>2, <3>1, <3>2, Zenon
    <2>3. CASE ~closes
      BY <1>8, <2>1, <2>3
    <2>4. QED BY <2>2, <2>3
  <1>15. PoolOK(pool')
    <2>1. PoolOK(Opened(pool1, e))
      BY <1>4, <1>12, <1>13, OpenedCounts, Zenon
    <2>2. QED BY <1>2, <1>13, <2>1, Zenon
  <1>16. ASSUME NEW f \in PipeEnds
         PROVE  Opens(pool', f) = Opens(pool1, f) + (IF f = e /\ ok THEN 1 ELSE 0)
    <2>1. CASE ok
      <3>1. pool' = Opened(pool1, e)
        BY <1>2, <2>1, Zenon
      <3>2. Opens(Opened(pool1, e), f)
              = Opens(pool1, f) + (IF f = e /\ Found(pool1, e) THEN 1 ELSE 0)
        BY <1>4, <1>13, OpenedCounts, Zenon
      <3>3. QED BY <1>6, <2>1, <3>1, <3>2, Zenon
    <2>2. CASE ~ok
      <3>1. pool' = pool1
        BY <1>2, <2>2, Zenon
      <3>2. QED BY <1>14, <2>2, <3>1
    <2>3. QED BY <2>1, <2>2, Zenon
  <1>17. /\ lost' \in [PipeEnds -> Nat]
         /\ \A f \in PipeEnds : lost'[f] = lost[f]
               + (IF ok /\ newfd < FirstFd /\ f = target THEN 1 ELSE 0)
    <2>1. lost \in [PipeEnds -> Nat]
      BY <1>1, Zenon
    <2>2. CASE ok /\ newfd < FirstFd /\ target \in PipeEnds
      <3>1. lost' = [lost EXCEPT ![target] = @ + 1]
        BY <1>2, <2>2, Zenon
      <3>2. QED BY <2>1, <2>2, <3>1
    <2>3. CASE ~(ok /\ newfd < FirstFd /\ target \in PipeEnds)
      <3>1. lost' = lost
        BY <1>2, <2>3, Zenon
      <3>2. QED BY <2>1, <2>3, <3>1, SMTT(30)
    <2>4. QED BY <2>2, <2>3
  <1>18. ASSUME NEW f \in PipeEnds
         PROVE  Opens(pool', f) = Cardinality(Held(table', f)) + lost'[f]
    <2>1. /\ lost[f] \in Nat /\ Cardinality(Held(table, f)) \in Nat
          /\ Opens(pool, f) = Cardinality(Held(table, f)) + lost[f]
      BY <1>1, HeldFinite, Zenon
    <2>2. newfd \in Nat /\ FirstFd \in Nat
      BY DescriptorsAssumption DEF Fds
    <2>3. /\ x = f <=> ((ok /\ e = f) \/ (~ok /\ ~closes /\ target = f))
          /\ f = target => (closes <=> newfd >= FirstFd)
      BY <1>7
    <2>4. Opens(pool1, f) = Opens(pool, f) - (IF f = target /\ closes THEN 1 ELSE 0)
      BY <1>14, Zenon
    <2>5. lost'[f] = lost[f] + (IF ok /\ newfd < FirstFd /\ f = target THEN 1 ELSE 0)
      BY <1>17
    <2>6. /\ Opens(pool', f) = Opens(pool1, f) + (IF f = e /\ ok THEN 1 ELSE 0)
          /\ Cardinality(Held(table', f)) = Cardinality(Held(table, f))
               + (IF x = f THEN 1 ELSE 0) - (IF target = f THEN 1 ELSE 0)
      BY <1>10, <1>16, Zenon
    <2>7. CASE f = target
      BY <1>5, <2>1, <2>2, <2>3, <2>4, <2>5, <2>6, <2>7, SMTT(30)
    <2>8. CASE f # target
      BY <2>1, <2>3, <2>4, <2>5, <2>6, <2>8, SMTT(30)
    <2>9. QED BY <2>7, <2>8, Zenon
  <1>19. \A q \in Procs : life'[q] # "alive" => table'[q] = EmptyTable
    BY <1>1, <1>2, <1>3, Zenon DEF Tables, SetFd
  <1>20. QED BY <1>1, <1>2, <1>9, <1>15, <1>17, <1>18, <1>19, IoInvAfter, Zenon

\* close: one descriptor less, and one count.
LEMMA CloseAccounts ==
  ASSUME IoInv, NEW p \in Procs, NEW fd \in Fds, SysClose(p, fd)
  PROVE  IoInv'
  <1> DEFINE e == table[p][fd]
  <1>1. /\ table \in Tables /\ PoolOK(pool)
        /\ life \in [Procs -> {"unborn", "alive", "gone"}]
        /\ lost \in [PipeEnds -> Nat]
        /\ \A f \in PipeEnds : Opens(pool, f) = Cardinality(Held(table, f)) + lost[f]
        /\ \A q \in Procs : life[q] # "alive" => table[q] = EmptyTable
    BY IoInvMeans
  <1>2. /\ life[p] = "alive" /\ UNCHANGED <<life, lost>>
        /\ pool' = Closed(pool, e)
        /\ table' = SetFd(table, p, fd, NoFd)
    BY Zenon DEF SysClose, SetFd
  <1>3. /\ e \in Entries /\ NoFd \in Entries /\ NoFd \notin PipeEnds
        /\ e \in PipeEnds => Opens(pool, e) > 0
    BY HeldIsOpen, Ends, Zenon DEF Entries
  <1>4. ReadEnd(0) \in PipeEnds
    BY Ends, DescriptorsAssumption, SMTT(30) DEF Ids
  <1>5. table' \in Tables /\ PoolOK(pool')
    BY <1>1, <1>2, <1>3, <1>4, SetDescriptor, ClosedCounts, Zenon
  <1>6. ASSUME NEW f \in PipeEnds
        PROVE  Opens(pool', f) = Cardinality(Held(table', f)) + lost'[f]
    <2>1. /\ lost[f] \in Nat /\ Cardinality(Held(table, f)) \in Nat
          /\ Opens(pool, f) = Cardinality(Held(table, f)) + lost[f]
      BY <1>1, HeldFinite, Zenon
    <2>2. Cardinality(Held(table', f)) = Cardinality(Held(table, f))
             + (IF NoFd = f THEN 1 ELSE 0) - (IF e = f THEN 1 ELSE 0)
      BY <1>1, <1>2, <1>3, SetDescriptor, SMTT(30)
    <2>3. Opens(pool', f) = Opens(pool, f) - (IF f = e /\ Opens(pool, e) > 0 THEN 1 ELSE 0)
      BY <1>1, <1>2, <1>3, ClosedCounts, Zenon
    <2>4. QED BY <1>2, <1>3, <2>1, <2>2, <2>3, SMTT(30)
  <1>7. \A q \in Procs : life'[q] # "alive" => table'[q] = EmptyTable
    BY <1>1, <1>2, Zenon DEF Tables, SetFd
  <1>8. QED BY <1>1, <1>2, <1>5, <1>6, <1>7, IoInvAfter, Zenon

\* open of a file: the descriptor it takes was for no pipe.
LEMMA OpenAccounts ==
  ASSUME IoInv, NEW p \in Procs, SysOpen(p)
  PROVE  IoInv'
  <1> DEFINE fd == LeastOf(FreeFds(p))
  <1>1. /\ table \in Tables /\ PoolOK(pool)
        /\ life \in [Procs -> {"unborn", "alive", "gone"}]
        /\ lost \in [PipeEnds -> Nat]
        /\ \A f \in PipeEnds : Opens(pool, f) = Cardinality(Held(table, f)) + lost[f]
        /\ \A q \in Procs : life[q] # "alive" => table[q] = EmptyTable
    BY IoInvMeans
  <1>2. /\ life[p] = "alive" /\ UNCHANGED <<pool, life, lost>> /\ FreeFds(p) # {}
        /\ table' = SetFd(table, p, fd, File)
    BY Zenon DEF SysOpen, SetFd
  <1>3. fd \in Fds /\ table[p][fd] = NoFd
    <2>1. FreeFds(p) \in SUBSET Nat
      BY DescriptorsAssumption DEF FreeFds, Fds
    <2>2. fd \in FreeFds(p)
      BY <1>2, <2>1, LeastOfIn, Zenon
    <2>3. QED BY <2>2, Zenon DEF FreeFds
  <1> HIDE DEF fd
  <1>4. File \in Entries /\ NoFd \notin PipeEnds /\ File \notin PipeEnds
    BY Ends, Zenon DEF Entries
  <1>5. table' \in Tables
    BY <1>1, <1>2, <1>3, <1>4, SetDescriptor, Zenon
  <1>6. ASSUME NEW f \in PipeEnds
        PROVE  Opens(pool', f) = Cardinality(Held(table', f)) + lost'[f]
    <2>1. Cardinality(Held(table', f)) = Cardinality(Held(table, f))
             + (IF File = f THEN 1 ELSE 0) - (IF table[p][fd] = f THEN 1 ELSE 0)
      BY <1>1, <1>2, <1>3, <1>4, SetDescriptor
    <2>2. Cardinality(Held(table, f)) \in Nat
      BY HeldFinite, Zenon
    <2>3. QED BY <1>1, <1>2, <1>3, <1>4, <2>1, <2>2, SMTT(30)
  <1>7. \A q \in Procs : life'[q] # "alive" => table'[q] = EmptyTable
    BY <1>1, <1>2, Zenon DEF Tables, SetFd
  <1>8. QED BY <1>1, <1>2, <1>5, <1>6, <1>7, IoInvAfter, Zenon

\* read and write: the counts are left alone.
LEMMA TransferAccounts ==
  ASSUME IoInv, NEW i \in Ids, NEW q, RingOK(q),
         q.readers = pool[i].readers, q.writers = pool[i].writers,
         pool' = [pool EXCEPT ![i] = q], UNCHANGED <<table, life, lost>>
  PROVE  IoInv'
  <1>1. /\ table \in Tables /\ PoolOK(pool)
        /\ life \in [Procs -> {"unborn", "alive", "gone"}]
        /\ lost \in [PipeEnds -> Nat]
        /\ \A f \in PipeEnds : Opens(pool, f) = Cardinality(Held(table, f)) + lost[f]
        /\ \A p \in Procs : life[p] # "alive" => table[p] = EmptyTable
    BY IoInvMeans
  <1>2. PoolOK(pool') /\ \A j \in Ids : pool'[j] = IF j = i THEN q ELSE pool[j]
    BY <1>1 DEF PoolOK, RingOK
  <1>3. \A f \in PipeEnds : Opens(pool', f) = Opens(pool, f)
    BY <1>2, Ends DEF Opens
  <1>4. QED BY <1>1, <1>2, <1>3, IoInvAfter, Zenon

\* fork: no pipe is missing, and the child holds what the parent holds.
LEMMA ForkAccounts ==
  ASSUME IoInv, NEW p \in Procs, NEW child \in Procs, SysFork(p, child)
  PROVE  IoInv'
  <1> DEFINE bad == {fd \in Fds : ~Found(pool, table[p][fd])}
             r   == table[p]
  <1>1. /\ table \in Tables /\ PoolOK(pool)
        /\ life \in [Procs -> {"unborn", "alive", "gone"}]
        /\ lost \in [PipeEnds -> Nat]
        /\ \A f \in PipeEnds : Opens(pool, f) = Cardinality(Held(table, f)) + lost[f]
        /\ \A q \in Procs : life[q] # "alive" => table[q] = EmptyTable
    BY IoInvMeans
  <1>2. bad = {}
    BY HeldIsOpen, Zenon
  <1>3. /\ life[p] = "alive" /\ life[child] = "unborn" /\ UNCHANGED lost
        /\ pool' = [i \in Ids |->
               [pool[i] EXCEPT !.readers = @ + CountBelow(r, MaxFds, ReadEnd(i)),
                               !.writers = @ + CountBelow(r, MaxFds, WriteEnd(i))]]
        /\ table' = SetFds(table, child, r)
        /\ life' = [life EXCEPT ![child] = "alive"]
    BY <1>2, Zenon DEF SysFork, SetFds
  <1>4. r \in [Fds -> Entries] /\ table[child] = EmptyTable
    BY <1>1, <1>3, Zenon DEF Tables
  <1>5. ASSUME NEW e \in PipeEnds
        PROVE  /\ table' \in Tables
               /\ CountBelow(r, MaxFds, e) \in Nat
               /\ Cardinality(Held(table', e))
                     = Cardinality(Held(table, e)) + CountBelow(r, MaxFds, e)
    BY <1>1, <1>3, <1>4, SetTable, Zenon
  <1>6. table' \in Tables
    <2>1. ReadEnd(0) \in PipeEnds
      BY Ends, DescriptorsAssumption, SMTT(30) DEF Ids
    <2>2. QED BY <1>5, <2>1, Zenon
  <1>7. ASSUME NEW i \in Ids
        PROVE  /\ RingOK(pool'[i]) /\ pool'[i] \in PipeType
               /\ pool'[i].readers = pool[i].readers + CountBelow(r, MaxFds, ReadEnd(i))
               /\ pool'[i].writers = pool[i].writers + CountBelow(r, MaxFds, WriteEnd(i))
    <2> DEFINE a == CountBelow(r, MaxFds, ReadEnd(i))
               b == CountBelow(r, MaxFds, WriteEnd(i))
    <2>1. a \in Nat /\ b \in Nat
      BY <1>5, Ends, Zenon
    <2>2. pool[i] \in PipeType /\ RingOK(pool[i])
      BY <1>1, Zenon DEF PoolOK
    <2>3. pool'[i] = [pool[i] EXCEPT !.readers = @ + a, !.writers = @ + b]
      BY <1>3, Zenon
    <2> HIDE DEF a, b
    <2> DEFINE o == pool[i]
    <2>0. o \in PipeType /\ o.readers + a \in Nat /\ o.writers + b \in Nat
      BY <2>1, <2>2 DEF PipeType
    <2> HIDE DEF o
    <2>4. /\ pool'[i] \in PipeType
          /\ pool'[i].readers = pool[i].readers + a /\ pool'[i].writers = pool[i].writers + b
          /\ pool'[i].read_pos = pool[i].read_pos /\ pool'[i].write_pos = pool[i].write_pos
          /\ pool'[i].count = pool[i].count
      <3>1. pool'[i] = [o EXCEPT !.readers = @ + a, !.writers = @ + b]
        BY <2>3 DEF o
      <3>2. /\ pool'[i] \in PipeType
            /\ pool'[i].readers = o.readers + a /\ pool'[i].writers = o.writers + b
            /\ pool'[i].read_pos = o.read_pos /\ pool'[i].write_pos = o.write_pos
            /\ pool'[i].count = o.count
        BY <2>0, <3>1, Zenon DEF PipeType
      <3>3. QED BY <3>2 DEF o
    <2>5. QED BY <2>2, <2>4, Zenon DEF RingOK, a, b
  <1>8. PoolOK(pool')
    BY <1>3, <1>7, Zenon DEF PoolOK
  <1>9. ASSUME NEW e \in PipeEnds
        PROVE  Opens(pool', e) = Cardinality(Held(table', e)) + lost'[e]
    <2>1. Opens(pool', e) = Opens(pool, e) + CountBelow(r, MaxFds, e)
      BY <1>7, Ends, SMTT(30) DEF Opens
    <2>2. /\ lost[e] \in Nat /\ lost'[e] = lost[e]
          /\ Cardinality(Held(table, e)) \in Nat
          /\ Opens(pool, e) = Cardinality(Held(table, e)) + lost[e]
      BY <1>1, <1>3, HeldFinite, Zenon
    <2>3. /\ CountBelow(r, MaxFds, e) \in Nat
          /\ Cardinality(Held(table', e))
                = Cardinality(Held(table, e)) + CountBelow(r, MaxFds, e)
      BY <1>5, Zenon
    <2>4. QED BY <2>1, <2>2, <2>3, SMTT(30)
  <1>10. \A q \in Procs : life'[q] # "alive" => table'[q] = EmptyTable
    BY <1>1, <1>3, Zenon DEF Tables, SetFds
  <1>11. life' \in [Procs -> {"unborn", "alive", "gone"}]
    BY <1>1, <1>3, Zenon
  <1>12. QED BY <1>1, <1>3, <1>6, <1>8, <1>9, <1>10, <1>11, IoInvAfter, ZenonT(30)

\* exit: the descriptors of the process are lost.
LEMMA ExitAccounts ==
  ASSUME IoInv, NEW p \in Procs, SysExit(p)
  PROVE  IoInv'
  <1> DEFINE r == table[p]
  <1>1. /\ table \in Tables /\ PoolOK(pool)
        /\ life \in [Procs -> {"unborn", "alive", "gone"}]
        /\ lost \in [PipeEnds -> Nat]
        /\ \A f \in PipeEnds : Opens(pool, f) = Cardinality(Held(table, f)) + lost[f]
        /\ \A q \in Procs : life[q] # "alive" => table[q] = EmptyTable
    BY IoInvMeans
  <1>2. /\ life' = [life EXCEPT ![p] = "gone"]
        /\ table' = [table EXCEPT ![p] = EmptyTable]
        /\ lost' = [e \in PipeEnds |-> lost[e] + CountBelow(r, MaxFds, e)]
        /\ UNCHANGED pool
    BY DEF SysExit
  <1>3. EmptyTable \in [Fds -> Entries] /\ r \in [Fds -> Entries]
    BY <1>1 DEF EmptyTable, Entries, Tables
  <1>4. table' \in Tables /\ table'[p] = EmptyTable
    BY <1>1, <1>2, <1>3 DEF Tables
  <1>5. table = SetFds(table', p, r)
    BY <1>1, <1>2, Zenon DEF Tables, SetFds
  <1>6. ASSUME NEW e \in PipeEnds
        PROVE  /\ CountBelow(r, MaxFds, e) \in Nat
               /\ Cardinality(Held(table, e))
                     = Cardinality(Held(table', e)) + CountBelow(r, MaxFds, e)
    BY <1>3, <1>4, <1>5, SetTable
  <1>7. lost' \in [PipeEnds -> Nat] /\ life' \in [Procs -> {"unborn", "alive", "gone"}]
    BY <1>1, <1>2, <1>6
  <1>8. ASSUME NEW e \in PipeEnds
        PROVE  Opens(pool', e) = Cardinality(Held(table', e)) + lost'[e]
    <2>1. /\ lost[e] \in Nat /\ lost'[e] = lost[e] + CountBelow(r, MaxFds, e)
          /\ Cardinality(Held(table', e)) \in Nat
          /\ Opens(pool', e) = Cardinality(Held(table, e)) + lost[e]
      BY <1>1, <1>2, HeldFinite, Zenon
    <2>2. /\ CountBelow(r, MaxFds, e) \in Nat
          /\ Cardinality(Held(table, e))
                = Cardinality(Held(table', e)) + CountBelow(r, MaxFds, e)
      BY <1>6, Zenon
    <2>3. QED BY <2>1, <2>2
  <1>9. \A q \in Procs : life'[q] # "alive" => table'[q] = EmptyTable
    BY <1>1, <1>2, Zenon DEF Tables
  <1>10. QED BY <1>1, <1>2, <1>4, <1>7, <1>8, <1>9, IoInvAfter, Zenon

\* At the start no pipe is open and no descriptor is for one.
LEMMA IoStart == IoInit => IoInv
  <1> SUFFICES ASSUME IoInit PROVE IoInv
    OBVIOUS
  <1>1. table = [p \in Procs |-> EmptyTable] /\ pool = [i \in Ids |-> NewPipe]
        /\ lost = [e \in PipeEnds |-> 0]
        /\ life = [p \in Procs |-> IF p = 1 THEN "alive" ELSE "unborn"]
    BY DEF IoInit
  <1>2. RingOK(NewPipe) /\ NewPipe \in PipeType
    BY NewPipeOK DEF RingOK
  <1>3. PoolOK(pool)
    BY <1>1, <1>2 DEF PoolOK
  <1>4. table \in Tables
    BY <1>1, Zenon DEF Tables, EmptyTable, Entries
  <1>5. ASSUME NEW e \in PipeEnds
        PROVE  Opens(pool, e) = Cardinality(Held(table, e)) + lost[e]
    <2>1. Held(table, e) = {}
      BY <1>1, Ends DEF Held, EmptyTable
    <2>2. Cardinality(Held(table, e)) = 0
      BY <2>1, FS_EmptySet, Zenon
    <2>3. Opens(pool, e) = 0
      BY <1>1, Ends DEF Opens, NewPipe
    <2>4. QED BY <1>1, <2>2, <2>3
  <1>6. QED BY <1>1, <1>3, <1>4, <1>5, IoInvMeans

\* For every number of pipes, descriptors and processes and every size of the
\* buffer: every open of a pipe end has its descriptor or is one of those
\* that pipe, dup2 and exit lose, so no pipe that a process holds is freed.
THEOREM EndsStayAccounted == IoSpec => []EndsAccounted
  <1>1. ASSUME IoInv, [IoNext]_ioVars
        PROVE  IoInv'
    <2>1. CASE UNCHANGED ioVars
      BY <1>1, <2>1, IoInvMeans, IoInvAfter, Zenon DEF ioVars
    <2>2. ASSUME NEW p \in Procs, NEW fd \in Fds, NEW n \in 1 .. BufferSize,
                 SysRead(p, fd, n)
          PROVE  IoInv'
      <3> DEFINE i == table[p][fd].id
                 q == Read(pool[i], n)
      <3>1. i \in Ids /\ pool' = [pool EXCEPT ![i] = q] /\ UNCHANGED <<table, life, lost>>
        BY <2>2, Ends DEF SysRead
      <3>2. RingOK(pool[i]) /\ pool[i] \in PipeType
        BY <1>1, <3>1 DEF IoInv, PoolOK
      <3>3. RingOK(q) /\ q.readers = pool[i].readers /\ q.writers = pool[i].writers
        <4>1. RingOK(q)
          BY <3>2, ReadTakes, Zenon
        <4>2. q.readers = pool[i].readers /\ q.writers = pool[i].writers
          BY <3>2, Zenon DEF Read, PipeType
        <4>3. QED BY <4>1, <4>2, Zenon
      <3> HIDE DEF i, q
      <3>4. QED BY <1>1, <3>1, <3>3, TransferAccounts, ZenonT(30)
    <2>3. ASSUME NEW p \in Procs, NEW fd \in Fds, NEW data \in Data,
                 SysWrite(p, fd, data)
          PROVE  IoInv'
      <3> DEFINE i == table[p][fd].id
                 q == Write(pool[i], data)
      <3>1. i \in Ids /\ pool' = [pool EXCEPT ![i] = q] /\ UNCHANGED <<table, life, lost>>
        BY <2>3, Ends DEF SysWrite
      <3>2. RingOK(pool[i]) /\ pool[i] \in PipeType
        BY <1>1, <3>1 DEF IoInv, PoolOK
      <3>3. RingOK(q) /\ q.readers = pool[i].readers /\ q.writers = pool[i].writers
        <4>1. RingOK(q)
          BY <3>2, WriteAppends, Zenon
        <4>2. q.readers = pool[i].readers /\ q.writers = pool[i].writers
          BY <3>2, Zenon DEF Write, PipeType
        <4>3. QED BY <4>1, <4>2, Zenon
      <3> HIDE DEF i, q
      <3>4. QED BY <1>1, <3>1, <3>3, TransferAccounts, ZenonT(30)
    <2>4. QED
      BY <1>1, <2>1, <2>2, <2>3, PipeAccounts, Dup2Accounts, CloseAccounts,
         OpenAccounts, ForkAccounts, ExitAccounts, ZenonT(30)
      DEF IoNext
  <1>2. IoInv => EndsAccounted
    BY DEF IoInv
  <1>3. QED BY <1>1, <1>2, IoStart, PTL DEF IoSpec

=============================================================================
