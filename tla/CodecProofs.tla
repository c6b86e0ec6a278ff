----------------------------- MODULE CodecProofs -----------------------------
(***************************************************************************)
(* Proofs about Codec: for every payload size, all packets and every way   *)
(* the stream is cut, what recv_packet returns is what was sent.           *)
(***************************************************************************)
EXTENDS Codec, SequenceLemmas

-----------------------------------------------------------------------------
(***************************************************************************)
(* Strings made of strings.                                                *)
(***************************************************************************)

\* Two queues, one behind the other, read as one string.
LEMMA FlattenCat ==
    ASSUME NEW V, NEW a \in Seq(Seq(V)), NEW b \in Seq(Seq(V))
    PROVE  FlattenSeq(Cat(a, b)) = Cat(FlattenSeq(a), FlattenSeq(b))
<1> DEFINE S == {n \in Nat : \A t \in Seq(Seq(V)) : Len(t) = n =>
                     FlattenSeq(Cat(a, t)) = Cat(FlattenSeq(a), FlattenSeq(t))}
<1>0. FlattenSeq(a) \in Seq(V)
  BY FlattenType
<1>1. 0 \in S
  <2> SUFFICES ASSUME NEW t \in Seq(Seq(V)), Len(t) = 0
               PROVE  FlattenSeq(Cat(a, t)) = Cat(FlattenSeq(a), FlattenSeq(t))
    OBVIOUS
  <2>1. t = <<>>
    BY EmptySeq
  <2>2. Cat(a, t) = a /\ Cat(FlattenSeq(a), FlattenSeq(t)) = FlattenSeq(a)
    BY <1>0, <2>1, CatEmpty, FlattenEmpty
  <2> QED BY <2>2
<1>2. ASSUME NEW n \in Nat, n \in S
      PROVE  n + 1 \in S
  <2> SUFFICES ASSUME NEW t \in Seq(Seq(V)), Len(t) = n + 1
               PROVE  FlattenSeq(Cat(a, t)) = Cat(FlattenSeq(a), FlattenSeq(t))
    OBVIOUS
  <2>1. t # <<>>
    OBVIOUS
  <2>2. PICK fr \in Seq(Seq(V)), la \in Seq(V) :
            t = Append(fr, la) /\ Len(t) = Len(fr) + 1
    BY <2>1, FrontAndLast
  <2>3. Len(fr) = n
    BY <2>2
  <2>4. FlattenSeq(Cat(a, fr)) = Cat(FlattenSeq(a), FlattenSeq(fr))
    BY <1>2, <2>3
  <2>5. Cat(a, t) = Append(Cat(a, fr), la) /\ Cat(a, fr) \in Seq(Seq(V))
    BY <2>2 DEF Cat
  <2>6. FlattenSeq(fr) \in Seq(V)
    BY FlattenType
  <2>7. FlattenSeq(Append(Cat(a, fr), la)) = Cat(FlattenSeq(Cat(a, fr)), la)
    BY <2>5, FlattenAppend DEF Cat
  <2>8. FlattenSeq(t) = Cat(FlattenSeq(fr), la)
    BY <2>2, FlattenAppend DEF Cat
  <2>9. Cat(Cat(FlattenSeq(a), FlattenSeq(fr)), la)
           = Cat(FlattenSeq(a), Cat(FlattenSeq(fr), la))
    BY <1>0, <2>6, CatAssociative
  <2> QED BY <2>4, <2>5, <2>7, <2>8, <2>9
<1>3. Nat \subseteq S
  <2> HIDE DEF S
  <2> QED BY <1>1, <1>2, NatSetInduction
<1>4. Len(b) \in S
  <2>1. Len(b) \in Nat
    OBVIOUS
  <2> HIDE DEF S
  <2> QED BY <1>3, <2>1
<1> QED BY <1>4

\* f[x] for each x of s, one behind the other.
IsMap(f, D, V) == f \in [D -> Seq(V)]

Mapped(f, s)  == [i \in 1..Len(s) |-> f[s[i]]]
MapFlat(f, s) == FlattenSeq(Mapped(f, s))

\* Such strings of strings are what they look like.
LEMMA MapType ==
    ASSUME NEW D, NEW V, NEW f, IsMap(f, D, V), NEW s \in Seq(D)
    PROVE  /\ Mapped(f, s) \in Seq(Seq(V)) /\ Len(Mapped(f, s)) = Len(s)
           /\ \A i \in 1..Len(s) : Mapped(f, s)[i] = f[s[i]]
           /\ MapFlat(f, s) \in Seq(V)
<1>1. Len(s) \in Nat /\ \A i \in 1..Len(s) : s[i] \in D
  OBVIOUS
<1>2. \A i \in 1..Len(s) : Mapped(f, s)[i] = f[s[i]] /\ Mapped(f, s)[i] \in Seq(V)
  BY <1>1 DEF Mapped, IsMap
<1>3. Mapped(f, s) = [i \in 1..Len(s) |-> Mapped(f, s)[i]]
  BY <1>1 DEF Mapped
<1>4. Mapped(f, s) \in Seq(Seq(V)) /\ Len(Mapped(f, s)) = Len(s)
  BY <1>1, <1>2, <1>3
<1>5. FlattenSeq(Mapped(f, s)) \in Seq(V)
  BY <1>4, FlattenType
<1> QED BY <1>2, <1>4, <1>5 DEF MapFlat

\* Nothing maps to the empty string.
LEMMA MapEmpty ==
    ASSUME NEW f
    PROVE  MapFlat(f, <<>>) = <<>>
<1>1. Mapped(f, <<>>) = <<>>
  BY DEF Mapped
<1> QED BY <1>1, FlattenEmpty DEF MapFlat

\* One element maps to its own string.
LEMMA MapOne ==
    ASSUME NEW D, NEW V, NEW f, IsMap(f, D, V), NEW x \in D
    PROVE  MapFlat(f, <<x>>) = f[x]
<1>1. Mapped(f, <<x>>) = Append(<<>>, f[x])
  BY DEF Mapped
<1>2. <<>> \in Seq(Seq(V)) /\ f[x] \in Seq(V)
  BY DEF IsMap
<1>3. FlattenSeq(Append(<<>>, f[x])) = Cat(<<>>, f[x])
  BY <1>2, FlattenAppend, FlattenEmpty DEF Cat
<1> QED BY <1>1, <1>2, <1>3, CatEmpty DEF MapFlat

\* Two queues of elements map to one string behind the other.
LEMMA MapCat ==
    ASSUME NEW D, NEW V, NEW f, IsMap(f, D, V), NEW a \in Seq(D), NEW b \in Seq(D)
    PROVE  MapFlat(f, Cat(a, b)) = Cat(MapFlat(f, a), MapFlat(f, b))
<1> DEFINE c == Cat(a, b)
<1>1. Cat(a, b) \in Seq(D) /\ Len(Cat(a, b)) = Len(a) + Len(b)
  BY CatType
<1>2. \A i \in 1..Len(a) : Cat(a, b)[i] = a[i]
  BY CatType
<1>3. \A i \in 1..Len(b) : Cat(a, b)[Len(a) + i] = b[i]
  BY CatType
<1>4. /\ Mapped(f, a) \in Seq(Seq(V)) /\ Len(Mapped(f, a)) = Len(a)
      /\ Mapped(f, b) \in Seq(Seq(V)) /\ Len(Mapped(f, b)) = Len(b)
  BY MapType
<1>5. /\ \A i \in 1..Len(a) : Mapped(f, a)[i] = f[a[i]]
      /\ \A i \in 1..Len(b) : Mapped(f, b)[i] = f[b[i]]
  <2>1. \A i \in 1..Len(a) : Mapped(f, a)[i] = f[a[i]]
    BY MapType
  <2>2. \A i \in 1..Len(b) : Mapped(f, b)[i] = f[b[i]]
    BY MapType
  <2> QED BY <2>1, <2>2
<1> HIDE DEF c
<1>6. /\ Mapped(f, c) \in Seq(Seq(V)) /\ Len(Mapped(f, c)) = Len(c)
      /\ \A i \in 1..Len(c) : Mapped(f, c)[i] = f[c[i]]
  <2>1. c \in Seq(D)
    BY <1>1 DEF c
  <2>2. Mapped(f, c) \in Seq(Seq(V)) /\ Len(Mapped(f, c)) = Len(c)
    BY <2>1, MapType
  <2>3. \A i \in 1..Len(c) : Mapped(f, c)[i] = f[c[i]]
    BY <2>1, MapType
  <2> QED BY <2>2, <2>3
<1>7. \A i \in 1..Len(a) : Mapped(f, c)[i] = Mapped(f, a)[i]
  <2>1. \A i \in 1..Len(a) : c[i] = a[i] /\ i \in 1..Len(c)
    BY <1>1, <1>2 DEF c
  <2> QED BY <2>1, <1>5, <1>6
<1>8. \A i \in 1..Len(b) : Mapped(f, c)[Len(a) + i] = Mapped(f, b)[i]
  <2>1. \A i \in 1..Len(b) : c[Len(a) + i] = b[i] /\ Len(a) + i \in 1..Len(c)
    BY <1>1, <1>3 DEF c
  <2> QED BY <2>1, <1>5, <1>6
<1>9. Mapped(f, c) = Cat(Mapped(f, a), Mapped(f, b))
  <2>1. Len(c) = Len(a) + Len(b)
    BY <1>1 DEF c
  <2>2. Len(Mapped(f, c)) = Len(Mapped(f, a)) + Len(Mapped(f, b))
    BY <2>1, <1>4, <1>6
  <2>3. /\ \A i \in 1..Len(Mapped(f, a)) : Mapped(f, c)[i] = Mapped(f, a)[i]
        /\ \A i \in 1..Len(Mapped(f, b)) :
              Mapped(f, c)[Len(Mapped(f, a)) + i] = Mapped(f, b)[i]
    BY <1>4, <1>7, <1>8
  <2>4. /\ Mapped(f, c) \in Seq(Seq(V)) /\ Mapped(f, a) \in Seq(Seq(V))
        /\ Mapped(f, b) \in Seq(Seq(V))
    BY <1>4, <1>6
  <2> DEFINE fa == Mapped(f, a)
             fb == Mapped(f, b)
             fc == Mapped(f, c)
             W  == Seq(V)
  <2>5. fa \in Seq(W) /\ fb \in Seq(W) /\ fc \in Seq(W)
    BY <2>4
  <2>6. Len(fc) = Len(fa) + Len(fb)
    BY <2>2
  <2>7. /\ \A i \in 1..Len(fa) : fc[i] = fa[i]
        /\ \A i \in 1..Len(fb) : fc[Len(fa) + i] = fb[i]
    BY <2>3
  <2> HIDE DEF fa, fb, fc, W
  <2>8. fc = Cat(fa, fb)
    BY <2>5, <2>6, <2>7, CatIs
  <2> QED BY <2>8 DEF fa, fb, fc
<1>10. FlattenSeq(Mapped(f, c)) = Cat(FlattenSeq(Mapped(f, a)), FlattenSeq(Mapped(f, b)))
  BY <1>4, <1>5, <1>9, FlattenCat
<1> QED BY <1>10 DEF c, MapFlat

-----------------------------------------------------------------------------
(***************************************************************************)
(* Numbers and packets.                                                    *)
(***************************************************************************)

\* u16::to_be_bytes and from_be_bytes, for every payload length.
LEMMA U16RoundTrip ==
    ASSUME NEW n \in Nat, n < 65536
    PROVE  /\ n \div 256 \in Byte /\ n % 256 \in Byte
           /\ 256 * (n \div 256) + (n % 256) = n
  BY DEF Byte

\* Two bytes make a number below 2^16.
LEMMA U16Range ==
    ASSUME NEW x \in Byte, NEW y \in Byte
    PROVE  256 * x + y \in Nat /\ 256 * x + y < 65536
  BY DEF Byte

\* u32::to_be_bytes and from_be_bytes.
LEMMA U32RoundTrip ==
    ASSUME NEW v \in U32
    PROVE  /\ u32_to_be_bytes(v) \in Seq(Byte) /\ Len(u32_to_be_bytes(v)) = 4
           /\ u32_from_be_bytes(u32_to_be_bytes(v)) = v
<1>1. v \in Nat /\ v \div 65536 < 65536
  BY DEF U32
<1> DEFINE a == v \div 16777216
           b == (v \div 65536) % 256
           c == (v \div 256) % 256
           d == v % 256
<1>2. a \in Byte /\ b \in Byte /\ c \in Byte /\ d \in Byte
  BY <1>1 DEF Byte
<1>3. 16777216 * a + 65536 * b + 256 * c + d = v
  BY <1>1
<1> HIDE DEF a, b, c, d
<1>4. u32_to_be_bytes(v) = <<a, b, c, d>>
  BY DEF u32_to_be_bytes, a, b, c, d
<1>5. <<a, b, c, d>> \in Seq(Byte) /\ Len(<<a, b, c, d>>) = 4
  BY <1>2
<1>6. u32_from_be_bytes(<<a, b, c, d>>) = 16777216 * a + 65536 * b + 256 * c + d
  BY DEF u32_from_be_bytes
<1> QED BY <1>3, <1>4, <1>5, <1>6

\* The tags of the packets, one by one (Packet::get_type).
LEMMA TagIs ==
    /\ Tag("Hello") = 1 /\ Tag("HelloAck") = 2 /\ Tag("Close") = 3
    /\ Tag("KeepAlive") = 4 /\ Tag("Ping") = 5 /\ Tag("Pong") = 6
    /\ Tag("Data") = 7
<1>1. /\ DOMAIN Tags = 1..7 /\ Tags[1] = "Hello" /\ Tags[2] = "HelloAck"
      /\ Tags[3] = "Close" /\ Tags[4] = "KeepAlive" /\ Tags[5] = "Ping"
      /\ Tags[6] = "Pong" /\ Tags[7] = "Data"
  BY DEF Tags
<1>2. \A i \in 1..7, j \in 1..7 : Tags[i] = Tags[j] => i = j
  BY DEF Tags
<1>3. \A i \in 1..7 : Tag(Tags[i]) = i
  BY <1>1, <1>2 DEF Tag
<1> QED BY <1>1, <1>3

\* The packets whose length is fixed, one by one (decode_control).
LEMMA FixedLength ==
    /\ DOMAIN fixed_length
          = {"Hello", "HelloAck", "Close", "KeepAlive", "Ping", "Pong"}
    /\ fixed_length["Close"] = 0 /\ fixed_length["KeepAlive"] = 0
    /\ fixed_length["Hello"] = 4 /\ fixed_length["HelloAck"] = 4
    /\ fixed_length["Ping"] = 4 /\ fixed_length["Pong"] = 4
<1>1. ToSet(Tags) = {"Hello", "HelloAck", "Close", "KeepAlive", "Ping", "Pong", "Data"}
  BY DEF ToSet, Tags
<1> QED BY <1>1 DEF fixed_length

\* What is encoded is decoded to the same packet (Packet::encode, Packet::decode).
LEMMA PacketRoundTrip ==
    ASSUME NEW p \in Packet
    PROVE  /\ Encode(p) \in Seq(Byte)
           /\ Tag(p.type) \in Byte
           /\ Decodes(Tag(p.type), Encode(p))
           /\ Decode(Tag(p.type), Encode(p)) = p
<1>1. /\ DOMAIN Tags = 1..7 /\ Tags[1] = "Hello" /\ Tags[2] = "HelloAck"
      /\ Tags[3] = "Close" /\ Tags[4] = "KeepAlive" /\ Tags[5] = "Ping"
      /\ Tags[6] = "Pong" /\ Tags[7] = "Data"
  BY DEF Tags
<1>2. CASE p \in [type : {"Data"}, data : Seq(Byte)]
  <2>1. p = [type |-> "Data", data |-> p.data] /\ p.data \in Seq(Byte) /\ p.type = "Data"
    BY <1>2
  <2>2. Encode(p) = p.data
    BY <2>1 DEF Encode
  <2>3. Tag(p.type) = 7
    BY <2>1, TagIs
  <2>4. Decodes(7, p.data)
    BY <1>1, FixedLength DEF Decodes
  <2>5. Decode(7, p.data) = [type |-> "Data", data |-> p.data]
    BY <1>1 DEF Decode
  <2> QED BY <2>1, <2>2, <2>3, <2>4, <2>5 DEF Byte
<1>3. CASE p \in [type : {"Close", "KeepAlive"}]
  <2>1. p = [type |-> p.type] /\ p.type \in {"Close", "KeepAlive"}
    BY <1>3
  <2>2. Encode(p) = <<>>
    BY <2>1 DEF Encode
  <2>3. PICK t \in {3, 4} : Tag(p.type) = t /\ Tags[t] = p.type
    BY <1>1, <2>1, TagIs
  <2>4. Decodes(t, <<>>)
    BY <1>1, <2>1, <2>3, FixedLength DEF Decodes
  <2>5. Decode(t, <<>>) = [type |-> p.type]
    BY <2>1, <2>3 DEF Decode
  <2>6. <<>> \in Seq(Byte)
    OBVIOUS
  <2> QED BY <2>1, <2>2, <2>3, <2>4, <2>5, <2>6 DEF Byte
<1>4. CASE p \in [type : {"Hello", "HelloAck", "Ping", "Pong"}, value : U32]
  <2>1. /\ p = [type |-> p.type, value |-> p.value] /\ p.value \in U32
        /\ p.type \in {"Hello", "HelloAck", "Ping", "Pong"}
    BY <1>4
  <2> DEFINE b == u32_to_be_bytes(p.value)
  <2>2. Encode(p) = b
    BY <2>1 DEF Encode
  <2>3. b \in Seq(Byte) /\ Len(b) = 4 /\ u32_from_be_bytes(b) = p.value
    BY <2>1, U32RoundTrip
  <2> HIDE DEF b
  <2>4. PICK t \in {1, 2, 5, 6} : Tag(p.type) = t /\ Tags[t] = p.type
    BY <1>1, <2>1, TagIs
  <2>5. Decodes(t, b)
    BY <1>1, <2>1, <2>3, <2>4, FixedLength DEF Decodes
  <2>6. Decode(t, b) = [type |-> p.type, value |-> p.value]
    BY <2>1, <2>3, <2>4 DEF Decode
  <2> QED BY <2>1, <2>2, <2>3, <2>4, <2>5, <2>6 DEF Byte
<1> QED BY <1>2, <1>3, <1>4 DEF Packet

-----------------------------------------------------------------------------
(***************************************************************************)
(* Frames on the wire.                                                     *)
(***************************************************************************)

\* The elements of two strings behind each other.
LEMMA CatAt ==
    ASSUME NEW V, NEW a \in Seq(V), NEW b \in Seq(V), NEW i \in 1..(Len(a) + Len(b))
    PROVE  Cat(a, b)[i] = IF i <= Len(a) THEN a[i] ELSE b[i - Len(a)]
  BY DEF Cat

\* The length of s is n; as inequalities, which the provers do not turn into the
\* domain of s.
Long(s, n) == Len(s) <= n /\ n <= Len(s)

\* What begins with the same string goes on the same.
LEMMA CatCancel ==
    ASSUME NEW V, NEW a \in Seq(V), NEW b \in Seq(V), NEW c \in Seq(V),
           Cat(a, b) = Cat(a, c)
    PROVE  b = c
<1>1. Len(b) = Len(c)
  <2>1. Len(Cat(a, b)) = Len(a) + Len(b) /\ Len(Cat(a, c)) = Len(a) + Len(c)
    BY CatType
  <2>2. Len(a) \in Nat /\ Len(b) \in Nat /\ Len(c) \in Nat
    OBVIOUS
  <2> QED BY <2>1, <2>2
<1>2. ASSUME NEW i \in 1..Len(b) PROVE b[i] = c[i]
  <2> DEFINE k == Len(a) + i
  <2>1. /\ Len(a) \in Nat /\ Len(b) \in Nat /\ Len(c) \in Nat
        /\ k \in 1..(Len(a) + Len(b)) /\ k \in 1..(Len(a) + Len(c))
        /\ ~(k <= Len(a)) /\ k - Len(a) = i
    BY <1>1
  <2> HIDE DEF k
  <2>2. Cat(a, b)[k] = b[i]
    BY <2>1, CatAt
  <2>3. Cat(a, c)[k] = c[i]
    BY <2>1, CatAt
  <2> QED BY <2>2, <2>3
<1> QED BY <1>1, <1>2, SeqEqual

\* Of two ways to cut a string, the piece of one that reaches farther begins with
\* that of the other.
LEMMA CutPrefix ==
    ASSUME NEW V, NEW a \in Seq(V), NEW r \in Seq(V), NEW b \in Seq(V), NEW s \in Seq(V),
           Cat(b, s) = Cat(a, r), Len(a) <= Len(b)
    PROVE  /\ SubSeq(b, Len(a) + 1, Len(b)) \in Seq(V)
           /\ b = Cat(a, SubSeq(b, Len(a) + 1, Len(b)))
           /\ Cat(SubSeq(b, Len(a) + 1, Len(b)), s) = r
<1> DEFINE n == Len(a)
           p == SubSeq(b, 1, n)
           c == SubSeq(b, n + 1, Len(b))
<1>1. n \in Nat /\ n <= Len(b) /\ Len(b) \in Nat
  OBVIOUS
<1>2. p \in Seq(V) /\ c \in Seq(V) /\ Len(p) = n /\ b = Cat(p, c)
  <2> HIDE DEF n
  <2> QED BY <1>1, CutInTwo
<1>3. \A i \in 1..n : p[i] = b[i]
  BY <1>1
<1> HIDE DEF p, c
<1>4. ASSUME NEW i \in 1..n PROVE p[i] = a[i]
  <2>1. \A j \in 1..Len(b) : Cat(b, s)[j] = b[j]
    BY CatType
  <2>2. \A j \in 1..Len(a) : Cat(a, r)[j] = a[j]
    BY CatType
  <2> QED BY <1>1, <1>3, <2>1, <2>2
<1>5. p = a
  BY <1>2, <1>4, SeqEqual
<1>6. Cat(a, Cat(c, s)) = Cat(a, r)
  <2>1. Cat(Cat(a, c), s) = Cat(a, Cat(c, s))
    BY <1>2, CatAssociative
  <2> QED BY <1>2, <1>5, <2>1
<1>7. Cat(c, s) \in Seq(V)
  BY <1>2, CatType
<1>8. Cat(c, s) = r
  BY <1>6, <1>7, CatCancel
<1> QED BY <1>2, <1>5, <1>8 DEF c, n

\* The header that encode writes (frame.rs).
Header(f) == Cat(Cat(Cat(MAGIC_NUMBER, <<VERSION>>),
                     u16_to_be_bytes(Len(f.payload) % 65536)),
                 <<f.flag, f.ty>>)

\* The length field holds the length of every legal payload.
LEMMA SmallMod ==
    ASSUME NEW n \in Nat, n < 65536
    PROVE  n % 65536 = n
  OBVIOUS

\* The fields of a frame.
LEMMA FrameType ==
    ASSUME NEW f \in Frame
    PROVE  /\ f.flag \in {END_FLAG, MORE_FLAG} /\ f.ty \in Byte
           /\ f.payload \in Seq(Byte) /\ Len(f.payload) \in Nat
           /\ Len(f.payload) < 65536
           /\ f = [flag |-> f.flag, ty |-> f.ty, payload |-> f.payload]
  BY DEF Frame

MadeOf(h, V, m, v, u, t) ==
    /\ h \in Seq(V) /\ Long(h, 8)
    /\ h[1] = m[1] /\ h[2] = m[2] /\ h[3] = m[3] /\ h[4] = v[1]
    /\ h[5] = u[1] /\ h[6] = u[2] /\ h[7] = t[1] /\ h[8] = t[2]

\* The bytes of a header are those of its four parts.
LEMMA HeaderParts ==
    ASSUME NEW V, NEW m \in Seq(V), NEW v \in Seq(V), NEW u \in Seq(V), NEW t \in Seq(V),
           Long(m, 3), Long(v, 1), Long(u, 2), Long(t, 2)
    PROVE  MadeOf(Cat(Cat(Cat(m, v), u), t), V, m, v, u, t)
<1> SUFFICES ASSUME NEW a, a = m \o v, NEW b, b = a \o u, NEW h, h = b \o t
             PROVE  /\ h \in Seq(V) /\ Long(h, 8)
                    /\ h[1] = m[1] /\ h[2] = m[2] /\ h[3] = m[3] /\ h[4] = v[1]
                    /\ h[5] = u[1] /\ h[6] = u[2] /\ h[7] = t[1] /\ h[8] = t[2]
  BY DEF Cat, MadeOf
<1>1. /\ a \in Seq(V) /\ Long(a, 4)
      /\ a[1] = m[1] /\ a[2] = m[2] /\ a[3] = m[3] /\ a[4] = v[1]
  BY DEF Long
<1>2. /\ b \in Seq(V) /\ Long(b, 6)
      /\ b[1] = a[1] /\ b[2] = a[2] /\ b[3] = a[3] /\ b[4] = a[4]
      /\ b[5] = u[1] /\ b[6] = u[2]
  BY <1>1 DEF Long
<1>3. /\ h \in Seq(V) /\ Long(h, 8)
      /\ h[1] = b[1] /\ h[2] = b[2] /\ h[3] = b[3] /\ h[4] = b[4]
      /\ h[5] = b[5] /\ h[6] = b[6] /\ h[7] = t[1] /\ h[8] = t[2]
  BY <1>2 DEF Long
<1> QED BY <1>1, <1>2, <1>3

\* Two bytes.
LEMMA Pair ==
    ASSUME NEW V, NEW x \in V, NEW y \in V
    PROVE  /\ <<x, y>> \in Seq(V) /\ Long(<<x, y>>, 2)
           /\ <<x, y>>[1] = x /\ <<x, y>>[2] = y
  BY DEF Long

\* The eight bytes of a header.
LEMMA HeaderType ==
    ASSUME NEW f \in Frame
    PROVE  /\ Header(f) \in Seq(Byte) /\ Long(Header(f), 8)
           /\ Header(f)[1] = 78 /\ Header(f)[2] = 67 /\ Header(f)[3] = 68
           /\ Header(f)[4] = 1 /\ Header(f)[7] = f.flag /\ Header(f)[8] = f.ty
           /\ 256 * Header(f)[5] + Header(f)[6] = Len(f.payload)
<1> DEFINE n  == Len(f.payload)
           hi == n \div 256
           lo == n % 256
           m  == MAGIC_NUMBER
           v  == <<VERSION>>
           u  == u16_to_be_bytes(n % 65536)
           t  == <<f.flag, f.ty>>
<1>1. n \in Nat /\ n < 65536 /\ f.flag \in Byte /\ f.ty \in Byte
  BY FrameType DEF Byte, END_FLAG, MORE_FLAG
<1> HIDE DEF n
<1>2. hi \in Byte /\ lo \in Byte /\ 256 * hi + lo = n
  BY <1>1, U16RoundTrip
<1>3. u = <<hi, lo>>
  BY <1>1, SmallMod DEF u16_to_be_bytes
<1> HIDE DEF hi, lo
<1>4. t \in Seq(Byte) /\ Long(t, 2) /\ t[1] = f.flag /\ t[2] = f.ty
  <2> SUFFICES ASSUME NEW x \in Byte, NEW y \in Byte, x = f.flag, y = f.ty
               PROVE  /\ <<x, y>> \in Seq(Byte) /\ Long(<<x, y>>, 2)
                      /\ <<x, y>>[1] = x /\ <<x, y>>[2] = y
    BY <1>1
  <2> QED BY Pair
<1>5. u \in Seq(Byte) /\ Long(u, 2) /\ u[1] = hi /\ u[2] = lo
  <2>1. /\ <<hi, lo>> \in Seq(Byte) /\ Long(<<hi, lo>>, 2)
        /\ <<hi, lo>>[1] = hi /\ <<hi, lo>>[2] = lo
    BY <1>2, Pair
  <2> HIDE DEF u
  <2> QED BY <2>1, <1>3
<1>6. /\ v \in Seq(Byte) /\ Long(v, 1) /\ v[1] = 1
      /\ m \in Seq(Byte) /\ Long(m, 3)
      /\ m[1] = 78 /\ m[2] = 67 /\ m[3] = 68
  BY DEF Byte, VERSION, MAGIC_NUMBER, Long
<1>7. Header(f) = Cat(Cat(Cat(m, v), u), t)
  BY DEF Header, n
<1> HIDE DEF m, v, u, t
<1> DEFINE h == Header(f)
<1>8. /\ h \in Seq(Byte) /\ Long(h, 8)
      /\ h[1] = m[1] /\ h[2] = m[2] /\ h[3] = m[3] /\ h[4] = v[1]
      /\ h[5] = u[1] /\ h[6] = u[2] /\ h[7] = t[1] /\ h[8] = t[2]
  <2> HIDE DEF h
  <2>1. h = Cat(Cat(Cat(m, v), u), t)
    BY <1>7 DEF h
  <2>2. /\ m \in Seq(Byte) /\ v \in Seq(Byte) /\ u \in Seq(Byte) /\ t \in Seq(Byte)
        /\ Long(m, 3) /\ Long(v, 1) /\ Long(u, 2) /\ Long(t, 2)
    BY <1>4, <1>5, <1>6
  <2>3. MadeOf(Cat(Cat(Cat(m, v), u), t), Byte, m, v, u, t)
    BY <2>2, HeaderParts
  <2>4. MadeOf(h, Byte, m, v, u, t)
    BY <2>1, <2>3
  <2> QED BY <2>4 DEF MadeOf
<1> HIDE DEF h
<1>9. /\ h[1] = 78 /\ h[2] = 67 /\ h[3] = 68 /\ h[4] = 1 /\ h[7] = f.flag
      /\ h[8] = f.ty /\ h[5] = hi /\ h[6] = lo
  BY <1>4, <1>5, <1>6, <1>8
<1>10. 256 * h[5] + h[6] = n
  BY <1>2, <1>9
<1> QED BY <1>8, <1>9, <1>10 DEF h, n

\* A frame is encoded as its header and its payload.
LEMMA FrameBytes ==
    ASSUME NEW f \in Frame
    PROVE  EncodeFrame(f) = Cat(Header(f), f.payload) /\ EncodeFrame(f) \in Seq(Byte)
<1>1. EncodeFrame(f) = MAGIC_NUMBER \o <<VERSION>> \o u16_to_be_bytes(Len(f.payload) % 65536)
                          \o <<f.flag, f.ty>> \o f.payload
  BY DEF EncodeFrame
<1>2. EncodeFrame(f) = Cat(Header(f), f.payload)
  BY <1>1 DEF Cat, Header
<1>3. Cat(Header(f), f.payload) \in Seq(Byte)
  BY FrameType, HeaderType, CatType
<1> QED BY <1>2, <1>3

\* The parts of the header that peek_head looks at.
LEMMA ThreeOf ==
    ASSUME NEW V, NEW b \in Seq(V), 8 <= Len(b)
    PROVE  SubSeq(b, 1, 3) = <<b[1], b[2], b[3]>>
<1> DEFINE p == SubSeq(b, 1, 3)
           q == <<b[1], b[2], b[3]>>
<1>1. b[1] \in V /\ b[2] \in V /\ b[3] \in V
  OBVIOUS
<1>2. p \in Seq(V) /\ Long(p, 3) /\ p[1] = b[1] /\ p[2] = b[2] /\ p[3] = b[3]
  BY DEF Long
<1>3. q \in Seq(V) /\ Long(q, 3) /\ q[1] = b[1] /\ q[2] = b[2] /\ q[3] = b[3]
  BY <1>1 DEF Long
<1> HIDE DEF p, q
<1>4. Len(p) = Len(q) /\ \A i \in 1..Len(p) : p[i] = q[i]
  BY <1>2, <1>3 DEF Long
<1>5. p = q
  BY <1>2, <1>3, <1>4, SeqEqual
<1> QED BY <1>5 DEF p, q

\* The two bytes of the length field.
LEMMA TwoOf ==
    ASSUME NEW V, NEW b \in Seq(V), 8 <= Len(b)
    PROVE  SubSeq(b, 5, 6)[1] = b[5] /\ SubSeq(b, 5, 6)[2] = b[6]
  OBVIOUS

\* A buffer that begins like an encoded frame begins with its header.
LEMMA Begins ==
    ASSUME NEW f \in Frame, NEW b \in Seq(Byte), NEW s \in Seq(Byte), NEW r \in Seq(Byte),
           Cat(b, s) = Cat(EncodeFrame(f), r), 8 <= Len(b)
    PROVE  \A i \in 1..8 : b[i] = Header(f)[i]
<1> DEFINE h == Header(f)
           p == f.payload
           e == EncodeFrame(f)
<1>1. h \in Seq(Byte) /\ Long(h, 8) /\ p \in Seq(Byte)
  BY HeaderType, FrameType
<1>2. e = Cat(h, p) /\ e \in Seq(Byte)
  BY FrameBytes
<1>3. Cat(b, s) = Cat(e, r)
  OBVIOUS
<1> HIDE DEF h, p, e
<1> SUFFICES ASSUME NEW i \in 1..8 PROVE b[i] = h[i]
  BY DEF h
<1>4. Len(b) \in Nat /\ Len(s) \in Nat /\ Len(h) \in Nat /\ Len(p) \in Nat /\ Len(r) \in Nat
  BY <1>1
<1>5. Len(h) + Len(p) <= Len(e)
  <2>1. Len(Cat(h, p)) = Len(h) + Len(p)
    BY <1>1, CatType
  <2> QED BY <1>2, <1>4, <2>1
<1>6. Cat(b, s)[i] = b[i]
  <2>1. i \in 1..(Len(b) + Len(s)) /\ i <= Len(b)
    BY <1>4
  <2> QED BY <2>1, CatAt
<1>7. Cat(e, r)[i] = e[i]
  <2>1. i \in 1..(Len(e) + Len(r)) /\ i <= Len(e)
    BY <1>1, <1>2, <1>4, <1>5 DEF Long
  <2> QED BY <1>2, <2>1, CatAt
<1>8. Cat(h, p)[i] = h[i]
  <2>1. i \in 1..(Len(h) + Len(p)) /\ i <= Len(h)
    BY <1>1, <1>4 DEF Long
  <2> QED BY <1>1, <2>1, CatAt
<1> QED BY <1>2, <1>3, <1>6, <1>7, <1>8

\* As soon as all of the header has come, peek_head reads the flag, the type and
\* the length that encode wrote.
LEMMA Parsed ==
    ASSUME byte_buffer \in Seq(Byte), NEW f \in Frame, NEW s \in Seq(Byte),
           NEW r \in Seq(Byte), Cat(byte_buffer, s) = Cat(EncodeFrame(f), r), HasHead
    PROVE  /\ ValidHead
           /\ FrameLen = 8 + Len(f.payload)
           /\ byte_buffer[7] = f.flag /\ byte_buffer[8] = f.ty
<1> DEFINE b == byte_buffer
           h == Header(f)
<1>1. 8 <= Len(b) /\ b \in Seq(Byte)
  BY DEF HasHead, HEADER_SIZE
<1>2. \A i \in 1..8 : b[i] = h[i]
  BY <1>1, Begins
<1>3. /\ h[1] = 78 /\ h[2] = 67 /\ h[3] = 68 /\ h[4] = 1 /\ h[7] = f.flag
      /\ h[8] = f.ty /\ 256 * h[5] + h[6] = Len(f.payload)
  BY HeaderType
<1> HIDE DEF b, h
<1>4. b[1] = 78 /\ b[2] = 67 /\ b[3] = 68 /\ b[4] = 1 /\ b[7] = f.flag /\ b[8] = f.ty
  BY <1>2, <1>3
<1>5. 256 * b[5] + b[6] = Len(f.payload)
  BY <1>2, <1>3
<1>6. SubSeq(b, 1, 3) = MAGIC_NUMBER
  BY <1>1, <1>4, ThreeOf DEF MAGIC_NUMBER
<1>7. b[7] \in {END_FLAG, MORE_FLAG}
  BY <1>4, FrameType
<1>8. u16_from_be_bytes(SubSeq(b, 5, 6)) = 256 * b[5] + b[6]
  BY <1>1, TwoOf DEF u16_from_be_bytes
<1> QED BY <1>4, <1>5, <1>6, <1>7, <1>8 DEF b, ValidHead, FrameLen, VERSION, HEADER_SIZE

\* The first frame of a buffer that holds all of it is the one that was encoded,
\* and what is left goes on behind it (Frame::encode, Frame::decode).
LEMMA Taken ==
    ASSUME byte_buffer \in Seq(Byte), NEW f \in Frame, NEW s \in Seq(Byte),
           NEW r \in Seq(Byte), Cat(byte_buffer, s) = Cat(EncodeFrame(f), r), HasFrame
    PROVE  /\ FirstFrame = f
           /\ SubSeq(byte_buffer, FrameLen + 1, Len(byte_buffer)) \in Seq(Byte)
           /\ Cat(SubSeq(byte_buffer, FrameLen + 1, Len(byte_buffer)), s) = r
<1> DEFINE b == byte_buffer
           h == Header(f)
           p == f.payload
           e == EncodeFrame(f)
           c == SubSeq(b, Len(e) + 1, Len(b))
<1>1. HasHead /\ Len(b) >= FrameLen
  BY DEF HasFrame
<1>2. FrameLen = 8 + Len(p) /\ b[7] = f.flag /\ b[8] = f.ty
  BY <1>1, Parsed
<1>3. h \in Seq(Byte) /\ Long(h, 8) /\ p \in Seq(Byte) /\ Len(p) \in Nat
  BY HeaderType, FrameType
<1>4. e = Cat(h, p) /\ e \in Seq(Byte)
  BY FrameBytes
<1>5. Len(e) = 8 + Len(p)
  <2> HIDE DEF h, p, e
  <2>1. Len(Cat(h, p)) = Len(h) + Len(p)
    BY <1>3, CatType
  <2> QED BY <1>3, <1>4, <2>1 DEF Long
<1>6. c \in Seq(Byte) /\ b = Cat(e, c) /\ Cat(c, s) = r
  <2>1. Len(e) <= Len(b) /\ Cat(b, s) = Cat(e, r) /\ b \in Seq(Byte)
    BY <1>1, <1>2, <1>3, <1>5
  <2> HIDE DEF b, e
  <2> QED BY <1>4, <2>1, CutPrefix
<1>7. SubSeq(b, 8 + 1, 8 + Len(p)) = p
  <2> HIDE DEF b, h, p, e, c
  <2>1. Len(c) \in Nat
    BY <1>6
  <2>2. \A i \in 1..Len(p) : b[8 + i] = p[i]
    <3> SUFFICES ASSUME NEW i \in 1..Len(p) PROVE b[8 + i] = p[i]
      OBVIOUS
    <3> DEFINE k == 8 + i
    <3>1. k \in Nat /\ k \in 1..(Len(h) + Len(p)) /\ ~(k <= Len(h)) /\ k - Len(h) = i
      BY <1>3 DEF Long
    <3>2. k \in 1..(Len(e) + Len(c)) /\ k <= Len(e)
      BY <1>3, <1>5, <2>1
    <3> HIDE DEF k
    <3>3. Cat(h, p)[k] = p[i]
      BY <1>3, <3>1, CatAt
    <3>4. Cat(e, c)[k] = e[k]
      BY <1>4, <1>6, <3>2, CatAt
    <3> QED BY <1>4, <1>6, <3>3, <3>4 DEF k
  <2>3. 8 + Len(p) <= Len(b)
    BY <1>1, <1>2, <1>3
  <2>4. /\ b \in Seq(Byte)
    BY DEF b
  <2> DEFINE q == SubSeq(b, 8 + 1, 8 + Len(p))
  <2>5. q \in Seq(Byte) /\ Len(q) = Len(p) /\ \A i \in 1..Len(p) : q[i] = b[8 + i]
    BY <1>3, <2>3, <2>4
  <2> HIDE DEF q
  <2>6. q = p
    BY <1>3, <2>2, <2>5, SeqEqual
  <2> QED BY <2>6 DEF q
<1>8. f = [flag |-> f.flag, ty |-> f.ty, payload |-> p]
  BY FrameType
<1>9. FirstFrame = [flag |-> b[7], ty |-> b[8], payload |-> SubSeq(b, 8 + 1, 8 + Len(p))]
  <2> HIDE DEF p
  <2> QED BY <1>2 DEF FirstFrame, HEADER_SIZE
<1>10. FirstFrame = f
  <2> HIDE DEF p, b
  <2> QED BY <1>2, <1>7, <1>8, <1>9
<1>11. c = SubSeq(b, FrameLen + 1, Len(b))
  BY <1>2, <1>5
<1> QED BY <1>6, <1>10, <1>11

-----------------------------------------------------------------------------
(***************************************************************************)
(* Fragments.                                                              *)
(***************************************************************************)

\* The next piece of a string extends what the pieces before it make up.
LEMMA NextPiece ==
    ASSUME NEW V, NEW s \in Seq(V), NEW a \in Nat, NEW m \in Nat
    PROVE  /\ SubSeq(s, a + 1, Least(a + m, Len(s))) \in Seq(V)
           /\ Len(SubSeq(s, a + 1, Least(a + m, Len(s)))) <= m
           /\ Cat(SubSeq(s, 1, Least(a, Len(s))), SubSeq(s, a + 1, Least(a + m, Len(s))))
                 = SubSeq(s, 1, Least(a + m, Len(s)))
<1> DEFINE L == Len(s)
           c == Least(a + m, L)
           p == SubSeq(s, a + 1, c)
           t == SubSeq(s, 1, c)
           u == SubSeq(s, 1, Least(a, L))
<1>1. L \in Nat
  OBVIOUS
<1>2. c \in Nat /\ c <= L /\ c <= a + m
  BY <1>1 DEF Least
<1>3. t \in Seq(V) /\ Len(t) = c /\ \A i \in 1..c : t[i] = s[i]
  <2> HIDE DEF c
  <2> QED BY <1>1, <1>2, PieceType
<1>4. CASE L <= a
  <2>1. c = L /\ Least(a, L) = L
    BY <1>1, <1>4 DEF Least
  <2>2. p = <<>> /\ u = t
    <3> HIDE DEF c
    <3> QED BY <1>1, <1>4, <2>1, SubSeqEmpty
  <2> HIDE DEF p, t, u, c
  <2>3. Cat(t, <<>>) = t
    BY <1>3, CatEmpty
  <2>4. <<>> \in Seq(V) /\ Len(<<>>) <= m
    OBVIOUS
  <2>5. Cat(u, p) = t /\ p \in Seq(V) /\ Len(p) <= m
    BY <2>2, <2>3, <2>4
  <2> QED BY <2>5 DEF p, t, u, c, L
<1>5. CASE a < L
  <2>1. Least(a, L) = a /\ a <= c
    BY <1>1, <1>5 DEF Least
  <2> HIDE DEF c
  <2>2. u \in Seq(V) /\ Len(u) = a /\ \A i \in 1..a : u[i] = s[i]
    BY <1>1, <1>5, <2>1, PieceType
  <2>3. p \in Seq(V) /\ Len(p) = c - a /\ \A i \in 1..(c - a) : p[i] = s[a + i]
    BY <1>1, <1>2, <2>1
  <2> HIDE DEF p, t, u, L
  <2>4. Len(t) = Len(u) + Len(p)
    BY <1>2, <1>3, <2>2, <2>3
  <2>5. \A i \in 1..Len(u) : t[i] = u[i]
    BY <1>2, <1>3, <2>1, <2>2
  <2>6. \A i \in 1..Len(p) : t[Len(u) + i] = p[i]
    <3> SUFFICES ASSUME NEW i \in 1..Len(p) PROVE t[Len(u) + i] = p[i]
      OBVIOUS
    <3> DEFINE k == a + i
    <3>1. i \in 1..(c - a) /\ k \in 1..c
      BY <1>2, <2>1, <2>3
    <3>2. p[i] = s[k]
      BY <2>3, <3>1
    <3> HIDE DEF k
    <3>3. t[k] = s[k]
      BY <1>3, <3>1
    <3>4. k = Len(u) + i
      BY <2>2 DEF k
    <3> QED BY <3>2, <3>3, <3>4
  <2>7. Cat(u, p) = t
    BY <1>3, <2>2, <2>3, <2>4, <2>5, <2>6, CatIs
  <2>8. Len(p) <= m
    BY <1>2, <2>3
  <2> QED BY <2>3, <2>7, <2>8 DEF p, t, u, c, L
<1> QED BY <1>1, <1>4, <1>5

PieceOf(s, m, i) == SubSeq(s, (i - 1) * m + 1, Least(i * m, Len(s)))
Pieces(s, m, n)  == [i \in 1..n |-> PieceOf(s, m, i)]

\* The number of bytes in n pieces.
LEMMA Products ==
    ASSUME NEW n \in Nat, NEW m \in Nat
    PROVE  /\ (n + 1) * m = n * m + m /\ ((n + 1) - 1) * m = n * m
           /\ n * m \in Nat /\ 0 * m = 0
  OBVIOUS

\* A piece is no longer than a frame's payload, and the pieces before it and the
\* piece make a longer beginning of the string.
LEMMA PiecesType ==
    ASSUME NEW V, NEW s \in Seq(V), NEW m \in Nat, NEW n \in Nat
    PROVE  /\ PieceOf(s, m, n + 1) \in Seq(V) /\ Len(PieceOf(s, m, n + 1)) <= m
           /\ Cat(SubSeq(s, 1, Least(n * m, Len(s))), PieceOf(s, m, n + 1))
                 = SubSeq(s, 1, Least((n + 1) * m, Len(s)))
<1> DEFINE a == n * m
<1>1. a \in Nat /\ (n + 1) * m = a + m /\ ((n + 1) - 1) * m = a
  BY Products
<1>2. PieceOf(s, m, n + 1) = SubSeq(s, a + 1, Least(a + m, Len(s)))
  <2> HIDE DEF a
  <2> QED BY <1>1 DEF PieceOf
<1> HIDE DEF a
<1>3. Cat(SubSeq(s, 1, Least(a, Len(s))), SubSeq(s, a + 1, Least(a + m, Len(s))))
         = SubSeq(s, 1, Least(a + m, Len(s)))
  BY <1>1, NextPiece
<1>4. /\ SubSeq(s, a + 1, Least(a + m, Len(s))) \in Seq(V)
      /\ Len(SubSeq(s, a + 1, Least(a + m, Len(s)))) <= m
  BY <1>1, NextPiece
<1>5. n * m = a
  BY DEF a
<1> QED BY <1>1, <1>2, <1>3, <1>4, <1>5

\* The pieces of a string, one behind the other, are its beginning (chunks in
\* fragment_packet, the loop of try_assemble_packet).
LEMMA PiecesMakeUp ==
    ASSUME NEW V, NEW s \in Seq(V), NEW m \in Nat, NEW N \in Nat
    PROVE  FlattenSeq(Pieces(s, m, N)) = SubSeq(s, 1, Least(N * m, Len(s)))
<1> DEFINE S == {n \in Nat : FlattenSeq(Pieces(s, m, n)) = SubSeq(s, 1, Least(n * m, Len(s)))}
<1>1. 0 \in S
  <2>1. Pieces(s, m, 0) = <<>>
    BY DEF Pieces
  <2>2. Least(0 * m, Len(s)) = 0
    BY Products DEF Least
  <2>3. SubSeq(s, 1, 0) = <<>>
    BY SubSeqEmpty
  <2> QED BY <2>1, <2>2, <2>3, FlattenEmpty
<1>2. ASSUME NEW n \in Nat, n \in S
      PROVE  n + 1 \in S
  <2> DEFINE P == Pieces(s, m, n)
             x == PieceOf(s, m, n + 1)
  <2>1. \A i \in 1..(n + 1) : PieceOf(s, m, i) \in Seq(V)
    <3> SUFFICES ASSUME NEW i \in 1..(n + 1) PROVE PieceOf(s, m, i) \in Seq(V)
      OBVIOUS
    <3>1. i - 1 \in Nat /\ (i - 1) + 1 = i
      OBVIOUS
    <3>2. PieceOf(s, m, (i - 1) + 1) \in Seq(V)
      BY <3>1, PiecesType
    <3> QED BY <3>1, <3>2
  <2>2. P \in Seq(Seq(V)) /\ x \in Seq(V)
    BY <2>1 DEF Pieces
  <2>3. Pieces(s, m, n + 1) = Append(P, x)
    BY DEF Pieces
  <2>4. FlattenSeq(Append(P, x)) = Cat(FlattenSeq(P), x)
    <3> HIDE DEF P, x
    <3> QED BY <2>2, FlattenAppend DEF Cat
  <2>5. FlattenSeq(P) = SubSeq(s, 1, Least(n * m, Len(s)))
    BY <1>2
  <2>6. Cat(SubSeq(s, 1, Least(n * m, Len(s))), x) = SubSeq(s, 1, Least((n + 1) * m, Len(s)))
    BY PiecesType
  <2> HIDE DEF P, x
  <2>7. FlattenSeq(Pieces(s, m, n + 1)) = SubSeq(s, 1, Least((n + 1) * m, Len(s)))
    BY <2>3, <2>4, <2>5, <2>6
  <2> QED BY <2>7
<1>3. Nat \subseteq S
  <2> HIDE DEF S
  <2> QED BY <1>1, <1>2, NatSetInduction
<1>4. N \in S
  <2> HIDE DEF S
  <2> QED BY <1>3
<1> QED BY <1>4

\* How many frames a string of n bytes takes.
FrameNum(n) == IF n <= MAX_PAYLOAD_SIZE
               THEN 1
               ELSE (n + MAX_PAYLOAD_SIZE - 1) \div MAX_PAYLOAD_SIZE

\* There are enough frames for all the bytes (div_ceil in fragment_packet).
LEMMA EnoughFrames ==
    ASSUME NEW n \in Nat, NEW m \in Nat, 1 <= m
    PROVE  /\ (n + m - 1) \div m \in Nat
           /\ n <= ((n + m - 1) \div m) * m
           /\ m < n => 1 <= (n + m - 1) \div m
<1> DEFINE k == n + m - 1
           q == k \div m
<1>1. k \in Nat
  OBVIOUS
<1> HIDE DEF k
<1>2. q \in Nat /\ k = (q * m) + (k % m) /\ k % m < m /\ k % m \in Nat
  BY <1>1
<1>3. q * m \in Nat
  BY <1>2
<1>4. n <= q * m
  <2> HIDE DEF q
  <2> DEFINE a == q * m
             b == k % m
  <2>1. a \in Nat /\ b \in Nat /\ k = a + b /\ b < m
    BY <1>2, <1>3
  <2> HIDE DEF a, b
  <2>2. n <= a
    BY <2>1 DEF k
  <2> QED BY <2>2 DEF a
<1>5. m < n => 1 <= q
  <2>1. q = 0 => q * m = 0
    OBVIOUS
  <2> HIDE DEF q
  <2> QED BY <1>2, <1>4, <2>1
<1> QED BY <1>2, <1>4, <1>5 DEF k

\* There is at least one frame, and there are enough of them.
LEMMA FrameNumIs ==
    ASSUME NEW n \in Nat
    PROVE  /\ FrameNum(n) \in Nat /\ 1 <= FrameNum(n)
           /\ n <= FrameNum(n) * MAX_PAYLOAD_SIZE
<1> DEFINE m == MAX_PAYLOAD_SIZE
           q == (n + m - 1) \div m
<1>1. m \in Nat /\ 1 <= m
  BY CodecAssumption
<1>2. q \in Nat /\ n <= q * m /\ (m < n => 1 <= q)
  <2> HIDE DEF m
  <2> QED BY <1>1, EnoughFrames
<1>3. CASE n <= m
  <2>1. FrameNum(n) = 1
    BY <1>3 DEF FrameNum
  <2>2. 1 * m = m
    BY <1>1
  <2> QED BY <1>3, <2>1, <2>2
<1>4. CASE m < n
  <2>1. FrameNum(n) = q
    BY <1>1, <1>4 DEF FrameNum
  <2> HIDE DEF q
  <2> QED BY <1>2, <1>4, <2>1
<1> QED BY <1>1, <1>3, <1>4

\* Frames that end like a packet and make packet p.
IsPacketOf(frs, p) ==
    /\ frs \in Seq(Frame)
    /\ 1 <= Len(frs)
    /\ frs[Len(frs)].flag = END_FLAG
    /\ \A i \in 1..(Len(frs) - 1) : frs[i].flag = MORE_FLAG
    /\ Assembles(frs)
    /\ Decode(frs[1].ty, Payload(frs)) = p

\* What fragment_packet makes of a packet, try_assemble_packet makes the packet
\* of, whatever its length (codec.rs).
LEMMA Fragments ==
    ASSUME NEW p \in Packets
    PROVE  IsPacketOf(fragment_packet(p), p)
<1> DEFINE b == Encode(p)
           m == MAX_PAYLOAD_SIZE
           t == Tag(p.type)
           N == FrameNum(Len(b))
           frs == fragment_packet(p)
           fr(i) == [flag    |-> IF i = N THEN END_FLAG ELSE MORE_FLAG,
                     ty      |-> t,
                     payload |-> PieceOf(b, m, i)]
<1>1. p \in Packet /\ m \in Nat /\ 1 <= m /\ m < 65536
  BY CodecAssumption
<1>2. b \in Seq(Byte) /\ t \in Byte /\ Decodes(t, b) /\ Decode(t, b) = p
  BY <1>1, PacketRoundTrip
<1>3. Len(b) \in Nat
  BY <1>2
<1>4. N \in Nat /\ 1 <= N /\ Len(b) <= N * m
  BY <1>3, FrameNumIs
<1>5. frs = [i \in 1..N |-> fr(i)]
  BY DEF fragment_packet, FrameNum, PieceOf
<1> HIDE DEF b, m, t, N, frs
<1>6. ASSUME NEW i \in 1..N
      PROVE  PieceOf(b, m, i) \in Seq(Byte) /\ Len(PieceOf(b, m, i)) < 65536
  <2>1. i - 1 \in Nat /\ (i - 1) + 1 = i
    BY <1>4
  <2>2. PieceOf(b, m, (i - 1) + 1) \in Seq(Byte) /\ Len(PieceOf(b, m, (i - 1) + 1)) <= m
    <3>1. b \in Seq(Byte) /\ m \in Nat /\ i - 1 \in Nat
      BY <1>1, <1>2, <2>1
    <3>2. PieceOf(b, m, (i - 1) + 1) \in Seq(Byte)
      BY <3>1, PiecesType
    <3>3. Len(PieceOf(b, m, (i - 1) + 1)) <= m
      BY <3>1, PiecesType
    <3> QED BY <3>2, <3>3
  <2>3. PieceOf(b, m, i) \in Seq(Byte) /\ Len(PieceOf(b, m, i)) <= m
    BY <2>1, <2>2
  <2>4. Len(PieceOf(b, m, i)) \in Nat
    BY <2>3
  <2> QED BY <1>1, <2>3, <2>4
<1>7. ASSUME NEW i \in 1..N
      PROVE  fr(i) \in Frame
  <2>1. PieceOf(b, m, i) \in Seq(Byte) /\ Len(PieceOf(b, m, i)) < 65536
    BY <1>6
  <2> QED BY <1>2, <2>1 DEF Frame
<1>8. frs \in Seq(Frame) /\ Len(frs) = N /\ \A i \in 1..N : frs[i] = fr(i)
  <2> HIDE DEF fr
  <2> QED BY <1>4, <1>5, <1>7
<1>9. 1 <= Len(frs)
  BY <1>4, <1>8
<1>10. frs[Len(frs)].flag = END_FLAG
  BY <1>4, <1>8
<1>11. \A i \in 1..(Len(frs) - 1) : frs[i].flag = MORE_FLAG
  <2> SUFFICES ASSUME NEW i \in 1..(N - 1) PROVE frs[i].flag = MORE_FLAG
    BY <1>8
  <2>1. i \in 1..N /\ i # N
    BY <1>4
  <2> QED BY <1>8, <2>1
<1>12. DOMAIN frs = 1..N /\ \A i \in 1..N : frs[i].ty = t /\ frs[i].payload = PieceOf(b, m, i)
  BY <1>5, <1>8
<1>13. Payload(frs) = b
  <2>1. [i \in DOMAIN frs |-> frs[i].payload] = Pieces(b, m, N)
    BY <1>12 DEF Pieces
  <2>2. FlattenSeq(Pieces(b, m, N)) = SubSeq(b, 1, Least(N * m, Len(b)))
    <3>1. b \in Seq(Byte) /\ m \in Nat /\ N \in Nat
      BY <1>1, <1>2, <1>4
    <3> QED BY <3>1, PiecesMakeUp
  <2>3. Least(N * m, Len(b)) = Len(b)
    <3> DEFINE a == N * m
    <3>1. a \in Nat /\ Len(b) <= a
      BY <1>1, <1>4
    <3> HIDE DEF a
    <3>2. Least(a, Len(b)) = Len(b)
      BY <1>3, <3>1 DEF Least
    <3> QED BY <3>2 DEF a
  <2>4. SubSeq(b, 1, Len(b)) = b
    BY <1>2
  <2> QED BY <2>1, <2>2, <2>3, <2>4 DEF Payload
<1>14. frs[1].ty = t
  BY <1>4, <1>12
<1>15. Assembles(frs)
  BY <1>2, <1>12, <1>13, <1>14 DEF Assembles
<1>16. Decode(frs[1].ty, Payload(frs)) = p
  BY <1>2, <1>13, <1>14
<1> QED BY <1>8, <1>9, <1>10, <1>11, <1>15, <1>16 DEF IsPacketOf, frs

-----------------------------------------------------------------------------
(***************************************************************************)
(* What packets look like on the wire.                                     *)
(***************************************************************************)

\* The first element's string is the beginning.
LEMMA MapCons ==
    ASSUME NEW D, NEW V, NEW f, IsMap(f, D, V), NEW h \in D, NEW t \in Seq(D)
    PROVE  MapFlat(f, Cat(<<h>>, t)) = Cat(f[h], MapFlat(f, t))
<1> DEFINE o == <<h>>
<1>1. o \in Seq(D)
  OBVIOUS
<1>2. MapFlat(f, o) = f[h]
  BY MapOne
<1> HIDE DEF o
<1>3. MapFlat(f, Cat(o, t)) = Cat(MapFlat(f, o), MapFlat(f, t))
  BY <1>1, MapCat
<1> QED BY <1>2, <1>3 DEF o

\* A string that is not empty is its head and its tail.
LEMMA SplitHead ==
    ASSUME NEW D, NEW s \in Seq(D), s # <<>>
    PROVE  Head(s) \in D /\ Tail(s) \in Seq(D) /\ s = Cat(<<Head(s)>>, Tail(s))
<1>1. Head(s) \in D /\ Tail(s) \in Seq(D)
  BY HeadAndTail
<1>2. s = <<Head(s)>> \o Tail(s)
  BY HeadAndTail
<1> QED BY <1>1, <1>2 DEF Cat

encodes == [frame \in Frame |-> EncodeFrame(frame)]

\* EncodeFrames maps each frame to its bytes.
LEMMA EncodesIsMap ==
    /\ IsMap(encodes, Frame, Byte)
    /\ \A F \in Seq(Frame) : EncodeFrames(F) = MapFlat(encodes, F)
<1>1. \A f \in Frame : EncodeFrame(f) \in Seq(Byte)
  BY FrameBytes
<1>2. IsMap(encodes, Frame, Byte)
  BY <1>1 DEF IsMap, encodes
<1>3. ASSUME NEW F \in Seq(Frame)
      PROVE  EncodeFrames(F) = MapFlat(encodes, F)
  <2>1. DOMAIN F = 1..Len(F) /\ \A i \in 1..Len(F) : F[i] \in Frame
    OBVIOUS
  <2>2. [i \in DOMAIN F |-> EncodeFrame(F[i])] = Mapped(encodes, F)
    BY <2>1 DEF Mapped, encodes
  <2> QED BY <2>2 DEF EncodeFrames, MapFlat
<1> QED BY <1>2, <1>3

\* Encoded frames are bytes.
LEMMA EncodeType ==
    ASSUME NEW F \in Seq(Frame)
    PROVE  EncodeFrames(F) \in Seq(Byte)
<1>1. IsMap(encodes, Frame, Byte) /\ EncodeFrames(F) = MapFlat(encodes, F)
  BY EncodesIsMap
<1>2. MapFlat(encodes, F) \in Seq(Byte)
  BY <1>1, MapType
<1> QED BY <1>1, <1>2

\* Frames sent later follow on the wire.
LEMMA EncodeCat ==
    ASSUME NEW F \in Seq(Frame), NEW G \in Seq(Frame)
    PROVE  EncodeFrames(Cat(F, G)) = Cat(EncodeFrames(F), EncodeFrames(G))
<1>1. Cat(F, G) \in Seq(Frame)
  BY CatType
<1>2. IsMap(encodes, Frame, Byte)
  BY EncodesIsMap
<1>3. /\ EncodeFrames(Cat(F, G)) = MapFlat(encodes, Cat(F, G))
      /\ EncodeFrames(F) = MapFlat(encodes, F)
      /\ EncodeFrames(G) = MapFlat(encodes, G)
  BY <1>1, EncodesIsMap
<1>4. MapFlat(encodes, Cat(F, G)) = Cat(MapFlat(encodes, F), MapFlat(encodes, G))
  BY <1>2, MapCat
<1> QED BY <1>3, <1>4

\* What is first on the wire is the first frame.
LEMMA EncodeFirst ==
    ASSUME NEW F \in Seq(Frame), F # <<>>
    PROVE  /\ Head(F) \in Frame /\ Tail(F) \in Seq(Frame)
           /\ F = Cat(<<Head(F)>>, Tail(F))
           /\ EncodeFrames(F) = Cat(EncodeFrame(Head(F)), EncodeFrames(Tail(F)))
<1>1. IsMap(encodes, Frame, Byte)
  BY EncodesIsMap
<1>2. Head(F) \in Frame /\ Tail(F) \in Seq(Frame) /\ F = Cat(<<Head(F)>>, Tail(F))
  BY SplitHead
<1>3. MapFlat(encodes, F) = Cat(encodes[Head(F)], MapFlat(encodes, Tail(F)))
  <2> DEFINE h == Head(F)
             t == Tail(F)
  <2>1. h \in Frame /\ t \in Seq(Frame) /\ F = Cat(<<h>>, t)
    BY <1>2
  <2> HIDE DEF h, t
  <2>2. MapFlat(encodes, Cat(<<h>>, t)) = Cat(encodes[h], MapFlat(encodes, t))
    BY <2>1, EncodesIsMap, MapCons
  <2> QED BY <2>1, <2>2 DEF h, t
<1>4. /\ EncodeFrames(F) = MapFlat(encodes, F)
      /\ EncodeFrames(Tail(F)) = MapFlat(encodes, Tail(F))
  BY <1>2, EncodesIsMap
<1>5. encodes[Head(F)] = EncodeFrame(Head(F))
  BY <1>2 DEF encodes
<1> QED BY <1>2, <1>3, <1>4, <1>5

\* No frame, no byte.
LEMMA EncodeEmpty == EncodeFrames(<<>>) = <<>>
<1>1. <<>> \in Seq(Frame)
  OBVIOUS
<1> QED BY <1>1, EncodesIsMap, MapEmpty

fragments    == [packet \in Packets |-> fragment_packet(packet)]
FramesOf(ps) == MapFlat(fragments, ps)

\* fragment_packet maps each packet to its frames.
LEMMA FragmentsIsMap == IsMap(fragments, Packets, Frame)
<1>1. \A p \in Packets : fragment_packet(p) \in Seq(Frame)
  BY Fragments DEF IsPacketOf
<1> QED BY <1>1 DEF IsMap, fragments

\* Fragments are frames.
LEMMA FramesType ==
    ASSUME NEW ps \in Seq(Packets)
    PROVE  FramesOf(ps) \in Seq(Frame)
<1>1. MapFlat(fragments, ps) \in Seq(Frame)
  BY FragmentsIsMap, MapType
<1> QED BY <1>1 DEF FramesOf

\* The fragments of a packet sent later follow.
LEMMA FramesCat ==
    ASSUME NEW ps \in Seq(Packets), NEW p \in Packets
    PROVE  FramesOf(Cat(ps, <<p>>)) = Cat(FramesOf(ps), fragment_packet(p))
<1> DEFINE o == <<p>>
<1>1. o \in Seq(Packets)
  OBVIOUS
<1>2. MapFlat(fragments, o) = fragments[p]
  BY FragmentsIsMap, MapOne
<1> HIDE DEF o
<1>3. MapFlat(fragments, Cat(ps, o)) = Cat(MapFlat(fragments, ps), MapFlat(fragments, o))
  BY <1>1, FragmentsIsMap, MapCat
<1>4. fragments[p] = fragment_packet(p)
  BY DEF fragments
<1> QED BY <1>2, <1>3, <1>4 DEF FramesOf, o

\* The fragments of the oldest packet are first.
LEMMA FramesFirst ==
    ASSUME NEW ps \in Seq(Packets), ps # <<>>
    PROVE  /\ Head(ps) \in Packets /\ Tail(ps) \in Seq(Packets)
           /\ ps = Cat(<<Head(ps)>>, Tail(ps))
           /\ FramesOf(ps) = Cat(fragment_packet(Head(ps)), FramesOf(Tail(ps)))
<1>1. Head(ps) \in Packets /\ Tail(ps) \in Seq(Packets) /\ ps = Cat(<<Head(ps)>>, Tail(ps))
  BY SplitHead
<1>2. MapFlat(fragments, ps) = Cat(fragments[Head(ps)], MapFlat(fragments, Tail(ps)))
  <2> DEFINE h == Head(ps)
             t == Tail(ps)
  <2>1. h \in Packets /\ t \in Seq(Packets) /\ ps = Cat(<<h>>, t)
    BY <1>1
  <2> HIDE DEF h, t
  <2>2. MapFlat(fragments, Cat(<<h>>, t)) = Cat(fragments[h], MapFlat(fragments, t))
    BY <2>1, FragmentsIsMap, MapCons
  <2> QED BY <2>1, <2>2 DEF h, t
<1>3. fragments[Head(ps)] = fragment_packet(Head(ps))
  BY <1>1 DEF fragments
<1> QED BY <1>1, <1>2, <1>3 DEF FramesOf

\* No packet, no frame.
LEMMA FramesEmpty == FramesOf(<<>>) = <<>>
  BY MapEmpty DEF FramesOf

-----------------------------------------------------------------------------
(***************************************************************************)
(* Frames and bytes that no peer of this version sends.                    *)
(***************************************************************************)

\* Whatever a valid header says, what decode cuts out behind it is a frame.
LEMMA AnyFrame ==
    ASSUME byte_buffer \in Seq(Byte), HasFrame, ValidHead
    PROVE  /\ FirstFrame \in Frame
           /\ SubSeq(byte_buffer, FrameLen + 1, Len(byte_buffer)) \in Seq(Byte)
<1> DEFINE b == byte_buffer
           n == u16_from_be_bytes(SubSeq(b, 5, 6))
<1>1. b \in Seq(Byte) /\ 8 <= Len(b) /\ Len(b) \in Nat
  BY DEF HasFrame, HasHead, HEADER_SIZE
<1>2. b[5] \in Byte /\ b[6] \in Byte /\ b[7] \in Byte /\ b[8] \in Byte
  BY <1>1
<1>3. n = 256 * b[5] + b[6]
  BY <1>1, TwoOf DEF u16_from_be_bytes
<1>4. n \in Nat /\ n < 65536
  <2> HIDE DEF n
  <2> DEFINE x == b[5]
             y == b[6]
  <2>1. x \in Byte /\ y \in Byte /\ n = 256 * x + y
    BY <1>2, <1>3
  <2> HIDE DEF x, y, b
  <2>2. 256 * x + y \in Nat
    BY <2>1, U16Range
  <2>3. 256 * x + y < 65536
    BY <2>1, U16Range
  <2> QED BY <2>1, <2>2, <2>3
<1>5. FrameLen = 8 + n /\ FrameLen <= Len(b)
  BY DEF FrameLen, HEADER_SIZE, HasFrame
<1> HIDE DEF n, b
<1> DEFINE p == SubSeq(b, 9, 8 + n)
<1>6. p \in Seq(Byte) /\ Len(p) <= n /\ Len(p) \in Nat
  BY <1>1, <1>4, <1>5
<1>7. Len(p) < 65536
  <2> HIDE DEF p
  <2> QED BY <1>4, <1>6
<1>8. FirstFrame = [flag |-> b[7], ty |-> b[8], payload |-> p]
  BY <1>5 DEF b, FirstFrame, HEADER_SIZE
<1>9. b[7] \in {END_FLAG, MORE_FLAG}
  BY DEF b, ValidHead
<1> HIDE DEF p
<1>10. FirstFrame \in Frame
  BY <1>2, <1>6, <1>7, <1>8, <1>9 DEF Frame
<1>11. SubSeq(b, FrameLen + 1, Len(b)) \in Seq(Byte)
  BY <1>1, <1>4, <1>5
<1> QED BY <1>10, <1>11 DEF b

\* The beginning of a packet, and a packet that try_assemble_packet refuses.
Continued(G) == \A i \in 1..Len(G) : G[i].flag = MORE_FLAG

BrokenAt(G, n) ==
    /\ G[n].flag = END_FLAG
    /\ \A i \in 1..(n - 1) : G[i].flag = MORE_FLAG
    /\ ~Assembles(SubSeq(G, 1, n))

Broken(G) == \E n \in 1..Len(G) : BrokenAt(G, n)

Fatal(G, Z) == Broken(G) \/ (Continued(G) /\ WrongHead(Z))

\* What CodecAssumption calls foreign can never be completed to a packet.
LEMMA ForeignIsFatal ==
    ASSUME NEW item \in Foreign
    PROVE  /\ item.frames \in Seq(Frame) /\ item.rest \in Seq(Byte)
           /\ Fatal(item.frames, item.rest)
<1> DEFINE G == item.frames
           Z == item.rest
<1>1. /\ G \in Seq(Frame)
      /\ \A i \in 1..(Len(G) - 1) : G[i].flag = MORE_FLAG
      /\ Z \in Seq(Byte)
      /\ \/ NoPacketOf(G)
         \/ (\A i \in DOMAIN G : G[i].flag = MORE_FLAG) /\ WrongHead(Z)
  <2>1. IsForeign(item)
    BY CodecAssumption
  <2> QED BY <2>1 DEF IsForeign
<1> HIDE DEF G, Z
<1>2. CASE NoPacketOf(G)
  <2>1. G # <<>> /\ G[Len(G)].flag = END_FLAG /\ ~Assembles(G)
    BY <1>2 DEF NoPacketOf
  <2>2. Len(G) \in 1..Len(G) /\ SubSeq(G, 1, Len(G)) = G
    <3>1. Len(G) \in Nat /\ Len(G) # 0
      BY <1>1, <2>1, EmptySeq
    <3>2. SubSeq(G, 1, Len(G)) = G
      BY <1>1
    <3> QED BY <3>1, <3>2
  <2>3. BrokenAt(G, Len(G))
    BY <1>1, <2>1, <2>2 DEF BrokenAt
  <2> QED BY <1>1, <2>2, <2>3 DEF Fatal, Broken, G, Z
<1>3. CASE (\A i \in DOMAIN G : G[i].flag = MORE_FLAG) /\ WrongHead(Z)
  <2>1. DOMAIN G = 1..Len(G)
    BY <1>1
  <2> QED BY <1>1, <1>3, <2>1 DEF Fatal, Continued, G, Z
<1> QED BY <1>1, <1>2, <1>3

\* A header looks the same whatever follows it.
LEMMA SameHead ==
    ASSUME NEW b \in Seq(Byte), NEW s \in Seq(Byte), 8 <= Len(b)
    PROVE  WrongHead(Cat(b, s)) = WrongHead(b)
<1> DEFINE z == Cat(b, s)
<1>1. z \in Seq(Byte) /\ Len(z) = Len(b) + Len(s) /\ \A i \in 1..Len(b) : z[i] = b[i]
  BY CatType
<1>2. Len(b) \in Nat /\ Len(s) \in Nat
  OBVIOUS
<1> HIDE DEF z
<1>3. /\ 8 <= Len(z) /\ z[1] = b[1] /\ z[2] = b[2] /\ z[3] = b[3] /\ z[4] = b[4]
      /\ z[7] = b[7]
  BY <1>1, <1>2
<1>4. SubSeq(z, 1, 3) = <<z[1], z[2], z[3]>>
  BY <1>1, <1>3, ThreeOf
<1>5. SubSeq(b, 1, 3) = <<b[1], b[2], b[3]>>
  BY ThreeOf
<1>6. SubSeq(z, 1, 3) = SubSeq(b, 1, 3)
  BY <1>3, <1>4, <1>5
<1>7. WrongHead(z) = WrongHead(b)
  BY <1>3, <1>6 DEF WrongHead, HEADER_SIZE
<1> QED BY <1>7 DEF z

\* Bytes that follow do not change that.
LEMMA StaysFatal ==
    ASSUME NEW G, NEW Z \in Seq(Byte), NEW x \in Seq(Byte), Fatal(G, Z)
    PROVE  Fatal(G, Cat(Z, x))
<1>1. WrongHead(Z) => WrongHead(Cat(Z, x))
  <2>1. WrongHead(Z) => 8 <= Len(Z)
    BY DEF WrongHead, HEADER_SIZE
  <2> QED BY <2>1, SameHead
<1> QED BY <1>1 DEF Fatal

\* Frames that follow do not either.
LEMMA StaysBroken ==
    ASSUME NEW G \in Seq(Frame), NEW f \in Frame, Broken(G)
    PROVE  Broken(Cat(G, <<f>>))
<1> DEFINE o == <<f>>
           c == Cat(G, o)
<1>1. o \in Seq(Frame)
  OBVIOUS
<1> HIDE DEF o
<1>2. c \in Seq(Frame) /\ Len(c) = Len(G) + Len(o) /\ \A i \in 1..Len(G) : c[i] = G[i]
  BY <1>1, CatType
<1>3. Len(G) \in Nat /\ Len(o) \in Nat
  BY <1>1
<1> HIDE DEF c
<1>4. PICK n \in 1..Len(G) : BrokenAt(G, n)
  BY DEF Broken
<1>5. n \in Nat /\ n <= Len(G) /\ n <= Len(c) /\ n \in 1..Len(c)
  BY <1>2, <1>3
<1>6. SubSeq(c, 1, n) = SubSeq(G, 1, n)
  <2> DEFINE x == SubSeq(c, 1, n)
             y == SubSeq(G, 1, n)
  <2>1. x \in Seq(Frame) /\ Len(x) = n /\ \A i \in 1..n : x[i] = c[i]
    BY <1>2, <1>5, PieceType
  <2>2. y \in Seq(Frame) /\ Len(y) = n /\ \A i \in 1..n : y[i] = G[i]
    BY <1>5, PieceType
  <2> HIDE DEF x, y
  <2>3. Len(x) = Len(y) /\ \A i \in 1..Len(x) : x[i] = y[i]
    BY <1>2, <1>5, <2>1, <2>2
  <2>4. x = y
    BY <2>1, <2>2, <2>3, SeqEqual
  <2> QED BY <2>4 DEF x, y
<1>7. c[n].flag = G[n].flag /\ \A i \in 1..(n - 1) : c[i] = G[i]
  BY <1>2, <1>5
<1>8. BrokenAt(c, n)
  BY <1>4, <1>6, <1>7 DEF BrokenAt
<1> QED BY <1>5, <1>8 DEF Broken, c, o

\* Frames that try_assemble_packet takes together: the last one ends.
EndsOnce(frs) ==
    /\ frs \in Seq(Frame)
    /\ 1 <= Len(frs)
    /\ frs[Len(frs)].flag = END_FLAG
    /\ \A i \in 1..(Len(frs) - 1) : frs[i].flag = MORE_FLAG

\* When the buffer begins like frs and holds the end of a packet, try_assemble_packet
\* takes exactly frs.
LEMMA FirstEnd ==
    ASSUME frame_buffer \in Seq(Frame), NEW frs, EndsOnce(frs),
           NEW F \in Seq(Frame), NEW R \in Seq(Frame),
           Cat(frame_buffer, F) = Cat(frs, R), Ends # {}
    PROVE  /\ PacketFrames = frs
           /\ SubSeq(frame_buffer, Len(frs) + 1, Len(frame_buffer)) \in Seq(Frame)
           /\ Cat(SubSeq(frame_buffer, Len(frs) + 1, Len(frame_buffer)), F) = R
<1> DEFINE b == frame_buffer
           n == Len(frs)
           c == SubSeq(b, n + 1, Len(b))
<1>1. /\ b \in Seq(Frame) /\ Len(b) \in Nat /\ Cat(b, F) = Cat(frs, R)
      /\ frs \in Seq(Frame) /\ n \in Nat /\ 1 <= n
      /\ frs[n].flag = END_FLAG /\ \A i \in 1..(n - 1) : frs[i].flag = MORE_FLAG
  BY DEF EndsOnce
<1>2. Ends = {i \in 1..Len(b) : b[i].flag = END_FLAG}
  BY <1>1 DEF Ends
<1> HIDE DEF b
<1>3. ASSUME NEW i \in Nat, 1 <= i, i <= Len(b), i <= n
      PROVE  b[i] = frs[i]
  <2>1. i \in 1..Len(b) /\ i \in 1..Len(frs)
    BY <1>1, <1>3
  <2>2. \A j \in 1..Len(b) : Cat(b, F)[j] = b[j]
    BY <1>1, CatType
  <2>3. \A j \in 1..Len(frs) : Cat(frs, R)[j] = frs[j]
    BY <1>1, CatType
  <2> QED BY <1>1, <2>1, <2>2, <2>3
<1> HIDE DEF n
<1>4. ASSUME NEW e \in Ends
      PROVE  n <= e
  <2>1. e \in Nat /\ 1 <= e /\ e <= Len(b) /\ b[e].flag = END_FLAG
    BY <1>1, <1>2
  <2>2. ASSUME e < n
        PROVE  FALSE
    <3>1. e \in 1..(n - 1) /\ e <= n
      BY <1>1, <2>1, <2>2
    <3>2. b[e] = frs[e]
      BY <1>3, <2>1, <3>1
    <3>3. frs[e].flag = MORE_FLAG
      BY <1>1, <3>1
    <3> QED BY <2>1, <3>2, <3>3 DEF END_FLAG, MORE_FLAG
  <2> QED BY <1>1, <2>1, <2>2
<1>5. n <= Len(b)
  <2>1. PICK e \in Ends : TRUE
    OBVIOUS
  <2>2. e \in Nat /\ e <= Len(b) /\ n <= e
    BY <1>1, <1>2, <1>4
  <2> QED BY <1>1, <2>2
<1>6. n \in Ends
  <2>1. b[n] = frs[n]
    BY <1>1, <1>3, <1>5
  <2>2. n \in 1..Len(b)
    BY <1>1, <1>5
  <2> QED BY <1>1, <1>2, <2>1, <2>2
<1>7. (CHOOSE i \in Ends : \A j \in Ends : i <= j) = n
  <2>1. \A j \in Ends : n <= j
    BY <1>4
  <2>2. \A i \in Ends : i \in Nat
    BY <1>1, <1>2
  <2> HIDE DEF Ends
  <2>3. ASSUME NEW i \in Ends, \A j \in Ends : i <= j
        PROVE  i = n
    <3>1. i <= n /\ n <= i
      BY <1>6, <2>1, <2>3
    <3>2. i \in Nat
      BY <2>2
    <3> QED BY <1>1, <3>1, <3>2
  <2> QED BY <1>6, <2>1, <2>3
<1>8. PacketFrames = SubSeq(b, 1, n)
  BY <1>7 DEF PacketFrames, b
<1>9. SubSeq(b, 1, n) = frs
  <2> DEFINE x == SubSeq(b, 1, n)
  <2>1. x \in Seq(Frame) /\ Len(x) = n /\ \A i \in 1..n : x[i] = b[i]
    BY <1>1, <1>5, PieceType
  <2> HIDE DEF x
  <2>2. \A i \in 1..n : b[i] = frs[i]
    BY <1>1, <1>3, <1>5
  <2>3. Len(x) = Len(frs) /\ \A i \in 1..Len(x) : x[i] = frs[i]
    BY <2>1, <2>2 DEF n
  <2>4. x = frs
    BY <1>1, <2>1, <2>3, SeqEqual
  <2> QED BY <2>4 DEF x
<1>10. c \in Seq(Frame) /\ Cat(c, F) = R
  <2>1. Len(frs) <= Len(b)
    BY <1>5 DEF n
  <2> QED BY <1>1, <2>1, CutPrefix DEF n
<1> QED BY <1>8, <1>9, <1>10 DEF b, n

\* The fragments of a packet end once.
LEMMA IsPacketEnds ==
    ASSUME NEW p, NEW frs, IsPacketOf(frs, p)
    PROVE  /\ EndsOnce(frs) /\ frs \in Seq(Frame)
           /\ Assembles(frs) /\ Decode(frs[1].ty, Payload(frs)) = p
  BY DEF IsPacketOf, EndsOnce

\* No packet is made of frames that are broken.
LEMMA BrokenStops ==
    ASSUME frame_buffer \in Seq(Frame), NEW F \in Seq(Frame), NEW G \in Seq(Frame),
           Cat(frame_buffer, F) = G, Broken(G), Ends # {}
    PROVE  ~Assembles(PacketFrames)
<1>1. PICK n \in 1..Len(G) : BrokenAt(G, n)
  BY DEF Broken
<1> DEFINE x == SubSeq(G, 1, n)
           r == SubSeq(G, n + 1, Len(G))
<1>2. n \in Nat /\ 1 <= n /\ n <= Len(G)
  OBVIOUS
<1>3. x \in Seq(Frame) /\ Len(x) = n /\ \A i \in 1..n : x[i] = G[i]
  BY <1>2, PieceType
<1>4. r \in Seq(Frame) /\ G = Cat(x, r)
  BY <1>2, CutInTwo
<1> HIDE DEF x, r
<1>5. x[n].flag = END_FLAG /\ \A i \in 1..(n - 1) : x[i].flag = MORE_FLAG
  <2>1. \A i \in 1..(n - 1) : i \in 1..n
    BY <1>2
  <2> QED BY <1>1, <1>2, <1>3, <2>1 DEF BrokenAt
<1>6. EndsOnce(x)
  <2>1. 1 <= Len(x)
    BY <1>2, <1>3
  <2>2. x[Len(x)].flag = END_FLAG
    BY <1>3, <1>5
  <2>3. \A i \in 1..(Len(x) - 1) : x[i].flag = MORE_FLAG
    BY <1>3, <1>5
  <2> QED BY <1>3, <2>1, <2>2, <2>3 DEF EndsOnce
<1>7. Cat(frame_buffer, F) = Cat(x, r)
  BY <1>4
<1>8. PacketFrames = x
  BY <1>4, <1>6, <1>7, FirstEnd
<1> QED BY <1>1, <1>8 DEF BrokenAt, x

\* Nothing ends in the beginning of a packet.
LEMMA ContinuedStops ==
    ASSUME frame_buffer \in Seq(Frame), NEW F \in Seq(Frame), NEW G \in Seq(Frame),
           Cat(frame_buffer, F) = G, Continued(G)
    PROVE  Ends = {}
<1> SUFFICES ASSUME NEW i \in Ends PROVE FALSE
  OBVIOUS
<1>1. i \in 1..Len(frame_buffer) /\ frame_buffer[i].flag = END_FLAG
  BY DEF Ends
<1>2. /\ \A j \in 1..Len(frame_buffer) : Cat(frame_buffer, F)[j] = frame_buffer[j]
      /\ Len(Cat(frame_buffer, F)) = Len(frame_buffer) + Len(F)
  BY CatType
<1>3. G[i] = frame_buffer[i] /\ i \in 1..Len(G)
  BY <1>1, <1>2
<1> QED BY <1>1, <1>3 DEF Continued, END_FLAG, MORE_FLAG

\* A wrong header in front is noticed as soon as all of it is there.
LEMMA WrongHeadStops ==
    ASSUME byte_buffer \in Seq(Byte), NEW s \in Seq(Byte), NEW Z \in Seq(Byte),
           Cat(byte_buffer, s) = Z, WrongHead(Z), HasHead
    PROVE  ~ValidHead
<1>1. 8 <= Len(byte_buffer)
  BY DEF HasHead, HEADER_SIZE
<1>2. WrongHead(Cat(byte_buffer, s)) = WrongHead(byte_buffer)
  BY <1>1, SameHead
<1>3. WrongHead(byte_buffer) \in BOOLEAN
  BY DEF WrongHead
<1>4. WrongHead(byte_buffer)
  BY <1>2, <1>3
<1> QED BY <1>4 DEF WrongHead, ValidHead

-----------------------------------------------------------------------------
(***************************************************************************)
(* The inductive invariant.  ps are the packets on their way: the frames   *)
(* behind the last packet taken and those still in the stream, F, are      *)
(* theirs, and after a deviation then come the foreign frames G and the    *)
(* foreign bytes Z, of which no packet can be made any more.               *)
(***************************************************************************)
Fed == SubSeq(sent, 1, Least(deviated, Len(sent)))

Ahead(G, Z) == IF deviated = None
               THEN G = <<>> /\ Z = <<>>
               ELSE deviated <= Len(sent) /\ Fatal(G, Z)

Wire(ps, F, G, Z) ==
    /\ ps \in Seq(Packets) /\ F \in Seq(Frame) /\ G \in Seq(Frame) /\ Z \in Seq(Byte)
    /\ Cat(Cat(received, packet_buffer), ps) = Fed
    /\ Cat(frame_buffer, F) = Cat(FramesOf(ps), G)
    /\ Cat(byte_buffer, stream) = Cat(EncodeFrames(F), Z)
    /\ Ahead(G, Z)

OnTheWire == \E ps \in Seq(Packets), F \in Seq(Frame), G \in Seq(Frame), Z \in Seq(Byte) :
                 Wire(ps, F, G, Z)

CInv == TypeOK /\ NoFalseAlarm /\ OnTheWire

\* What a step is to the pipe.
PipeStep == \/ Fed' = Fed /\ received' = received
            \/ Pipe!Send
            \/ Pipe!Receive

\* The invariant holds at the start.
LEMMA AtStart ==
    ASSUME Init
    PROVE  CInv /\ Pipe!Init
<1>1. /\ sent = <<>> /\ stream = <<>> /\ ended = FALSE /\ deviated = None /\ rpc = "pop"
      /\ byte_buffer = <<>> /\ frame_buffer = <<>> /\ packet_buffer = <<>> /\ received = <<>>
  BY DEF Init
<1>2. MaxPackets \in Nat
  BY CodecAssumption
<1>3. /\ <<>> \in Seq(Packets) /\ <<>> \in Seq(Byte) /\ <<>> \in Seq(Frame)
      /\ Len(<<>>) = 0
  OBVIOUS
<1>4. TypeOK
  <2>1. sent \in Seq(Packets) /\ received \in Seq(Packets) /\ packet_buffer \in Seq(Packets)
    BY <1>1
  <2>2. stream \in Seq(Byte) /\ byte_buffer \in Seq(Byte) /\ frame_buffer \in Seq(Frame)
    BY <1>1
  <2>3. Len(sent) <= MaxPackets /\ deviated \in 0..None
    BY <1>1, <1>2 DEF None
  <2> QED BY <1>1, <2>1, <2>2, <2>3 DEF TypeOK
<1>5. NoFalseAlarm
  BY <1>1 DEF NoFalseAlarm
<1>6. Fed = <<>>
  <2>1. Least(deviated, Len(sent)) = 0
    BY <1>1, <1>2, <1>3 DEF None, Least
  <2> QED BY <1>1, <2>1, SubSeqEmpty DEF Fed
<1>7. Wire(<<>>, <<>>, <<>>, <<>>)
  <2>1. Cat(<<>>, <<>>) = <<>>
    BY <1>3, CatEmpty
  <2> QED BY <1>1, <1>3, <1>6, <2>1, FramesEmpty, EncodeEmpty DEF Wire, Ahead
<1>8. OnTheWire
  BY <1>3, <1>7 DEF OnTheWire
<1>9. Pipe!Init
  BY <1>1, <1>6 DEF Pipe!Init, Fed
<1> QED BY <1>4, <1>5, <1>8, <1>9 DEF CInv

\* Nothing of what was sent changes.
LEMMA Kept ==
    ASSUME UNCHANGED txVars, NEW G, NEW Z
    PROVE  /\ Fed' = Fed
           /\ Ahead(G, Z)' = Ahead(G, Z)
           /\ Ahead(G, Z) => Ahead(G, Z)'
<1>1. sent' = sent /\ deviated' = deviated
  BY DEF txVars
<1>2. Fed' = Fed
  BY <1>1 DEF Fed
<1>3. Ahead(G, Z)' = Ahead(G, Z)
  BY <1>1 DEF Ahead
<1> QED BY <1>2, <1>3

\* A step that leaves the buffers alone.
LEMMA IdleStep ==
    ASSUME CInv, NoFalseAlarm', rpc' \in {"pop", "frames", "packets", "error", "none"},
           ended' \in BOOLEAN,
           UNCHANGED <<sent, deviated, stream, byte_buffer, frame_buffer, packet_buffer,
                       received>>
    PROVE  CInv' /\ PipeStep
<1>1. TypeOK'
  BY DEF CInv, TypeOK, None
<1>2. Fed' = Fed
  BY DEF Fed
<1>3. PICK ps \in Seq(Packets), F \in Seq(Frame), G \in Seq(Frame), Z \in Seq(Byte) :
          Wire(ps, F, G, Z)
  BY DEF CInv, OnTheWire
<1>4. Ahead(G, Z)'
  BY <1>3 DEF Wire, Ahead
<1>5. Wire(ps, F, G, Z)'
  BY <1>2, <1>3, <1>4 DEF Wire
<1>6. OnTheWire'
  BY <1>5 DEF OnTheWire
<1> QED BY <1>1, <1>2, <1>6 DEF CInv, PipeStep

\* Reading moves bytes from the stream to the buffer.
LEMMA ReadStep ==
    ASSUME CInv, Read
    PROVE  CInv' /\ PipeStep
<1>1. PICK ps \in Seq(Packets), F \in Seq(Frame), G \in Seq(Frame), Z \in Seq(Byte) :
          Wire(ps, F, G, Z)
  BY DEF CInv, OnTheWire
<1>2. PICK n \in 1..Len(stream) :
          /\ byte_buffer' = byte_buffer \o SubSeq(stream, 1, n)
          /\ stream' = SubSeq(stream, n + 1, Len(stream))
  BY DEF Read
<1>3. /\ UNCHANGED txVars /\ rpc' = "frames"
      /\ UNCHANGED <<frame_buffer, packet_buffer, received>>
  BY DEF Read
<1>4. stream \in Seq(Byte) /\ byte_buffer \in Seq(Byte) /\ TypeOK
  BY DEF CInv, TypeOK
<1> DEFINE x == SubSeq(stream, 1, n)
           y == SubSeq(stream, n + 1, Len(stream))
<1>5. x \in Seq(Byte) /\ y \in Seq(Byte) /\ stream = Cat(x, y)
  <2>1. n \in Nat /\ n <= Len(stream)
    BY <1>2
  <2> QED BY <1>4, <2>1, CutInTwo
<1>6. byte_buffer' = Cat(byte_buffer, x) /\ stream' = y
  BY <1>2 DEF Cat
<1> HIDE DEF x, y
<1>7. Cat(Cat(byte_buffer, x), y) = Cat(byte_buffer, Cat(x, y))
  BY <1>4, <1>5, CatAssociative
<1>8. Cat(byte_buffer', stream') = Cat(byte_buffer, stream)
  BY <1>5, <1>6, <1>7
<1>9. byte_buffer' \in Seq(Byte) /\ stream' \in Seq(Byte)
  BY <1>4, <1>5, <1>6, CatType
<1>10. TypeOK'
  BY <1>3, <1>4, <1>9 DEF TypeOK, None, txVars
<1>11. Fed' = Fed /\ Ahead(G, Z)'
  BY <1>1, <1>3, Kept DEF Wire
<1>12. Wire(ps, F, G, Z)'
  BY <1>1, <1>3, <1>8, <1>11 DEF Wire
<1>13. OnTheWire'
  BY <1>12 DEF OnTheWire
<1>14. NoFalseAlarm'
  BY <1>3 DEF NoFalseAlarm
<1> QED BY <1>3, <1>10, <1>11, <1>13, <1>14 DEF CInv, PipeStep

\* Popping moves a packet from the buffer to the caller: the pipe's receiving.
LEMMA PopStep ==
    ASSUME CInv, Pop
    PROVE  CInv' /\ PipeStep
<1>1. PICK ps \in Seq(Packets), F \in Seq(Frame), G \in Seq(Frame), Z \in Seq(Byte) :
          Wire(ps, F, G, Z)
  BY DEF CInv, OnTheWire
<1>2. /\ packet_buffer # <<>> /\ received' = Append(received, Head(packet_buffer))
      /\ packet_buffer' = Tail(packet_buffer) /\ rpc = "pop" /\ rpc' = rpc
      /\ UNCHANGED txVars /\ UNCHANGED <<stream, byte_buffer, frame_buffer>>
  BY DEF Pop
<1>3. received \in Seq(Packets) /\ packet_buffer \in Seq(Packets) /\ TypeOK
  BY DEF CInv, TypeOK
<1> DEFINE h == Head(packet_buffer)
           t == Tail(packet_buffer)
           o == <<h>>
<1>4. h \in Packets /\ t \in Seq(Packets) /\ packet_buffer = Cat(o, t)
  BY <1>2, <1>3, SplitHead
<1>5. o \in Seq(Packets) /\ Append(received, h) = Cat(received, o) /\ Len(o) = 1 /\ o[1] = h
  BY <1>3, <1>4 DEF Cat
<1> HIDE DEF h, t, o
<1>6. received' = Cat(received, o) /\ packet_buffer' = t
  BY <1>2, <1>5 DEF h, t
<1>7. Cat(Cat(received, o), t) = Cat(received, Cat(o, t))
  BY <1>3, <1>4, <1>5, CatAssociative
<1>8. Cat(received', packet_buffer') = Cat(received, packet_buffer)
  BY <1>4, <1>6, <1>7
<1>9. received' \in Seq(Packets) /\ packet_buffer' \in Seq(Packets)
  BY <1>3, <1>4, <1>5, <1>6, CatType
<1>10. TypeOK'
  BY <1>2, <1>3, <1>9 DEF TypeOK, None, txVars
<1>11. Fed' = Fed /\ Ahead(G, Z)'
  BY <1>1, <1>2, Kept DEF Wire
<1>12. Wire(ps, F, G, Z)'
  BY <1>1, <1>2, <1>8, <1>11 DEF Wire
<1>13. OnTheWire'
  BY <1>12 DEF OnTheWire
<1>14. NoFalseAlarm'
  BY <1>2 DEF NoFalseAlarm
<1>15. Pipe!Receive
  <2> DEFINE k == Len(received) + 1
             m == Cat(received, packet_buffer)
  <2>1. Len(received) \in Nat /\ Len(packet_buffer) \in Nat /\ Len(packet_buffer) # 0
    BY <1>2, <1>3, EmptySeq
  <2>2. m \in Seq(Packets) /\ Len(m) = Len(received) + Len(packet_buffer)
    BY <1>3, CatType
  <2>3. m[k] = packet_buffer[1]
    <3>1. \A i \in 1..Len(packet_buffer) : Cat(received, packet_buffer)[Len(received) + i]
                                              = packet_buffer[i]
      BY <1>3, CatType
    <3>2. 1 \in 1..Len(packet_buffer)
      BY <2>1
    <3> QED BY <3>1, <3>2
  <2>4. packet_buffer[1] = h
    BY <1>2, <1>3 DEF h
  <2> HIDE DEF m
  <2>5. Fed = Cat(m, ps) /\ ps \in Seq(Packets)
    BY <1>1 DEF Wire, m
  <2>6. /\ Len(Cat(m, ps)) = Len(m) + Len(ps)
        /\ \A i \in 1..Len(m) : Cat(m, ps)[i] = m[i]
    <3>1. m \in Seq(Packets) /\ ps \in Seq(Packets)
      BY <2>2
    <3>2. Len(Cat(m, ps)) = Len(m) + Len(ps)
      BY <3>1, CatType
    <3>3. \A i \in 1..Len(m) : Cat(m, ps)[i] = m[i]
      BY <3>1, CatType
    <3> QED BY <3>2, <3>3
  <2>7. k \in 1..Len(m) /\ Len(ps) \in Nat /\ Len(m) \in Nat
    BY <2>1, <2>2, <2>5
  <2>8. Fed[k] = h /\ Len(received) < Len(Fed)
    BY <2>1, <2>2, <2>3, <2>4, <2>5, <2>6, <2>7
  <2>9. received' = Append(received, Fed[Len(received) + 1])
    BY <1>2, <2>8 DEF h
  <2> QED BY <1>11, <2>8, <2>9 DEF Pipe!Receive, Fed
<1> QED BY <1>10, <1>13, <1>14, <1>15 DEF CInv, PipeStep

\* Taking a frame: one of those sent, or a foreign one.
LEMMA TakeFrameStep ==
    ASSUME CInv, TakeFrame
    PROVE  CInv' /\ PipeStep
<1>1. PICK ps \in Seq(Packets), F \in Seq(Frame), G \in Seq(Frame), Z \in Seq(Byte) :
          Wire(ps, F, G, Z)
  BY DEF CInv, OnTheWire
<1> DEFINE rest == SubSeq(byte_buffer, FrameLen + 1, Len(byte_buffer))
<1>2. /\ HasFrame /\ ValidHead
      /\ frame_buffer' = Append(frame_buffer, FirstFrame)
      /\ byte_buffer' = rest /\ rpc = "frames" /\ rpc' = rpc
      /\ UNCHANGED txVars /\ UNCHANGED <<stream, packet_buffer, received>>
  BY DEF TakeFrame
<1>3. /\ byte_buffer \in Seq(Byte) /\ frame_buffer \in Seq(Frame) /\ stream \in Seq(Byte)
      /\ TypeOK
  BY DEF CInv, TypeOK
<1>4. PICK f \in Frame : f = FirstFrame
  BY <1>2, <1>3, AnyFrame
<1>5. rest \in Seq(Byte)
  BY <1>2, <1>3, AnyFrame
<1> HIDE DEF rest
<1> DEFINE o == <<f>>
<1>6. o \in Seq(Frame) /\ frame_buffer' = Cat(frame_buffer, o)
  BY <1>2, <1>3, <1>4 DEF Cat
<1> HIDE DEF o
<1>7. frame_buffer' \in Seq(Frame) /\ byte_buffer' \in Seq(Byte)
  BY <1>2, <1>3, <1>5, <1>6, CatType
<1>8. TypeOK'
  BY <1>2, <1>3, <1>7 DEF TypeOK, None, txVars
<1>9. NoFalseAlarm'
  BY <1>2 DEF NoFalseAlarm
<1>10. Fed' = Fed /\ Ahead(G, Z)'
  BY <1>1, <1>2, Kept DEF Wire
<1>11. Cat(Cat(received, packet_buffer), ps) = Fed
  BY <1>1 DEF Wire
<1>12. Cat(frame_buffer, F) = Cat(FramesOf(ps), G) /\ Cat(byte_buffer, stream) = Cat(EncodeFrames(F), Z)
  BY <1>1 DEF Wire
<1>13. CASE F # <<>>
  <2> DEFINE h == Head(F)
             t == Tail(F)
  <2>1. /\ h \in Frame /\ t \in Seq(Frame) /\ F = Cat(<<h>>, t)
        /\ EncodeFrames(F) = Cat(EncodeFrame(h), EncodeFrames(t))
    BY <1>13, EncodeFirst
  <2> HIDE DEF h, t
  <2> DEFINE a == EncodeFrame(h)
             e == EncodeFrames(t)
             r == Cat(e, Z)
  <2>2. a \in Seq(Byte) /\ e \in Seq(Byte)
    BY <2>1, FrameBytes, EncodeType
  <2>3. r \in Seq(Byte)
    BY <2>2, CatType
  <2>4. Cat(Cat(a, e), Z) = Cat(a, r)
    <3> HIDE DEF a, e
    <3> QED BY <2>2, CatAssociative
  <2>5. Cat(byte_buffer, stream) = Cat(EncodeFrame(h), r)
    BY <1>12, <2>1, <2>4
  <2> HIDE DEF r
  <2>6. FirstFrame = h /\ Cat(rest, stream) = r
    BY <1>2, <1>3, <2>1, <2>3, <2>5, Taken DEF rest
  <2>7. Cat(byte_buffer', stream') = Cat(EncodeFrames(t), Z)
    BY <1>2, <2>6 DEF r
  <2>8. F = Cat(o, t)
    BY <1>4, <2>1, <2>6 DEF o
  <2>9. Cat(Cat(frame_buffer, o), t) = Cat(frame_buffer, Cat(o, t))
    BY <1>3, <1>6, <2>1, CatAssociative
  <2>10. Cat(frame_buffer', t) = Cat(FramesOf(ps), G)
    BY <1>6, <1>12, <2>8, <2>9
  <2>11. Wire(ps, t, G, Z)'
    BY <1>2, <1>10, <1>11, <2>1, <2>7, <2>10 DEF Wire
  <2>12. OnTheWire'
    BY <2>1, <2>11 DEF OnTheWire
  <2> QED BY <1>2, <1>8, <1>9, <1>10, <2>12 DEF CInv, PipeStep
<1>14. CASE F = <<>>
  <2>1. Cat(byte_buffer, stream) = Z
    <3>1. Cat(<<>>, Z) = Z
      BY CatEmpty
    <3> QED BY <1>12, <1>14, <3>1, EncodeEmpty
  <2>2. deviated # None
    <3> SUFFICES ASSUME deviated = None PROVE FALSE
      OBVIOUS
    <3>1. Z = <<>>
      BY <1>1 DEF Wire, Ahead
    <3>2. Len(Cat(byte_buffer, stream)) = Len(byte_buffer) + Len(stream)
      BY <1>3, CatType
    <3>3. 8 <= Len(byte_buffer)
      BY <1>2 DEF HasFrame, HasHead, HEADER_SIZE
    <3>4. Len(<<>>) = 0 /\ Len(byte_buffer) \in Nat /\ Len(stream) \in Nat
      BY <1>3
    <3> QED BY <2>1, <3>1, <3>2, <3>3, <3>4
  <2>3. deviated <= Len(sent) /\ Fatal(G, Z)
    BY <1>1, <2>2 DEF Wire, Ahead
  <2>4. ~WrongHead(Z)
    BY <1>2, <1>3, <2>1, WrongHeadStops DEF HasFrame
  <2>5. Broken(G)
    BY <2>3, <2>4 DEF Fatal
  <2> DEFINE g == Cat(G, o)
  <2>6. g \in Seq(Frame)
    BY <1>6, CatType
  <2>7. Broken(g)
    BY <2>5, StaysBroken DEF o
  <2>8. Cat(frame_buffer', <<>>) = Cat(FramesOf(ps), g)
    <3>1. Cat(frame_buffer, <<>>) = frame_buffer /\ Cat(frame_buffer', <<>>) = frame_buffer'
      BY <1>3, <1>7, CatEmpty
    <3>2. FramesOf(ps) \in Seq(Frame)
      BY FramesType
    <3>3. Cat(Cat(FramesOf(ps), G), o) = Cat(FramesOf(ps), Cat(G, o))
      BY <1>6, <3>2, CatAssociative
    <3> QED BY <1>6, <1>12, <1>14, <3>1, <3>3
  <2> HIDE DEF g
  <2>9. PICK z \in Seq(Byte) : z = Cat(rest, stream)
    BY <1>3, <1>5, CatType
  <2>10. Cat(byte_buffer', stream') = Cat(EncodeFrames(<<>>), z)
    <3>1. Cat(<<>>, z) = z
      BY CatEmpty
    <3> QED BY <1>2, <2>9, <3>1, EncodeEmpty
  <2>11. Ahead(g, z)'
    BY <1>2, <2>2, <2>3, <2>7 DEF Ahead, Fatal, txVars, None
  <2>12. <<>> \in Seq(Frame)
    OBVIOUS
  <2>13. Wire(ps, <<>>, g, z)'
    BY <1>2, <1>10, <1>11, <2>6, <2>8, <2>10, <2>11, <2>12 DEF Wire
  <2>14. OnTheWire'
    BY <2>6, <2>12, <2>13 DEF OnTheWire
  <2> QED BY <1>2, <1>8, <1>9, <1>10, <2>14 DEF CInv, PipeStep
<1> QED BY <1>13, <1>14

\* The frames that are taken together are those of the oldest packet on its way.
LEMMA OldestPacket ==
    ASSUME TypeOK, NEW ps \in Seq(Packets), NEW F \in Seq(Frame), NEW G \in Seq(Frame),
           Cat(frame_buffer, F) = Cat(FramesOf(ps), G), Ends # {}, ps # <<>>
    PROVE  /\ Head(ps) \in Packets /\ Tail(ps) \in Seq(Packets)
           /\ ps = Cat(<<Head(ps)>>, Tail(ps))
           /\ Assembles(PacketFrames)
           /\ Decode(PacketFrames[1].ty, Payload(PacketFrames)) = Head(ps)
           /\ SubSeq(frame_buffer, Len(PacketFrames) + 1, Len(frame_buffer)) \in Seq(Frame)
           /\ Cat(SubSeq(frame_buffer, Len(PacketFrames) + 1, Len(frame_buffer)), F)
                 = Cat(FramesOf(Tail(ps)), G)
<1> DEFINE h == Head(ps)
           t == Tail(ps)
           frs == fragment_packet(h)
           e == FramesOf(t)
           R == Cat(e, G)
<1>1. /\ h \in Packets /\ t \in Seq(Packets) /\ ps = Cat(<<h>>, t)
      /\ FramesOf(ps) = Cat(frs, e)
  BY FramesFirst
<1> HIDE DEF h, t
<1>2. /\ EndsOnce(frs) /\ frs \in Seq(Frame)
      /\ Assembles(frs) /\ Decode(frs[1].ty, Payload(frs)) = h
  <2>1. IsPacketOf(frs, h)
    BY <1>1, Fragments
  <2> HIDE DEF frs
  <2> QED BY <2>1, IsPacketEnds
<1>3. e \in Seq(Frame)
  BY <1>1, FramesType
<1>4. frame_buffer \in Seq(Frame)
  BY DEF TypeOK
<1> HIDE DEF frs, e
<1>5. R \in Seq(Frame)
  BY <1>3, CatType
<1>6. Cat(Cat(frs, e), G) = Cat(frs, R)
  BY <1>2, <1>3, CatAssociative
<1>7. Cat(frame_buffer, F) = Cat(frs, R)
  BY <1>1, <1>6
<1> HIDE DEF R
<1>8. PacketFrames = frs
  BY <1>2, <1>4, <1>5, <1>7, FirstEnd
<1>9. /\ SubSeq(frame_buffer, Len(frs) + 1, Len(frame_buffer)) \in Seq(Frame)
      /\ Cat(SubSeq(frame_buffer, Len(frs) + 1, Len(frame_buffer)), F) = R
  BY <1>2, <1>4, <1>5, <1>7, FirstEnd
<1> QED BY <1>1, <1>2, <1>8, <1>9 DEF h, t, e, R

\* No packet is on its way, but one could be made: not of what is foreign.
LEMMA NoOtherPacket ==
    ASSUME TypeOK, NEW F \in Seq(Frame), NEW G \in Seq(Frame), NEW Z \in Seq(Byte),
           Cat(frame_buffer, F) = Cat(FramesOf(<<>>), G), Ahead(G, Z), Ends # {}
    PROVE  ~Assembles(PacketFrames) /\ deviated # None
<1>1. frame_buffer \in Seq(Frame)
  BY DEF TypeOK
<1>2. Cat(frame_buffer, F) = G
  <2>1. Cat(<<>>, G) = G
    BY CatEmpty
  <2> QED BY <2>1, FramesEmpty
<1>3. ~Continued(G)
  BY <1>1, <1>2, ContinuedStops
<1>4. deviated # None
  <2> SUFFICES ASSUME deviated = None PROVE FALSE
    OBVIOUS
  <2>1. G = <<>>
    BY DEF Ahead
  <2>2. Len(<<>>) = 0
    OBVIOUS
  <2>3. Continued(G)
    BY <2>1, <2>2 DEF Continued
  <2> QED BY <1>3, <2>3
<1>5. Broken(G)
  BY <1>3, <1>4 DEF Ahead, Fatal
<1> QED BY <1>1, <1>2, <1>4, <1>5, BrokenStops

\* Taking a packet: the oldest one on its way.
LEMMA TakePacketStep ==
    ASSUME CInv, TakePacket
    PROVE  CInv' /\ PipeStep
<1>1. PICK ps \in Seq(Packets), F \in Seq(Frame), G \in Seq(Frame), Z \in Seq(Byte) :
          Wire(ps, F, G, Z)
  BY DEF CInv, OnTheWire
<1> DEFINE p    == Decode(PacketFrames[1].ty, Payload(PacketFrames))
           rest == SubSeq(frame_buffer, Len(PacketFrames) + 1, Len(frame_buffer))
<1>2. /\ Ends # {} /\ Assembles(PacketFrames)
      /\ packet_buffer' = Append(packet_buffer, p)
      /\ frame_buffer' = rest /\ rpc = "packets" /\ rpc' = rpc
      /\ UNCHANGED txVars /\ UNCHANGED <<stream, byte_buffer, received>>
  BY DEF TakePacket
<1>3. packet_buffer \in Seq(Packets) /\ received \in Seq(Packets) /\ TypeOK
  BY DEF CInv, TypeOK
<1>4. /\ Cat(Cat(received, packet_buffer), ps) = Fed
      /\ Cat(frame_buffer, F) = Cat(FramesOf(ps), G)
      /\ Cat(byte_buffer, stream) = Cat(EncodeFrames(F), Z)
      /\ Ahead(G, Z)
  BY <1>1 DEF Wire
<1>5. ps # <<>>
  <2> SUFFICES ASSUME ps = <<>> PROVE FALSE
    OBVIOUS
  <2>1. Cat(frame_buffer, F) = Cat(FramesOf(<<>>), G)
    BY <1>4
  <2> QED BY <1>2, <1>3, <1>4, <2>1, NoOtherPacket
<1> DEFINE h == Head(ps)
           t == Tail(ps)
           o == <<h>>
<1>6. /\ h \in Packets /\ t \in Seq(Packets) /\ ps = Cat(o, t)
      /\ p = h /\ rest \in Seq(Frame) /\ Cat(rest, F) = Cat(FramesOf(t), G)
  BY <1>2, <1>3, <1>4, <1>5, OldestPacket
<1> HIDE DEF p, rest, h, t
<1>7. o \in Seq(Packets) /\ packet_buffer' = Cat(packet_buffer, o)
  BY <1>2, <1>3, <1>6 DEF Cat
<1> HIDE DEF o
<1>8. Cat(Cat(received, Cat(packet_buffer, o)), t) = Cat(Cat(received, packet_buffer), Cat(o, t))
  <2> DEFINE rp == Cat(received, packet_buffer)
  <2>1. Cat(rp, o) = Cat(received, Cat(packet_buffer, o))
    BY <1>3, <1>7, CatAssociative
  <2>2. rp \in Seq(Packets)
    BY <1>3, CatType
  <2> HIDE DEF rp
  <2>3. Cat(Cat(rp, o), t) = Cat(rp, Cat(o, t))
    BY <1>6, <1>7, <2>2, CatAssociative
  <2> QED BY <2>1, <2>3 DEF rp
<1>9. Fed' = Fed /\ Ahead(G, Z)'
  BY <1>2, <1>4, Kept
<1>10. Cat(Cat(received', packet_buffer'), t) = Fed'
  BY <1>2, <1>4, <1>6, <1>7, <1>8, <1>9
<1>11. Wire(t, F, G, Z)'
  BY <1>2, <1>4, <1>6, <1>9, <1>10 DEF Wire
<1>12. OnTheWire'
  BY <1>6, <1>11 DEF OnTheWire
<1>13. packet_buffer' \in Seq(Packets) /\ frame_buffer' \in Seq(Frame)
  BY <1>2, <1>3, <1>6, <1>7, CatType
<1>14. TypeOK'
  BY <1>2, <1>3, <1>13 DEF TypeOK, None, txVars
<1>15. NoFalseAlarm'
  BY <1>2 DEF NoFalseAlarm
<1> QED BY <1>2, <1>9, <1>12, <1>14, <1>15 DEF CInv, PipeStep

\* A peer that keeps to the protocol gives no cause for an error.
LEMMA ErrorStep ==
    ASSUME CInv, ProtocolError
    PROVE  CInv' /\ PipeStep
<1>1. PICK ps \in Seq(Packets), F \in Seq(Frame), G \in Seq(Frame), Z \in Seq(Byte) :
          Wire(ps, F, G, Z)
  BY DEF CInv, OnTheWire
<1>2. /\ Cat(frame_buffer, F) = Cat(FramesOf(ps), G)
      /\ Cat(byte_buffer, stream) = Cat(EncodeFrames(F), Z)
      /\ Ahead(G, Z)
  BY <1>1 DEF Wire
<1>3. TypeOK /\ byte_buffer \in Seq(Byte) /\ stream \in Seq(Byte)
  BY DEF CInv, TypeOK
<1>4. deviated # None
  <2> SUFFICES ASSUME deviated = None PROVE FALSE
    OBVIOUS
  <2>1. G = <<>> /\ Z = <<>>
    BY <1>2 DEF Ahead
  <2>2. CASE HasHead /\ ~ValidHead
    <3>1. 8 <= Len(byte_buffer) /\ Len(byte_buffer) \in Nat /\ Len(stream) \in Nat
      BY <1>3, <2>2 DEF HasHead, HEADER_SIZE
    <3>2. CASE F = <<>>
      <4>1. Cat(<<>>, <<>>) = <<>>
        BY DEF Cat
      <4>2. Cat(byte_buffer, stream) = <<>>
        BY <1>2, <2>1, <3>2, <4>1, EncodeEmpty
      <4>3. Len(Cat(byte_buffer, stream)) = Len(byte_buffer) + Len(stream)
        BY <1>3, CatType
      <4>4. Len(<<>>) = 0
        OBVIOUS
      <4> QED BY <3>1, <4>2, <4>3, <4>4
    <3>3. CASE F # <<>>
      <4> DEFINE h == Head(F)
                 a == EncodeFrame(h)
                 e == EncodeFrames(Tail(F))
                 r == Cat(e, Z)
      <4>1. h \in Frame /\ Tail(F) \in Seq(Frame) /\ EncodeFrames(F) = Cat(a, e)
        BY <3>3, EncodeFirst
      <4> HIDE DEF h
      <4>2. a \in Seq(Byte) /\ e \in Seq(Byte)
        BY <4>1, FrameBytes, EncodeType
      <4> HIDE DEF e
      <4>3. r \in Seq(Byte)
        BY <4>2, CatType
      <4>4. Cat(Cat(a, e), Z) = Cat(a, r)
        <5> HIDE DEF a
        <5> QED BY <4>2, CatAssociative
      <4> HIDE DEF r
      <4>5. Cat(byte_buffer, stream) = Cat(EncodeFrame(h), r)
        BY <1>2, <4>1, <4>4
      <4> QED BY <1>3, <2>2, <4>1, <4>3, <4>5, Parsed
    <3> QED BY <3>2, <3>3
  <2>3. CASE Ends # {} /\ ~Assembles(PacketFrames)
    <3>1. ps # <<>>
      <4> SUFFICES ASSUME ps = <<>> PROVE FALSE
        OBVIOUS
      <4>1. Cat(frame_buffer, F) = Cat(FramesOf(<<>>), G)
        BY <1>2
      <4> QED BY <1>2, <1>3, <2>3, <4>1, NoOtherPacket
    <3> QED BY <1>2, <1>3, <2>3, <3>1, OldestPacket
  <2> QED BY <2>2, <2>3 DEF ProtocolError
<1>5. /\ rpc' = "error" /\ UNCHANGED txVars
      /\ UNCHANGED <<stream, byte_buffer, frame_buffer, packet_buffer, received>>
  BY DEF ProtocolError
<1>6. NoFalseAlarm'
  BY <1>4, <1>5 DEF NoFalseAlarm, txVars, None
<1>7. ended' \in BOOLEAN
  BY <1>3, <1>5 DEF TypeOK, txVars
<1> QED BY <1>5, <1>6, <1>7, IdleStep DEF txVars

\* What went into the pipe, before and after a deviation.
LEMMA FedIs ==
    ASSUME TypeOK
    PROVE  /\ deviated = None => Fed = sent
           /\ deviated = Len(sent) => Fed = sent
           /\ deviated <= Len(sent) => Fed = SubSeq(sent, 1, deviated)
<1>1. /\ sent \in Seq(Packets) /\ Len(sent) \in Nat /\ Len(sent) <= MaxPackets
      /\ MaxPackets \in Nat /\ deviated \in Nat
  BY CodecAssumption DEF TypeOK, None
<1>2. SubSeq(sent, 1, Len(sent)) = sent
  BY <1>1
<1>3. Least(deviated, Len(sent)) = IF deviated < Len(sent) THEN deviated ELSE Len(sent)
  BY DEF Least
<1>4. deviated = None => Least(deviated, Len(sent)) = Len(sent)
  BY <1>1, <1>3 DEF None
<1>5. deviated <= Len(sent) => Least(deviated, Len(sent)) = deviated
  BY <1>1, <1>3
<1>6. deviated = Len(sent) => Least(deviated, Len(sent)) = Len(sent)
  BY <1>1, <1>3
<1> QED BY <1>2, <1>4, <1>5, <1>6 DEF Fed

\* The same of the next state.
LEMMA FedIsNext ==
    (TypeOK => /\ deviated = None => Fed = sent
               /\ deviated = Len(sent) => Fed = sent
               /\ deviated <= Len(sent) => Fed = SubSeq(sent, 1, deviated))'
<1>1. TypeOK => /\ deviated = None => Fed = sent
                /\ deviated = Len(sent) => Fed = sent
                /\ deviated <= Len(sent) => Fed = SubSeq(sent, 1, deviated)
  BY FedIs
<1> QED BY <1>1, PTL

\* Sending a packet: the pipe's sending, unless the peer has deviated.
LEMMA SendStep ==
    ASSUME CInv, NEW p \in Packets, send_packet(p)
    PROVE  CInv' /\ PipeStep
<1>1. PICK ps \in Seq(Packets), F \in Seq(Frame), G \in Seq(Frame), Z \in Seq(Byte) :
          Wire(ps, F, G, Z)
  BY DEF CInv, OnTheWire
<1> DEFINE frs == fragment_packet(p)
           x == EncodeFrames(frs)
           o == <<p>>
<1>2. /\ Len(sent) < MaxPackets
      /\ stream' = Cat(stream, x) /\ sent' = Append(sent, p)
      /\ ended' = ended /\ deviated' = deviated
      /\ rpc' = rpc /\ byte_buffer' = byte_buffer /\ frame_buffer' = frame_buffer
      /\ packet_buffer' = packet_buffer /\ received' = received
  BY DEF send_packet, rxVars, Cat
<1>3. /\ sent \in Seq(Packets) /\ stream \in Seq(Byte) /\ byte_buffer \in Seq(Byte)
      /\ frame_buffer \in Seq(Frame) /\ packet_buffer \in Seq(Packets)
      /\ received \in Seq(Packets) /\ TypeOK
  BY DEF CInv, TypeOK
<1>4. /\ Cat(Cat(received, packet_buffer), ps) = Fed
      /\ Cat(frame_buffer, F) = Cat(FramesOf(ps), G)
      /\ Cat(byte_buffer, stream) = Cat(EncodeFrames(F), Z)
      /\ Ahead(G, Z)
  BY <1>1 DEF Wire
<1>5. frs \in Seq(Frame)
  BY Fragments DEF IsPacketOf
<1>6. x \in Seq(Byte)
  <2> HIDE DEF frs
  <2> QED BY <1>5, EncodeType
<1>7. FramesOf(Cat(ps, o)) = Cat(FramesOf(ps), frs)
  BY FramesCat
<1>8. EncodeFrames(Cat(F, frs)) = Cat(EncodeFrames(F), x)
  <2> HIDE DEF frs
  <2> QED BY <1>5, EncodeCat
<1>9. o \in Seq(Packets) /\ sent' = Cat(sent, o) /\ Len(sent') = Len(sent) + 1
  BY <1>2, <1>3 DEF Cat
<1>10. sent' \in Seq(Packets) /\ Len(sent') <= MaxPackets
  <2>1. Len(sent) \in Nat /\ MaxPackets \in Nat
    BY <1>3, CodecAssumption
  <2>2. sent' \in Seq(Packets)
    BY <1>2, <1>3
  <2> QED BY <1>2, <1>9, <2>1, <2>2
<1> HIDE DEF frs, x, o
<1>11. stream' \in Seq(Byte)
  BY <1>2, <1>3, <1>6, CatType
<1>12. TypeOK'
  BY <1>2, <1>3, <1>10, <1>11 DEF TypeOK, None
<1>13. NoFalseAlarm'
  BY <1>2 DEF CInv, NoFalseAlarm, None
<1>14. Cat(Cat(byte_buffer, stream), x) = Cat(byte_buffer, stream')
  BY <1>2, <1>3, <1>6, CatAssociative
<1>15. FramesOf(ps) \in Seq(Frame) /\ EncodeFrames(F) \in Seq(Byte)
  BY FramesType, EncodeType
<1>16. CASE deviated = None
  <2>1. G = <<>> /\ Z = <<>>
    BY <1>4, <1>16 DEF Ahead
  <2>2. Fed = sent
    BY <1>3, <1>16, FedIs
  <2>3. Fed' = sent'
    <3>1. deviated' = None'
      BY <1>2, <1>16 DEF None
    <3>2. (TypeOK => (deviated = None => Fed = sent))'
      BY FedIsNext
    <3> QED BY <1>12, <3>1, <3>2
  <2> DEFINE ps2 == Cat(ps, o)
             F2  == Cat(F, frs)
             rp  == Cat(received, packet_buffer)
  <2>4. ps2 \in Seq(Packets) /\ F2 \in Seq(Frame) /\ rp \in Seq(Packets)
    BY <1>3, <1>5, <1>9, CatType
  <2>5. Cat(rp, ps2) = Cat(Cat(rp, ps), o)
    <3> HIDE DEF rp
    <3> QED BY <1>9, <2>4, CatAssociative
  <2>6. Cat(rp, ps2) = sent'
    BY <1>4, <1>9, <2>2, <2>5
  <2>7. Cat(frame_buffer, F2) = Cat(Cat(frame_buffer, F), frs)
    BY <1>3, <1>5, CatAssociative
  <2>8. Cat(FramesOf(ps), <<>>) = FramesOf(ps) /\ Cat(EncodeFrames(F), <<>>) = EncodeFrames(F)
    BY <1>15, CatEmpty
  <2>9. Cat(frame_buffer, F2) = FramesOf(ps2)
    BY <1>4, <1>7, <2>1, <2>7, <2>8
  <2>10. Cat(byte_buffer, stream') = EncodeFrames(F2)
    BY <1>4, <1>8, <1>14, <2>1, <2>8
  <2> HIDE DEF ps2, F2
  <2>11. Cat(FramesOf(ps2), <<>>) = FramesOf(ps2) /\ Cat(EncodeFrames(F2), <<>>) = EncodeFrames(F2)
    <3>1. FramesOf(ps2) \in Seq(Frame) /\ EncodeFrames(F2) \in Seq(Byte)
      BY <2>4, FramesType, EncodeType
    <3> QED BY <3>1, CatEmpty
  <2>12. <<>> \in Seq(Frame) /\ <<>> \in Seq(Byte)
    OBVIOUS
  <2>13. Ahead(<<>>, <<>>)'
    BY <1>2, <1>16 DEF Ahead, None
  <2>14. Wire(ps2, F2, <<>>, <<>>)'
    <3>1. Cat(Cat(received', packet_buffer'), ps2) = Fed'
      BY <1>2, <2>3, <2>6 DEF rp
    <3>2. Cat(frame_buffer', F2) = Cat(FramesOf(ps2), <<>>)
      BY <1>2, <2>9, <2>11
    <3>3. Cat(byte_buffer', stream') = Cat(EncodeFrames(F2), <<>>)
      BY <1>2, <2>10, <2>11
    <3> QED BY <2>4, <2>12, <2>13, <3>1, <3>2, <3>3 DEF Wire
  <2>15. OnTheWire'
    BY <2>4, <2>12, <2>14 DEF OnTheWire
  <2>16. Pipe!Send
    <3>1. Len(Fed') = Len(Fed) + 1
      BY <1>9, <2>2, <2>3
    <3>2. SubSeq(Append(sent, p), 1, Len(sent)) = sent
      BY <1>3
    <3>3. SubSeq(Fed', 1, Len(Fed)) = Fed
      BY <1>2, <2>2, <2>3, <3>2
    <3> QED BY <1>2, <3>1, <3>3 DEF Pipe!Send, Fed
  <2> QED BY <1>12, <1>13, <2>15, <2>16 DEF CInv, PipeStep
<1>17. CASE deviated # None
  <2>1. deviated <= Len(sent) /\ Fatal(G, Z)
    BY <1>4, <1>17 DEF Ahead
  <2>2. Len(sent) \in Nat /\ deviated \in Nat
    BY <1>3 DEF TypeOK, None
  <2>3. Fed = SubSeq(sent, 1, deviated)
    BY <1>3, <2>1, FedIs
  <2>4. Fed' = SubSeq(sent', 1, deviated')
    <3>1. deviated' <= Len(sent')
      BY <1>2, <1>9, <2>1, <2>2
    <3>2. (TypeOK => (deviated <= Len(sent) => Fed = SubSeq(sent, 1, deviated)))'
      BY FedIsNext
    <3> QED BY <1>12, <3>1, <3>2
  <2>5. SubSeq(Append(sent, p), 1, deviated) = SubSeq(sent, 1, deviated)
    BY <1>3, <2>1, <2>2
  <2>6. Fed' = Fed
    BY <1>2, <2>3, <2>4, <2>5
  <2> DEFINE Z2 == Cat(Z, x)
  <2>7. Z2 \in Seq(Byte)
    BY <1>6, CatType
  <2>8. Cat(Cat(EncodeFrames(F), Z), x) = Cat(EncodeFrames(F), Z2)
    BY <1>6, <1>15, CatAssociative
  <2>9. Fatal(G, Z2)
    BY <1>6, <2>1, StaysFatal
  <2> HIDE DEF Z2
  <2>10. Ahead(G, Z2)'
    <3>1. deviated' # None' /\ deviated' <= Len(sent')
      BY <1>2, <1>9, <1>17, <2>1, <2>2 DEF None
    <3> QED BY <2>9, <3>1 DEF Ahead
  <2>11. Wire(ps, F, G, Z2)'
    <3>1. Cat(byte_buffer', stream') = Cat(EncodeFrames(F), Z2)
      BY <1>2, <1>4, <1>14, <2>8
    <3> QED BY <1>2, <1>4, <2>6, <2>7, <2>10, <3>1 DEF Wire
  <2>12. OnTheWire'
    BY <2>7, <2>11 DEF OnTheWire
  <2> QED BY <1>2, <1>12, <1>13, <2>6, <2>12 DEF CInv, PipeStep
<1> QED BY <1>16, <1>17

\* A deviation lets nothing in and makes nothing of what is on its way fatal.
LEMMA DeviateStep ==
    ASSUME CInv, Deviate
    PROVE  CInv' /\ PipeStep
<1>1. PICK ps \in Seq(Packets), F \in Seq(Frame), G \in Seq(Frame), Z \in Seq(Byte) :
          Wire(ps, F, G, Z)
  BY DEF CInv, OnTheWire
<1>2. PICK item \in Foreign : stream' = stream \o EncodeFrames(item.frames) \o item.rest
  BY DEF Deviate
<1>3. /\ deviated = None /\ deviated' = Len(sent) /\ sent' = sent /\ ended' = ended
      /\ rpc' = rpc /\ byte_buffer' = byte_buffer /\ frame_buffer' = frame_buffer
      /\ packet_buffer' = packet_buffer /\ received' = received
  BY DEF Deviate, rxVars
<1>4. /\ sent \in Seq(Packets) /\ stream \in Seq(Byte) /\ byte_buffer \in Seq(Byte)
      /\ frame_buffer \in Seq(Frame) /\ TypeOK
  BY DEF CInv, TypeOK
<1>5. /\ Cat(Cat(received, packet_buffer), ps) = Fed
      /\ Cat(frame_buffer, F) = Cat(FramesOf(ps), G)
      /\ Cat(byte_buffer, stream) = Cat(EncodeFrames(F), Z)
      /\ G = <<>> /\ Z = <<>>
  BY <1>1, <1>3 DEF Wire, Ahead
<1> DEFINE g == item.frames
           z == item.rest
           e == EncodeFrames(g)
           F2 == Cat(F, g)
<1>6. g \in Seq(Frame) /\ z \in Seq(Byte) /\ Fatal(g, z)
  BY ForeignIsFatal
<1> HIDE DEF g, z
<1>7. e \in Seq(Byte) /\ F2 \in Seq(Frame)
  BY <1>6, EncodeType, CatType
<1>8. EncodeFrames(F2) = Cat(EncodeFrames(F), e)
  BY <1>6, EncodeCat
<1>9. EncodeFrames(F) \in Seq(Byte) /\ FramesOf(ps) \in Seq(Frame)
  BY EncodeType, FramesType
<1>10. stream' = Cat(Cat(stream, e), z)
  BY <1>2 DEF Cat, g, z
<1> HIDE DEF e
<1>11. Cat(stream, e) \in Seq(Byte)
  BY <1>4, <1>7, CatType
<1>12. stream' \in Seq(Byte)
  BY <1>6, <1>10, <1>11, CatType
<1>13. Cat(FramesOf(ps), <<>>) = FramesOf(ps) /\ Cat(EncodeFrames(F), <<>>) = EncodeFrames(F)
  BY <1>9, CatEmpty
<1>14. Cat(frame_buffer, F2) = Cat(FramesOf(ps), g)
  <2>1. Cat(Cat(frame_buffer, F), g) = Cat(frame_buffer, F2)
    BY <1>4, <1>6, CatAssociative
  <2> QED BY <1>5, <1>13, <2>1
<1>15. Cat(byte_buffer, stream') = Cat(EncodeFrames(F2), z)
  <2> DEFINE y == Cat(stream, e)
  <2>1. Cat(Cat(byte_buffer, stream), e) = Cat(byte_buffer, y)
    BY <1>4, <1>7, CatAssociative
  <2>2. Cat(byte_buffer, y) = EncodeFrames(F2)
    BY <1>5, <1>8, <1>13, <2>1
  <2>3. y \in Seq(Byte)
    BY <1>11
  <2> HIDE DEF y
  <2>4. Cat(Cat(byte_buffer, y), z) = Cat(byte_buffer, Cat(y, z))
    BY <1>4, <1>6, <2>3, CatAssociative
  <2> QED BY <1>10, <2>2, <2>4 DEF y
<1>16. TypeOK'
  <2>1. Len(sent) \in Nat /\ Len(sent) <= MaxPackets /\ MaxPackets \in Nat
    BY <1>4, CodecAssumption DEF TypeOK
  <2>2. deviated' \in 0..None
    BY <1>3, <2>1 DEF None
  <2> QED BY <1>3, <1>4, <1>12, <2>2 DEF TypeOK, None
<1>17. deviated' # None' /\ deviated' <= Len(sent') /\ deviated' = Len(sent')
  <2>1. Len(sent) \in Nat /\ Len(sent) <= MaxPackets /\ MaxPackets \in Nat
    BY <1>4, CodecAssumption DEF TypeOK
  <2> QED BY <1>3, <2>1 DEF None
<1>18. NoFalseAlarm'
  BY <1>17 DEF NoFalseAlarm
<1>19. Fed' = Fed
  <2>1. Fed = sent
    BY <1>3, <1>4, FedIs
  <2>2. (TypeOK => (deviated = Len(sent) => Fed = sent))'
    BY FedIsNext
  <2> QED BY <1>3, <1>16, <1>17, <2>1, <2>2
<1>20. Ahead(g, z)'
  BY <1>6, <1>17 DEF Ahead
<1> HIDE DEF F2
<1>21. Wire(ps, F2, g, z)'
  BY <1>3, <1>5, <1>6, <1>7, <1>14, <1>15, <1>19, <1>20 DEF Wire
<1>22. OnTheWire'
  BY <1>6, <1>7, <1>21 DEF OnTheWire
<1> QED BY <1>3, <1>16, <1>18, <1>19, <1>22 DEF CInv, PipeStep

-----------------------------------------------------------------------------
(***************************************************************************)
(* The theorems.                                                           *)
(***************************************************************************)

\* No step at all.
LEMMA StutterStep ==
    ASSUME CInv, UNCHANGED vars
    PROVE  CInv' /\ PipeStep
<1>1. /\ UNCHANGED <<sent, deviated, stream, byte_buffer, frame_buffer, packet_buffer,
                     received>>
      /\ rpc' = rpc /\ ended' = ended
  BY DEF vars, txVars, rxVars
<1>2. NoFalseAlarm'
  BY <1>1 DEF CInv, NoFalseAlarm, None
<1>3. rpc' \in {"pop", "frames", "packets", "error", "none"} /\ ended' \in BOOLEAN
  BY <1>1 DEF CInv, TypeOK
<1> QED BY <1>1, <1>2, <1>3, IdleStep

\* Every step keeps the invariant and is a step of the pipe, or none.
LEMMA EveryStep ==
    ASSUME CInv, [Next]_vars
    PROVE  CInv' /\ PipeStep
<1>1. CASE Pop
  BY <1>1, PopStep
<1>2. CASE Read
  BY <1>2, ReadStep
<1>3. CASE TakeFrame
  BY <1>3, TakeFrameStep
<1>4. CASE TakePacket
  BY <1>4, TakePacketStep
<1>5. CASE ProtocolError
  BY <1>5, ErrorStep
<1>6. CASE ReadEof \/ NoFrame \/ NoPacket
  <2>1. /\ rpc' \in {"none", "packets", "pop"} /\ UNCHANGED txVars
        /\ UNCHANGED <<stream, byte_buffer, frame_buffer, packet_buffer, received>>
    BY <1>6 DEF ReadEof, NoFrame, NoPacket
  <2>2. NoFalseAlarm'
    BY <2>1 DEF NoFalseAlarm
  <2>3. ended' \in BOOLEAN
    BY <2>1 DEF CInv, TypeOK, txVars
  <2>4. rpc' \in {"pop", "frames", "packets", "error", "none"}
    BY <2>1
  <2> QED BY <2>1, <2>2, <2>3, <2>4, IdleStep DEF txVars
<1>7. CASE PeerEnds
  <2>1. /\ ended' \in BOOLEAN /\ rpc' = rpc
        /\ UNCHANGED <<sent, deviated, stream, byte_buffer, frame_buffer, packet_buffer,
                       received>>
    BY <1>7 DEF PeerEnds, rxVars
  <2>2. NoFalseAlarm'
    BY <2>1 DEF CInv, NoFalseAlarm, None
  <2>3. rpc' \in {"pop", "frames", "packets", "error", "none"}
    BY <2>1 DEF CInv, TypeOK
  <2> QED BY <2>1, <2>2, <2>3, IdleStep
<1>8. CASE Deviate
  BY <1>8, DeviateStep
<1>9. CASE \E p \in Packets : send_packet(p)
  BY <1>9, SendStep
<1>10. CASE UNCHANGED vars
  BY <1>10, StutterStep
<1> QED BY <1>1, <1>2, <1>3, <1>4, <1>5, <1>6, <1>7, <1>8, <1>9, <1>10 DEF Next, recv_packet

\* The invariant is one.
LEMMA CodecInvariant == Spec => []CInv
<1>1. Init => CInv
  BY AtStart
<1>2. CInv /\ [Next]_vars => CInv'
  BY EveryStep
<1> QED BY <1>1, <1>2, PTL DEF Spec

\* The buffers of recv_packet hold only bytes, frames and packets, whatever the
\* peer sends and however the stream is cut.
THEOREM CodecTypeCorrect == Spec => []TypeOK
<1>1. CInv => TypeOK
  BY DEF CInv
<1> QED BY <1>1, CodecInvariant, PTL

\* A peer that keeps to the protocol is never accused of breaking it (peek_head,
\* decode, try_assemble_packet).
THEOREM NeverAFalseAlarm == Spec => []NoFalseAlarm
<1>1. CInv => NoFalseAlarm
  BY DEF CInv
<1> QED BY <1>1, CodecInvariant, PTL

\* Whatever MAX_PAYLOAD_SIZE, the packets and the pieces in which TCP delivers
\* them, recv_packet returns what send_packet was given, whole, in order and
\* once, and after a deviation nothing more.
THEOREM CodecIsAPipe == Spec => ImplementsPipe
<1>1. Init => Pipe!Init
  BY AtStart
<1>2. CInv /\ [Next]_vars => [Pipe!Next]_<<Fed, received>>
  <2> SUFFICES ASSUME CInv, [Next]_vars
               PROVE  [Pipe!Next]_<<Fed, received>>
    OBVIOUS
  <2>1. PipeStep
    BY EveryStep
  <2> QED BY <2>1 DEF PipeStep, Pipe!Next
<1>3. CInv /\ [Next]_vars
         => [Pipe!Next]_<<SubSeq(sent, 1, Least(deviated, Len(sent))), received>>
  BY <1>2 DEF Fed
<1> QED BY <1>1, <1>3, CodecInvariant, PTL DEF Spec, ImplementsPipe, Pipe!Spec
=============================================================================
