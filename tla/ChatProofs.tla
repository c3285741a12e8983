----------------------------- MODULE ChatProofs -----------------------------
(***************************************************************************)
(* Theorems about Chat, for any sizes, pads and numbers of texts.          *)
(***************************************************************************)
EXTENDS Chat, SequenceTheorems, TLAPS

\* The units that p can have sent.
UnitOf(p) == (1 .. Len(frames[p])) \X Nat

\* TypeOK, with what the buffers and the wire can hold.
Types ==
    /\ todo \in [Peers -> SUBSET Handlers]
    /\ state \in [Peers -> {"NOT_CONNECTED", "CONNECTED", "GONE"}]
    /\ sock \in [Peers -> BOOLEAN]
    /\ rst \in [Peers -> BOOLEAN]
    /\ frames \in [Peers -> Seq(Frame)]
    /\ sending \in [Peers -> Nat]
    /\ sent \in [Peers -> Nat]
    /\ receiving \in [Peers -> Nat]
    /\ local \in [Peers -> KeyType]
    /\ remote \in [Peers -> KeyType]
    /\ shown \in [Peers -> Seq(Shown)]
    /\ sessions \in Nat

Streams ==
    /\ wire = [p \in Peers |-> wire[p]] /\ received = [p \in Peers |-> received[p]]
    /\ \A p \in Peers :
          /\ wire[p] \in Seq(UnitOf(p))
          /\ received[p] \in Seq(UnitOf(Other(p)))
          /\ sending[p] <= Len(frames[p])
          /\ receiving[p] = 0 \/ receiving[p] >= HeaderSize

TypeInv == Types /\ Streams

LEMMA OtherPeer ==
    /\ \A p \in Peers : Other(p) \in Peers /\ Other(p) # p /\ Other(Other(p)) = p
    /\ \A p, q \in Peers : p # q => q = Other(p)
<1>1. PICK a, b \in Peers : a # b /\ Peers = {a, b}
  BY PeersAssumption
<1>2. \A p \in Peers : \E q \in Peers : q # p
  BY <1>1
<1>3. \A p \in Peers : Other(p) \in Peers /\ Other(p) # p
  BY <1>2 DEF Other
<1>4. QED BY <1>1, <1>3

LEMMA Remainder ==
    ASSUME NEW n \in Nat
    PROVE  /\ n % HeadRange \in Heads
           /\ n < HeadRange => n % HeadRange = n
<1>1. HeadRange \in Nat /\ HeadRange > 0
  BY KeyAssumption
<1>2. QED BY <1>1 DEF Heads

\* The heads that are places of the pad are where they say, and fseek takes them.
LEMMA OffsetInPad ==
    ASSUME NEW h \in Heads
    PROVE  /\ Offset(h) \in Nat
           /\ h <= PadSize => Seekable(h) /\ Offset(h) = h + DataOffset
<1>1. h + DataOffset \in Nat
  BY KeyAssumption DEF Heads
<1>2. Offset(h) \in Nat
  BY <1>1, Remainder, KeyAssumption DEF Offset, Heads
<1>3. ASSUME h <= PadSize
      PROVE  Seekable(h) /\ Offset(h) = h + DataOffset
  <2>1. h + DataOffset < SeekRange /\ h + DataOffset < HeadRange
    BY <1>3, KeyAssumption, SizesAssumption DEF Sizes, Heads
  <2>2. QED BY <1>1, <2>1, Remainder DEF Offset, Seekable
<1>4. QED BY <1>2, <1>3

LEMMA NewPadIs ==
    /\ NewPad \in KeyType
    /\ NewPad.size = PadSize /\ NewPad.pos = 0 /\ NewPad.head = 0
<1>1. PadSize \in Sizes /\ PadSize \in Nat /\ 0 \in Heads /\ DataOffset \in Nat
  BY KeyAssumption, SizesAssumption DEF Heads, Sizes
<1>2. Offset(0) = DataOffset
  BY <1>1, OffsetInPad
<1>3. QED BY <1>1, <1>2 DEF NewPad, KeyOpen, KeyCreate, KeyType

LEMMA KeySeekMoves ==
    ASSUME NEW k \in KeyType, NEW h \in Heads
    PROVE  /\ KeySeek(k, h) \in KeyType
           /\ KeySeek(k, h).head = h
           /\ h <= PadSize => KeySeek(k, h).pos = h
           /\ KeySeek(k, h).size = k.size
<1>1. /\ Offset(h) - DataOffset \in Int
      /\ h <= PadSize => Seekable(h) /\ Offset(h) - DataOffset = h
  BY OffsetInPad, KeyAssumption DEF Heads
<1>2. QED BY <1>1 DEF KeySeek, KeyType

\* Stream and count move together as long as they are the same place of the pad.
LEMMA KeyGetBlockMoves ==
    ASSUME NEW k \in KeyType, NEW n \in Nat
    PROVE  /\ KeyGetBlock(k, n) \in KeyType
           /\ KeyGetBlock(k, n).pos = k.pos + BytesRead(k, n)
           /\ KeyGetBlock(k, n).size = k.size
           /\ BytesRead(k, n) \in Nat
           /\ k.pos = k.head /\ k.head <= k.size =>
                 /\ KeyGetBlock(k, n).head = k.head + BytesRead(k, n)
                 /\ KeyGetBlock(k, n).head <= k.size
<1>1. /\ k.id \in Nat /\ k.size \in Sizes /\ k.head \in Nat /\ k.pos \in Int
      /\ k.size \in Nat /\ k.size < HeadRange
  BY KeyAssumption DEF KeyType, Sizes, Heads
<1>2. BytesRead(k, n) \in Nat
  BY <1>1 DEF BytesRead, BytesLeft
<1>3. k.head + BytesRead(k, n) \in Nat
  BY <1>1, <1>2
<1>4. k.pos = k.head /\ k.head <= k.size => k.head + BytesRead(k, n) <= k.size
  BY <1>1 DEF BytesRead, BytesLeft
<1>5. /\ (k.head + BytesRead(k, n)) % HeadRange \in Heads
      /\ k.pos = k.head /\ k.head <= k.size =>
            (k.head + BytesRead(k, n)) % HeadRange = k.head + BytesRead(k, n)
  <2>1. HeadRange \in Nat
    BY KeyAssumption
  <2> HIDE DEF BytesRead
  <2>2. QED BY <1>1, <1>3, <1>4, <2>1, Remainder
<1>6. QED BY <1>1, <1>2, <1>4, <1>5 DEF KeyGetBlock, KeyType

\* encrypt succeeds exactly when the pad has the bytes.
LEMMA EncryptNeeds ==
    ASSUME NEW k \in KeyType, NEW n \in Nat \ {0}
    PROVE  EncryptSucceeds(k, n) <=> k.pos + n <= k.size
BY DEF EncryptSucceeds, BytesRead, BytesLeft, KeyType, Sizes

----------------------------------------------------------------------------
LEMMA TypeInvImpliesTypeOK == TypeInv => TypeOK
<1> SUFFICES ASSUME TypeInv PROVE TypeOK
  OBVIOUS
<1>1. \A p \in Peers : UnitOf(p) \subseteq Unit
  BY DEF UnitOf, Unit
<1>2. ASSUME NEW p \in Peers
      PROVE  wire[p] \in Seq(Unit) /\ received[p] \in Seq(Unit)
  <2>1. wire[p] \in Seq(UnitOf(p)) /\ received[p] \in Seq(UnitOf(Other(p)))
    BY DEF TypeInv, Streams
  <2>2. UnitOf(p) \subseteq Unit /\ UnitOf(Other(p)) \subseteq Unit
    BY <1>1, OtherPeer
  <2>3. QED BY <2>1, <2>2, SeqMonotonic
<1>3. wire \in [Peers -> Seq(Unit)] /\ received \in [Peers -> Seq(Unit)]
  BY <1>2 DEF TypeInv, Streams
<1>4. QED BY <1>3 DEF TypeInv, Types, TypeOK

LEMMA InitType == Init => TypeInv
<1> SUFFICES ASSUME Init PROVE TypeInv
  OBVIOUS
<1>1. NewPad \in KeyType
  BY NewPadIs
<1>2. Types
  BY <1>1 DEF Init, Types
<1>3. Streams
  BY OtherPeer DEF Init, Streams
<1>4. QED BY <1>2, <1>3 DEF TypeInv
----------------------------------------------------------------------------
\* What arrives is made of units that were sent.
LEMMA UnitsRead ==
    ASSUME TypeInv, NEW p \in Peers, NEW n \in 1 .. Len(wire[Other(p)])
    PROVE  LET units == received[p] \o SubSeq(wire[Other(p)], 1, n)
               rest == SubSeq(wire[Other(p)], n + 1, Len(wire[Other(p)]))
           IN  /\ units \in Seq(UnitOf(Other(p)))
               /\ rest \in Seq(UnitOf(Other(p)))
               /\ Len(received[p]) \in Nat
               /\ Len(units) = Len(received[p]) + n
               /\ \A i \in 1 .. Len(received[p]) : units[i] = received[p][i]
<1> DEFINE q == Other(p)
           S == UnitOf(q)
           w == wire[q]
           units == received[p] \o SubSeq(wire[q], 1, n)
           rest == SubSeq(wire[q], n + 1, Len(wire[q]))
<1>1. w \in Seq(S) /\ received[p] \in Seq(S)
  BY OtherPeer DEF TypeInv, Streams
<1>2. Len(w) \in Nat /\ \A i \in 1 .. Len(w) : w[i] \in S
  BY <1>1, LenProperties, ElementOfSeq
<1>3. SubSeq(w, 1, n) \in Seq(S) /\ Len(SubSeq(w, 1, n)) = n
  <2>1. \A i \in 1 .. n : w[i] \in S
    BY <1>2
  <2> HIDE DEF S, w
  <2>2. QED BY <2>1, <1>2, SubSeqProperties
<1>4. rest \in Seq(S)
  <2>1. \A i \in n + 1 .. Len(w) : w[i] \in S
    BY <1>2
  <2>2. n + 1 \in Int /\ Len(w) \in Int
    BY <1>2
  <2> HIDE DEF S
  <2>3. SubSeq(w, n + 1, Len(w)) \in Seq(S)
    BY <2>1, <2>2, SubSeqProperties
  <2>4. QED BY <2>3
<1>5. Len(received[p]) \in Nat
  BY <1>1, LenProperties
<1> HIDE DEF S
<1>6. /\ units \in Seq(S)
      /\ Len(units) = Len(received[p]) + n
      /\ \A i \in 1 .. Len(received[p]) : units[i] = received[p][i]
  BY <1>1, <1>3, <1>5, ConcatProperties
<1>7. QED BY <1>4, <1>5, <1>6 DEF S

\* The frame that the first unit names exists.
LEMMA FirstUnit ==
    ASSUME TypeInv, NEW p \in Peers,
           NEW units \in Seq(UnitOf(Other(p))), Len(units) > 0
    PROVE  /\ units[1][1] \in 1 .. Len(frames[Other(p)])
           /\ frames[Other(p)][units[1][1]] \in Frame
           /\ FrameOf(p, units) \in Nat
<1>1. Len(units) \in Nat /\ units[1] \in UnitOf(Other(p))
  BY LenProperties, ElementOfSeq
<1>2. units[1][1] \in 1 .. Len(frames[Other(p)])
  BY <1>1 DEF UnitOf
<1>3. frames[Other(p)] \in Seq(Frame)
  BY OtherPeer DEF TypeInv, Types
<1>4. frames[Other(p)][units[1][1]] \in Frame
  BY <1>2, <1>3, ElementOfSeq
<1>5. Len(frames[Other(p)]) \in Nat
  BY <1>3, LenProperties
<1>6. FrameOf(p, units) \in Nat
  BY <1>2, <1>5 DEF FrameOf
<1>7. QED BY <1>2, <1>4, <1>6

LEMMA HeaderSaysType ==
    ASSUME TypeInv, NEW p \in Peers,
           NEW units \in Seq(UnitOf(Other(p))), Len(units) > 0,
           NEW header \in HeaderSays(p, units)
    PROVE  header.size \in Nat /\ header.head \in Heads
<1>1. frames[Other(p)][units[1][1]] \in Frame
  BY FirstUnit
<1>2. CASE Intact(units[1][1], units)
  BY <1>1, <1>2 DEF HeaderSays, Frame
<1>3. CASE ~Intact(units[1][1], units)
  BY <1>3, SizesAssumption DEF HeaderSays
<1>4. QED BY <1>2, <1>3

\* Closing a socket empties wires and nothing else.
LEMMA NodeCloseType ==
    ASSUME TypeInv, NEW p \in Peers, CloseSocket(p) \/ NodeClose(p)
    PROVE  /\ sock' \in [Peers -> BOOLEAN]
           /\ rst' \in [Peers -> BOOLEAN]
           /\ wire' = [r \in Peers |-> wire'[r]]
           /\ \A r \in Peers : wire'[r] = wire[r] \/ wire'[r] = <<>>
<1>1. /\ sock \in [Peers -> BOOLEAN] /\ rst \in [Peers -> BOOLEAN]
      /\ wire = [r \in Peers |-> wire[r]]
      /\ Other(p) \in Peers /\ Other(p) # p
  BY OtherPeer DEF TypeInv, Types, Streams
<1>2. CASE CloseSocket(p)
  BY <1>1, <1>2 DEF CloseSocket
<1>3. CASE UNCHANGED <<sock, rst, wire>>
  BY <1>1, <1>3
<1>4. QED BY <1>2, <1>3 DEF NodeClose

\* The streams stay well-formed when frames and buffers do not change.
LEMMA StreamsKept ==
    ASSUME TypeInv, UNCHANGED <<frames, sending, received>>,
           wire' = [r \in Peers |-> wire'[r]],
           \A r \in Peers : wire'[r] = wire[r] \/ wire'[r] = <<>>,
           \A r \in Peers : receiving'[r] = receiving[r] \/ receiving'[r] = HeaderSize
    PROVE  Streams'
<1>1. ASSUME NEW r \in Peers
      PROVE  /\ wire'[r] \in Seq(UnitOf(r)')
             /\ received'[r] \in Seq(UnitOf(Other(r))')
             /\ sending'[r] <= Len(frames'[r])
             /\ receiving'[r] = 0 \/ receiving'[r] >= HeaderSize
  <2>1. UnitOf(r)' = UnitOf(r) /\ UnitOf(Other(r))' = UnitOf(Other(r))
    BY OtherPeer DEF UnitOf
  <2>2. /\ wire[r] \in Seq(UnitOf(r))
        /\ received[r] \in Seq(UnitOf(Other(r)))
        /\ sending[r] <= Len(frames[r])
        /\ receiving[r] = 0 \/ receiving[r] >= HeaderSize
    BY DEF TypeInv, Streams
  <2>3. HeaderSize \in Nat
    BY SizesAssumption
  <2>4. <<>> \in Seq(UnitOf(r))
    BY EmptySeq
  <2>5. wire'[r] \in Seq(UnitOf(r)')
    BY <2>1, <2>2, <2>4
  <2>6. received'[r] \in Seq(UnitOf(Other(r))')
    BY <2>1, <2>2
  <2>7. sending'[r] <= Len(frames'[r])
    BY <2>2
  <2>8. receiving'[r] = 0 \/ receiving'[r] >= HeaderSize
    BY <2>2, <2>3
  <2>9. QED BY <2>5, <2>6, <2>7, <2>8
<1>2. received' = [r \in Peers |-> received'[r]]
  BY DEF TypeInv, Streams
<1>3. QED BY <1>1, <1>2 DEF Streams
----------------------------------------------------------------------------
LEMMA EstablishType ==
    ASSUME TypeInv, Establish PROVE TypeInv'
<1>1. Types'
  BY DEF Establish, Types, TypeInv, outgoing, incoming
<1>2. Streams'
  <2>1. wire' = [r \in Peers |-> wire'[r]]
    BY DEF Establish, TypeInv, Streams
  <2>2. QED BY <2>1, StreamsKept DEF Establish, outgoing, incoming
<1>3. QED BY <1>1, <1>2 DEF TypeInv

\* The steps that change neither the data nor the connection.
LEMMA TodoType ==
    ASSUME TypeInv, NEW p \in Peers, NEW t \in SUBSET Handlers,
           todo' = [todo EXCEPT ![p] = t],
           UNCHANGED <<conn, wire, outgoing, incoming>>
    PROVE  TypeInv'
<1>1. Types'
  BY DEF Types, TypeInv, conn, outgoing, incoming
<1>2. Streams'
  <2>1. wire' = [r \in Peers |-> wire'[r]]
    BY DEF TypeInv, Streams
  <2>2. QED BY <2>1, StreamsKept DEF outgoing, incoming
<1>3. QED BY <1>1, <1>2 DEF TypeInv

\* The steps that close the socket and keep the data.
LEMMA CloseType ==
    ASSUME TypeInv, NEW p \in Peers, CloseSocket(p) \/ NodeClose(p),
           todo' \in [Peers -> SUBSET Handlers],
           state' \in [Peers -> {"NOT_CONNECTED", "CONNECTED", "GONE"}],
           receiving' = receiving \/ receiving' = [receiving EXCEPT ![p] = Asked(p)],
           UNCHANGED <<sessions, outgoing, received, remote, shown>>
    PROVE  TypeInv'
<1>1. Asked(p) \in Nat /\ (Asked(p) = receiving[p] \/ Asked(p) = HeaderSize)
  BY SizesAssumption DEF Asked, TypeInv, Types
<1>2. Types'
  <2>1. Types
    BY DEF TypeInv
  <2>2. receiving' \in [Peers -> Nat]
    BY <1>1, <2>1 DEF Types
  <2>3. sock' \in [Peers -> BOOLEAN] /\ rst' \in [Peers -> BOOLEAN]
    BY NodeCloseType
  <2>4. QED BY <2>1, <2>2, <2>3 DEF Types, outgoing
<1>3. \A r \in Peers : receiving'[r] = receiving[r] \/ receiving'[r] = HeaderSize
  BY <1>1 DEF TypeInv, Types
<1>4. Streams'
  <2>1. /\ wire' = [r \in Peers |-> wire'[r]]
        /\ \A r \in Peers : wire'[r] = wire[r] \/ wire'[r] = <<>>
    BY NodeCloseType
  <2>2. UNCHANGED <<frames, sending, received>>
    BY DEF outgoing
  <2>3. QED BY <1>3, <2>1, <2>2, StreamsKept
<1>5. QED BY <1>2, <1>4 DEF TypeInv

LEMMA ReadSomeType ==
    ASSUME TypeInv, NEW p \in Peers, NEW n \in 1 .. Room, ReadSome(p, n)
    PROVE  TypeInv'
<1> DEFINE q == Other(p)
           units == received[p] \o SubSeq(wire[q], 1, n)
           rest == SubSeq(wire[q], n + 1, Len(wire[q]))
<1>0. /\ q \in Peers /\ q # p /\ Other(q) = p
      /\ HeaderSize \in Nat /\ HeaderSize > 0
  BY OtherPeer, SizesAssumption
<1>1. n \in 1 .. Len(wire[q])
  <2>1. wire[q] \in Seq(UnitOf(q))
    BY <1>0 DEF TypeInv, Streams
  <2>2. Len(wire[q]) \in Nat
    BY <2>1, LenProperties
  <2>3. QED BY <2>2 DEF ReadSome
<1>2. /\ units \in Seq(UnitOf(q)) /\ rest \in Seq(UnitOf(q))
      /\ Len(units) > 0 /\ Len(units) \in Nat
  <2>1. /\ units \in Seq(UnitOf(q)) /\ rest \in Seq(UnitOf(q))
        /\ Len(received[p]) \in Nat
        /\ Len(units) = Len(received[p]) + n
    BY <1>1, UnitsRead, Zenon
  <2> HIDE DEF units, rest
  <2>2. n \in Nat /\ n > 0
    OBVIOUS
  <2>3. QED BY <2>1, <2>2
<1>3. Asked(p) \in Nat /\ Asked(p) >= HeaderSize
  <2> HIDE DEF q, units, rest
  <2>1. receiving[p] \in Nat /\ (receiving[p] = 0 \/ receiving[p] >= HeaderSize)
    BY DEF TypeInv, Types, Streams
  <2>2. Asked(p) = IF receiving[p] = 0 THEN HeaderSize ELSE receiving[p]
    BY DEF Asked
  <2>3. HeaderSize \in Nat
    BY <1>0
  <2>4. CASE receiving[p] = 0
    BY <2>2, <2>3, <2>4
  <2>5. CASE receiving[p] # 0
    BY <2>1, <2>2, <2>5
  <2>6. QED BY <2>4, <2>5
<1>4. /\ wire' = [wire EXCEPT ![q] = rest]
      /\ todo' = [todo EXCEPT ![p] = @ \ {"read"}]
      /\ UNCHANGED <<state, sock, rst, sessions, frames, sending, sent, local>>
  BY DEF ReadSome, Done, conn, outgoing
<1>6. /\ receiving' \in [Peers -> Nat]
      /\ \A r \in Peers : \/ receiving'[r] = receiving[r]
                           \/ receiving'[r] = 0
                           \/ receiving'[r] >= HeaderSize
      /\ remote' \in [Peers -> KeyType]
      /\ shown' \in [Peers -> Seq(Shown)]
      /\ \/ received' = [received EXCEPT ![p] = units]
         \/ received' = [received EXCEPT ![p] = <<>>]
  <2> HIDE DEF units
  <2>0. /\ receiving \in [Peers -> Nat]
        /\ remote \in [Peers -> KeyType]
        /\ shown \in [Peers -> Seq(Shown)]
    BY DEF TypeInv, Types
  <2>1. CASE ReadMore(p, units)
    BY <2>0, <2>1, <1>3 DEF ReadMore
  <2>2. CASE ReadHeader(p, units)
    <3>1. PICK header \in HeaderSays(p, units) :
            /\ receiving' = [receiving EXCEPT ![p] = HeaderSize + header.size]
            /\ remote' = [remote EXCEPT ![p] = KeySeek(@, header.head)]
      BY <2>2 DEF ReadHeader
    <3>2. header.size \in Nat /\ header.head \in Heads
      BY <1>2, HeaderSaysType
    <3>3. KeySeek(remote[p], header.head) \in KeyType
      BY <3>2, <2>0, KeySeekMoves
    <3>4. HeaderSize + header.size \in Nat /\ HeaderSize + header.size >= HeaderSize
      BY <3>2, <1>0
    <3>5. QED BY <2>0, <2>2, <3>1, <3>3, <3>4 DEF ReadHeader
  <2>3. CASE ReadContent(p, units)
    <3>1. ContentSize(p) \in Nat
      BY <1>0, <1>3 DEF ContentSize
    <3>2. KeyGetBlock(remote[p], ContentSize(p)) \in KeyType
      BY <3>1, <2>0, KeyGetBlockMoves
    <3>3. [frame |-> FrameOf(p, units), from |-> remote[p].pos] \in Shown
      BY <1>2, <2>0, FirstUnit DEF Shown, KeyType
    <3>4. Append(shown[p], [frame |-> FrameOf(p, units), from |-> remote[p].pos])
            \in Seq(Shown)
      BY <3>3, <2>0, AppendProperties
    <3>5. remote' \in [Peers -> KeyType]
      BY <2>0, <2>3, <3>2 DEF ReadContent
    <3>6. CASE Decrypts(p)
      <4> DEFINE entry == [frame |-> FrameOf(p, units), from |-> remote[p].pos]
      <4>1. /\ receiving' = [receiving EXCEPT ![p] = 0]
            /\ received' = [received EXCEPT ![p] = <<>>]
            /\ shown' = [shown EXCEPT ![p] = Append(@, entry)]
        BY <2>3, <3>6 DEF ReadContent
      <4>2. Append(shown[p], entry) \in Seq(Shown)
        BY <3>4
      <4> HIDE DEF entry
      <4>3. shown' \in [Peers -> Seq(Shown)]
        BY <2>0, <4>1, <4>2
      <4>4. QED BY <2>0, <3>5, <4>1, <4>3
    <3>7. CASE ~Decrypts(p)
      BY <2>0, <2>3, <3>5, <3>7 DEF ReadContent
    <3>8. QED BY <3>6, <3>7
  <2>4. QED BY <2>1, <2>2, <2>3 DEF ReadSome, units
<1>7. Types'
  BY <1>4, <1>6 DEF Types, TypeInv
<1>8. Streams'
  <2> HIDE DEF units, rest
  <2>1. /\ wire' = [r \in Peers |-> wire'[r]]
        /\ received' = [r \in Peers |-> received'[r]]
    BY <1>0, <1>4, <1>6 DEF TypeInv, Streams
  <2>2. \A r \in Peers : UnitOf(r)' = UnitOf(r)
    BY <1>4 DEF UnitOf
  <2>3. ASSUME NEW r \in Peers
        PROVE  wire'[r] \in Seq(UnitOf(r))
    BY <1>0, <1>2, <1>4 DEF TypeInv, Streams
  <2>4. ASSUME NEW r \in Peers
        PROVE  received'[r] \in Seq(UnitOf(Other(r)))
    <3>1. <<>> \in Seq(UnitOf(q))
      BY EmptySeq
    <3>2. QED BY <1>0, <1>2, <1>6, <3>1 DEF TypeInv, Streams
  <2>5. ASSUME NEW r \in Peers
        PROVE  /\ sending'[r] <= Len(frames'[r])
               /\ receiving'[r] = 0 \/ receiving'[r] >= HeaderSize
    BY <1>4, <1>6 DEF TypeInv, Streams
  <2>6. QED BY <2>1, <2>2, <2>3, <2>4, <2>5, OtherPeer DEF Streams
<1>9. QED BY <1>7, <1>8 DEF TypeInv
LEMMA WriteSomeType ==
    ASSUME TypeInv, NEW p \in Peers, NEW n \in 1 .. Room, WriteSome(p, n)
    PROVE  TypeInv'
<1> DEFINE units == [i \in 1 .. n |-> <<sending[p], sent[p] + i>>]
<1>1. /\ sending[p] \in Nat /\ sent[p] \in Nat /\ n \in Nat
      /\ Len(frames[p]) \in Nat /\ sending[p] <= Len(frames[p])
      /\ wire[p] \in Seq(UnitOf(p))
  <2>1. frames[p] \in Seq(Frame)
    BY DEF TypeInv, Types
  <2>2. Len(frames[p]) \in Nat
    BY <2>1, LenProperties
  <2>3. QED BY <2>2, SizesAssumption DEF TypeInv, Types, Streams
<1>2. sending[p] # 0
  BY DEF WriteSome
<1>3. units \in Seq(UnitOf(p))
  <2>1. \A i \in 1 .. n : <<sending[p], sent[p] + i>> \in UnitOf(p)
    BY <1>1, <1>2 DEF UnitOf
  <2>2. units \in [1 .. n -> UnitOf(p)]
    BY <2>1
  <2> HIDE DEF units
  <2>3. QED BY <1>1, <2>2, SeqDef
<1>4. wire[p] \o units \in Seq(UnitOf(p))
  <2> HIDE DEF units
  <2>1. QED BY <1>1, <1>3, ConcatProperties
<1>5. /\ todo' = [todo EXCEPT ![p] = @ \ {"write"}]
      /\ wire' = wire \/ wire' = [wire EXCEPT ![p] = @ \o units]
      /\ rst' = rst \/ rst' = [rst EXCEPT ![p] = TRUE]
      /\ sending' = [sending EXCEPT ![p] = LeftToSend(p, n)]
      /\ sent' = [sent EXCEPT ![p] = IF @ + n = FrameSize(p) THEN 0 ELSE @ + n]
      /\ UNCHANGED <<state, sock, sessions, frames, local, incoming>>
  BY DEF WriteSome, Done
<1>6. LeftToSend(p, n) = 0 \/ LeftToSend(p, n) = sending[p]
  BY DEF LeftToSend
<1> HIDE DEF units
<1>7. Types'
  <2>1. /\ LeftToSend(p, n) \in Nat
        /\ (IF sent[p] + n = FrameSize(p) THEN 0 ELSE sent[p] + n) \in Nat
    BY <1>1, <1>6
  <2>2. Types
    BY DEF TypeInv
  <2>3. sending' \in [Peers -> Nat] /\ sent' \in [Peers -> Nat]
    BY <1>5, <2>1, <2>2 DEF Types
  <2>4. rst' \in [Peers -> BOOLEAN] /\ todo' \in [Peers -> SUBSET Handlers]
    BY <1>5, <2>2 DEF Types
  <2>5. QED BY <1>5, <2>2, <2>3, <2>4 DEF Types, incoming
<1>8. Streams'
  <2>1. wire' = [r \in Peers |-> wire'[r]]
    BY <1>5 DEF TypeInv, Streams
  <2>2. \A r \in Peers : UnitOf(r)' = UnitOf(r)
    BY <1>5 DEF UnitOf
  <2>3. ASSUME NEW r \in Peers
        PROVE  wire'[r] \in Seq(UnitOf(r)) /\ received'[r] \in Seq(UnitOf(Other(r)))
    BY <1>4, <1>5 DEF TypeInv, Streams, incoming
  <2>4. ASSUME NEW r \in Peers
        PROVE  /\ sending'[r] <= Len(frames'[r])
               /\ receiving'[r] = 0 \/ receiving'[r] >= HeaderSize
    <3>1. sending[r] <= Len(frames[r]) /\ (receiving[r] = 0 \/ receiving[r] >= HeaderSize)
      BY DEF TypeInv, Streams
    <3>2. frames[r] \in Seq(Frame) /\ sending \in [Peers -> Nat]
      BY DEF TypeInv, Types
    <3>3. Len(frames[r]) \in Nat
      BY <3>2, LenProperties
    <3>4. sending'[r] = sending[r] \/ sending'[r] = 0
      BY <1>5, <1>6, <3>2
    <3>5. frames' = frames /\ receiving' = receiving
      BY <1>5 DEF incoming
    <3>6. QED BY <3>1, <3>3, <3>4, <3>5
  <2>5. received' = [r \in Peers |-> received'[r]]
    BY <1>5 DEF TypeInv, Streams, incoming
  <2>6. QED BY <2>1, <2>2, <2>3, <2>4, <2>5, OtherPeer DEF Streams
<1>9. QED BY <1>7, <1>8 DEF TypeInv

\* Frames are only added.
LEMMA EnterFrames ==
    ASSUME TypeInv, NEW p \in Peers, NEW size \in TextSizes, Enter(p, size)
    PROVE  /\ frames' \in [Peers -> Seq(Frame)]
           /\ \A r \in Peers : r # p => frames'[r] = frames[r]
           /\ Len(frames[p]) \in Nat
           /\ Len(frames'[p]) = Len(frames[p]) + 1
           /\ \A m \in 1 .. Len(frames[p]) : frames'[p][m] = frames[p][m]
           /\ frames'[p][Len(frames[p]) + 1] =
                 [size |-> size, head |-> local[p].head, from |-> local[p].pos,
                  sealed |-> EncryptSucceeds(local[p], size)]
<1> DEFINE frame == [size |-> size, head |-> local[p].head, from |-> local[p].pos,
                     sealed |-> EncryptSucceeds(local[p], size)]
<1>1. frame \in Frame
  BY SizesAssumption DEF Frame, TypeInv, Types, KeyType, EncryptSucceeds
<1>2. frames \in [Peers -> Seq(Frame)] /\ frames[p] \in Seq(Frame)
  BY DEF TypeInv, Types
<1>3. frames' = [frames EXCEPT ![p] = Append(@, frame)]
  BY DEF Enter
<1>4. Len(frames[p]) \in Nat
  BY <1>2, LenProperties
<1> HIDE DEF frame
<1>5. /\ Append(frames[p], frame) \in Seq(Frame)
      /\ Len(Append(frames[p], frame)) = Len(frames[p]) + 1
      /\ \A m \in 1 .. Len(frames[p]) : Append(frames[p], frame)[m] = frames[p][m]
      /\ Append(frames[p], frame)[Len(frames[p]) + 1] = frame
  BY <1>1, <1>2, AppendProperties
<1>6. QED BY <1>2, <1>3, <1>4, <1>5 DEF frame

LEMMA EnterType ==
    ASSUME TypeInv, NEW p \in Peers, NEW size \in TextSizes, Enter(p, size)
    PROVE  TypeInv'
<1>1. /\ todo' = [todo EXCEPT ![p] = @ \ {"stdin"}]
      /\ sending' = [sending EXCEPT ![p] = Len(frames[p]) + 1]
      /\ sent' = [sent EXCEPT ![p] = 0]
      /\ local' = [local EXCEPT ![p] = KeyGetBlock(@, size)]
      /\ UNCHANGED <<conn, wire, incoming>>
  BY DEF Enter, Done
<1>2. KeyGetBlock(local[p], size) \in KeyType
  BY KeyGetBlockMoves, SizesAssumption DEF TypeInv, Types
<1>3. Types'
  <2>0. frames' \in [Peers -> Seq(Frame)] /\ Len(frames[p]) \in Nat
    BY EnterFrames
  <2>1. Len(frames[p]) + 1 \in Nat
    BY <2>0
  <2>2. Types
    BY DEF TypeInv
  <2>3. /\ sending' \in [Peers -> Nat] /\ sent' \in [Peers -> Nat]
        /\ local' \in [Peers -> KeyType] /\ todo' \in [Peers -> SUBSET Handlers]
    BY <1>1, <1>2, <2>1, <2>2 DEF Types
  <2>4. QED BY <1>1, <2>0, <2>2, <2>3 DEF Types, conn, incoming
<1>4. ASSUME NEW r \in Peers
      PROVE  UnitOf(r) \subseteq UnitOf(r)' /\ sending'[r] <= Len(frames'[r])
  <2>1. frames'[r] = frames[r] \/ Len(frames'[r]) = Len(frames[r]) + 1
    <3>1. /\ \A s \in Peers : s # p => frames'[s] = frames[s]
          /\ Len(frames'[p]) = Len(frames[p]) + 1
      BY EnterFrames
    <3>2. QED BY <3>1
  <2>2. Len(frames[r]) \in Nat /\ sending \in [Peers -> Nat]
    <3>1. frames[r] \in Seq(Frame)
      BY DEF TypeInv, Types
    <3>2. QED BY <3>1, LenProperties DEF TypeInv, Types
  <2>3. sending[r] <= Len(frames[r])
    BY DEF TypeInv, Streams
  <2>4. UnitOf(r) \subseteq UnitOf(r)'
    BY <2>1, <2>2 DEF UnitOf
  <2>5. CASE r = p
    <3>1. sending'[p] = Len(frames[p]) + 1 /\ Len(frames'[p]) = Len(frames[p]) + 1
      BY <1>1, <2>2, EnterFrames
    <3>2. QED BY <2>2, <2>4, <2>5, <3>1
  <2>6. CASE r # p
    BY <1>1, <2>2, <2>3, <2>4, <2>6, EnterFrames
  <2>7. QED BY <2>5, <2>6
<1>5. ASSUME NEW r \in Peers
      PROVE  /\ wire'[r] \in Seq(UnitOf(r)')
             /\ received'[r] \in Seq(UnitOf(Other(r))')
  <2>1. wire[r] \in Seq(UnitOf(r)) /\ received[r] \in Seq(UnitOf(Other(r)))
    BY DEF TypeInv, Streams
  <2>2. UnitOf(r) \subseteq UnitOf(r)' /\ UnitOf(Other(r)) \subseteq UnitOf(Other(r))'
    BY <1>4, OtherPeer
  <2>3. QED BY <1>1, <2>1, <2>2, SeqMonotonic DEF incoming
<1>6. Streams'
  BY <1>1, <1>4, <1>5 DEF Streams, TypeInv, incoming
<1>7. QED BY <1>3, <1>6 DEF TypeInv

LEMMA TypeStep == TypeInv /\ [Next]_vars => TypeInv'
<1> SUFFICES ASSUME TypeInv, [Next]_vars PROVE TypeInv'
  OBVIOUS
<1>0. /\ todo \in [Peers -> SUBSET Handlers]
      /\ state \in [Peers -> {"NOT_CONNECTED", "CONNECTED", "GONE"}]
      /\ \A p \in Peers, h \in Handlers : todo[p] \ {h} \in SUBSET Handlers
      /\ {"read", "write", "stdin", "check"} = Handlers
  BY DEF TypeInv, Types, Handlers
<1>1. CASE Establish
  BY <1>1, EstablishType
<1>2. ASSUME NEW p \in Peers, SelectSome(p) PROVE TypeInv'
  <2>1. PICK ready \in SUBSET (SocketReady(p) \cup {"stdin"}) : Select(p, ready)
    BY <1>2 DEF SelectSome
  <2>2. ready \cup {"check"} \in SUBSET Handlers
    BY <2>1 DEF SocketReady, Handlers
  <2>3. QED BY <2>1, <2>2, TodoType DEF Select
<1>3. ASSUME NEW p \in Peers, Read(p) PROVE TypeInv'
  <2>1. CASE ReadFails(p)
    BY <1>0, <2>1, CloseType DEF ReadFails, Done
  <2>2. QED BY <1>3, <2>1, ReadSomeType DEF Read
<1>4. ASSUME NEW p \in Peers, Write(p) PROVE TypeInv'
  <2>1. CASE WriteSkipped(p)
    <3>1. todo[p] \ {"write"} \in SUBSET Handlers
      BY <1>0
    <3>2. QED BY <2>1, <3>1, TodoType DEF WriteSkipped, Done
  <2>2. CASE WriteFails(p)
    BY <1>0, <2>2, CloseType DEF WriteFails, Done, incoming
  <2>3. QED BY <1>4, <2>1, <2>2, WriteSomeType DEF Write
<1>5. ASSUME NEW p \in Peers, Stdin(p) PROVE TypeInv'
  <2>1. CASE Disconnect(p)
    BY <1>0, <2>1, CloseType DEF Disconnect, Done, incoming
  <2>2. CASE OtherKey(p)
    <3>1. todo[p] \ {"stdin"} \in SUBSET Handlers
      BY <1>0
    <3>2. QED BY <2>2, <3>1, TodoType DEF OtherKey, Done
  <2>3. QED BY <1>5, <2>1, <2>2, EnterType DEF Stdin
<1>6. ASSUME NEW p \in Peers, Check(p) PROVE TypeInv'
  <2>1. CASE CheckFails(p)
    BY <1>0, <2>1, CloseType DEF CheckFails, Done, incoming
  <2>2. CASE CheckPasses(p)
    <3>1. todo[p] \ {"check"} \in SUBSET Handlers
      BY <1>0
    <3>2. QED BY <2>2, <3>1, TodoType DEF CheckPasses, Done
  <2>3. QED BY <1>6, <2>1, <2>2 DEF Check
<1>7. ASSUME NEW p \in Peers, Exit(p) PROVE TypeInv'
  BY <1>0, <1>7, CloseType DEF Exit, incoming
<1>8. CASE UNCHANGED vars
  <2>1. Types'
    BY <1>8 DEF vars, conn, outgoing, incoming, TypeInv, Types
  <2>2. Streams'
    BY <1>8 DEF vars, conn, outgoing, incoming, TypeInv, Streams, UnitOf
  <2>3. QED BY <2>1, <2>2 DEF TypeInv
<1>9. QED
  BY <1>1, <1>2, <1>3, <1>4, <1>5, <1>6, <1>7, <1>8 DEF Next, Handle

LEMMA TypeInvariant == Spec => []TypeInv
BY InitType, TypeStep, PTL DEF Spec

\* Type correctness of the loop, the buffers and the wire.
THEOREM ChatTypeCorrect == Spec => []TypeOK
BY TypeInvariant, TypeInvImpliesTypeOK, PTL
----------------------------------------------------------------------------
\* A socket that is lost in an iteration meets the check at its end.
SocketInv ==
    \A p \in Peers :
        /\ sock[p] => state[p] = "CONNECTED"
        /\ todo[p] # {} => "check" \in todo[p]
        /\ state[p] = "CONNECTED" /\ ~sock[p] => "check" \in todo[p]

LEMMA CloseSocketCloses ==
    ASSUME TypeInv, NEW p \in Peers, CloseSocket(p) \/ NodeClose(p)
    PROVE  ~sock'[p] /\ \A r \in Peers \ {p} : sock'[r] = sock[r]
<1>1. sock \in [Peers -> BOOLEAN]
  BY DEF TypeInv, Types
<1>2. CASE CloseSocket(p)
  BY <1>1, <1>2 DEF CloseSocket
<1>3. CASE ~sock[p] /\ UNCHANGED sock
  BY <1>3
<1>4. QED BY <1>2, <1>3 DEF NodeClose

\* A handler other than the check that takes its turn leaves the check to do.
LEMMA HandlerKeepsSocketInv ==
    ASSUME TypeInv, SocketInv, NEW p \in Peers, NEW h \in Handlers \ {"check"},
           h \in todo[p], Done(p, h),
           UNCHANGED <<state, sock>> \/ (CloseSocket(p) /\ UNCHANGED state)
    PROVE  SocketInv'
<1>1. \A r \in Peers : todo'[r] = IF r = p THEN todo[r] \ {h} ELSE todo[r]
  BY DEF Done, TypeInv, Types
<1>2. ASSUME NEW r \in Peers
      PROVE  (sock'[r] => sock[r]) /\ (r # p => (sock[r] => sock'[r]))
  <2>1. CASE CloseSocket(p)
    <3>1. ~sock'[p] /\ \A q \in Peers \ {p} : sock'[q] = sock[q]
      BY <2>1, CloseSocketCloses
    <3>2. CASE r = p
      BY <3>1, <3>2
    <3>3. CASE r # p
      BY <3>1, <3>3
    <3>4. QED BY <3>2, <3>3
  <2>2. CASE UNCHANGED <<state, sock>>
    BY <2>2
  <2>3. QED BY <2>1, <2>2
<1>3. "check" \in todo[p] /\ h # "check"
  BY DEF SocketInv
<1>4. QED BY <1>1, <1>2, <1>3 DEF SocketInv

LEMMA SocketStep == TypeInv /\ SocketInv /\ [Next]_vars => SocketInv'
<1> SUFFICES ASSUME TypeInv, SocketInv, [Next]_vars PROVE SocketInv'
  OBVIOUS
<1>0. /\ todo \in [Peers -> SUBSET Handlers]
      /\ state \in [Peers -> {"NOT_CONNECTED", "CONNECTED", "GONE"}]
      /\ sock \in [Peers -> BOOLEAN]
      /\ {"read", "write", "stdin"} = Handlers \ {"check"}
  BY DEF TypeInv, Types, Handlers
<1>1. CASE Establish
  BY <1>0, <1>1 DEF Establish, SocketInv
<1>2. ASSUME NEW p \in Peers, SelectSome(p) PROVE SocketInv'
  <2>1. PICK ready \in SUBSET (SocketReady(p) \cup {"stdin"}) : Select(p, ready)
    BY <1>2 DEF SelectSome
  <2>2. \A r \in Peers : todo'[r] = IF r = p THEN ready \cup {"check"} ELSE todo[r]
    BY <1>0, <2>1 DEF Select
  <2>3. UNCHANGED <<state, sock>>
    BY <2>1 DEF Select, conn
  <2>4. QED BY <2>2, <2>3 DEF SocketInv
<1>3. ASSUME NEW p \in Peers, Read(p) PROVE SocketInv'
  <2>1. /\ "read" \in todo[p] /\ Done(p, "read")
        /\ UNCHANGED <<state, sock>> \/ (CloseSocket(p) /\ UNCHANGED state)
    BY <1>3 DEF Read, ReadFails, ReadSome, Turn, conn
  <2>2. QED BY <1>0, <2>1, HandlerKeepsSocketInv
<1>4. ASSUME NEW p \in Peers, Write(p) PROVE SocketInv'
  <2>1. /\ "write" \in todo[p] /\ Done(p, "write")
        /\ UNCHANGED <<state, sock>> \/ (CloseSocket(p) /\ UNCHANGED state)
    BY <1>4 DEF Write, WriteSkipped, WriteSome, WriteFails, Turn, conn
  <2>2. QED BY <1>0, <2>1, HandlerKeepsSocketInv
<1>5. ASSUME NEW p \in Peers, Stdin(p) PROVE SocketInv'
  <2>1. CASE Disconnect(p)
    <3>1. /\ "check" \in todo[p]
          /\ \A r \in Peers : todo'[r] = IF r = p THEN todo[r] \ {"stdin"} ELSE todo[r]
          /\ \A r \in Peers : state'[r] = IF r = p THEN "NOT_CONNECTED" ELSE state[r]
      BY <1>0, <2>1 DEF Disconnect, Turn, Done, SocketInv
    <3>2. ~sock'[p] /\ \A r \in Peers \ {p} : sock'[r] = sock[r]
      BY <2>1, CloseSocketCloses DEF Disconnect
    <3>3. QED BY <3>1, <3>2 DEF SocketInv
  <2>2. CASE OtherKey(p) \/ \E size \in TextSizes : Enter(p, size)
    <3>1. "stdin" \in todo[p] /\ Done(p, "stdin") /\ UNCHANGED <<state, sock>>
      BY <2>2 DEF OtherKey, Enter, Turn, conn
    <3>2. QED BY <1>0, <3>1, HandlerKeepsSocketInv
  <2>3. QED BY <1>5, <2>1, <2>2 DEF Stdin
<1>6. ASSUME NEW p \in Peers, Check(p) PROVE SocketInv'
  <2>1. /\ \A r \in Peers : todo'[r] = IF r = p THEN {} ELSE todo[r]
    <3>1. todo[p] \ {"check"} = {}
      BY <1>0, <1>6 DEF Check, CheckFails, CheckPasses, Turn, Before, Handlers
    <3>2. \A r \in Peers : todo'[r] = IF r = p THEN todo[r] \ {"check"} ELSE todo[r]
      BY <1>0, <1>6 DEF Check, CheckFails, CheckPasses, Done
    <3>3. QED BY <3>1, <3>2
  <2>2. CASE CheckFails(p)
    <3>1. \A r \in Peers : state'[r] = IF r = p THEN "NOT_CONNECTED" ELSE state[r]
      BY <1>0, <2>2 DEF CheckFails
    <3>2. ~sock'[p] /\ \A r \in Peers \ {p} : sock'[r] = sock[r]
      BY <2>2, CloseSocketCloses DEF CheckFails
    <3>3. QED BY <2>1, <3>1, <3>2 DEF SocketInv
  <2>3. CASE CheckPasses(p)
    <3>1. state[p] = "CONNECTED" => sock[p]
      BY <2>3 DEF CheckPasses, NodeError
    <3>2. QED BY <2>1, <2>3, <3>1 DEF CheckPasses, SocketInv, conn
  <2>4. QED BY <1>6, <2>2, <2>3 DEF Check
<1>7. ASSUME NEW p \in Peers, Exit(p) PROVE SocketInv'
  <2>1. /\ \A r \in Peers : todo'[r] = IF r = p THEN {} ELSE todo[r]
        /\ \A r \in Peers : state'[r] = IF r = p THEN "GONE" ELSE state[r]
    BY <1>0, <1>7 DEF Exit
  <2>2. ~sock'[p] /\ \A r \in Peers \ {p} : sock'[r] = sock[r]
    BY <1>7, CloseSocketCloses DEF Exit
  <2>3. QED BY <2>1, <2>2 DEF SocketInv
<1>8. CASE UNCHANGED vars
  BY <1>8 DEF vars, conn, SocketInv
<1>9. QED
  BY <1>1, <1>2, <1>3, <1>4, <1>5, <1>6, <1>7, <1>8 DEF Next, Handle

LEMMA SocketInit == Init => SocketInv
BY DEF Init, SocketInv

LEMMA SocketInvGives == SocketInv /\ TypeInv => SocketMatchesState
BY DEF SocketInv, SocketMatchesState, TypeInv, Types

\* At every select, remote.state is CONNECTED exactly when there is a socket.
THEOREM SocketAlwaysMatchesState == Spec => []SocketMatchesState
<1>1. Spec => [](TypeInv /\ SocketInv)
  BY InitType, TypeStep, SocketInit, SocketStep, PTL DEF Spec
<1>2. QED BY <1>1, SocketInvGives, PTL
----------------------------------------------------------------------------
\* Both copies of a pad have its size, and head and stream of the sender's are the
\* same place in it.
Pads ==
    \A p \in Peers :
        /\ local[p].size = PadSize /\ remote[p].size = PadSize
        /\ local[p].head = local[p].pos /\ local[p].head <= PadSize

\* A frame names the place of its pad bytes and is encrypted if they exist.
Sealing ==
    \A p \in Peers : \A m \in 1 .. Len(frames[p]) :
        /\ frames[p][m].size \in Nat \ {0}
        /\ frames[p][m].head = frames[p][m].from /\ frames[p][m].head <= PadSize
        /\ frames[p][m].sealed <=> frames[p][m].from + frames[p][m].size <= PadSize

\* The buffer begins with the whole header of frame m.
HeaderOf(p, m) == \A i \in 1 .. HeaderSize : received[p][i] = <<m, i>>

\* While the rest of a frame is awaited, its header has been read and, if it is
\* the header of one frame, the stream of the receiver's key is at its head.
HeaderRead ==
    \A p \in Peers :
        HeaderSize < receiving[p] /\ Len(received[p]) < receiving[p] =>
            /\ HeaderSize <= Len(received[p])
            /\ \A m \in 1 .. Len(frames[Other(p)]) :
                  HeaderOf(p, m) => remote[p].pos = frames[Other(p)][m].head

\* What WholeFramesDecrypt says of an entry of the history.
Right(p, e) ==
    e.frame # 0 =>
        /\ e.frame \in 1 .. Len(frames[Other(p)])
        /\ frames[Other(p)][e.frame].sealed
        /\ e.from = frames[Other(p)][e.frame].from

AllRight == \A p \in Peers : \A i \in 1 .. Len(shown[p]) : Right(p, shown[p][i])

DecryptInv == Pads /\ Sealing /\ HeaderRead /\ AllRight

LEMMA DecryptInit == Init => DecryptInv
<1> SUFFICES ASSUME Init PROVE DecryptInv
  OBVIOUS
<1>1. NewPad.size = PadSize /\ NewPad.head = 0 /\ NewPad.pos = 0
  BY NewPadIs
<1>2. Pads
  BY <1>1, SizesAssumption DEF Init, Pads, Sizes
<1>3. Sealing /\ AllRight
  BY OtherPeer DEF Init, Sealing, AllRight
<1>4. HeaderRead
  BY SizesAssumption DEF Init, HeaderRead
<1>5. QED BY <1>2, <1>3, <1>4 DEF DecryptInv

\* Most steps change nothing the invariant speaks of; a failing read may
\* have allocated the header.
LEMMA DecryptKept ==
    ASSUME DecryptInv, UNCHANGED <<frames, local, remote, shown, received>>,
           \A r \in Peers : receiving'[r] = receiving[r] \/ receiving'[r] = HeaderSize
    PROVE  DecryptInv'
<1>1. Pads' /\ Sealing' /\ AllRight'
  BY DEF DecryptInv, Pads, Sealing, AllRight, Right
<1>2. HeaderRead'
  <2> SUFFICES ASSUME NEW p \in Peers,
                      HeaderSize < receiving'[p], Len(received'[p]) < receiving'[p]
               PROVE  /\ HeaderSize <= Len(received'[p])
                      /\ \A m \in 1 .. Len(frames'[Other(p)]) :
                            HeaderOf(p, m)' => remote'[p].pos = frames'[Other(p)][m].head
    BY DEF HeaderRead
  <2>1. receiving'[p] = receiving[p]
    BY SizesAssumption
  <2>2. \A m : HeaderOf(p, m)' <=> HeaderOf(p, m)
    BY DEF HeaderOf
  <2>3. QED BY <2>1, <2>2 DEF DecryptInv, HeaderRead
<1>3. QED BY <1>1, <1>2 DEF DecryptInv

LEMMA EnterDecrypt ==
    ASSUME TypeInv, DecryptInv, NEW p \in Peers, NEW size \in TextSizes, Enter(p, size)
    PROVE  DecryptInv'
<1> DEFINE q == Other(p)
           new == Len(frames[p]) + 1
<1>0. /\ q \in Peers /\ q # p /\ Other(q) = p
      /\ size \in Nat \ {0} /\ HeaderSize \in Nat \ {0} /\ PadSize \in Nat
      /\ local[p] \in KeyType
  BY OtherPeer, SizesAssumption DEF TypeInv, Types, Sizes
<1>1. UNCHANGED <<remote, shown, received, receiving>>
  BY DEF Enter, incoming
<1>2. /\ frames' \in [Peers -> Seq(Frame)]
      /\ \A r \in Peers : r # p => frames'[r] = frames[r]
      /\ Len(frames[p]) \in Nat
      /\ Len(frames'[p]) = new
      /\ \A m \in 1 .. Len(frames[p]) : frames'[p][m] = frames[p][m]
      /\ frames'[p][new] =
            [size |-> size, head |-> local[p].head, from |-> local[p].pos,
             sealed |-> EncryptSucceeds(local[p], size)]
  BY EnterFrames
<1>3. Pads'
  <2>1. /\ KeyGetBlock(local[p], size).size = local[p].size
        /\ KeyGetBlock(local[p], size).head = KeyGetBlock(local[p], size).pos
        /\ KeyGetBlock(local[p], size).head <= PadSize
    <3>1. local[p].pos = local[p].head /\ local[p].head <= local[p].size
      BY DEF DecryptInv, Pads
    <3>2. local[p].size = PadSize
      BY DEF DecryptInv, Pads
    <3>3. size \in Nat
      BY <1>0
    <3>4. /\ KeyGetBlock(local[p], size).size = local[p].size
          /\ KeyGetBlock(local[p], size).pos = local[p].pos + BytesRead(local[p], size)
          /\ KeyGetBlock(local[p], size).head = local[p].head + BytesRead(local[p], size)
          /\ KeyGetBlock(local[p], size).head <= local[p].size
      BY <1>0, <3>1, <3>3, KeyGetBlockMoves
    <3>5. QED BY <3>1, <3>2, <3>4
  <2>2. local' = [local EXCEPT ![p] = KeyGetBlock(@, size)]
    BY DEF Enter
  <2>3. Pads /\ local \in [Peers -> KeyType]
    BY DEF DecryptInv, TypeInv, Types
  <2>4. ASSUME NEW r \in Peers
        PROVE  /\ local'[r].size = PadSize /\ local'[r].head = local'[r].pos
               /\ local'[r].head <= PadSize
    BY <2>1, <2>2, <2>3 DEF Pads
  <2>5. QED BY <1>1, <2>3, <2>4 DEF Pads
<1>4. Sealing'
  <2> SUFFICES ASSUME NEW r \in Peers, NEW m \in 1 .. Len(frames'[r])
               PROVE  /\ frames'[r][m].size \in Nat \ {0}
                      /\ frames'[r][m].head = frames'[r][m].from
                      /\ frames'[r][m].head <= PadSize
                      /\ \/ frames'[r][m].sealed
                         \/ ~(frames'[r][m].from + frames'[r][m].size <= PadSize)
                      /\ \/ ~frames'[r][m].sealed
                         \/ frames'[r][m].from + frames'[r][m].size <= PadSize
    BY DEF Sealing
  <2>1. CASE r = p /\ m = new
    <3>1. /\ frames'[r][m].size = size /\ frames'[r][m].head = local[p].head
          /\ frames'[r][m].from = local[p].pos
          /\ frames'[r][m].sealed = EncryptSucceeds(local[p], size)
      BY <1>2, <2>1
    <3>2. /\ local[p].head = local[p].pos /\ local[p].head <= PadSize
          /\ local[p].size = PadSize
      BY DEF DecryptInv, Pads
    <3>3. EncryptSucceeds(local[p], size) <=> local[p].pos + size <= PadSize
      BY <1>0, <3>2, EncryptNeeds
    <3>4. QED BY <1>0, <3>1, <3>2, <3>3
  <2>2. CASE r # p \/ m # new
    <3>1. m \in 1 .. Len(frames[r]) /\ frames'[r][m] = frames[r][m]
      BY <1>2, <2>2
    <3>2. QED BY <3>1 DEF DecryptInv, Sealing
  <2>3. QED BY <2>1, <2>2
<1>5. \A r \in Peers : \A m \in 1 .. Len(frames[r]) :
          m \in 1 .. Len(frames'[r]) /\ frames'[r][m] = frames[r][m]
  BY <1>2, SMTT(30)
<1>6. AllRight'
  <2> SUFFICES ASSUME NEW r \in Peers, NEW i \in 1 .. Len(shown'[r])
               PROVE  Right(r, shown[r][i])'
    BY <1>1 DEF AllRight
  <2>1. Right(r, shown[r][i])
    BY <1>1 DEF DecryptInv, AllRight
  <2>2. Other(r) \in Peers
    BY OtherPeer
  <2>3. QED BY <1>1, <1>5, <2>1, <2>2 DEF Right
<1>7. HeaderRead'
  <2> SUFFICES ASSUME NEW r \in Peers,
                      HeaderSize < receiving'[r], Len(received'[r]) < receiving'[r]
               PROVE  /\ HeaderSize <= Len(received'[r])
                      /\ \A m \in 1 .. Len(frames'[Other(r)]) :
                            HeaderOf(r, m)' => remote'[r].pos = frames'[Other(r)][m].head
    BY DEF HeaderRead
  <2>1. /\ HeaderSize <= Len(received[r])
        /\ \A m \in 1 .. Len(frames[Other(r)]) :
              HeaderOf(r, m) => remote[r].pos = frames[Other(r)][m].head
    BY <1>1 DEF DecryptInv, HeaderRead
  <2>2. received[r] \in Seq(UnitOf(Other(r)))
    BY DEF TypeInv, Streams
  <2>3. received[r][1] \in UnitOf(Other(r))
    <3>1. Len(received[r]) \in Nat
      BY <2>2, LenProperties
    <3>2. 1 \in 1 .. Len(received[r])
      BY <1>0, <2>1, <3>1
    <3>3. QED BY <2>2, <3>2, ElementOfSeq
  <2>4. ASSUME NEW m \in 1 .. Len(frames'[Other(r)]), HeaderOf(r, m)'
        PROVE  remote'[r].pos = frames'[Other(r)][m].head
    <3>1. received[r][1] = <<m, 1>> /\ HeaderOf(r, m)
      BY <1>0, <1>1, <2>4 DEF HeaderOf
    <3>2. m \in 1 .. Len(frames[Other(r)])
      BY <2>3, <3>1 DEF UnitOf
    <3>3. frames'[Other(r)][m] = frames[Other(r)][m]
      BY <1>5, <3>2, OtherPeer
    <3>4. QED BY <1>1, <2>1, <3>1, <3>2, <3>3
  <2>5. QED BY <1>1, <2>1, <2>4
<1>8. QED BY <1>3, <1>4, <1>6, <1>7 DEF DecryptInv
\* What the handler knows when it has read.
LEMMA ReadFacts ==
    ASSUME TypeInv, NEW p \in Peers, NEW n \in 1 .. Room, ReadSome(p, n)
    PROVE  /\ HeaderSize \in Nat \ {0}
           /\ Other(p) \in Peers /\ Other(p) # p
           /\ Asked(p) \in Nat /\ Asked(p) >= HeaderSize
           /\ receiving[p] \in Nat
           /\ receiving[p] # 0 => Asked(p) = receiving[p]
           /\ receiving[p] = 0 => Asked(p) = HeaderSize
           /\ Len(received[p]) \in Nat /\ Len(received[p]) < Asked(p)
           /\ UNCHANGED <<frames, local>>
           /\ \E units \in Seq(UnitOf(Other(p))) :
                 /\ Len(units) \in Nat /\ Len(units) > Len(received[p])
                 /\ \A i \in 1 .. Len(received[p]) : units[i] = received[p][i]
                 /\ ReadMore(p, units) \/ ReadHeader(p, units) \/ ReadContent(p, units)
<1> DEFINE q == Other(p)
           units == received[p] \o SubSeq(wire[q], 1, n)
           rest == SubSeq(wire[q], n + 1, Len(wire[q]))
<1>1. /\ q \in Peers /\ q # p /\ HeaderSize \in Nat \ {0}
  BY OtherPeer, SizesAssumption
<1>2. /\ receiving[p] \in Nat
      /\ receiving[p] = 0 \/ receiving[p] >= HeaderSize
  BY DEF TypeInv, Types, Streams
<1>3. /\ Asked(p) \in Nat /\ Asked(p) >= HeaderSize
      /\ receiving[p] # 0 => Asked(p) = receiving[p]
      /\ receiving[p] = 0 => Asked(p) = HeaderSize
  BY <1>1, <1>2 DEF Asked
<1>4. n \in 1 .. Len(wire[q])
  <2>1. wire[q] \in Seq(UnitOf(q))
    BY <1>1 DEF TypeInv, Streams
  <2>2. Len(wire[q]) \in Nat
    BY <2>1, LenProperties
  <2>3. QED BY <2>2 DEF ReadSome
<1>5. /\ units \in Seq(UnitOf(q))
      /\ Len(received[p]) \in Nat
      /\ Len(units) = Len(received[p]) + n
      /\ \A i \in 1 .. Len(received[p]) : units[i] = received[p][i]
  BY <1>4, UnitsRead
<1>6. ReadMore(p, units) \/ ReadHeader(p, units) \/ ReadContent(p, units)
  BY DEF ReadSome
<1>7. n <= Space(p) /\ UNCHANGED <<frames, local>>
  BY DEF ReadSome, outgoing
<1> HIDE DEF units, rest
<1>8. Len(received[p]) < Asked(p)
  BY <1>3, <1>5, <1>7 DEF Space
<1>9. Len(units) \in Nat /\ Len(units) > Len(received[p])
  BY <1>5
<1>10. QED BY <1>1, <1>2, <1>3, <1>5, <1>6, <1>7, <1>8, <1>9

\* Reading part of what was asked for.
LEMMA ReadMoreDecrypt ==
    ASSUME TypeInv, DecryptInv, NEW p \in Peers,
           NEW units \in Seq(UnitOf(Other(p))), ReadMore(p, units),
           HeaderSize \in Nat, Asked(p) \in Nat,
           receiving[p] # 0 => Asked(p) = receiving[p],
           receiving[p] = 0 => Asked(p) = HeaderSize,
           Len(received[p]) \in Nat, Len(received[p]) < Asked(p),
           Len(units) \in Nat, Len(units) > Len(received[p]),
           \A i \in 1 .. Len(received[p]) : units[i] = received[p][i],
           UNCHANGED <<frames, local>>
    PROVE  DecryptInv'
<1>1. /\ receiving' = [receiving EXCEPT ![p] = Asked(p)]
      /\ received' = [received EXCEPT ![p] = units]
      /\ UNCHANGED <<remote, shown>>
  BY DEF ReadMore
<1>2. Pads' /\ Sealing' /\ AllRight'
  <2>1. Pads'
    BY <1>1 DEF DecryptInv, Pads
  <2>2. Sealing'
    BY DEF DecryptInv, Sealing
  <2>3. AllRight'
    BY <1>1 DEF DecryptInv, AllRight, Right
  <2>4. QED BY <2>1, <2>2, <2>3
<1>3. HeaderRead'
  <2> SUFFICES ASSUME NEW r \in Peers,
                      HeaderSize < receiving'[r], Len(received'[r]) < receiving'[r]
               PROVE  /\ HeaderSize <= Len(received'[r])
                      /\ \A m \in 1 .. Len(frames[Other(r)]) :
                            HeaderOf(r, m)' => remote[r].pos = frames[Other(r)][m].head
    BY <1>1 DEF HeaderRead
  <2>0. receiving \in [Peers -> Nat] /\ received = [s \in Peers |-> received[s]]
    BY DEF TypeInv, Types, Streams
  <2>1. CASE r = p
    <3>1. receiving'[p] = Asked(p) /\ received'[p] = units
      BY <1>1, <2>0
    <3>2. HeaderSize < receiving[p] /\ Len(received[p]) < receiving[p]
      BY <2>1, <3>1
    <3>3. /\ HeaderSize <= Len(received[p])
          /\ \A m \in 1 .. Len(frames[Other(p)]) :
                HeaderOf(p, m) => remote[p].pos = frames[Other(p)][m].head
      BY <3>2 DEF DecryptInv, HeaderRead
    <3>4. ASSUME NEW m, HeaderOf(p, m)'
          PROVE  HeaderOf(p, m)
      <4>1. HeaderSize <= Len(received[p])
        BY <3>3
      <4>2. \A i \in 1 .. HeaderSize : i \in 1 .. Len(received[p])
        BY <4>1
      <4>3. \A i \in 1 .. HeaderSize : units[i] = <<m, i>>
        BY <3>1, <3>4 DEF HeaderOf
      <4>4. QED BY <4>2, <4>3 DEF HeaderOf
    <3>5. HeaderSize <= Len(received'[p])
      BY <3>1, <3>3
    <3>6. QED BY <2>1, <3>3, <3>4, <3>5
  <2>2. CASE r # p
    <3>1. receiving'[r] = receiving[r] /\ received'[r] = received[r]
      BY <1>1, <2>0, <2>2
    <3>2. \A m : HeaderOf(r, m)' <=> HeaderOf(r, m)
      BY <3>1 DEF HeaderOf
    <3>3. QED BY <3>1, <3>2 DEF DecryptInv, HeaderRead
  <2>3. QED BY <2>1, <2>2
<1>4. QED BY <1>2, <1>3 DEF DecryptInv

\* Reading the header: the key seeks to the head of the frame it announces.
LEMMA ReadHeaderDecrypt ==
    ASSUME TypeInv, DecryptInv, NEW p \in Peers,
           NEW units \in Seq(UnitOf(Other(p))), ReadHeader(p, units),
           HeaderSize \in Nat \ {0}, Len(units) \in Nat,
           UNCHANGED <<frames, local>>
    PROVE  DecryptInv'
<1>1. PICK header \in HeaderSays(p, units) :
        /\ receiving' = [receiving EXCEPT ![p] = HeaderSize + header.size]
        /\ remote' = [remote EXCEPT ![p] = KeySeek(@, header.head)]
  BY DEF ReadHeader
<1>2. /\ Len(units) = HeaderSize
      /\ received' = [received EXCEPT ![p] = units]
      /\ UNCHANGED shown
  BY DEF ReadHeader
<1>3. header.size \in Nat /\ header.head \in Heads
  BY <1>2, HeaderSaysType
<1>4. /\ remote \in [Peers -> KeyType] /\ receiving \in [Peers -> Nat]
      /\ received = [s \in Peers |-> received[s]]
  BY DEF TypeInv, Types, Streams
<1>5. /\ header.head <= PadSize => remote'[p].pos = header.head
      /\ remote'[p].size = remote[p].size
      /\ \A r \in Peers : r # p => remote'[r] = remote[r]
  BY <1>1, <1>3, <1>4, KeySeekMoves
<1>6. Pads'
  BY <1>5 DEF DecryptInv, Pads
<1>7. Sealing' /\ AllRight'
  <2>1. Sealing'
    BY DEF DecryptInv, Sealing
  <2>2. AllRight'
    BY <1>2 DEF DecryptInv, AllRight, Right
  <2>3. QED BY <2>1, <2>2
<1>8. HeaderRead'
  <2> SUFFICES ASSUME NEW r \in Peers,
                      HeaderSize < receiving'[r], Len(received'[r]) < receiving'[r]
               PROVE  /\ HeaderSize <= Len(received'[r])
                      /\ \A m \in 1 .. Len(frames[Other(r)]) :
                            HeaderOf(r, m)' => remote'[r].pos = frames[Other(r)][m].head
    BY DEF HeaderRead
  <2>1. CASE r = p
    <3>1. received'[p] = units
      BY <1>2, <1>4
    <3>2. ASSUME NEW m \in 1 .. Len(frames[Other(p)]), HeaderOf(p, m)'
          PROVE  remote'[p].pos = frames[Other(p)][m].head
      <4>1. \A i \in 1 .. HeaderSize : units[i] = <<m, i>>
        BY <3>1, <3>2 DEF HeaderOf
      <4>2. units \in [1 .. Len(units) -> UnitOf(Other(p))]
        BY LenProperties
      <4>3. Intact(m, units)
        BY <1>2, <4>1, <4>2 DEF Intact
      <4>4. units[1] = <<m, 1>>
        BY <4>1
      <4>5. units[1][1] = m
        BY <4>4
      <4>6. header.head = frames[Other(p)][m].head
        BY <4>3, <4>5 DEF HeaderSays
      <4>7. frames[Other(p)][m].head <= PadSize
        BY OtherPeer DEF DecryptInv, Sealing
      <4>8. QED BY <1>5, <4>6, <4>7
    <3>3. QED BY <1>2, <2>1, <3>1, <3>2
  <2>2. CASE r # p
    <3>1. /\ receiving'[r] = receiving[r] /\ received'[r] = received[r]
          /\ remote'[r] = remote[r]
      BY <1>1, <1>2, <1>4, <1>5, <2>2
    <3>2. \A m : HeaderOf(r, m)' <=> HeaderOf(r, m)
      BY <3>1 DEF HeaderOf
    <3>3. QED BY <3>1, <3>2 DEF DecryptInv, HeaderRead
  <2>3. QED BY <2>1, <2>2
<1>9. QED BY <1>6, <1>7, <1>8 DEF DecryptInv
\* A buffer that holds a whole frame is decrypted at the place of its pad bytes,
\* and only if the frame was encrypted.
LEMMA WholeFrame ==
    ASSUME TypeInv, DecryptInv, NEW p \in Peers,
           NEW units \in Seq(UnitOf(Other(p))), Len(units) = Asked(p),
           HeaderSize \in Nat \ {0}, Asked(p) \in Nat,
           Asked(p) = receiving[p], HeaderSize < receiving[p],
           Len(received[p]) \in Nat, Len(received[p]) < Asked(p),
           \A i \in 1 .. Len(received[p]) : units[i] = received[p][i],
           Decrypts(p)
    PROVE  Right(p, [frame |-> FrameOf(p, units), from |-> remote[p].pos])
<1> DEFINE q == Other(p)
           m == units[1][1]
<1> SUFFICES ASSUME FrameOf(p, units) # 0
             PROVE  /\ FrameOf(p, units) \in 1 .. Len(frames[q])
                    /\ frames[q][FrameOf(p, units)].sealed
                    /\ remote[p].pos = frames[q][FrameOf(p, units)].from
  BY DEF Right
<1>1. /\ FrameOf(p, units) = m
      /\ Intact(m, units)
      /\ Len(units) = HeaderSize + frames[q][m].size
  BY DEF FrameOf
<1>2. m \in 1 .. Len(frames[q])
  BY FirstUnit
<1> HIDE DEF m
<1>3. /\ HeaderSize <= Len(received[p])
      /\ HeaderOf(p, m) => remote[p].pos = frames[q][m].head
  BY <1>2 DEF DecryptInv, HeaderRead
<1>4. HeaderOf(p, m)
  <2>1. \A i \in 1 .. Len(units) : units[i] = <<m, i>>
    BY <1>1 DEF Intact
  <2>2. \A i \in 1 .. HeaderSize : i \in 1 .. Len(units) /\ i \in 1 .. Len(received[p])
    BY <1>3
  <2>3. QED BY <2>1, <2>2 DEF HeaderOf
<1>5. /\ frames[q][m].size \in Nat \ {0}
      /\ frames[q][m].head = frames[q][m].from
      /\ frames[q][m].sealed <=> frames[q][m].from + frames[q][m].size <= PadSize
  BY <1>2, OtherPeer DEF DecryptInv, Sealing
<1>6. ContentSize(p) = frames[q][m].size
  BY <1>1, <1>5 DEF ContentSize
<1>7. remote[p] \in KeyType /\ remote[p].size = PadSize
  BY DEF TypeInv, Types, DecryptInv, Pads
<1>8. remote[p].pos + frames[q][m].size <= PadSize
  BY <1>5, <1>6, <1>7, EncryptNeeds DEF Decrypts
<1>9. QED BY <1>1, <1>2, <1>3, <1>4, <1>5, <1>8

\* Reading the rest of a frame.
LEMMA ReadContentDecrypt ==
    ASSUME TypeInv, DecryptInv, NEW p \in Peers,
           NEW units \in Seq(UnitOf(Other(p))), ReadContent(p, units),
           HeaderSize \in Nat \ {0}, Asked(p) \in Nat, Asked(p) >= HeaderSize,
           receiving[p] \in Nat,
           receiving[p] # 0 => Asked(p) = receiving[p],
           receiving[p] = 0 => Asked(p) = HeaderSize,
           Len(received[p]) \in Nat, Len(received[p]) < Asked(p),
           \A i \in 1 .. Len(received[p]) : units[i] = received[p][i],
           UNCHANGED <<frames, local>>
    PROVE  DecryptInv'
<1> DEFINE entry == [frame |-> FrameOf(p, units), from |-> remote[p].pos]
<1>1. /\ Len(units) = Asked(p) /\ Asked(p) # HeaderSize
      /\ remote' = [remote EXCEPT ![p] = KeyGetBlock(@, ContentSize(p))]
      /\ \/ /\ Decrypts(p)
            /\ receiving' = [receiving EXCEPT ![p] = 0]
            /\ received' = [received EXCEPT ![p] = <<>>]
            /\ shown' = [shown EXCEPT ![p] = Append(@, entry)]
         \/ /\ received' = [received EXCEPT ![p] = units]
            /\ UNCHANGED <<receiving, shown>>
  BY DEF ReadContent
<1>2. Asked(p) = receiving[p] /\ HeaderSize < receiving[p]
  BY <1>1
<1>3. Decrypts(p) => Right(p, entry)
  BY <1>1, <1>2, WholeFrame
<1>4. entry.frame \in Nat /\ entry \in Shown
  <2>1. FrameOf(p, units) \in Nat
    BY <1>1, FirstUnit
  <2>2. remote[p].pos \in Int
    BY DEF TypeInv, Types, KeyType
  <2>3. QED BY <2>1, <2>2 DEF Shown
<1> HIDE DEF entry
<1>5. /\ remote \in [Peers -> KeyType] /\ receiving \in [Peers -> Nat]
      /\ shown \in [Peers -> Seq(Shown)]
      /\ received = [s \in Peers |-> received[s]]
  BY DEF TypeInv, Types, Streams
<1>6. ContentSize(p) \in Nat
  BY <1>1 DEF ContentSize
<1>7. Pads'
  <2>1. KeyGetBlock(remote[p], ContentSize(p)).size = remote[p].size
    BY <1>5, <1>6, KeyGetBlockMoves
  <2>2. \A r \in Peers : remote'[r].size = remote[r].size
    BY <1>1, <1>5, <2>1
  <2>3. QED BY <2>2 DEF DecryptInv, Pads
<1>8. Sealing'
  BY DEF DecryptInv, Sealing
<1>9. AllRight'
  <2> SUFFICES ASSUME NEW r \in Peers, NEW i \in 1 .. Len(shown'[r])
               PROVE  Right(r, shown'[r][i])
    BY DEF AllRight, Right
  <2>1. \A j \in 1 .. Len(shown[r]) : Right(r, shown[r][j])
    BY DEF DecryptInv, AllRight
  <2>2. CASE shown'[r] = shown[r]
    BY <2>1, <2>2
  <2>3. CASE r = p /\ Decrypts(p) /\ shown'[r] = Append(shown[r], entry)
    <3>1. /\ Len(shown'[r]) = Len(shown[r]) + 1 /\ Len(shown[r]) \in Nat
          /\ \A j \in 1 .. Len(shown[r]) : shown'[r][j] = shown[r][j]
          /\ shown'[r][Len(shown[r]) + 1] = entry
      BY <1>4, <1>5, <2>3, AppendProperties, LenProperties
    <3>2. i \in 1 .. Len(shown[r]) \/ i = Len(shown[r]) + 1
      BY <3>1
    <3>3. QED BY <1>3, <2>1, <2>3, <3>1, <3>2
  <2>4. QED BY <1>1, <1>5, <2>2, <2>3
<1>10. HeaderRead'
  <2> SUFFICES ASSUME NEW r \in Peers,
                      HeaderSize < receiving'[r], Len(received'[r]) < receiving'[r]
               PROVE  /\ HeaderSize <= Len(received'[r])
                      /\ \A m \in 1 .. Len(frames[Other(r)]) :
                            HeaderOf(r, m)' => remote'[r].pos = frames[Other(r)][m].head
    BY DEF HeaderRead
  <2>1. r # p
    <3>1. CASE receiving' = [receiving EXCEPT ![p] = 0]
      BY <1>5, <3>1
    <3>2. CASE received' = [received EXCEPT ![p] = units] /\ receiving' = receiving
      <4>1. received'[p] = units
        BY <1>5, <3>2
      <4>2. ~(Len(units) < receiving[p])
        BY <1>1, <1>2
      <4>3. QED BY <3>2, <4>1, <4>2
    <3>3. QED BY <1>1, <3>1, <3>2
  <2>2. receiving'[r] = receiving[r] /\ received'[r] = received[r] /\ remote'[r] = remote[r]
    BY <1>1, <1>5, <2>1
  <2>3. \A m : HeaderOf(r, m)' <=> HeaderOf(r, m)
    BY <2>2 DEF HeaderOf
  <2>4. QED BY <2>2, <2>3 DEF DecryptInv, HeaderRead
<1>11. QED BY <1>7, <1>8, <1>9, <1>10 DEF DecryptInv

LEMMA ReadSomeDecrypt ==
    ASSUME TypeInv, DecryptInv, NEW p \in Peers, NEW n \in 1 .. Room, ReadSome(p, n)
    PROVE  DecryptInv'
<1>1. PICK units \in Seq(UnitOf(Other(p))) :
        /\ Len(units) \in Nat /\ Len(units) > Len(received[p])
        /\ \A i \in 1 .. Len(received[p]) : units[i] = received[p][i]
        /\ ReadMore(p, units) \/ ReadHeader(p, units) \/ ReadContent(p, units)
  BY ReadFacts
<1>2. /\ HeaderSize \in Nat \ {0}
      /\ Asked(p) \in Nat /\ Asked(p) >= HeaderSize
      /\ receiving[p] \in Nat
      /\ receiving[p] # 0 => Asked(p) = receiving[p]
      /\ receiving[p] = 0 => Asked(p) = HeaderSize
      /\ Len(received[p]) \in Nat /\ Len(received[p]) < Asked(p)
      /\ UNCHANGED <<frames, local>>
  BY ReadFacts
<1>3. CASE ReadMore(p, units)
  BY <1>1, <1>2, <1>3, ReadMoreDecrypt
<1>4. CASE ReadHeader(p, units)
  BY <1>1, <1>2, <1>4, ReadHeaderDecrypt
<1>5. CASE ReadContent(p, units)
  BY <1>1, <1>2, <1>5, ReadContentDecrypt
<1>6. QED BY <1>1, <1>3, <1>4, <1>5

LEMMA DecryptStep == TypeInv /\ DecryptInv /\ [Next]_vars => DecryptInv'
<1> SUFFICES ASSUME TypeInv, DecryptInv, [Next]_vars PROVE DecryptInv'
  OBVIOUS
<1> DEFINE Kept == /\ UNCHANGED <<frames, local, remote, shown, received>>
                   /\ \A r \in Peers : \/ receiving'[r] = receiving[r]
                                        \/ receiving'[r] = HeaderSize
<1>1. CASE Establish
  BY <1>1, DecryptKept DEF Establish, outgoing, incoming
<1>2. ASSUME NEW p \in Peers, SelectSome(p) PROVE DecryptInv'
  BY <1>2, DecryptKept DEF SelectSome, Select, outgoing, incoming
<1>3. ASSUME NEW p \in Peers, Read(p) PROVE DecryptInv'
  <2>1. CASE ReadFails(p)
    <3>1. Asked(p) = receiving[p] \/ Asked(p) = HeaderSize
      BY DEF Asked
    <3>2. Kept
      BY <2>1, <3>1 DEF ReadFails, outgoing, TypeInv, Types
    <3>3. QED BY <3>2, DecryptKept
  <2>2. QED BY <1>3, <2>1, ReadSomeDecrypt DEF Read
<1>4. ASSUME NEW p \in Peers, Write(p) PROVE DecryptInv'
  BY <1>4, DecryptKept DEF Write, WriteSkipped, WriteSome, WriteFails, outgoing, incoming
<1>5. ASSUME NEW p \in Peers, Stdin(p) PROVE DecryptInv'
  <2>1. CASE Disconnect(p) \/ OtherKey(p)
    BY <2>1, DecryptKept DEF Disconnect, OtherKey, outgoing, incoming
  <2>2. QED BY <1>5, <2>1, EnterDecrypt DEF Stdin
<1>6. ASSUME NEW p \in Peers, Check(p) PROVE DecryptInv'
  BY <1>6, DecryptKept DEF Check, CheckFails, CheckPasses, outgoing, incoming
<1>7. ASSUME NEW p \in Peers, Exit(p) PROVE DecryptInv'
  BY <1>7, DecryptKept DEF Exit, outgoing, incoming
<1>8. CASE UNCHANGED vars
  BY <1>8, DecryptKept DEF vars, outgoing, incoming
<1>9. QED
  BY <1>1, <1>2, <1>3, <1>4, <1>5, <1>6, <1>7, <1>8 DEF Next, Handle

LEMMA DecryptInvGives == TypeInv /\ DecryptInv => WholeFramesDecrypt
<1> SUFFICES ASSUME TypeInv, DecryptInv, NEW p \in Peers, NEW i \in DOMAIN shown[p],
                    shown[p][i].frame # 0
             PROVE  TextOf(p, shown[p][i]) # 0
  BY DEF WholeFramesDecrypt
<1>1. shown[p] \in Seq(Shown)
  BY DEF TypeInv, Types
<1>2. i \in 1 .. Len(shown[p])
  BY <1>1, LenProperties
<1>3. Right(p, shown[p][i])
  BY <1>2 DEF DecryptInv, AllRight
<1>4. QED BY <1>3 DEF Right, TextOf

\* A frame that arrives whole is decrypted with the bytes that encrypted it,
\* whatever either pad has lost before.
THEOREM WholeFramesAlwaysDecrypt == Spec => []WholeFramesDecrypt
<1>1. Spec => [](TypeInv /\ DecryptInv)
  BY InitType, TypeStep, DecryptInit, DecryptStep, PTL DEF Spec
<1>2. QED BY <1>1, DecryptInvGives, PTL
=============================================================================
