---------------------------- MODULE HeadsProofs ----------------------------
(***************************************************************************)
(* When both ends of a connection agree on the pad: a theorem about Chat,  *)
(* on top of the unbroken flow of ChannelProofs.  A text that is lost, cut *)
(* short or too long for what is left of the pad takes its bytes from the  *)
(* sender's pad only; the receiver learns of it from the next header, and  *)
(* until then the heads differ.  Calm is when that does not happen.        *)
(***************************************************************************)
EXTENDS ChannelProofs

\* Nobody types over a text, leaves or quits, and no pad ends before its texts.
Calm ==
    /\ Patient /\ Leavers = {} /\ Quitters = {}
    /\ \E b \in Nat : (\A size \in TextSizes : size <= b) /\ MaxTexts * b <= PadSize

Biggest ==
    CHOOSE b \in Nat : (\A size \in TextSizes : size <= b) /\ MaxTexts * b <= PadSize

\* The place in q's pad where the frame after frame k begins.
HeadAfter(q, k) == IF k < Len(frames[q]) THEN frames[q][k + 1].head ELSE local[q].head

\* No connection ends.
Connected(p) ==
    /\ ~rst[p] /\ sock[p] = sock[Other(p)]
    /\ state[p] = "CONNECTED" \/ "read" \in todo[p] => sock[p]

\* The frames follow each other in the pad, and it is not used up by them.
Written(p) ==
    /\ \A m \in 1 .. Len(frames[p]) :
          frames[p][m].sealed /\ HeadAfter(p, m) = frames[p][m].head + frames[p][m].size
    /\ local[p].head <= Len(frames[p]) * Biggest

\* The receiver's copy of the pad is where the frame being received begins,
\* before and after its header says so.
InStep(p) ==
    /\ Unbroken(p) /\ Len(received[p]) < Asked(p)
    /\ receiving[p] = 0 => received[p] = <<>>
    /\ remote[p].pos = remote[p].head
    /\ remote[p].head = IF Len(received[p]) < HeaderSize
                        THEN HeadAfter(Other(p), Len(shown[p]))
                        ELSE frames[Other(p)][Len(shown[p]) + 1].head

CalmInv == \A p \in Peers : Connected(p) /\ Written(p) /\ InStep(p)

LEMMA BiggestFacts ==
    ASSUME Calm
    PROVE  /\ Biggest \in Nat /\ MaxTexts * Biggest <= PadSize
           /\ \A size \in TextSizes : size <= Biggest
BY DEF Calm, Biggest

LEMMA RoomInPad ==
    ASSUME NEW l \in Nat, NEW m \in Nat, NEW b \in Nat, l < m
    PROVE  /\ l * b \in Nat /\ m * b \in Nat
           /\ (l + 1) * b = l * b + b /\ l * b + b <= m * b
<1>1. PICK k \in Nat : m = (l + 1) + k
  <2>1. m - (l + 1) \in Nat /\ m = (l + 1) + (m - (l + 1))
    OBVIOUS
  <2> QED BY <2>1
<1>2. l * b \in Nat /\ k * b \in Nat /\ m * b \in Nat
  OBVIOUS
<1>3. (l + 1) * b = l * b + b
  OBVIOUS
<1>4. m * b = (l + 1) * b + k * b
  BY <1>1
<1> QED BY <1>2, <1>3, <1>4

----------------------------------------------------------------------------
LEMMA CalmInit ==
    ASSUME Calm, Init PROVE CalmInv
<1> SUFFICES ASSUME NEW p \in Peers PROVE Connected(p) /\ Written(p) /\ InStep(p)
  BY DEF CalmInv
<1> DEFINE q == Other(p)
<1>0. q \in Peers
  BY OtherPeer
<1>1. /\ frames[p] = <<>> /\ frames[q] = <<>> /\ sending[q] = 0
      /\ received[p] = <<>> /\ wire[q] = <<>> /\ shown[p] = <<>> /\ receiving[p] = 0
      /\ local[p] = NewPad /\ local[q] = NewPad /\ remote[p] = NewPad
      /\ ~sock[p] /\ ~sock[q]
  BY <1>0 DEF Init
<1>2. NewPad.head = 0 /\ NewPad.pos = 0
  BY NewPadIs
<1>3. Len(<<>>) = 0 /\ HeaderSize \in Nat \ {0}
  BY SizesAssumption
<1>4. Connected(p)
  BY <1>0 DEF Init, Connected
<1>5. Written(p)
  <2>1. 0 <= 0 * Biggest
    BY BiggestFacts
  <2> QED BY <1>1, <1>2, <1>3, <2>1 DEF Written
<1>6. InStep(p)
  <2>1. Unbroken(p)
    BY <1>1, <1>2, <1>3 DEF Unbroken, Chained, Sized, Flow, Nth, NextUnit, Linked
  <2>2. Len(received[p]) < Asked(p)
    BY <1>1, <1>3 DEF Asked
  <2>3. HeadAfter(q, Len(shown[p])) = 0
    BY <1>1, <1>2, <1>3 DEF HeadAfter
  <2> QED BY <1>1, <1>2, <1>3, <2>1, <2>2, <2>3 DEF InStep
<1> QED BY <1>4, <1>5, <1>6

----------------------------------------------------------------------------
\* What keeps the three parts of the invariant.
LEMMA ConnectedKept ==
    ASSUME NEW p \in Peers, Connected(p), UNCHANGED <<sock, rst, state>>,
           "read" \in todo'[p] => "read" \in todo[p] \/ state[p] = "CONNECTED"
    PROVE  Connected(p)'
BY DEF Connected

LEMMA WrittenKept ==
    ASSUME NEW p \in Peers, Written(p), frames'[p] = frames[p], local'[p] = local[p]
    PROVE  Written(p)'
BY DEF Written, HeadAfter

\* What is shown has been made.
LEMMA ShownExist ==
    ASSUME TypeInv, NEW p \in Peers, Chained(p)
    PROVE  Len(shown[p]) \in Nat /\ Len(shown[p]) <= Len(frames[Other(p)])
<1> DEFINE q == Other(p)
           k == Len(shown[p])
           f == Flow(p)
<1>1. k \in Nat
  BY LenProperties DEF TypeInv, Types
<1>2. /\ Len(frames[q]) \in Nat /\ sending[q] \in Nat /\ sending[q] <= Len(frames[q])
  BY OtherPeer, FrameSizes
<1>3. Nth(f, NextUnit(q), 1) = <<k + 1, 1>>
  BY DEF Chained
<1>4. Len(f) \in Nat /\ \A i \in 1 .. Len(f) : f[i] \in UnitOf(q)
  BY FlowFacts
<1> HIDE DEF f
<1>5. CASE Len(f) = 0
  <2>1. NextUnit(q) = <<k + 1, 1>>
    BY <1>3, <1>5 DEF Nth
  <2>2. NextUnit(q)[1] = k + 1
    BY <2>1
  <2>3. NextUnit(q)[1] = IF sending[q] = 0 THEN Len(frames[q]) + 1 ELSE sending[q]
    BY DEF NextUnit
  <2> QED BY <1>1, <1>2, <2>2, <2>3
<1>6. CASE Len(f) # 0
  <2>1. f[1] = <<k + 1, 1>> /\ f[1] \in UnitOf(q)
    BY <1>3, <1>4, <1>6 DEF Nth
  <2>2. k + 1 \in 1 .. Len(frames[q])
    BY <2>1 DEF UnitOf
  <2> QED BY <1>1, <1>2, <2>2
<1> QED BY <1>5, <1>6

\* The other side may go on with its frames.
LEMMA InStepKept ==
    ASSUME TypeInv, NEW p \in Peers, NEW q, q = Other(p), InStep(p), Chained(p)',
           received'[p] = received[p], receiving'[p] = receiving[p],
           shown'[p] = shown[p], remote'[p] = remote[p],
           \A m \in 1 .. Len(frames[q]) : frames'[q][m] = frames[q][m],
           \A k \in 0 .. Len(frames[q]) : HeadAfter(q, k)' = HeadAfter(q, k)
    PROVE  InStep(p)'
<1> DEFINE k == Len(shown[p])
<1>1. Chained(p) /\ Unbroken(p)
  BY DEF InStep, Unbroken
<1>2. k \in 0 .. Len(frames[q])
  BY <1>1, ShownExist, OtherPeer, FrameSizes
<1>3. SameBuffer(p)
  BY DEF SameBuffer
<1>4. Sized(p)'
  BY <1>1, <1>3, SizedKept
<1>5. Len(received'[p]) < Asked(p)'
  BY DEF InStep, Asked
<1>6. remote'[p].head = IF Len(received'[p]) < HeaderSize THEN HeadAfter(q, Len(shown[p]))'
                        ELSE frames'[q][Len(shown'[p]) + 1].head
  <2>1. HeadAfter(q, Len(shown[p]))' = HeadAfter(q, k)
    <3>1. HeadAfter(q, k)' = HeadAfter(q, k)
      BY <1>2
    <3> QED BY <3>1 DEF HeadAfter
  <2>2. CASE Len(received[p]) < HeaderSize
    BY <2>1, <2>2 DEF InStep
  <2>3. CASE ~(Len(received[p]) < HeaderSize)
    <3>1. Len(received[p]) > 0
      BY <2>3, AskedFacts
    <3>2. k + 1 \in 1 .. Len(frames[q])
      BY <1>1, <3>1, FirstExists
    <3>3. frames'[q][k + 1] = frames[q][k + 1]
      BY <3>2
    <3> QED BY <2>3, <3>3 DEF InStep
  <2> QED BY <2>2, <2>3
<1> QED BY <1>4, <1>5, <1>6 DEF InStep, Unbroken

----------------------------------------------------------------------------
\* The steps that end a connection are not taken.
LEMMA NothingFails ==
    ASSUME TypeInv, Calm, CalmInv, NEW r \in Peers
    PROVE  ~ReadFails(r) /\ ~WriteFails(r) /\ ~CheckFails(r) /\ ~Disconnect(r) /\ ~Exit(r)
<1>1. Connected(r) /\ InStep(r)
  BY DEF CalmInv
<1>2. ~ReadFails(r)
  <2>1. Space(r) # 0
    <3>1. Len(received[r]) < Asked(r)
      BY <1>1 DEF InStep
    <3> QED BY <3>1, AskedFacts
  <2>2. "read" \in todo[r] => sock[r] /\ sock[Other(r)]
    BY <1>1 DEF Connected
  <2> QED BY <1>1, <2>1, <2>2 DEF ReadFails, Turn, Connected
<1>3. ~WriteFails(r)
  BY <1>1 DEF WriteFails, Connected
<1>4. ~CheckFails(r)
  BY <1>1 DEF CheckFails, Connected, NodeError
<1>5. ~Disconnect(r) /\ ~Exit(r)
  BY DEF Calm, Disconnect, Exit
<1> QED BY <1>2, <1>3, <1>4, <1>5

\* Waiting, and the handlers that find nothing to do.
LEMMA QuietCalm ==
    ASSUME TypeInv, CalmInv, UNCHANGED <<conn, wire, outgoing, incoming>>,
           \A s \in Peers :
               "read" \in todo'[s] => "read" \in todo[s] \/ state[s] = "CONNECTED",
           NEW p \in Peers
    PROVE  Connected(p)' /\ Written(p)' /\ InStep(p)'
<1> DEFINE q == Other(p)
<1>0. Connected(p) /\ Written(p) /\ InStep(p)
  BY DEF CalmInv
<1>1. /\ UNCHANGED <<frames, sending, sent, local, receiving, received, shown, remote>>
      /\ UNCHANGED <<sock, rst, state>>
  BY DEF conn, outgoing, incoming
<1>2. Connected(p)'
  BY <1>0, <1>1, ConnectedKept
<1>3. Written(p)'
  BY <1>0, <1>1, WrittenKept
<1>4. Chained(p)'
  <2>1. Stays(p)
    BY <1>1, KeptBefalls
  <2> QED BY <1>0, <2>1, ChainStays DEF InStep, Unbroken
<1>5. \A k : HeadAfter(q, k)' = HeadAfter(q, k)
  BY <1>1 DEF HeadAfter
<1>6. InStep(p)'
  BY <1>0, <1>1, <1>4, <1>5, InStepKept
<1> QED BY <1>2, <1>3, <1>6

LEMMA EstablishCalm ==
    ASSUME TypeInv, CalmInv, Establish, NEW p \in Peers
    PROVE  Connected(p)' /\ Written(p)' /\ InStep(p)'
<1> DEFINE q == Other(p)
<1>0. Written(p) /\ InStep(p) /\ q \in Peers
  BY OtherPeer DEF CalmInv
<1>1. /\ UNCHANGED <<frames, sending, sent, local, receiving, received, shown, remote, wire>>
      /\ sock'[p] = TRUE /\ sock'[q] = TRUE /\ rst'[p] = FALSE
  BY <1>0 DEF Establish, outgoing, incoming
<1>2. Connected(p)'
  BY <1>1 DEF Connected
<1>3. Written(p)'
  BY <1>0, <1>1, WrittenKept
<1>4. Chained(p)'
  <2>1. Stays(p)
    BY <1>1, KeptBefalls
  <2> QED BY <1>0, <2>1, ChainStays DEF InStep, Unbroken
<1>5. \A k : HeadAfter(q, k)' = HeadAfter(q, k)
  BY <1>1 DEF HeadAfter
<1>6. InStep(p)'
  BY <1>0, <1>1, <1>4, <1>5, InStepKept
<1> QED BY <1>2, <1>3, <1>6

LEMMA WriteCalm ==
    ASSUME TypeInv, OrderInv, CalmInv, NEW r \in Peers, NEW n \in 1 .. Room, WriteSome(r, n),
           NEW p \in Peers
    PROVE  Connected(p)' /\ Written(p)' /\ InStep(p)'
<1> DEFINE q == Other(p)
<1>0. /\ Connected(p) /\ Written(p) /\ InStep(p) /\ InOrder(p) /\ Connected(r)
      /\ q \in Peers /\ (p = r \/ p = Other(r)) /\ n \in Nat \ {0}
  BY OtherPeer, SizesAssumption DEF CalmInv, OrderInv
<1>1. /\ sock[r] /\ UNCHANGED <<state, sock, frames, local, receiving, received, shown, remote>>
      /\ sock[Other(r)] => rst' = rst /\ wire' = [wire EXCEPT ![r] = @ \o Units(r, n)]
      /\ todo' = [todo EXCEPT ![r] = @ \ {"write"}]
      /\ sending' = [sending EXCEPT ![r] = LeftToSend(r, n)]
      /\ sent' = [sent EXCEPT ![r] = IF @ + n = FrameSize(r) THEN 0 ELSE @ + n]
  BY DEF WriteSome, incoming, Done, Units
<1>2. sock[Other(r)] /\ rst' = rst
  BY <1>0, <1>1 DEF Connected
<1>3. "read" \in todo'[p] => "read" \in todo[p]
  BY <1>1 DEF TypeInv, Types
<1>4. Connected(p)'
  BY <1>0, <1>1, <1>2, <1>3, ConnectedKept
<1>5. Written(p)'
  BY <1>0, <1>1, WrittenKept
<1>6. Chained(p)'
  <2>1. CASE p = Other(r)
    <3>1. Gets(p, n)
      BY <1>2, <2>1, WriteSomeBefalls
    <3> QED BY <1>0, <3>1, ChainGets DEF InStep, Unbroken
  <2>2. CASE p = r
    <3>1. q # r
      BY <2>2, OtherPeer
    <3>2. wire'[q] = wire[q] /\ sending'[q] = sending[q] /\ sent'[q] = sent[q]
      BY <1>0, <1>1, <1>2, <3>1 DEF TypeInv, Types, Streams
    <3>3. Stays(p)
      BY <1>1, <3>2, KeptBefalls
    <3> QED BY <1>0, <3>3, ChainStays DEF InStep, Unbroken
  <2> QED BY <1>0, <2>1, <2>2
<1>7. \A k : HeadAfter(q, k)' = HeadAfter(q, k)
  BY <1>1 DEF HeadAfter
<1>8. InStep(p)'
  BY <1>0, <1>1, <1>6, <1>7, InStepKept
<1> QED BY <1>4, <1>5, <1>8

\* A text that is typed gets the place in the pad behind the last one, and there
\* is enough of the pad for it.
LEMMA EnterWrites ==
    ASSUME TypeInv, DecryptInv, Calm, NEW r \in Peers, Written(r), NEW size \in TextSizes,
           Enter(r, size)
    PROVE  /\ Written(r)'
           /\ \A k \in 0 .. Len(frames[r]) : HeadAfter(r, k)' = HeadAfter(r, k)
<1> DEFINE n == Len(frames[r])
           pad == local[r]
<1>1. /\ Len(frames'[r]) = n + 1
      /\ \A m \in 1 .. n : frames'[r][m] = frames[r][m]
      /\ frames'[r][n + 1] = [size |-> size, head |-> pad.head, from |-> pad.pos,
                              sealed |-> EncryptSucceeds(pad, size)]
  BY EnterFrames
<1>2. n < MaxTexts /\ local' = [local EXCEPT ![r] = KeyGetBlock(@, size)]
  BY DEF Enter
<1>3. /\ n \in Nat /\ MaxTexts \in Nat /\ size \in Nat \ {0} /\ size <= Biggest
      /\ Biggest \in Nat /\ MaxTexts * Biggest <= PadSize /\ PadSize \in Nat
  BY FrameSizes, BiggestFacts, SizesAssumption, BoundsAssumption DEF Sizes
<1>4. /\ pad \in KeyType /\ pad.size = PadSize /\ pad.head = pad.pos
      /\ pad.head \in Nat /\ pad.head <= pad.size
  BY DEF TypeInv, Types, DecryptInv, Pads, KeyType, Heads
<1>5. pad.head <= n * Biggest
  BY DEF Written
<1>6. local'[r] = KeyGetBlock(pad, size)
  BY <1>2 DEF TypeInv, Types
<1>7. \A m \in 1 .. n :
        frames[r][m].sealed /\ HeadAfter(r, m) = frames[r][m].head + frames[r][m].size
  BY DEF Written
<1>8. \A k : HeadAfter(r, k)' =
         IF k < Len(frames'[r]) THEN frames'[r][k + 1].head ELSE local'[r].head
  BY DEF HeadAfter
<1>9. \A k : HeadAfter(r, k) = IF k < n THEN frames[r][k + 1].head ELSE pad.head
  BY DEF HeadAfter
<1> HIDE DEF n, pad
<1>10. /\ n * Biggest \in Nat /\ (n + 1) * Biggest = n * Biggest + Biggest
       /\ n * Biggest + Biggest <= MaxTexts * Biggest /\ MaxTexts * Biggest \in Nat
  BY <1>2, <1>3, RoomInPad
<1>11. pad.head + size <= (n + 1) * Biggest /\ pad.head + size <= PadSize
  <2> DEFINE x == n * Biggest
             y == MaxTexts * Biggest
             z == (n + 1) * Biggest
  <2>1. /\ x \in Nat /\ z = x + Biggest /\ x + Biggest <= y /\ y <= PadSize
        /\ y \in Nat /\ pad.head <= x
    BY <1>3, <1>5, <1>10
  <2> HIDE DEF x, y, z
  <2>2. pad.head + size <= z /\ pad.head + size <= PadSize
    BY <1>3, <1>4, <2>1
  <2> QED BY <2>2 DEF z
<1>12. EncryptSucceeds(pad, size)
  BY <1>3, <1>4, <1>11, EncryptNeeds
<1>13. local'[r].head = pad.head + size
  <2>1. BytesRead(pad, size) = size
    BY <1>12 DEF EncryptSucceeds
  <2>2. pad \in KeyType /\ size \in Nat
    BY <1>3, <1>4
  <2>3. KeyGetBlock(pad, size).head = pad.head + BytesRead(pad, size)
    BY <1>4, <2>2, KeyGetBlockMoves
  <2> QED BY <1>6, <2>1, <2>3
<1>14. ASSUME NEW k \in 0 .. n PROVE HeadAfter(r, k)' = HeadAfter(r, k)
  <2>1. CASE k < n
    <3>1. k + 1 \in 1 .. n /\ k < n + 1
      BY <1>3, <2>1
    <3> QED BY <1>1, <1>8, <1>9, <2>1, <3>1
  <2>2. CASE k = n
    BY <1>1, <1>3, <1>8, <1>9, <2>2
  <2> QED BY <1>3, <2>1, <2>2
<1>15. ASSUME NEW m \in 1 .. n + 1
       PROVE  /\ frames'[r][m].sealed
              /\ HeadAfter(r, m)' = frames'[r][m].head + frames'[r][m].size
  <2>1. CASE m \in 1 .. n
    <3>1. m \in 0 .. n
      BY <1>3, <2>1
    <3> QED BY <1>1, <1>7, <1>14, <2>1, <3>1
  <2>2. CASE m = n + 1
    <3>1. HeadAfter(r, m)' = pad.head + size
      BY <1>1, <1>3, <1>8, <1>13, <2>2
    <3> QED BY <1>1, <1>12, <2>2, <3>1
  <2> QED BY <1>3, <2>1, <2>2
<1>16. Written(r)'
  BY <1>1, <1>11, <1>13, <1>15 DEF Written
<1> QED BY <1>14, <1>16 DEF n

LEMMA EnterCalm ==
    ASSUME TypeInv, DecryptInv, Calm, CalmInv, NEW r \in Peers, NEW size \in TextSizes,
           Enter(r, size), NEW p \in Peers
    PROVE  Connected(p)' /\ Written(p)' /\ InStep(p)'
<1> DEFINE q == Other(p)
<1>0. /\ Connected(p) /\ Written(p) /\ InStep(p) /\ Written(r)
      /\ q \in Peers /\ q # p /\ (p = r \/ p = Other(r)) /\ (p = Other(r) => q = r)
  BY OtherPeer DEF CalmInv
<1>1. /\ UNCHANGED <<state, sock, rst, wire, receiving, received, shown, remote>>
      /\ sending[r] = 0
      /\ todo' = [todo EXCEPT ![r] = @ \ {"stdin"}]
      /\ sending' = [sending EXCEPT ![r] = Len(frames[r]) + 1]
      /\ sent' = [sent EXCEPT ![r] = 0]
      /\ local' = [local EXCEPT ![r] = KeyGetBlock(@, size)]
  BY DEF Enter, Calm, conn, incoming, Done
<1>2. /\ \A s \in Peers : s # r => frames'[s] = frames[s]
      /\ \A m \in 1 .. Len(frames[r]) : frames'[r][m] = frames[r][m]
  BY EnterFrames
<1>3. /\ Written(r)'
      /\ \A k \in 0 .. Len(frames[r]) : HeadAfter(r, k)' = HeadAfter(r, k)
  BY <1>0, EnterWrites
<1>4. \A s \in Peers : s # r =>
        local'[s] = local[s] /\ sending'[s] = sending[s] /\ sent'[s] = sent[s]
  BY <1>1 DEF TypeInv, Types
<1>5. "read" \in todo'[p] => "read" \in todo[p]
  BY <1>1 DEF TypeInv, Types
<1>6. Connected(p)'
  BY <1>0, <1>1, <1>5, ConnectedKept
<1>7. Written(p)'
  <2>1. CASE p # r
    BY <1>0, <1>2, <1>4, <2>1, WrittenKept
  <2> QED BY <1>3, <2>1
<1>8. Chained(p)'
  <2>1. CASE p = Other(r)
    <3>1. Awaits(p)
      BY <2>1, EnterBefalls
    <3> QED BY <1>0, <1>1, <2>1, <3>1, ChainAwaits DEF InStep, Unbroken
  <2>2. CASE p = r
    <3>1. Stays(p)
      BY <1>0, <1>1, <1>2, <1>4, <2>2, KeptBefalls
    <3> QED BY <1>0, <3>1, ChainStays DEF InStep, Unbroken
  <2> QED BY <1>0, <2>1, <2>2
<1>9. /\ \A m \in 1 .. Len(frames[q]) : frames'[q][m] = frames[q][m]
      /\ \A k \in 0 .. Len(frames[q]) : HeadAfter(q, k)' = HeadAfter(q, k)
  <2>1. CASE q = r
    BY <1>2, <1>3, <2>1
  <2>2. CASE q # r
    BY <1>0, <1>2, <1>4, <2>2 DEF HeadAfter
  <2> QED BY <2>1, <2>2
<1>10. InStep(p)'
  BY <1>0, <1>1, <1>8, <1>9, InStepKept
<1> QED BY <1>6, <1>7, <1>10

\* The reader's pad follows the headers and the texts.
LEMMA ReadsInStep ==
    ASSUME TypeInv, DecryptInv, CalmInv, NEW r \in Peers, NEW units, NEW rest,
           Reads(r, units, rest)
    PROVE  InStep(r)'
<1> DEFINE q == Other(r)
           k == Len(shown[r])
           m == Len(shown[r]) + 1
           size == FrameSizeOf(q, m)
           frame == frames[q][m]
<1>0. q \in Peers /\ InStep(r) /\ Unbroken(r) /\ Written(q)
  BY OtherPeer DEF CalmInv, InStep
<1>1. /\ m \in 1 .. Len(frames[q]) /\ Len(frames[q]) \in Nat
      /\ units[1][1] = m /\ (Len(units) <= size => Intact(m, units))
      /\ size \in Nat /\ HeaderSize < size /\ HeaderSize \in Nat \ {0}
      /\ \/ Len(received[r]) < HeaderSize /\ Asked(r) = HeaderSize
         \/ HeaderSize <= Len(received[r]) /\ Asked(r) = size /\ receiving[r] = size
  BY <1>0, ReadsFrame
<1>2. /\ Len(received[r]) < Len(units) /\ Len(units) \in Nat /\ Len(units) <= Asked(r)
      /\ ReadMore(r, units) \/ ReadHeader(r, units) \/ ReadContent(r, units)
      /\ UNCHANGED <<frames, local>>
  BY DEF Reads, outgoing
<1>3. /\ received = [s \in Peers |-> received[s]] /\ remote \in [Peers -> KeyType]
      /\ receiving \in [Peers -> Nat] /\ shown \in [Peers -> Seq(Shown)]
      /\ Len(received[r]) \in Nat /\ Asked(r) \in Nat \ {0}
  BY AskedFacts DEF TypeInv, Types, Streams
<1>4. k \in Nat
  BY <1>3, LenProperties
<1>5. Unbroken(r)' \/ Space(r)' = 0
  BY <1>0, ReadsFlows
<1>6. Len(<<>>) = 0
  OBVIOUS
<1>7. /\ frame.sealed /\ HeadAfter(q, m) = frame.head + frame.size
      /\ frame.size \in Nat \ {0} /\ frame.head = frame.from
      /\ frame.from + frame.size <= PadSize /\ frame.from \in Nat
      /\ frame.head \in Heads /\ frame.head <= PadSize /\ PadSize \in Nat
  <2>1. frame.sealed /\ HeadAfter(q, m) = frame.head + frame.size
    BY <1>0, <1>1 DEF Written
  <2>2. /\ frame.size \in Nat \ {0} /\ frame.head = frame.from
        /\ frame.head <= PadSize
        /\ frame.sealed <=> frame.from + frame.size <= PadSize
    BY <1>0, <1>1 DEF DecryptInv, Sealing
  <2>3. frame \in Frame
    BY <1>0, <1>1, ElementOfSeq DEF TypeInv, Types
  <2>4. PadSize \in Nat
    BY SizesAssumption DEF Sizes
  <2> QED BY <2>1, <2>2, <2>3, <2>4 DEF Frame, Heads
<1>8. /\ remote[r].pos = remote[r].head
      /\ remote[r].head = IF Len(received[r]) < HeaderSize THEN HeadAfter(q, k) ELSE frame.head
  BY <1>0 DEF InStep
<1>9. \A i : HeadAfter(q, i)' = HeadAfter(q, i)
  BY <1>2 DEF HeadAfter
<1>10. size = HeaderSize + frame.size
  BY DEF FrameSizeOf
<1>11. /\ Asked(r)' = IF receiving'[r] = 0 THEN HeaderSize ELSE receiving'[r]
       /\ Space(r)' = Asked(r)' - Len(received'[r])
  BY DEF Asked, Space
<1> HIDE DEF size, k, frame
<1>12. CASE ReadMore(r, units)
  <2>1. /\ Len(units) < Asked(r) /\ receiving'[r] = Asked(r) /\ received'[r] = units
        /\ remote' = remote /\ shown' = shown
    BY <1>3, <1>12 DEF ReadMore
  <2>2. Asked(r)' = Asked(r) /\ receiving'[r] # 0 /\ Space(r)' # 0
    BY <1>2, <1>3, <1>11, <2>1
  <2>3. Len(units) < HeaderSize <=> Len(received[r]) < HeaderSize
    BY <1>1, <1>2, <1>3, <2>1
  <2>4. HeadAfter(q, Len(shown[r]))' = HeadAfter(q, k)
    BY <1>2, <2>1 DEF HeadAfter, k
  <2>5. frames'[q][Len(shown'[r]) + 1] = frame
    BY <1>2, <2>1 DEF frame
  <2> QED BY <1>5, <1>8, <2>1, <2>2, <2>3, <2>4, <2>5 DEF InStep
<1>13. CASE ReadHeader(r, units)
  <2>1. /\ Len(units) = HeaderSize /\ received'[r] = units /\ shown' = shown
    BY <1>3, <1>13 DEF ReadHeader
  <2>2. HeaderSays(r, units) = {[size |-> frame.size, head |-> frame.head]}
    BY <1>1, <2>1 DEF HeaderSays, frame
  <2>3. PICK header \in HeaderSays(r, units) :
          /\ receiving' = [receiving EXCEPT ![r] = HeaderSize + header.size]
          /\ remote' = [remote EXCEPT ![r] = KeySeek(@, header.head)]
    BY <1>13 DEF ReadHeader
  <2>4. header.size = frame.size /\ header.head = frame.head
    BY <2>2, <2>3
  <2>5. receiving'[r] = size /\ remote'[r] = KeySeek(remote[r], frame.head)
    BY <1>3, <1>10, <2>3, <2>4
  <2>6. remote'[r].head = frame.head /\ remote'[r].pos = frame.head
    BY <1>3, <1>7, <2>5, KeySeekMoves
  <2>7. Asked(r)' = size /\ receiving'[r] # 0 /\ Space(r)' # 0
    BY <1>1, <1>11, <2>1, <2>5
  <2>8. frames'[q][Len(shown'[r]) + 1] = frame
    BY <1>2, <2>1 DEF frame
  <2> QED BY <1>1, <1>5, <2>1, <2>6, <2>7, <2>8 DEF InStep
<1>14. CASE ReadContent(r, units)
  <2> DEFINE e == [frame |-> FrameOf(r, units), from |-> remote[r].pos]
             pad == remote[r]
  <2>1. Asked(r) # HeaderSize
    BY <1>14 DEF ReadContent
  <2>2. HeaderSize <= Len(received[r]) /\ Asked(r) = size
    BY <1>1, <2>1
  <2>3. ContentSize(r) = frame.size
    BY <1>1, <1>7, <1>10, <2>2 DEF ContentSize
  <2>4. pad \in KeyType /\ pad.pos = frame.head /\ pad.head = frame.head /\ pad.size = PadSize
    BY <1>1, <1>3, <1>8, <2>2 DEF DecryptInv, Pads
  <2>5. Decrypts(r)
    <3>1. pad.pos + frame.size <= pad.size
      BY <1>7, <2>4
    <3>2. EncryptSucceeds(pad, frame.size)
      BY <1>7, <2>4, <3>1, EncryptNeeds
    <3> QED BY <2>3, <3>2 DEF Decrypts
  <2>6. /\ remote'[r] = KeyGetBlock(pad, frame.size)
        /\ receiving'[r] = 0 /\ received'[r] = <<>>
        /\ shown'[r] = Append(shown[r], e)
    BY <1>3, <1>14, <2>3, <2>5 DEF ReadContent
  <2>7. remote'[r].head = frame.head + frame.size /\ remote'[r].pos = remote'[r].head
    <3>1. BytesRead(pad, frame.size) = frame.size
      BY <2>3, <2>5 DEF Decrypts, EncryptSucceeds
    <3>2. frame.size \in Nat
      BY <1>7
    <3>3. pad.pos = pad.head /\ pad.head <= pad.size
      BY <1>7, <2>4
    <3> HIDE DEF pad
    <3>4. /\ KeyGetBlock(pad, frame.size).head = pad.head + BytesRead(pad, frame.size)
          /\ KeyGetBlock(pad, frame.size).pos = pad.pos + BytesRead(pad, frame.size)
      BY <2>4, <3>2, <3>3, KeyGetBlockMoves
    <3> QED BY <2>4, <2>6, <3>1, <3>3, <3>4
  <2>8. Asked(r)' = HeaderSize /\ Space(r)' # 0
    BY <1>1, <1>6, <1>11, <2>6
  <2>9. Len(shown'[r]) = m
    <3>1. units \in Seq(UnitOf(q)) /\ Len(units) > 0
      BY <1>2, <1>3 DEF Reads
    <3>2. FrameOf(r, units) \in Nat
      BY <3>1, FirstUnit
    <3>3. e \in Shown
      BY <2>4, <3>2 DEF Shown, KeyType
    <3> HIDE DEF e
    <3> QED BY <1>3, <2>6, <3>3, AppendProperties
  <2>10. HeadAfter(q, Len(shown[r]))' = frame.head + frame.size
    <3>1. HeadAfter(q, m) = IF m < Len(frames[q]) THEN frames[q][m + 1].head ELSE local[q].head
      BY DEF HeadAfter
    <3>2. HeadAfter(q, Len(shown[r]))' =
             IF Len(shown'[r]) < Len(frames'[q])
             THEN frames'[q][Len(shown'[r]) + 1].head ELSE local'[q].head
      BY DEF HeadAfter
    <3> QED BY <1>2, <1>7, <2>9, <3>1, <3>2
  <2> QED BY <1>1, <1>5, <1>6, <2>6, <2>7, <2>8, <2>10 DEF InStep
<1> QED BY <1>2, <1>12, <1>13, <1>14

LEMMA ReadCalm ==
    ASSUME TypeInv, DecryptInv, CalmInv, NEW r \in Peers, NEW n \in 1 .. Room,
           ReadSome(r, n), NEW p \in Peers
    PROVE  Connected(p)' /\ Written(p)' /\ InStep(p)'
<1> DEFINE q == Other(p)
<1>0. Connected(p) /\ Written(p) /\ InStep(p) /\ q \in Peers /\ (p = r \/ q = r) /\ q # p
  BY OtherPeer DEF CalmInv
<1>1. PICK units, rest : Reads(r, units, rest)
  BY ReadSomeReads
<1>2. /\ UNCHANGED <<state, sock, rst, frames, sending, sent, local>>
      /\ wire' = [wire EXCEPT ![Other(r)] = rest]
      /\ ReadMore(r, units) \/ ReadHeader(r, units) \/ ReadContent(r, units)
  BY <1>1 DEF Reads, conn, outgoing
<1>3. "read" \in todo'[p] => "read" \in todo[p]
  BY DEF ReadSome, Done, TypeInv, Types
<1>4. Connected(p)'
  BY <1>0, <1>2, <1>3, ConnectedKept
<1>5. Written(p)'
  BY <1>0, <1>2, WrittenKept
<1>6. CASE p = r
  BY <1>1, <1>4, <1>5, <1>6, ReadsInStep
<1>7. CASE p # r
  <2>1. Other(r) = p /\ q = r
    BY <1>0, <1>7, OtherPeer
  <2>2. /\ received = [s \in Peers |-> received[s]] /\ remote \in [Peers -> KeyType]
        /\ receiving \in [Peers -> Nat] /\ shown \in [Peers -> Seq(Shown)]
        /\ wire = [s \in Peers |-> wire[s]]
    BY DEF TypeInv, Types, Streams
  <2>3. /\ received'[p] = received[p] /\ receiving'[p] = receiving[p]
        /\ shown'[p] = shown[p] /\ remote'[p] = remote[p] /\ wire'[q] = wire[q]
    BY <1>0, <1>2, <1>7, <2>1, <2>2 DEF ReadMore, ReadHeader, ReadContent
  <2>4. Chained(p)'
    <3>1. Stays(p)
      BY <1>2, <2>3, KeptBefalls
    <3> QED BY <1>0, <3>1, ChainStays DEF InStep, Unbroken
  <2>5. \A k : HeadAfter(q, k)' = HeadAfter(q, k)
    BY <1>2 DEF HeadAfter
  <2>6. InStep(p)'
    BY <1>0, <1>2, <2>3, <2>4, <2>5, InStepKept
  <2> QED BY <1>4, <1>5, <2>6
<1> QED BY <1>6, <1>7

LEMMA CalmStep ==
    ASSUME TypeInv, DecryptInv, OrderInv, CalmInv, Calm, [Next]_vars
    PROVE  CalmInv'
<1> DEFINE Kept(p) == Connected(p)' /\ Written(p)' /\ InStep(p)'
<1> SUFFICES ASSUME NEW p \in Peers PROVE Kept(p)
  BY DEF CalmInv
<1>1. ASSUME UNCHANGED <<conn, wire, outgoing, incoming>>,
             \A s \in Peers :
                 "read" \in todo'[s] => "read" \in todo[s] \/ state[s] = "CONNECTED"
      PROVE  Kept(p)
  BY <1>1, QuietCalm
<1>2. ASSUME UNCHANGED <<conn, wire, outgoing, incoming>>, NEW r \in Peers, NEW h, Done(r, h)
      PROVE  Kept(p)
  <2>1. todo \in [Peers -> SUBSET Handlers]
    BY DEF TypeInv, Types
  <2>2. \A s \in Peers : "read" \in todo'[s] => "read" \in todo[s]
    BY <1>2, <2>1 DEF Done
  <2> QED BY <1>1, <1>2, <2>2
<1>3. CASE Establish
  BY <1>3, EstablishCalm
<1>4. ASSUME NEW r \in Peers, SelectSome(r) PROVE Kept(p)
  <2>1. PICK ready \in SUBSET (SocketReady(r) \cup {"stdin"}) : Select(r, ready)
    BY <1>4 DEF SelectSome
  <2>2. "read" \in ready => state[r] = "CONNECTED"
    BY DEF SocketReady
  <2>3. todo \in [Peers -> SUBSET Handlers]
    BY DEF TypeInv, Types
  <2>4. \A s \in Peers :
           "read" \in todo'[s] => "read" \in todo[s] \/ state[s] = "CONNECTED"
    BY <2>1, <2>2, <2>3 DEF Select
  <2> QED BY <1>1, <2>1, <2>4 DEF Select
<1>5. ASSUME NEW r \in Peers, Read(r) PROVE Kept(p)
  <2>1. PICK n \in 1 .. Room : ReadSome(r, n)
    BY <1>5, NothingFails DEF Read
  <2> QED BY <2>1, ReadCalm
<1>6. ASSUME NEW r \in Peers, Write(r) PROVE Kept(p)
  <2>1. CASE WriteSkipped(r)
    BY <1>2, <2>1 DEF WriteSkipped
  <2>2. ASSUME NEW n \in 1 .. Room, WriteSome(r, n) PROVE Kept(p)
    BY <2>2, WriteCalm
  <2> QED BY <1>6, <2>1, <2>2, NothingFails DEF Write
<1>7. ASSUME NEW r \in Peers, Stdin(r) PROVE Kept(p)
  <2>1. CASE OtherKey(r)
    BY <1>2, <2>1 DEF OtherKey
  <2>2. ASSUME NEW size \in TextSizes, Enter(r, size) PROVE Kept(p)
    BY <2>2, EnterCalm
  <2> QED BY <1>7, <2>1, <2>2, NothingFails DEF Stdin
<1>8. ASSUME NEW r \in Peers, Check(r) PROVE Kept(p)
  <2>1. CheckPasses(r)
    BY <1>8, NothingFails DEF Check
  <2> QED BY <1>2, <2>1 DEF CheckPasses
<1>9. CASE UNCHANGED vars
  BY <1>1, <1>9 DEF vars
<1> QED BY <1>3, <1>4, <1>5, <1>6, <1>7, <1>8, <1>9, NothingFails DEF Next, Handle

----------------------------------------------------------------------------
LEMMA CalmInvGives == TypeInv /\ CalmInv => HeadsAgreeWhenIdle
<1> SUFFICES ASSUME TypeInv, CalmInv, NEW p \in Peers, NEW q \in Peers, p # q,
                    sending[p] = 0, wire[p] = <<>>, receiving[q] = 0
             PROVE  remote[q].head = local[p].head
  BY DEF HeadsAgreeWhenIdle
<1> DEFINE k == Len(shown[q])
<1>1. p = Other(q) /\ InStep(q) /\ Chained(q)
  BY OtherPeer DEF CalmInv, InStep, Unbroken
<1>2. received[q] = <<>>
  BY <1>1 DEF InStep
<1>3. Nth(Flow(q), NextUnit(p), 1) = <<k + 1, 1>>
  BY <1>1 DEF Chained
<1>4. Len(Flow(q)) = 0
  <2>1. Len(received[q]) = 0 /\ Len(wire[Other(q)]) = 0
    BY <1>1, <1>2
  <2>2. Len(Flow(q)) = Len(received[q]) + Len(wire[Other(q)])
    BY FlowFacts
  <2> QED BY <2>1, <2>2
<1>5. NextUnit(p) = <<k + 1, 1>>
  BY <1>3, <1>4 DEF Nth
<1>6. NextUnit(p)[1] = Len(frames[p]) + 1
  BY DEF NextUnit
<1>7. Len(frames[p]) = k
  <2>1. k \in Nat /\ Len(frames[p]) \in Nat
    BY <1>1, ShownExist, FrameSizes
  <2> QED BY <1>5, <1>6, <2>1
<1>8. remote[q].head = HeadAfter(p, k)
  <2>1. Len(received[q]) < HeaderSize
    BY <1>2, SizesAssumption
  <2> QED BY <1>1, <2>1 DEF InStep
<1> QED BY <1>7, <1>8 DEF HeadAfter

\* While nobody types over a text, leaves or quits and the pads last, both ends
\* agree on the pad whenever nothing is on its way: key_seek and the counting of
\* the header's and the content's bytes on either side come to the same place.
THEOREM HeadsAgree == ASSUME Calm PROVE Spec => []HeadsAgreeWhenIdle
<1>1. TypeInv /\ DecryptInv /\ OrderInv /\ CalmInv /\ [Next]_vars
        => (TypeInv /\ DecryptInv /\ OrderInv /\ CalmInv)'
  BY TypeStep, DecryptStep, OrderStep, CalmStep
<1>2. Init => CalmInv
  BY CalmInit
<1>3. Spec => [](TypeInv /\ DecryptInv /\ OrderInv /\ CalmInv)
  BY <1>1, <1>2, InitType, DecryptInit, OrderInit, PTL DEF Spec
<1> QED BY <1>3, CalmInvGives, PTL
=============================================================================
