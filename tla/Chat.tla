-------------------------------- MODULE Chat --------------------------------
(***************************************************************************)
(* Two instances of otpchat talking to each other: the loop of chat() in   *)
(* src/src/chat.c on both sides, the framing of texts, the two pads and    *)
(* the TCP connection between them.                                        *)
(*                                                                         *)
(* One iteration of the loop is a select() and then the handlers of what   *)
(* it reported, in the order of the code: read, write, stdin and, always,  *)
(* the check for errors.  Handlers of the two peers interleave freely, so  *)
(* anything may happen at the other end between a select and the handlers  *)
(* it called for.                                                          *)
(*                                                                         *)
(* A text is a frame: HeaderSize bytes that announce its size and the head *)
(* of the pad, then as many bytes as the text has.  The bytes of frame m   *)
(* are the units <<m, 1>>, <<m, 2>>, ...; recv and send move any number of *)
(* them.  Connecting is one step here (the handshake is a part of its own).*)
(***************************************************************************)
EXTENDS Key, Sequences, FiniteSets

CONSTANTS
    Peers,        \* the two instances
    Typists,      \* peers whose user types texts
    Leavers,      \* peers whose user disconnects
    Quitters,     \* peers whose process may end at any time
    Patient,      \* users only press Enter when the previous text has left
    HeaderSize,   \* MESSAGE_HEADER_SIZE
    TextSizes,    \* sizes of the texts typed
    PadSize,      \* size of either pad
    BadHeaders,   \* [size, head] that a header put together wrongly may read as
    Room,         \* what the kernel buffers in one direction
    MaxTexts,     \* bound: texts typed by one peer
    MaxSessions   \* bound: connections established

ASSUME PeersAssumption == \E p, q \in Peers : p # q /\ Peers = {p, q}
ASSUME UsersAssumption ==
    Typists \subseteq Peers /\ Leavers \subseteq Peers /\ Quitters \subseteq Peers
ASSUME PatientAssumption == Patient \in BOOLEAN
ASSUME SizesAssumption ==
    /\ HeaderSize \in Nat \ {0}
    /\ TextSizes \subseteq Nat \ {0}
    /\ PadSize \in Sizes
    /\ BadHeaders \subseteq [size : Nat, head : Heads]
    /\ Room \in Nat \ {0}
ASSUME BoundsAssumption == MaxTexts \in Nat /\ MaxSessions \in Nat

VARIABLES
    todo,       \* handlers still to run in this iteration; {} at the select
    state,      \* remote.state, or "GONE" when the process has ended
    sock,       \* remote.node.socket # -1
    rst,        \* the kernel has, or will get, a reset for this socket
    wire,       \* wire[p]: units from p that the other peer has not read
    frames,     \* frames[p]: the frames p has made
    sending,    \* the frame in state->sending, 0 when it is empty
    sent,       \* sent_size
    receiving,  \* receiving.size
    received,   \* the units in state->receiving
    local,      \* keys.local
    remote,     \* keys.remotes[0], a copy of the other peer's pad
    shown,      \* what was pushed to the history with ID_REMOTE
    sessions    \* connections established so far

conn == <<state, sock, rst, sessions>>
outgoing == <<frames, sending, sent, local>>
incoming == <<receiving, received, remote, shown>>
vars == <<todo, conn, wire, outgoing, incoming>>

Other(p) == CHOOSE q \in Peers : q # p

Handlers == {"read", "write", "stdin", "check"}
Frame == [size : Nat, head : Heads, from : Int, sealed : BOOLEAN]
Unit == Nat \X Nat
Shown == [frame : Nat, from : Int]  \* frame 0: no frame of the other peer's

TypeOK ==
    /\ todo \in [Peers -> SUBSET Handlers]
    /\ state \in [Peers -> {"NOT_CONNECTED", "CONNECTED", "GONE"}]
    /\ sock \in [Peers -> BOOLEAN]
    /\ rst \in [Peers -> BOOLEAN]
    /\ wire \in [Peers -> Seq(Unit)]
    /\ frames \in [Peers -> Seq(Frame)]
    /\ sending \in [Peers -> Nat]
    /\ sent \in [Peers -> Nat]
    /\ receiving \in [Peers -> Nat]
    /\ received \in [Peers -> Seq(Unit)]
    /\ local \in [Peers -> KeyType]
    /\ remote \in [Peers -> KeyType]
    /\ shown \in [Peers -> Seq(Shown)]
    /\ sessions \in Nat

NewPad == KeyOpen(KeyCreate(0, PadSize))

Init ==
    /\ todo = [p \in Peers |-> {}]
    /\ state = [p \in Peers |-> "NOT_CONNECTED"]
    /\ sock = [p \in Peers |-> FALSE]
    /\ rst = [p \in Peers |-> FALSE]
    /\ wire = [p \in Peers |-> <<>>]
    /\ frames = [p \in Peers |-> <<>>]
    /\ sending = [p \in Peers |-> 0]
    /\ sent = [p \in Peers |-> 0]
    /\ receiving = [p \in Peers |-> 0]
    /\ received = [p \in Peers |-> <<>>]
    /\ local = [p \in Peers |-> NewPad]
    /\ remote = [p \in Peers |-> NewPad]
    /\ shown = [p \in Peers |-> <<>>]
    /\ sessions = 0

----------------------------------------------------------------------------
\* The handlers run in the order of the code.
Before(h) ==
    CASE h = "read"  -> {}
      [] h = "write" -> {"read"}
      [] h = "stdin" -> {"read", "write"}
      [] h = "check" -> {"read", "write", "stdin"}

Turn(p, h) == h \in todo[p] /\ todo[p] \cap Before(h) = {}

Done(p, h) == todo' = [todo EXCEPT ![p] = @ \ {h}]

\* close(): what this side has not read is lost, and makes the kernel send a
\* reset; what it has written still arrives.
CloseSocket(p) ==
    LET q == Other(p) IN
    /\ sock' = [sock EXCEPT ![p] = FALSE]
    /\ rst' = [rst EXCEPT ![q] = @ \/ wire[q] # <<>>]
    /\ wire' = [wire EXCEPT ![p] = IF sock[q] THEN @ ELSE <<>>, ![q] = <<>>]

\* node_close
NodeClose(p) ==
    IF sock[p] THEN CloseSocket(p) ELSE UNCHANGED <<sock, rst, wire>>

\* Both instances finish a handshake with each other's key.
Establish ==
    /\ sessions < MaxSessions
    /\ \A p \in Peers : state[p] = "NOT_CONNECTED" /\ todo[p] = {}
    /\ sessions' = sessions + 1
    /\ state' = [p \in Peers |-> "CONNECTED"]
    /\ sock' = [p \in Peers |-> TRUE]
    /\ rst' = [p \in Peers |-> FALSE]
    /\ UNCHANGED <<todo, wire, outgoing, incoming>>

\* Mutant: a peer that still has something to send does not read.
SocketReadyOneAtATime(p) ==
    LET q == Other(p) IN
    { h \in {"read", "write"} :
        /\ state[p] = "CONNECTED"
        /\ h = "read" => sending[p] = 0 /\ (wire[q] # <<>> \/ ~sock[q])
        /\ h = "write" => sending[p] # 0 /\ (Len(wire[p]) < Room \/ ~sock[q]) }

\* What select() can report of the socket.
SocketReady(p) ==
    LET q == Other(p) IN
    { h \in {"read", "write"} :
        /\ state[p] = "CONNECTED"
        /\ h = "read" => wire[q] # <<>> \/ ~sock[q]
        /\ h = "write" => sending[p] # 0 /\ (Len(wire[p]) < Room \/ ~sock[q]) }

Select(p, ready) ==
    /\ state[p] # "GONE"
    /\ todo[p] = {}
    /\ ready # {}
    /\ todo' = [todo EXCEPT ![p] = ready \cup {"check"}]
    /\ UNCHANGED <<conn, wire, outgoing, incoming>>

\* What was sent may arrive late, and a key may be pressed.
SelectSome(p) ==
    \E ready \in SUBSET (SocketReady(p) \cup {"stdin"}) :
        /\ "stdin" \in ready => p \in Typists \cup Leavers
        /\ Select(p, ready)

\* Nothing is late.
SelectAll(p) == Select(p, SocketReady(p))
----------------------------------------------------------------------------
\* chat_handle_recv.  The buffer grows from nothing to a header, from a header
\* to a frame, and is freed when the frame has been shown.
Asked(p) == IF receiving[p] = 0 THEN HeaderSize ELSE receiving[p]

Space(p) == Asked(p) - Len(received[p])

\* Mutant: the header is taken for a part of the content.
ContentSizeWithHeader(p) == Asked(p)

ContentSize(p) == Asked(p) - HeaderSize

\* Mutant: what decrypt() returns is not looked at.
DecryptsAlways(p) == TRUE

Decrypts(p) == EncryptSucceeds(remote[p], ContentSize(p))

\* All of units comes, in order, from the start of frame m.
Intact(m, units) == units = [i \in 1 .. Len(units) |-> <<m, i>>]

\* What the HeaderSize units in the buffer say.
HeaderSays(p, units) ==
    LET m == units[1][1]
        f == frames[Other(p)][m]
    IN  IF Intact(m, units) THEN {[size |-> f.size, head |-> f.head]} ELSE BadHeaders

\* Which frame of the other peer's a full buffer holds.
FrameOf(p, units) ==
    LET m == units[1][1] IN
    IF Intact(m, units) /\ Len(units) = HeaderSize + frames[Other(p)][m].size
    THEN m ELSE 0

\* recv() gives 0 or -1: the other end has closed, the connection was reset, or
\* the buffer is already full and there was no room to read into.
ReadFails(p) ==
    /\ Turn(p, "read")
    /\ \/ Space(p) = 0
       \/ wire[Other(p)] = <<>> /\ ~sock[Other(p)]
       \/ rst[p]
    /\ CloseSocket(p)
    /\ receiving' = [receiving EXCEPT ![p] = Asked(p)]
    /\ Done(p, "read")
    /\ UNCHANGED <<state, sessions, outgoing, received, remote, shown>>

\* The units arrive and the buffer is not full yet.
ReadMore(p, units) ==
    /\ Len(units) < Asked(p)
    /\ receiving' = [receiving EXCEPT ![p] = Asked(p)]
    /\ received' = [received EXCEPT ![p] = units]
    /\ UNCHANGED <<remote, shown>>

\* The header is complete.
ReadHeader(p, units) ==
    /\ Len(units) = Asked(p)
    /\ Asked(p) = HeaderSize
    /\ \E header \in HeaderSays(p, units) :
          /\ receiving' = [receiving EXCEPT ![p] = HeaderSize + header.size]
          /\ remote' = [remote EXCEPT ![p] = KeySeek(@, header.head)]
    /\ received' = [received EXCEPT ![p] = units]
    /\ UNCHANGED shown

\* The frame is complete: decrypt, and show it if there was enough key.
ReadContent(p, units) ==
    /\ Len(units) = Asked(p)
    /\ Asked(p) # HeaderSize
    /\ remote' = [remote EXCEPT ![p] = KeyGetBlock(@, ContentSize(p))]
    /\ \/ /\ Decrypts(p)
          /\ receiving' = [receiving EXCEPT ![p] = 0]
          /\ received' = [received EXCEPT ![p] = <<>>]
          /\ shown' = [shown EXCEPT ![p] = Append(@,
                         [frame |-> FrameOf(p, units), from |-> remote[p].pos])]
       \/ /\ ~Decrypts(p)
          /\ received' = [received EXCEPT ![p] = units]
          /\ UNCHANGED <<receiving, shown>>

\* recv() gives n bytes.
ReadSome(p, n) ==
    LET q == Other(p)
        units == received[p] \o SubSeq(wire[q], 1, n)
    IN  /\ Turn(p, "read")
        /\ n <= Space(p) /\ n <= Len(wire[q])
        /\ wire' = [wire EXCEPT ![q] = SubSeq(@, n + 1, Len(@))]
        /\ ReadMore(p, units) \/ ReadHeader(p, units) \/ ReadContent(p, units)
        /\ Done(p, "read")
        /\ UNCHANGED <<conn, outgoing>>

Read(p) == ReadFails(p) \/ \E n \in 1 .. Room : ReadSome(p, n)

----------------------------------------------------------------------------
\* chat_handle_send.
FrameSizeOf(p, m) == HeaderSize + frames[p][m].size

FrameSize(p) == FrameSizeOf(p, sending[p])

\* Mutant: the frame is not freed when its last byte is out.
LeftToSendNotFreed(p, n) == sending[p]

\* The frame left in state->sending when n more bytes are out.
LeftToSend(p, n) == IF sent[p] + n = FrameSize(p) THEN 0 ELSE sending[p]

\* The handler that just read found the connection closed, or there is nothing
\* to send.
WriteSkipped(p) ==
    /\ Turn(p, "write")
    /\ ~sock[p] \/ sending[p] = 0
    /\ Done(p, "write")
    /\ UNCHANGED <<conn, wire, outgoing, incoming>>

\* send() takes n bytes; the buffer is freed with the last of them.  A socket
\* that was closed at the other end takes them too, and is reset for it.
WriteSome(p, n) ==
    LET q == Other(p)
        units == [i \in 1 .. n |-> <<sending[p], sent[p] + i>>]
    IN  /\ Turn(p, "write")
        /\ sock[p]
        /\ sending[p] # 0
        /\ sent[p] + n <= FrameSize(p)
        /\ IF sock[q]
           THEN /\ Len(wire[p]) + n <= Room
                /\ wire' = [wire EXCEPT ![p] = @ \o units]
                /\ UNCHANGED rst
           ELSE /\ rst' = [rst EXCEPT ![p] = TRUE]
                /\ UNCHANGED wire
        /\ sending' = [sending EXCEPT ![p] = LeftToSend(p, n)]
        /\ sent' = [sent EXCEPT ![p] = IF @ + n = FrameSize(p) THEN 0 ELSE @ + n]
        /\ Done(p, "write")
        /\ UNCHANGED <<state, sock, sessions, frames, local, incoming>>

\* send() gives -1 after a reset.
WriteFails(p) ==
    /\ Turn(p, "write")
    /\ sock[p]
    /\ sending[p] # 0
    /\ rst[p]
    /\ CloseSocket(p)
    /\ Done(p, "write")
    /\ UNCHANGED <<state, sessions, outgoing, incoming>>

Write(p) == WriteSkipped(p) \/ WriteFails(p) \/ \E n \in 1 .. Room : WriteSome(p, n)

----------------------------------------------------------------------------
\* ui_handle_input: Enter with a text in the input box, while connected.
\* chat_begin_send frees what it was sending, builds the frame in its place
\* and encrypts it there; without enough key the text stays in it as it is.
Enter(p, size) ==
    LET frame == [size |-> size, head |-> local[p].head, from |-> local[p].pos,
                  sealed |-> EncryptSucceeds(local[p], size)]
    IN  /\ Turn(p, "stdin")
        /\ p \in Typists
        /\ Len(frames[p]) < MaxTexts
        /\ Patient => sending[p] = 0
        /\ state[p] = "CONNECTED"
        /\ frames' = [frames EXCEPT ![p] = Append(@, frame)]
        /\ sending' = [sending EXCEPT ![p] = Len(frames[p]) + 1]
        /\ sent' = [sent EXCEPT ![p] = 0]
        /\ local' = [local EXCEPT ![p] = KeyGetBlock(@, size)]
        /\ Done(p, "stdin")
        /\ UNCHANGED <<conn, wire, incoming>>

\* /disconnect: chat_disconnect, user_disconnect.
Disconnect(p) ==
    /\ Turn(p, "stdin")
    /\ p \in Leavers
    /\ state[p] = "CONNECTED"
    /\ state' = [state EXCEPT ![p] = "NOT_CONNECTED"]
    /\ NodeClose(p)
    /\ Done(p, "stdin")
    /\ UNCHANGED <<sessions, outgoing, incoming>>

\* Any other key, or Enter while not connected.
OtherKey(p) ==
    /\ Turn(p, "stdin")
    /\ Done(p, "stdin")
    /\ UNCHANGED <<conn, wire, outgoing, incoming>>

Stdin(p) == (\E size \in TextSizes : Enter(p, size)) \/ Disconnect(p) \/ OtherKey(p)

----------------------------------------------------------------------------
\* Mutant: a socket that is gone is not an error.
NodeErrorOnResetOnly(p) == IF rst[p] THEN BOOLEAN ELSE {FALSE}

\* Mutant: the other end's closing is an error at once.
NodeErrorOnHangUp(p) == {~sock[p] \/ ~sock[Other(p)]}

\* node_error: no socket, or a reset, which may not have arrived yet.
NodeError(p) == IF ~sock[p] THEN {TRUE} ELSE IF rst[p] THEN BOOLEAN ELSE {FALSE}

\* The check at the end of the loop.
CheckFails(p) ==
    /\ Turn(p, "check")
    /\ state[p] = "CONNECTED"
    /\ TRUE \in NodeError(p)
    /\ state' = [state EXCEPT ![p] = "NOT_CONNECTED"]
    /\ NodeClose(p)
    /\ Done(p, "check")
    /\ UNCHANGED <<sessions, outgoing, incoming>>

CheckPasses(p) ==
    /\ Turn(p, "check")
    /\ state[p] = "CONNECTED" => FALSE \in NodeError(p)
    /\ Done(p, "check")
    /\ UNCHANGED <<conn, wire, outgoing, incoming>>

Check(p) == CheckFails(p) \/ CheckPasses(p)

\* The process ends: /quit, SIGINT, or SIGPIPE from send().
Exit(p) ==
    /\ p \in Quitters
    /\ state[p] # "GONE"
    /\ state' = [state EXCEPT ![p] = "GONE"]
    /\ NodeClose(p)
    /\ todo' = [todo EXCEPT ![p] = {}]
    /\ UNCHANGED <<sessions, outgoing, incoming>>

----------------------------------------------------------------------------
Handle(p) == Read(p) \/ Write(p) \/ Stdin(p) \/ Check(p)

Next ==
    \/ Establish
    \/ \E p \in Peers : SelectSome(p) \/ Handle(p) \/ Exit(p)

Spec == Init /\ [][Next]_vars

\* The process runs its handlers and select() reports in the end what is there;
\* no user has to do anything, and nobody has to connect.
FairSpec ==
    /\ Spec
    /\ \A p \in Peers : WF_vars(Handle(p)) /\ SF_vars(SelectAll(p))
----------------------------------------------------------------------------
\* The text that entry e of p's history is: m when it is text m of the other
\* peer, 0 when it is nothing anybody typed.
TextOf(p, e) ==
    IF /\ e.frame # 0
       /\ frames[Other(p)][e.frame].sealed
       /\ frames[Other(p)][e.frame].from = e.from
    THEN e.frame ELSE 0

Texts(p) == [i \in DOMAIN shown[p] |-> TextOf(p, shown[p][i])]

\* The abstract view: the texts typed are the frames that were encrypted.
Sealed(p) == {m \in DOMAIN frames[p] : frames[p][m].sealed}

C == INSTANCE Channel WITH
        typed <- [p \in Peers |-> Cardinality(Sealed(p))],
        shown <- [p \in Peers |-> Texts(p)]

\* Every text on the screen is one the other user typed, and none is missing
\* before it: chat_begin_send, the partial sends and receives and the two pads
\* implement the channel.
ImplementsChannel == C!Spec

\* ... and nothing typed is left out in the end.
ImplementsFairChannel == C!FairSpec

\* Whatever the users do, over lost connections and dropped frames, no text is
\* shown twice and none after a later one.
ShownInOrder ==
    \A p \in Peers : \A i, j \in DOMAIN shown[p] :
        i < j /\ Texts(p)[i] # 0 /\ Texts(p)[j] # 0 => Texts(p)[i] < Texts(p)[j]

\* A frame that arrives whole is decrypted with the bytes it was encrypted
\* with, however much of either pad was wasted before it, and whatever heads were
\* announced that fseek refused (key_seek).
WholeFramesDecrypt ==
    \A p \in Peers : \A i \in DOMAIN shown[p] :
        shown[p][i].frame # 0 => TextOf(p, shown[p][i]) # 0

\* At the select remote.state says whether there is a socket: FD_SET never
\* gets -1 for the remote, and no socket is forgotten open.
SocketMatchesState ==
    \A p \in Peers : todo[p] = {} => (sock[p] <=> state[p] = "CONNECTED")

\* With nothing on its way, both ends of a connection agree on the pad.
HeadsAgreeWhenIdle ==
    \A p, q \in Peers :
        /\ p # q
        /\ sending[p] = 0 /\ wire[p] = <<>> /\ receiving[q] = 0
        => remote[q].head = local[p].head

\* When one side leaves, the other notices and becomes free to connect again.
DisconnectPropagates ==
    \A p, q \in Peers :
        p # q /\ state[p] = "CONNECTED" /\ ~sock[q] ~> state[p] # "CONNECTED"

OnWire(p) == { wire[p][i] : i \in DOMAIN wire[p] }

\* A text whose last byte went into a good connection is shown, also when its
\* author leaves right behind it.
LastWordsArrive ==
    \A p, q \in Peers : \A m \in 1 .. MaxTexts :
        p # q /\ m \in Sealed(p) /\ <<m, FrameSizeOf(p, m)>> \in OnWire(p)
        ~> \E i \in DOMAIN shown[q] : Texts(q)[i] = m
=============================================================================
