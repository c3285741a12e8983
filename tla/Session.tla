------------------------------ MODULE Session ------------------------------
(***************************************************************************)
(* How instances of otpchat find each other: listening, connecting, the    *)
(* handshake, accepting, and every way a connection ends.  It is the part  *)
(* of the loop of chat() that Chat takes as one step, with user.c and the  *)
(* commands; there may be more than two instances.                         *)
(*                                                                         *)
(* Each connection attempt is a link with two ends, <<l, "caller">> and    *)
(* <<l, "callee">>; the kernel keeps the callee's end in the backlog of    *)
(* the listening socket until it is accepted.  A handshake blocks the      *)
(* whole program: two exchanges, in each of which both sides send one      *)
(* message and wait for the other's.  Texts are not in this module.        *)
(***************************************************************************)
EXTENDS Naturals, Sequences, FiniteSets

CONSTANTS
    Peers,      \* the instances
    NoKey,      \* remote.key = NULL
    Friend,     \* Friend[p]: whose key p was started with, as the remote key
    Version,    \* Version[p]: PROTOCOL_ID
    Waiting,    \* instances started without an address: wait_for_remote
    Target,     \* Target[p]: the address the others were started with
    Dials,      \* [p -> instances p's user may /connect to]
    Listeners,  \* instances whose user types /listen and /endlisten
    Leavers,    \* instances whose user types /disconnect
    Quitters,   \* instances that may end at any time
    Hasty,      \* instances whose handshakes may time out
    Faulty,     \* the network may fail: to resolve, connect, bind; connections are reset
    MaxLinks,   \* bound: connection attempts
    MaxStarts   \* bound: starts of one instance

ASSUME PeersAssumption == Peers # {} /\ NoKey \notin Peers
ASSUME StartAssumption ==
    /\ Friend \in [Peers -> Peers] /\ Target \in [Peers -> Peers]
    /\ Version \in [Peers -> Nat]
    /\ Waiting \subseteq Peers
ASSUME UsersAssumption ==
    /\ Dials \in [Peers -> SUBSET Peers]
    /\ Listeners \subseteq Peers /\ Leavers \subseteq Peers
    /\ Quitters \subseteq Peers /\ Hasty \subseteq Peers
    /\ Faulty \in BOOLEAN
ASSUME BoundsAssumption == MaxLinks \in Nat /\ MaxStarts \in Nat

VARIABLES
    todo,       \* handlers still to run in this iteration; {} at the select
    state,      \* remote.state, or "OFF" while the program does not run
    sock,       \* remote.node.socket
    key,        \* remote.key
    hs,         \* where user_handshake stands
    listening,  \* local.node.socket # -1
    queue,      \* the backlog of the listening socket
    links,      \* the connections attempted so far
    open,       \* the ends that are not closed
    mail,       \* mail[e]: handshake messages that end e has not read
    starts      \* starts of each instance

program == <<todo, state, sock, key, hs>>
network == <<links, open, mail>>
vars == <<program, listening, queue, network, starts>>

Sides == {"caller", "callee"}
NoEnd == <<0, "none">>
Stale == <<0, "stale">>    \* the number of a socket that is closed already
Ends == (1 .. MaxLinks) \X Sides
Keys == Peers \cup {NoKey}
Handlers == {"read", "write", "accept", "stdin", "check"}
Link == [from : Peers, to : Peers, phase : {"OPENING", "UP", "RESET"}]
Message == [version : Nat, id : Peers] \cup [accept : BOOLEAN]

\* An exchange: what has been sent, and what was received (at most one message).
Handshake == [phase : {"none", "hello", "answer"}, sent : BOOLEAN, got : Seq(Message)]
Idle == [phase |-> "none", sent |-> FALSE, got |-> <<>>]
Exchange(phase) == [phase |-> phase, sent |-> FALSE, got |-> <<>>]

TypeOK ==
    /\ todo \in [Peers -> SUBSET Handlers]
    /\ state \in [Peers -> {"OFF", "NOT_CONNECTED", "CONNECTING", "CONNECTED"}]
    /\ sock \in [Peers -> Ends \cup {NoEnd, Stale}]
    /\ key \in [Peers -> Keys]
    /\ hs \in [Peers -> Handshake]
    /\ listening \in [Peers -> BOOLEAN]
    /\ queue \in [Peers -> Seq(1 .. MaxLinks)]
    /\ links \in Seq(Link) /\ Len(links) <= MaxLinks
    /\ open \subseteq Ends
    /\ mail \in [Ends -> Seq(Message)]
    /\ starts \in [Peers -> 0 .. MaxStarts]

Init ==
    /\ todo = [p \in Peers |-> {}]
    /\ state = [p \in Peers |-> "OFF"]
    /\ sock = [p \in Peers |-> NoEnd]
    /\ key = [p \in Peers |-> NoKey]
    /\ hs = [p \in Peers |-> Idle]
    /\ listening = [p \in Peers |-> FALSE]
    /\ queue = [p \in Peers |-> <<>>]
    /\ links = <<>>
    /\ open = {}
    /\ mail = [e \in Ends |-> <<>>]
    /\ starts = [p \in Peers |-> 0]

Far(e) == IF e[2] = "caller" THEN <<e[1], "callee">> ELSE <<e[1], "caller">>

Owner(e) == IF e[2] = "caller" THEN links[e[1]].from ELSE links[e[1]].to

Queued(p) == { queue[p][i] : i \in DOMAIN queue[p] }

\* The connection of end e was refused or reset; e has no other end any more.
Broken(e) == links[e[1]].phase = "RESET"
HungUp(e) == Broken(e) \/ Far(e) \notin open

----------------------------------------------------------------------------
\* The kernels and the network.
Resolved(ls) == [l \in DOMAIN links |->
    IF l \in ls THEN [links[l] EXCEPT !.phase = "RESET"] ELSE links[l]]

\* The connection is made, and waits to be accepted.
Establish(l) ==
    /\ links[l].phase = "OPENING"
    /\ <<l, "caller">> \in open
    /\ listening[links[l].to]
    /\ links' = [links EXCEPT ![l].phase = "UP"]
    /\ open' = open \cup {<<l, "callee">>}
    /\ queue' = [queue EXCEPT ![links[l].to] = Append(@, l)]
    /\ UNCHANGED <<program, listening, mail, starts>>

\* Nobody listens at the address, or it cannot be reached.
Refuse(l) ==
    /\ links[l].phase = "OPENING"
    /\ <<l, "caller">> \in open
    /\ ~listening[links[l].to] \/ Faulty
    /\ links' = Resolved({l})
    /\ UNCHANGED <<program, listening, queue, open, mail, starts>>

\* The network resets a connection.
Cut(l) ==
    /\ Faulty
    /\ links[l].phase = "UP"
    /\ links' = Resolved({l})
    /\ UNCHANGED <<program, listening, queue, open, mail, starts>>

----------------------------------------------------------------------------
\* Mutant: the state is not one of connection_state's.
UserDisconnectOff(p, k) ==
    /\ open' = open \ {sock[p]}
    /\ sock' = [sock EXCEPT ![p] = NoEnd]
    /\ state' = [state EXCEPT ![p] = "DISCONNECTED"]
    /\ key' = [key EXCEPT ![p] = k]

\* user_disconnect, with remote.key as the caller leaves it.
UserDisconnect(p, k) ==
    /\ open' = open \ {sock[p]}
    /\ sock' = [sock EXCEPT ![p] = NoEnd]
    /\ state' = [state EXCEPT ![p] = "NOT_CONNECTED"]
    /\ key' = [key EXCEPT ![p] = k]

\* node_connect: a new socket, whose connection is being formed.
NodeConnect(p, q) ==
    LET l == Len(links) + 1 IN
    /\ Len(links) < MaxLinks
    /\ links' = Append(links, [from |-> p, to |-> q, phase |-> "OPENING"])
    /\ open' = (open \ {sock[p]}) \cup {<<l, "caller">>}
    /\ sock' = [sock EXCEPT ![p] = <<l, "caller">>]

\* user_begin_connect: the connection p has is given up, also when node_connect
\* fails.  A socket whose connect() fails is closed, but its number stays in
\* remote.node (what that number may be used for next is in Nodes).
BeginConnect(p, q) ==
    \/ /\ NodeConnect(p, q)
       /\ state' = [state EXCEPT ![p] = "CONNECTING"]
       /\ UNCHANGED key
    \/ /\ Faulty
       /\ open' = open \ {sock[p]}
       /\ \E left \in {NoEnd, Stale} : sock' = [sock EXCEPT ![p] = left]
       /\ state' = [state EXCEPT ![p] = "NOT_CONNECTED"]
       /\ UNCHANGED <<key, links>>

\* close() of the listening socket: the connections in its backlog are reset.
CloseListener(p) ==
    /\ links' = Resolved(Queued(p))
    /\ open' = open \ (Queued(p) \X {"callee"})
    /\ queue' = [queue EXCEPT ![p] = <<>>]

\* What node_listen may come to.
Listens == IF Faulty THEN BOOLEAN ELSE {TRUE}

\* chat_init.
Start(p) ==
    /\ state[p] = "OFF"
    /\ starts[p] < MaxStarts
    /\ starts' = [starts EXCEPT ![p] = @ + 1]
    /\ \/ /\ p \in Waiting
          /\ \E success \in Listens : listening' = [listening EXCEPT ![p] = success]
          /\ state' = [state EXCEPT ![p] = "NOT_CONNECTED"]
          /\ UNCHANGED <<sock, key, network>>
       \/ /\ p \notin Waiting
          /\ BeginConnect(p, Target[p])
          /\ UNCHANGED <<listening, mail>>
    /\ UNCHANGED <<todo, hs, queue>>

\* The process ends, and the kernel closes every end it has: /quit (chat_end),
\* or a signal.
Exit(p) ==
    /\ p \in Quitters
    /\ state[p] # "OFF"
    /\ links' = Resolved(Queued(p))
    /\ open' = { e \in open : Owner(e) # p }
    /\ queue' = [queue EXCEPT ![p] = <<>>]
    /\ listening' = [listening EXCEPT ![p] = FALSE]
    /\ sock' = [sock EXCEPT ![p] = NoEnd]
    /\ state' = [state EXCEPT ![p] = "OFF"]
    /\ key' = [key EXCEPT ![p] = NoKey]
    /\ hs' = [hs EXCEPT ![p] = Idle]
    /\ todo' = [todo EXCEPT ![p] = {}]
    /\ UNCHANGED <<mail, starts>>

----------------------------------------------------------------------------
\* Handlers run in the order of the code, and not while a handshake blocks.
Before(h) ==
    CASE h = "read"   -> {}
      [] h = "write"  -> {"read"}
      [] h = "accept" -> {"read", "write"}
      [] h = "stdin"  -> {"read", "write", "accept"}
      [] h = "check"  -> {"read", "write", "accept", "stdin"}

Turn(p, h) ==
    /\ h \in todo[p]
    /\ todo[p] \cap Before(h) = {}
    /\ hs[p].phase = "none"

Done(p, h) == todo' = [todo EXCEPT ![p] = @ \ {h}]

\* Mutant: the listening socket is watched whatever the state.
AcceptsAlways(p) == p \in Waiting /\ queue[p] # <<>>

\* Mutant: an instance is taken to be free when it has no remote key.
AcceptsWithoutKey(p) == p \in Waiting /\ key[p] = NoKey /\ queue[p] # <<>>

\* The condition for watching the listening socket, and what it reports.
Accepts(p) == p \in Waiting /\ state[p] = "NOT_CONNECTED" /\ queue[p] # <<>>

SocketReady(p) ==
    { h \in {"read", "write", "accept"} :
        /\ h = "read" => state[p] = "CONNECTED" /\ HungUp(sock[p])
        /\ h = "write" => /\ state[p] = "CONNECTING"
                          /\ links[sock[p][1]].phase # "OPENING"
        /\ h = "accept" => Accepts(p) }

AtSelect(p) == state[p] # "OFF" /\ todo[p] = {} /\ hs[p].phase = "none"

Select(p, ready) ==
    /\ ready # {}
    /\ todo' = [todo EXCEPT ![p] = ready \cup {"check"}]
    /\ UNCHANGED <<state, sock, key, hs, listening, queue, network, starts>>

\* Who presses keys: only those who have a command to give.
Users == Listeners \cup Leavers \cup { p \in Peers : Dials[p] # {} }

\* What happened may be seen late, and a key may be pressed.
SelectSome(p) ==
    /\ AtSelect(p)
    /\ \E ready \in SUBSET (SocketReady(p) \cup {"stdin"}) :
          /\ "stdin" \in ready => p \in Users
          /\ Select(p, ready)

\* Nothing is late.
SelectAll(p) == AtSelect(p) /\ Select(p, SocketReady(p))
----------------------------------------------------------------------------
\* chat_handle_recv at the end of the stream: the socket is closed.
Read(p) ==
    /\ Turn(p, "read")
    /\ Done(p, "read")
    /\ open' = open \ {sock[p]}
    /\ sock' = [sock EXCEPT ![p] = NoEnd]
    /\ UNCHANGED <<state, key, hs, listening, queue, links, mail, starts>>

\* The write handler while CONNECTING: user_finish_connect, up to the handshake.
FinishConnect(p) ==
    /\ Turn(p, "write")
    /\ Done(p, "write")
    /\ \/ /\ Broken(sock[p])
          /\ UserDisconnect(p, NoKey)
          /\ UNCHANGED hs
       \/ /\ ~Broken(sock[p])
          /\ hs' = [hs EXCEPT ![p] = Exchange("hello")]
          /\ UNCHANGED <<state, sock, key, open>>
    /\ UNCHANGED <<listening, queue, links, mail, starts>>

\* node_accept takes the first connection of the backlog.
Incoming(p) == <<Head(queue[p]), "callee">>

\* user_accept, up to the handshake.  When the connection is already reset the
\* socket is left in remote.node, and nothing else happens.
Accept(p) ==
    /\ Turn(p, "accept")
    /\ Done(p, "accept")
    /\ sock' = [sock EXCEPT ![p] = Incoming(p)]
    /\ queue' = [queue EXCEPT ![p] = Tail(@)]
    /\ hs' = IF Broken(Incoming(p)) THEN hs ELSE [hs EXCEPT ![p] = Exchange("hello")]
    /\ UNCHANGED <<state, key, listening, network, starts>>

----------------------------------------------------------------------------
\* user_handshake and node_exchange.
Exchanged(p) == hs[p].sent /\ hs[p].got # <<>>

\* What the exchange sends.
Saying(p) ==
    IF hs[p].phase = "hello" THEN [version |-> Version[p], id |-> p]
                             ELSE [accept |-> key[p] # NoKey]

\* Mutant: each side waits for the other's message before it sends its own.
SayInTurn(p) ==
    /\ hs[p].phase # "none" /\ ~hs[p].sent /\ hs[p].got # <<>>
    /\ ~Broken(sock[p])
    /\ hs' = [hs EXCEPT ![p].sent = TRUE]
    /\ mail' = IF Far(sock[p]) \in open
               THEN [mail EXCEPT ![Far(sock[p])] = Append(@, Saying(p))]
               ELSE mail
    /\ UNCHANGED <<todo, state, sock, key, listening, queue, links, open, starts>>

\* node_send: what is sent to a closed end is lost.
Say(p) ==
    /\ hs[p].phase # "none" /\ ~hs[p].sent
    /\ ~Broken(sock[p])
    /\ hs' = [hs EXCEPT ![p].sent = TRUE]
    /\ mail' = IF Far(sock[p]) \in open
               THEN [mail EXCEPT ![Far(sock[p])] = Append(@, Saying(p))]
               ELSE mail
    /\ UNCHANGED <<todo, state, sock, key, listening, queue, links, open, starts>>

\* node_recv.
Hear(p) ==
    /\ hs[p].phase # "none" /\ hs[p].got = <<>>
    /\ mail[sock[p]] # <<>>
    /\ hs' = [hs EXCEPT ![p].got = <<Head(mail[sock[p]])>>]
    /\ mail' = [mail EXCEPT ![sock[p]] = Tail(@)]
    /\ UNCHANGED <<todo, state, sock, key, listening, queue, links, open, starts>>

\* Mutant: a handshake that fails leaves the connection as it is.
HandshakeFailsOnly(p) ==
    /\ hs' = [hs EXCEPT ![p] = Idle]
    /\ IF sock[p][2] = "caller" THEN UserDisconnect(p, NoKey)
                                ELSE UNCHANGED <<state, sock, key, open>>

\* user_finish_connect and, for the side that called, the loop.
HandshakeFails(p) ==
    /\ hs' = [hs EXCEPT ![p] = Idle]
    /\ UserDisconnect(p, IF sock[p][2] = "caller" THEN NoKey ELSE key[p])

\* Mutant: no timeout is handed to node_exchange.
TimesOutNever(p) == FALSE

TimesOut(p) == p \in Hasty

\* node_exchange fails: send or recv did, or the time is over.  What was not
\* read yet may be lost with the connection.
GiveUp(p) ==
    /\ hs[p].phase # "none" /\ ~Exchanged(p)
    /\ TimesOut(p) \/ HungUp(sock[p])
    /\ HandshakeFails(p)
    /\ UNCHANGED <<todo, listening, queue, links, mail, starts>>

\* key_store_find.
KeyStoreFind(p, id) == IF id = Friend[p] THEN id ELSE NoKey

\* The ids are exchanged.
JudgeHello(p) ==
    LET hello == Head(hs[p].got) IN
    /\ hs[p].phase = "hello" /\ Exchanged(p)
    /\ \/ /\ hello.version = Version[p]
          /\ key' = [key EXCEPT ![p] = KeyStoreFind(p, hello.id)]
          /\ hs' = [hs EXCEPT ![p] = Exchange("answer")]
          /\ UNCHANGED <<state, sock, open>>
       \/ /\ hello.version # Version[p]
          /\ HandshakeFails(p)
    /\ UNCHANGED <<todo, listening, queue, links, mail, starts>>

\* Mutant: the own answer is not looked at again.
AgreedByRemote(p) == Head(hs[p].got).accept

Agreed(p) == Head(hs[p].got).accept /\ key[p] # NoKey

\* The answers are exchanged.
JudgeAnswer(p) ==
    /\ hs[p].phase = "answer" /\ Exchanged(p)
    /\ \/ /\ Agreed(p)
          /\ state' = [state EXCEPT ![p] = "CONNECTED"]
          /\ hs' = [hs EXCEPT ![p] = Idle]
          /\ UNCHANGED <<sock, key, open>>
       \/ /\ ~Agreed(p)
          /\ HandshakeFails(p)
    /\ UNCHANGED <<todo, listening, queue, links, mail, starts>>

Handshaking(p) == Say(p) \/ Hear(p) \/ JudgeHello(p) \/ JudgeAnswer(p) \/ GiveUp(p)
----------------------------------------------------------------------------
\* The commands: ui_handle_input, command_handle.
Connect(p) ==
    /\ Turn(p, "stdin")
    /\ Done(p, "stdin")
    /\ \E q \in Dials[p] : BeginConnect(p, q)
    /\ UNCHANGED <<hs, listening, queue, mail, starts>>

Disconnect(p) ==
    /\ Turn(p, "stdin")
    /\ Done(p, "stdin")
    /\ p \in Leavers
    /\ state[p] # "NOT_CONNECTED"
    /\ UserDisconnect(p, key[p])
    /\ UNCHANGED <<hs, listening, queue, links, mail, starts>>

\* /listen: an old listening socket is closed first; opening the new one may fail.
Listen(p) ==
    /\ Turn(p, "stdin")
    /\ Done(p, "stdin")
    /\ p \in Listeners
    /\ CloseListener(p)
    /\ \E success \in Listens : listening' = [listening EXCEPT ![p] = success]
    /\ UNCHANGED <<state, sock, key, hs, mail, starts>>

EndListen(p) ==
    /\ Turn(p, "stdin")
    /\ Done(p, "stdin")
    /\ p \in Listeners
    /\ CloseListener(p)
    /\ listening' = [listening EXCEPT ![p] = FALSE]
    /\ UNCHANGED <<state, sock, key, hs, mail, starts>>

\* Every other key.
OtherKey(p) ==
    /\ Turn(p, "stdin")
    /\ Done(p, "stdin")
    /\ UNCHANGED <<state, sock, key, hs, listening, queue, network, starts>>

Stdin(p) == Connect(p) \/ Disconnect(p) \/ Listen(p) \/ EndListen(p) \/ OtherKey(p)

\* The check at the end of the loop: node_error.
Check(p) ==
    /\ Turn(p, "check")
    /\ Done(p, "check")
    /\ IF state[p] = "CONNECTED" /\ (sock[p] = NoEnd \/ Broken(sock[p]))
       THEN UserDisconnect(p, NoKey)
       ELSE UNCHANGED <<state, sock, key, open>>
    /\ UNCHANGED <<hs, listening, queue, links, mail, starts>>

----------------------------------------------------------------------------
Handle(p) ==
    Read(p) \/ FinishConnect(p) \/ Accept(p) \/ Handshaking(p) \/ Stdin(p) \/ Check(p)

Network == \E l \in DOMAIN links : Establish(l) \/ Refuse(l) \/ Cut(l)

Next ==
    \/ Network
    \/ \E p \in Peers : Start(p) \/ SelectSome(p) \/ Handle(p) \/ Exit(p)

Spec == Init /\ [][Next]_vars

\* Programs go on, select() reports in the end what is there, and a connection
\* attempt is answered.  Nothing is assumed of users.
FairSpec ==
    /\ Spec
    /\ \A p \in Peers : WF_vars(Handle(p)) /\ SF_vars(SelectAll(p))
    /\ \A l \in 1 .. MaxLinks :
          WF_vars(l \in DOMAIN links /\ (Establish(l) \/ Refuse(l)))
----------------------------------------------------------------------------
Connected(e) == \E p \in Peers : sock[p] = e /\ state[p] = "CONNECTED"

\* Who is connected has the key of whoever is at the other end, and is known
\* there: both answers of the handshake were yes and about this connection.
ConnectedToFriend ==
    \A p \in Peers : state[p] = "CONNECTED" /\ sock[p] # NoEnd =>
        LET q == Owner(Far(sock[p])) IN
        /\ key[p] = q
        /\ Friend[p] = q /\ Friend[q] = p
        /\ Version[p] = Version[q]

\* At the select, a program that calls or is connected has a socket that is open,
\* and any other has none: what remote.node may still hold is a connection that
\* was reset before it was accepted, or the number a failed connect() left.
SocketMatchesState ==
    \A p \in Peers : AtSelect(p) =>
        IF state[p] \in {"CONNECTING", "CONNECTED"}
        THEN sock[p] \in open
        ELSE sock[p] \in Ends => Broken(sock[p])

\* A call that comes in never takes the place of the connection there is.
SessionsAreNotTakenOver ==
    [][\A p \in Peers :
         state[p] = "CONNECTED" /\ state'[p] = "CONNECTED" => sock'[p] \in {sock[p], NoEnd}]_vars

\* One side may take the handshake for done and the other not, but not for long:
\* in the end both are connected, or neither.
BothOrNeither ==
    \A e \in Ends : Connected(e) ~> (~Connected(e) \/ Connected(Far(e)))

\* Every attempt to connect and every handshake comes to an end, whoever is at
\* the other end: also an instance that calls itself or that is calling back.
AttemptsEnd ==
    \A p \in Peers :
        state[p] = "CONNECTING" \/ hs[p].phase # "none"
        ~> state[p] # "CONNECTING" /\ hs[p].phase = "none"

\* Who listens and is not connected takes the calls that come in (README.md:50,
\* "listen ... Starts listening for connections").
ListenersAnswer ==
    \A p \in Peers : \A l \in 1 .. MaxLinks :
        l \in Queued(p) /\ state[p] = "NOT_CONNECTED"
        ~> l \notin Queued(p) \/ state[p] # "NOT_CONNECTED"

\* When nobody leaves and nothing times out, a call to a friend who listens ends
\* with both connected.
FriendsMeet ==
    \A p \in Peers : \A l \in 1 .. MaxLinks :
        sock[p] = <<l, "caller">> /\ l \in Queued(Friend[p]) /\ Friend[Friend[p]] = p
        ~> Connected(<<l, "caller">>) /\ Connected(<<l, "callee">>)
=============================================================================
