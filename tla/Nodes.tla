------------------------------- MODULE Nodes -------------------------------
(***************************************************************************)
(* The two struct nodes of one running program: which descriptors and      *)
(* which addrinfo blocks they hold, from the command line through the      *)
(* select() loop of chat() to chat_end.  What passes through the           *)
(* connections, and the handshake, are the business of other modules: here *)
(* a handshake fails or does not.  A select() that a signal interrupts     *)
(* changes nothing.                                                        *)
(***************************************************************************)
EXTENDS Args, FiniteSets

CONSTANTS
    Fds,         \* Descriptors the process may open; a bound.
    Infos,       \* Addresses malloc() may return for an addrinfo; a bound.
    ArgLines,    \* What may follow the program's name, as sequences of words.
    Lines,       \* Commands that may be entered, as sequences of words.
    MaxLeftovers \* Accepted sockets found in error at once; a bound.

ASSUME NodesAssumption ==
    /\ IsFiniteSet(Fds) /\ Fds \subseteq Nat \ {0}
    /\ IsFiniteSet(Infos) /\ Infos \subseteq Nat \ {0}
    /\ MaxLeftovers \in Nat
\* Nobody writes an empty word in a command (command.c:47).
ASSUME LinesAssumption == ArgLines \subseteq Seq(Text) /\ Lines \subseteq Seq(Text \ {<<>>})

VARIABLES
    pc,        \* The test of the loop the program has come to.
    ready,     \* The fd_sets select() returned.
    waiting,   \* a->wait_for_remote
    state,     \* state->remote.state
    local,     \* state->local.node
    remote,    \* state->remote.node
    os,        \* Who holds each descriptor and each addrinfo, and the harm done.
    typed,     \* What the user wrote, until the loop comes round.
    called,    \* The request made of it.
    stale,     \* History: remote is what a failed node_connect left.
    leftovers  \* History: accepted sockets user_accept returned without.

vars == <<pc, ready, waiting, state, local, remote, os, typed, called, stale,
          leftovers>>

None == 0  \* -1 for a descriptor, NULL for an addrinfo.
Closed == [socket |-> None, info |-> None]
Holders == {"nobody", "local", "remote"}

Quiet == [read |-> {}, write |-> {}, stdin |-> FALSE]
NothingTyped == [at |-> "nowhere", words |-> <<>>]

TypeOK ==
    /\ pc \in {"start", "select", "recv", "write", "accept", "stdin", "check",
               "exit", "ended"}
    /\ ready \in [read : SUBSET Fds, write : SUBSET Fds, stdin : BOOLEAN]
    /\ waiting \in BOOLEAN
    /\ state \in {"not_connected", "connecting", "connected"}
    /\ {local, remote} \subseteq [socket : Fds \cup {None}, info : Infos \cup {None}]
    /\ os \in [files : [Fds -> Holders], infos : [Infos -> Holders],
               harm : SUBSET {"file", "memory"}]
    /\ stale \in BOOLEAN
    /\ leftovers \in 0 .. MaxLeftovers
    /\ called.do \in {"connect", "listen"} => called.port \in 0 .. PortRange - 1

----------------------------------------------------------------------------
(* The descriptors and the memory of the process. *)

Free(table) == { x \in DOMAIN table : table[x] = "nobody" }
LowestFree(table) == CHOOSE x \in Free(table) : \A y \in Free(table) : x <= y

\* close(): harmless on a descriptor that is not open, not on another's.
CloseFile(s, fd, holder) ==
    IF fd = None \/ s.files[fd] = "nobody" THEN s
    ELSE [s EXCEPT !.files[fd] = "nobody",
                   !.harm = IF s.files[fd] = holder THEN @ ELSE @ \cup {"file"}]

\* freeaddrinfo(): what is freed twice may belong to another by then.
FreeInfo(s, info, holder) ==
    IF info = None THEN s
    ELSE [s EXCEPT !.infos[info] = "nobody",
                   !.harm = IF s.infos[info] = holder THEN @ ELSE @ \cup {"memory"}]

Take(s, fd, info, holder) ==
    [s EXCEPT !.files[fd] = holder, !.infos[info] = holder]

\* node_close: what it does to the process; the node becomes Closed.
NodeClose(s, node, holder) ==
    FreeInfo(CloseFile(s, node.socket, holder), node.info, holder)

----------------------------------------------------------------------------
(* node.c and user.c.  Each operator is a whole call. *)

\* Freed memory freed again ends the program, or is not noticed.
Goto(step) == pc' = step \/ ("memory" \in os'.harm \ os.harm /\ pc' = "ended")

\* user_disconnect
UserDisconnect ==
    /\ os' = NodeClose(os, remote, "remote")
    /\ remote' = Closed
    /\ state' = "not_connected"
    /\ stale' = FALSE

\* Mutant: the connection there was is forgotten, not closed.
UserBeginConnectForgets ==
    \/ remote' = Closed /\ state' = "not_connected" /\ stale' = FALSE /\ UNCHANGED os
    \/ \E info \in Free(os.infos) :
          /\ Free(os.files) # {}
          /\ os' = Take(os, LowestFree(os.files), info, "remote")
          /\ remote' = [socket |-> LowestFree(os.files), info |-> info]
          /\ state' = "connecting"
          /\ stale' = FALSE

\* user_begin_connect and the node_connect in it.  A failure after getaddrinfo
\* frees what was taken and leaves it in the node.
UserBeginConnect ==
    LET closed == NodeClose(os, remote, "remote")
        fd == LowestFree(closed.files)
    IN  \/ UserDisconnect  \* getaddrinfo fails.
        \/ \E info \in Free(closed.infos) :
              /\ os' = closed
              /\ \/ remote' = [socket |-> None, info |-> info]  \* socket fails.
                 \/ /\ Free(closed.files) # {}                  \* connect fails.
                    /\ remote' = [socket |-> fd, info |-> info]
              /\ state' = "not_connected"
              /\ stale' = TRUE
        \/ \E info \in Free(closed.infos) :
              /\ Free(closed.files) # {}
              /\ os' = Take(closed, fd, info, "remote")
              /\ remote' = [socket |-> fd, info |-> info]
              /\ state' = "connecting"
              /\ stale' = FALSE

\* Mutant: node_listen leaves in the node what it freed.
ChatBeginListenKeeps ==
    LET closed == NodeClose(os, local, "local")
        fd == LowestFree(closed.files)
    IN  \E info \in Free(closed.infos) :
           /\ Free(closed.files) # {}
           /\ os' \in {closed, Take(closed, fd, info, "local")}
           /\ local' = [socket |-> fd, info |-> info]

\* chat_begin_listen: node_close, then node_listen, which cleans up if it fails.
ChatBeginListen ==
    LET closed == NodeClose(os, local, "local")
        fd == LowestFree(closed.files)
    IN  \/ os' = closed /\ local' = Closed
        \/ \E info \in Free(closed.infos) :
              /\ Free(closed.files) # {}
              /\ os' = Take(closed, fd, info, "local")
              /\ local' = [socket |-> fd, info |-> info]

\* Mutant: the listener is closed and its number kept.
ChatEndListenKeeps ==
    /\ os' = CloseFile(os, local.socket, "local")
    /\ UNCHANGED local

\* chat_end_listen
ChatEndListen ==
    IF local.socket # None
    THEN os' = NodeClose(os, local, "local") /\ local' = Closed
    ELSE UNCHANGED <<os, local>>

\* Mutant: the listener goes with the connection.
ChatDisconnectBoth ==
    /\ os' = NodeClose(NodeClose(os, remote, "remote"), local, "local")
    /\ remote' = Closed /\ local' = Closed
    /\ state' = "not_connected" /\ stale' = FALSE

\* chat_disconnect
ChatDisconnect ==
    /\ IF state # "not_connected" THEN UserDisconnect
       ELSE UNCHANGED <<os, remote, state, stale>>
    /\ UNCHANGED local

\* Mutant: the number is kept, and the addrinfo goes.
LoseSocketKeeps ==
    /\ os' = NodeClose(os, remote, "remote")
    /\ UNCHANGED remote

\* A recv or a send that fails closes the descriptor and leaves the addrinfo.
LoseSocket ==
    /\ os' = CloseFile(os, remote.socket, "remote")
    /\ remote' = [remote EXCEPT !.socket = None]

\* user_accept: node_accept writes over the node before it knows how accept
\* fares, and a socket already in error is left in the node.
UserAccept ==
    LET fd == LowestFree(os.files) IN
    /\ stale' = FALSE
    /\ \/ /\ remote' = Closed  \* accept fails.
          /\ UNCHANGED <<os, state, leftovers>>
       \/ /\ os.files[local.socket] = "local" /\ Free(os.files) # {}
          /\ \/ /\ remote' = Closed  \* The handshake fails.
                /\ UNCHANGED <<os, state, leftovers>>
             \/ \E info \in Free(os.infos) :
                   /\ os' = Take(os, fd, info, "remote")
                   /\ remote' = [socket |-> fd, info |-> info]
                   /\ \/ state' = "connected" /\ UNCHANGED leftovers
                      \/ /\ leftovers < MaxLeftovers  \* node_error
                         /\ leftovers' = leftovers + 1
                         /\ UNCHANGED state

----------------------------------------------------------------------------
(* chat(): each test of the loop is a step. *)

\* What a request of the user has done to the nodes.
Carry(request) ==
    CASE request.do = "connect" -> UserBeginConnect /\ UNCHANGED local
      [] request.do = "listen" -> ChatBeginListen /\ UNCHANGED <<remote, state, stale>>
      [] request.do = "disconnect" -> ChatDisconnect
      [] request.do = "endlisten" -> ChatEndListen /\ UNCHANGED <<remote, state, stale>>
      [] OTHER -> UNCHANGED <<local, remote, os, state, stale>>

Init ==
    /\ pc = "start"
    /\ ready = Quiet
    /\ waiting = FALSE
    /\ state = "not_connected"
    /\ local = Closed /\ remote = Closed
    /\ os = [files |-> [fd \in Fds |-> "nobody"],
             infos |-> [info \in Infos |-> "nobody"], harm |-> {}]
    /\ typed = NothingTyped /\ called = Nothing
    /\ stale = FALSE /\ leftovers = 0

\* main and chat_init: a malformed command line ends the program at once, and
\* generating a key needs no node.
Start ==
    /\ pc = "start"
    /\ \E argv \in ArgLines :
          /\ typed' = [at |-> "args", words |-> argv]
          /\ called' = ParseArgs(argv)
    /\ waiting' = (called'.do = "listen")
    /\ Carry(called')
    /\ pc' = IF called'.do \in {"nothing", "generate"} THEN "ended" ELSE "select"
    /\ UNCHANGED <<ready, leftovers>>

ReadSet ==
    (IF state = "connected" THEN {remote.socket} ELSE {})
    \cup (IF waiting /\ state = "not_connected" THEN {local.socket} ELSE {})

\* A connection is watched for writing when something waits to be sent, which
\* is left open here.
WriteSet == IF state # "not_connected" THEN {remote.socket} ELSE {}

\* The descriptor -1 sets the top bit of the first word, which select(), asked
\* for fewer descriptors, returns clear.  A descriptor not open is an error.
Select ==
    /\ pc = "select"
    /\ typed' = NothingTyped /\ called' = Nothing
    /\ IF \E fd \in (ReadSet \cup WriteSet) \ {None} : os.files[fd] = "nobody"
       THEN pc' = "exit" /\ UNCHANGED ready
       ELSE /\ \E r \in SUBSET (ReadSet \ {None}), w \in SUBSET (WriteSet \ {None}),
                  key \in BOOLEAN :
                  /\ key \/ r \cup w # {}
                  /\ ready' = [read |-> r, write |-> w, stdin |-> key]
            /\ pc' = "recv"
    /\ UNCHANGED <<waiting, state, local, remote, os, stale, leftovers>>

\* The test is on what remote.node holds now, whatever remote.state is.
Receive ==
    /\ pc = "recv"
    /\ \/ /\ remote.socket \in ready.read
          /\ LoseSocket
       \/ /\ remote.socket \in ready.read => os.files[remote.socket] = "remote"
          /\ UNCHANGED <<os, remote>>
    /\ Goto("write")
    /\ UNCHANGED <<ready, waiting, state, local, typed, called, stale, leftovers>>

\* user_finish_connect and what chat() does when it fails, or chat_handle_send.
Write ==
    /\ pc = "write"
    /\ IF remote.socket \notin ready.write
       THEN UNCHANGED <<os, remote, state, stale>>
       ELSE \/ state = "connecting" /\ UserDisconnect
            \/ state = "connecting" /\ state' = "connected" /\ UNCHANGED <<os, remote, stale>>
            \/ state # "connecting" /\ LoseSocket /\ UNCHANGED <<state, stale>>
            \/ state # "connecting" /\ UNCHANGED <<os, remote, state, stale>>
    /\ Goto("accept")
    /\ UNCHANGED <<ready, waiting, local, typed, called, leftovers>>

Accept ==
    /\ pc = "accept"
    /\ IF local.socket \in ready.read THEN UserAccept
       ELSE UNCHANGED <<os, remote, state, stale, leftovers>>
    /\ Goto("stdin")
    /\ UNCHANGED <<ready, waiting, local, typed, called>>

\* Most keys only edit the line.
Key ==
    /\ pc = "stdin"
    /\ UNCHANGED <<local, remote, os, state, stale, typed, called>>
    /\ pc' = "check"
    /\ UNCHANGED <<ready, waiting, leftovers>>

\* command_handle
Command ==
    /\ pc = "stdin" /\ ready.stdin
    /\ \E line \in Lines :
          /\ typed' = [at |-> "line", words |-> line]
          /\ called' = CommandHandle(line)
    /\ Carry(called')
    /\ Goto("check")
    /\ UNCHANGED <<ready, waiting, leftovers>>

\* node_error of a connected remote; /quit has cleared state->running.
Check ==
    /\ pc = "check"
    /\ \/ state = "connected" /\ UserDisconnect
       \/ /\ state = "connected" =>
                 remote.socket # None /\ os.files[remote.socket] # "nobody"
          /\ UNCHANGED <<os, remote, state, stale>>
    /\ Goto(IF called = Quit THEN "exit" ELSE "select")
    /\ ready' = Quiet
    /\ UNCHANGED <<waiting, local, typed, called, leftovers>>

\* chat_end
End ==
    /\ pc = "exit"
    /\ os' = NodeClose(NodeClose(os, local, "local"), remote, "remote")
    /\ local' = Closed /\ remote' = Closed
    /\ state' = "not_connected" /\ stale' = FALSE
    /\ pc' = "ended"
    /\ UNCHANGED <<ready, waiting, typed, called, leftovers>>

Next == Start \/ Select \/ Receive \/ Write \/ Accept \/ Key \/ Command \/ Check \/ End

Spec == Init /\ [][Next]_vars

----------------------------------------------------------------------------
(* Properties. *)

\* What a node holds is open, allocated and its own, and a connection the loop
\* watches has a descriptor: unless a node_connect that failed left its rubbish
\* in the node (node.c:126, node.c:138), or that rubbish has done its harm.
Holds(node, holder) ==
    /\ node.socket # None => os.files[node.socket] = holder
    /\ node.info # None => os.infos[node.info] = holder
NodesHoldTheirOwn ==
    os.harm = {} =>
        /\ Holds(local, "local")
        /\ ~stale => Holds(remote, "remote")
        /\ pc = "select" /\ state # "not_connected" => remote.socket # None

\* Whatever is open or allocated is in one of the two nodes, except for one
\* descriptor and one block for each accepted socket that user_finish_connect
\* found in error and did not close (user.c:112): until the rubbish of a failed
\* node_connect has done its harm, after which anything may be lost.
Lost(table, held) == { x \in DOMAIN table : table[x] # "nobody" } \ held
LostOnlyInAccept ==
    os.harm = {} =>
        /\ Cardinality(Lost(os.files, {local.socket, remote.socket})) <= leftovers
        /\ Cardinality(Lost(os.infos, {local.info, remote.info})) <= leftovers

\* The first time the program closes what another part of it holds, and the first
\* time it frees what it has freed, it does so through what a failed node_connect
\* left.  Only the first: a listener's number that has been closed and given to a
\* connection is closed with the listener.
FirstHarmByStale ==
    [][ \A kind \in {"file", "memory"} :
            kind \in os'.harm /\ kind \notin os.harm => stale ]_vars

\* The step closes the listener's descriptor, or it has become another's.
ListenerLost ==
    /\ local.socket # None /\ os.files[local.socket] = "local"
    /\ os'.files[local.socket] # "local"
\* The user has ended it, listens again or quits.
ListenerEnded == pc = "exit" \/ called'.do \in {"listen", "endlisten"}

\* Only the user ends a listener, but for this: a connection takes it along when
\* remote.node holds the number of the listener.  A failed node_connect left it
\* there (node.c:126, chat.c:396), or what that has closed let one number come to
\* two holders.
ListenerSurvives ==
    [][ ListenerLost => \/ ListenerEnded
                        \/ /\ remote.socket = local.socket
                           /\ stale \/ "file" \in os.harm ]_vars

\* The loop ends because the user quits.  Unless the rubbish of a failed
\* node_connect has closed a descriptor of another, it does not end on one that
\* the program itself has closed, which would end it without a word (chat.c:394).
LoopGoesOn == pc = "exit" => called = Quit \/ "file" \in os.harm

\* Reference: an address and a port that are written so.
Meanings(text) ==
    { ConnectTo(SubSeq(text, 1, k), port) : k \in 1 .. Len(text), port \in 1 .. PortRange - 1 }
Written(call, text) ==
    \/ text = call.node \o <<Colon, Number(call.port)>>
    \/ text = call.node /\ Colons(text) = {} /\ call.port = DefaultPort
MeantBy(text) ==
    LET meant == { call \in Meanings(text) : Written(call, text) }
    IN  IF meant = {} THEN {Nothing} ELSE meant
Wrapped(text, range) ==
    { ListenOn(port) : port \in { p \in 0 .. PortRange - 1 :
        \E n \in { text[i].value : i \in { j \in DOMAIN text : text[j].type = "number" } } :
           text = <<Number(n)>> /\ (n - p) % range = 0 } }

\* The program dials what the user wrote and nothing else, and refuses what
\* cannot be written back.  A port to listen on is the number written, up to a
\* multiple of 2^16 on the command line (args.c:89), and to one of 2^32 in
\* /listen (command.c:113).  A key file is only made when one was asked for.
AsWritten ==
    LET words == typed.words
        text == words[Len(words)]
    IN  /\ typed.at = "line" /\ Len(words) = 2 =>
               /\ words[1] = <<Name("connect")>> => called \in MeantBy(text)
               /\ words[1] = <<Name("listen")>> =>
                     called \in Wrapped(text, UnsignedRange) \cup {Nothing}
        /\ typed.at = "args" /\ Len(words) = 3 /\ text # <<>> /\ called.do # "generate" =>
               \/ words[1] = <<Name("--generate")>> /\ called = Nothing
               \/ called \in IF Wrapped(text, PortRange) # {} THEN Wrapped(text, PortRange)
                             ELSE MeantBy(text)
        /\ called.do = "generate" =>
               typed.at = "args" /\ Len(words) = 3 /\ words[1] = <<Name("--generate")>>
=============================================================================
