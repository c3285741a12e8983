---------------------------- MODULE NodesProofs ----------------------------
(***************************************************************************)
(* Theorems about Args and Nodes: for any texts, any number of descriptors *)
(* and of addrinfo blocks, and any course of the loop.                     *)
(*                                                                         *)
(* The two kinds of harm are kept apart: what a failed node_connect leaves *)
(* may close another's descriptor and leave all the memory in order, or    *)
(* the other way round.  HoldingInv says what the nodes hold while one of  *)
(* them, or both, have not been done; RoundInv, what the loop's position   *)
(* says about the fd_sets it tests.                                        *)
(***************************************************************************)
EXTENDS Nodes, FiniteSetTheorems, SequenceTheorems, WellFoundedInduction, TLAPS

Process == [files : [Fds -> Holders], infos : [Infos -> Holders],
            harm : SUBSET {"file", "memory"}]
Node == [socket : Fds \cup {None}, info : Infos \cup {None}]

\* TypeOK but for the loop.
HoldingType ==
    /\ state \in {"not_connected", "connecting", "connected"}
    /\ local \in Node /\ remote \in Node
    /\ os \in Process
    /\ stale \in BOOLEAN
    /\ leftovers \in 0 .. MaxLeftovers

\* What the nodes hold is theirs, but for what a failed node_connect left.
SocketsHeld ==
    "file" \notin os.harm =>
        /\ local.socket # None => os.files[local.socket] = "local"
        /\ ~stale /\ remote.socket # None => os.files[remote.socket] = "remote"
InfosHeld ==
    "memory" \notin os.harm =>
        /\ local.info # None => os.infos[local.info] = "local"
        /\ ~stale /\ remote.info # None => os.infos[remote.info] = "remote"

\* A failed node_connect leaves the program unconnected; a connection that is
\* being made has a socket; the listener has a descriptor and a block, or none.
NodesMatchState ==
    /\ stale => state = "not_connected"
    /\ os.harm = {} /\ state = "connecting" => remote.socket # None
    /\ local.socket # None <=> local.info # None

\* The connections user_accept left open, with the one in remote.node if any.
Remotes(table) == { x \in DOMAIN table : table[x] = "remote" }
Leavings(table, held) ==
    IF state = "not_connected" THEN Remotes(table) ELSE Remotes(table) \ {held}
LeftoversCounted ==
    os.harm = {} =>
        /\ \A x \in Fds : os.files[x] = "local" => x = local.socket
        /\ \A x \in Infos : os.infos[x] = "local" => x = local.info
        /\ Cardinality(Leavings(os.files, remote.socket)) <= leftovers
        /\ Cardinality(Leavings(os.infos, remote.info)) <= leftovers

HoldingInv ==
    HoldingType /\ SocketsHeld /\ InfosHeld /\ NodesMatchState /\ LeftoversCounted

\* What the fd_sets say lasts until they are tested.
RoundInv ==
    /\ pc = "recv" /\ state = "connecting" => ready.read = {}
    /\ pc \in {"recv", "write", "accept"} /\ "file" \notin os.harm
       /\ local.socket \in ready.read => state = "not_connected"
    /\ pc = "select" /\ state # "not_connected" /\ os.harm = {} => remote.socket # None
    /\ pc = "start" => state = "not_connected"

\* The request is what the program makes of what was typed.
AskInv ==
    \/ typed = NothingTyped /\ called = Nothing
    \/ typed.at = "args" /\ typed.words \in Seq(Text) /\ called = ParseArgs(typed.words)
    \/ /\ typed.at = "line" /\ typed.words \in Seq(Text \ {<<>>})
       /\ called = CommandHandle(typed.words)

\* TypeOK for the loop.
LoopType ==
    /\ pc \in {"start", "select", "recv", "write", "accept", "stdin", "check",
               "exit", "ended"}
    /\ ready \in [read : SUBSET Fds, write : SUBSET Fds, stdin : BOOLEAN]
    /\ waiting \in BOOLEAN

NodesInv == LoopType /\ HoldingInv /\ RoundInv /\ AskInv /\ LoopGoesOn

----------------------------------------------------------------------------
\* What the calls of the kernel and of malloc() do to a process.
LEMMA CloseFileFacts ==
    ASSUME NEW s \in Process, NEW fd \in Fds \cup {None}, NEW holder
    PROVE  LET t == CloseFile(s, fd, holder) IN
           /\ t \in Process /\ t.infos = s.infos
           /\ \A x \in Fds : t.files[x] = IF x = fd THEN "nobody" ELSE s.files[x]
           /\ t.harm = IF fd # None /\ s.files[fd] \notin {"nobody", holder}
                       THEN s.harm \cup {"file"} ELSE s.harm
<1>1. CASE fd = None \/ s.files[fd] = "nobody"
  BY <1>1, NodesAssumption DEF CloseFile, Process, None
<1>2. CASE fd # None /\ s.files[fd] # "nobody"
  <2> DEFINE t == [s EXCEPT !.files[fd] = "nobody",
                            !.harm = IF s.files[fd] = holder THEN @ ELSE @ \cup {"file"}]
             files == [s.files EXCEPT ![fd] = "nobody"]
             harm == IF s.files[fd] = holder THEN s.harm ELSE s.harm \cup {"file"}
  <2>0. t = [s EXCEPT !.files = files, !.harm = harm]
    OBVIOUS
  <2>2. CloseFile(s, fd, holder) = t
    BY <1>2 DEF CloseFile
  <2>3. /\ files \in [Fds -> Holders]
        /\ \A x \in Fds : files[x] = IF x = fd THEN "nobody" ELSE s.files[x]
    BY <1>2 DEF Process, Holders
  <2>4. harm \in SUBSET {"file", "memory"}
    BY DEF Process
  <2>5. harm = IF s.files[fd] = holder THEN s.harm ELSE s.harm \cup {"file"}
    OBVIOUS
  <2> HIDE DEF t, files, harm
  <2>1. t = [files |-> files, infos |-> s.infos, harm |-> harm]
    BY <2>0 DEF Process
  <2> QED BY <1>2, <2>1, <2>2, <2>3, <2>4, <2>5 DEF Process
<1> QED BY <1>1, <1>2

LEMMA FreeInfoFacts ==
    ASSUME NEW s \in Process, NEW info \in Infos \cup {None}, NEW holder
    PROVE  LET t == FreeInfo(s, info, holder) IN
           /\ t \in Process /\ t.files = s.files
           /\ \A x \in Infos : t.infos[x] = IF x = info THEN "nobody" ELSE s.infos[x]
           /\ t.harm = IF info # None /\ s.infos[info] # holder
                       THEN s.harm \cup {"memory"} ELSE s.harm
<1>1. CASE info = None
  BY <1>1, NodesAssumption DEF FreeInfo, Process, None
<1>2. CASE info # None
  <2> DEFINE t == [s EXCEPT !.infos[info] = "nobody",
                            !.harm = IF s.infos[info] = holder THEN @ ELSE @ \cup {"memory"}]
             infos == [s.infos EXCEPT ![info] = "nobody"]
             harm == IF s.infos[info] = holder THEN s.harm ELSE s.harm \cup {"memory"}
  <2>0. t = [s EXCEPT !.infos = infos, !.harm = harm]
    OBVIOUS
  <2>2. FreeInfo(s, info, holder) = t
    BY <1>2 DEF FreeInfo
  <2>3. /\ infos \in [Infos -> Holders]
        /\ \A x \in Infos : infos[x] = IF x = info THEN "nobody" ELSE s.infos[x]
    BY <1>2 DEF Process, Holders
  <2>4. harm \in SUBSET {"file", "memory"}
    BY DEF Process
  <2>5. harm = IF s.infos[info] = holder THEN s.harm ELSE s.harm \cup {"memory"}
    OBVIOUS
  <2> HIDE DEF t, infos, harm
  <2>1. t = [files |-> s.files, infos |-> infos, harm |-> harm]
    BY <2>0 DEF Process
  <2> QED BY <1>2, <2>1, <2>2, <2>3, <2>4, <2>5 DEF Process
<1> QED BY <1>1, <1>2

LEMMA NodeCloseFacts ==
    ASSUME NEW s \in Process, NEW node \in Node, NEW holder, NEW t, t = NodeClose(s, node, holder)
    PROVE  /\ t \in Process
           /\ \A x \in Fds : t.files[x] = IF x = node.socket THEN "nobody" ELSE s.files[x]
           /\ \A x \in Infos : t.infos[x] = IF x = node.info THEN "nobody" ELSE s.infos[x]
           /\ s.harm \subseteq t.harm
           /\ "file" \in t.harm <=>
                 \/ "file" \in s.harm
                 \/ node.socket # None /\ s.files[node.socket] \notin {"nobody", holder}
           /\ "memory" \in t.harm <=>
                 "memory" \in s.harm \/ (node.info # None /\ s.infos[node.info] # holder)
<1> DEFINE u == CloseFile(s, node.socket, holder)
<1>1. node.socket \in Fds \cup {None} /\ node.info \in Infos \cup {None}
  BY DEF Node
<1>2. /\ u \in Process /\ u.infos = s.infos
      /\ \A x \in Fds : u.files[x] = IF x = node.socket THEN "nobody" ELSE s.files[x]
      /\ u.harm = IF node.socket # None /\ s.files[node.socket] \notin {"nobody", holder}
                  THEN s.harm \cup {"file"} ELSE s.harm
  BY <1>1, CloseFileFacts
<1>3. t = FreeInfo(u, node.info, holder)
  BY DEF NodeClose
<1> HIDE DEF u
<1>4. /\ t \in Process /\ t.files = u.files
      /\ \A x \in Infos : t.infos[x] = IF x = node.info THEN "nobody" ELSE u.infos[x]
      /\ t.harm = IF node.info # None /\ u.infos[node.info] # holder
                  THEN u.harm \cup {"memory"} ELSE u.harm
  <2> DEFINE info == node.info
             v == FreeInfo(u, info, holder)
  <2>1. u \in Process /\ info \in Infos \cup {None}
    BY <1>1, <1>2
  <2> HIDE DEF info
  <2>2. /\ v \in Process /\ v.files = u.files
        /\ \A x \in Infos : v.infos[x] = IF x = info THEN "nobody" ELSE u.infos[x]
        /\ v.harm = IF info # None /\ u.infos[info] # holder
                    THEN u.harm \cup {"memory"} ELSE u.harm
    BY <2>1, FreeInfoFacts
  <2>3. t = v /\ info = node.info
    BY <1>3 DEF info
  <2> HIDE DEF v
  <2> QED BY <2>2, <2>3
<1>5. /\ t \in Process /\ s.harm \subseteq t.harm
      /\ \A x \in Fds : t.files[x] = IF x = node.socket THEN "nobody" ELSE s.files[x]
      /\ \A x \in Infos : t.infos[x] = IF x = node.info THEN "nobody" ELSE s.infos[x]
  BY <1>2, <1>4
<1>6. "file" \in t.harm <=>
         \/ "file" \in s.harm
         \/ node.socket # None /\ s.files[node.socket] \notin {"nobody", holder}
  BY <1>2, <1>4
<1>7. "memory" \in t.harm <=>
         "memory" \in s.harm \/ (node.info # None /\ s.infos[node.info] # holder)
  BY <1>2, <1>4
<1> QED BY <1>5, <1>6, <1>7

\* The kernel finds the lowest descriptor that is free, if there is one.
LEMMA LowestFreeFacts ==
    ASSUME NEW s \in Process, Free(s.files) # {}
    PROVE  LowestFree(s.files) \in Fds /\ s.files[LowestFree(s.files)] = "nobody"
<1> DEFINE F == Free(s.files)
<1>1. F \subseteq Fds /\ F \subseteq Nat /\ \A x \in F : s.files[x] = "nobody"
  BY NodesAssumption DEF Free, Process
<1>2. PICK x \in F : \A y \in F : <<y, x>> \notin OpToRel(<, Nat)
  BY <1>1, NatLessThanWellFounded, WFMin, Zenon
<1>3. \A y \in F : x <= y
  <2>1. ASSUME NEW y \in F, y < x PROVE FALSE
    <3>1. <<y, x>> \in Nat \X Nat /\ <<y, x>>[1] < <<y, x>>[2]
      BY <1>1, <2>1
    <3>2. <<y, x>> \in OpToRel(<, Nat)
      BY <3>1 DEF OpToRel
    <3> QED BY <1>2, <3>2
  <2> QED BY <1>1, <2>1
<1>4. LowestFree(s.files) \in F
  BY <1>3 DEF LowestFree
<1> QED BY <1>1, <1>4

LEMMA TakeFacts ==
    ASSUME NEW s \in Process, NEW fd \in Fds, NEW info \in Infos, NEW holder \in Holders,
           NEW t, t = Take(s, fd, info, holder)
    PROVE  /\ t \in Process /\ t.harm = s.harm
           /\ \A x \in Fds : t.files[x] = IF x = fd THEN holder ELSE s.files[x]
           /\ \A x \in Infos : t.infos[x] = IF x = info THEN holder ELSE s.infos[x]
<1> DEFINE files == [s.files EXCEPT ![fd] = holder]
           infos == [s.infos EXCEPT ![info] = holder]
<1>1. t = [files |-> files, infos |-> infos, harm |-> s.harm]
  BY DEF Take, Process
<1>2. /\ files \in [Fds -> Holders]
      /\ \A x \in Fds : files[x] = IF x = fd THEN holder ELSE s.files[x]
  BY DEF Process
<1>3. /\ infos \in [Infos -> Holders]
      /\ \A x \in Infos : infos[x] = IF x = info THEN holder ELSE s.infos[x]
  BY DEF Process
<1> HIDE DEF files, infos
<1> QED BY <1>1, <1>2, <1>3 DEF Process

----------------------------------------------------------------------------
\* What every call keeps: the program does no harm but by what is stale, and none
\* is undone.
CallIsSafe ==
    HoldingInv' /\ os.harm \subseteq os'.harm /\ (os'.harm # os.harm => stale)

\* What every call but those for the listener keeps.
ListenerKept ==
    /\ local' = local
    /\ ListenerLost => remote.socket = local.socket /\ (stale \/ "file" \in os.harm)

LEMMA NoneIsNothing == None \notin Fds /\ None \notin Infos
BY NodesAssumption DEF None

LEMMA CountFewer ==
    ASSUME NEW S, NEW T, S \subseteq T, T \subseteq Fds \/ T \subseteq Infos,
           NEW n \in Nat, Cardinality(T) <= n
    PROVE  IsFiniteSet(S) /\ Cardinality(S) <= n
<1>1. IsFiniteSet(T)
  BY NodesAssumption, FS_Subset
<1>2. IsFiniteSet(S) /\ Cardinality(S) <= Cardinality(T)
  BY <1>1, FS_Subset
<1>3. Cardinality(S) \in Nat /\ Cardinality(T) \in Nat
  BY <1>1, <1>2, FS_CardinalityType
<1> QED BY <1>2, <1>3

LEMMA CountOneMore ==
    ASSUME NEW S, S \subseteq Fds \/ S \subseteq Infos, NEW x, NEW n \in Nat, Cardinality(S) <= n
    PROVE  Cardinality(S \cup {x}) <= n + 1
<1>1. IsFiniteSet(S)
  BY NodesAssumption, FS_Subset
<1>2. Cardinality(S) \in Nat
  BY <1>1, FS_CardinalityType
<1>3. Cardinality(S \cup {x}) = IF x \in S THEN Cardinality(S) ELSE Cardinality(S) + 1
  BY <1>1, FS_AddElement
<1> QED BY <1>2, <1>3

LEMMA LeavingsFacts ==
    ASSUME HoldingType
    PROVE  /\ leftovers \in Nat
           /\ Remotes(os.files) \subseteq Fds /\ Remotes(os.infos) \subseteq Infos
           /\ \A h : Leavings(os.files, h) \subseteq Fds /\ Leavings(os.infos, h) \subseteq Infos
BY NodesAssumption DEF HoldingType, Process, Remotes, Leavings

\* node_close of the remote node.
LEMMA CloseRemote ==
    ASSUME HoldingInv, NEW t, t = NodeClose(os, remote, "remote")
    PROVE  /\ t \in Process /\ os.harm \subseteq t.harm /\ (t.harm # os.harm => stale)
           /\ "file" \notin t.harm /\ local.socket # None => t.files[local.socket] = "local"
           /\ "memory" \notin t.harm /\ local.info # None => t.infos[local.info] = "local"
           /\ t.harm = {} =>
                 /\ \A x \in Fds : t.files[x] = "local" => x = local.socket
                 /\ \A x \in Infos : t.infos[x] = "local" => x = local.info
                 /\ Cardinality(Remotes(t.files)) <= leftovers
                 /\ Cardinality(Remotes(t.infos)) <= leftovers
           /\ local.socket # None /\ os.files[local.socket] = "local"
              /\ t.files[local.socket] # "local" =>
                 remote.socket = local.socket /\ (stale \/ "file" \in os.harm)
<1>1. /\ HoldingType /\ SocketsHeld /\ InfosHeld /\ LeftoversCounted
      /\ os \in Process /\ local \in Node /\ remote \in Node
  BY DEF HoldingInv, HoldingType
<1>2. /\ t \in Process
      /\ \A x \in Fds : t.files[x] = IF x = remote.socket THEN "nobody" ELSE os.files[x]
      /\ \A x \in Infos : t.infos[x] = IF x = remote.info THEN "nobody" ELSE os.infos[x]
      /\ os.harm \subseteq t.harm
      /\ "file" \in t.harm <=>
            \/ "file" \in os.harm
            \/ remote.socket # None /\ os.files[remote.socket] \notin {"nobody", "remote"}
      /\ "memory" \in t.harm <=>
            "memory" \in os.harm \/ (remote.info # None /\ os.infos[remote.info] # "remote")
  BY <1>1, NodeCloseFacts
<1>3. /\ local.socket # None => local.socket \in Fds
      /\ local.info # None => local.info \in Infos
  BY <1>1 DEF Node
<1>4. ~stale => t.harm = os.harm
  <2> SUFFICES ASSUME ~stale PROVE t.harm = os.harm
    OBVIOUS
  <2>1. "file" \in t.harm <=> "file" \in os.harm
    BY <1>1, <1>2 DEF SocketsHeld
  <2>2. "memory" \in t.harm <=> "memory" \in os.harm
    BY <1>1, <1>2 DEF InfosHeld
  <2>3. os.harm \subseteq {"file", "memory"} /\ t.harm \subseteq {"file", "memory"}
    BY <1>1, <1>2 DEF Process
  <2> QED BY <2>1, <2>2, <2>3
<1>5. "file" \notin t.harm /\ local.socket # None => t.files[local.socket] = "local"
  BY <1>1, <1>2, <1>3 DEF SocketsHeld
<1>6. "memory" \notin t.harm /\ local.info # None => t.infos[local.info] = "local"
  BY <1>1, <1>2, <1>3 DEF InfosHeld
<1>7. ASSUME t.harm = {}
      PROVE  /\ \A x \in Fds : t.files[x] = "local" => x = local.socket
             /\ \A x \in Infos : t.infos[x] = "local" => x = local.info
             /\ Cardinality(Remotes(t.files)) <= leftovers
             /\ Cardinality(Remotes(t.infos)) <= leftovers
  <2>1. os.harm = {}
    BY <1>2, <1>7
  <2>2. DOMAIN t.files = Fds /\ DOMAIN t.infos = Infos
        /\ DOMAIN os.files = Fds /\ DOMAIN os.infos = Infos
    BY <1>1, <1>2 DEF Process
  <2>3. Remotes(t.files) \subseteq Leavings(os.files, remote.socket)
    BY <1>2, <2>2 DEF Remotes, Leavings
  <2>4. Remotes(t.infos) \subseteq Leavings(os.infos, remote.info)
    BY <1>2, <2>2 DEF Remotes, Leavings
  <2>5. Cardinality(Remotes(t.files)) <= leftovers
    BY <1>1, <2>1, <2>3, LeavingsFacts, CountFewer DEF LeftoversCounted
  <2>6. Cardinality(Remotes(t.infos)) <= leftovers
    BY <1>1, <2>1, <2>4, LeavingsFacts, CountFewer DEF LeftoversCounted
  <2> QED BY <1>1, <1>2, <2>1, <2>5, <2>6 DEF LeftoversCounted
<1>8. ASSUME local.socket # None, os.files[local.socket] = "local",
             t.files[local.socket] # "local"
      PROVE  remote.socket = local.socket /\ (stale \/ "file" \in os.harm)
  <2>1. remote.socket = local.socket
    BY <1>2, <1>3, <1>8
  <2> QED BY <1>1, <1>8, <2>1 DEF SocketsHeld
<1> QED BY <1>2, <1>4, <1>5, <1>6, <1>7, <1>8

\* user_disconnect
LEMMA UserDisconnectSafe ==
    ASSUME HoldingInv, UserDisconnect, UNCHANGED <<local, leftovers>>
    PROVE  CallIsSafe /\ ListenerKept
<1> DEFINE t == NodeClose(os, remote, "remote")
<1>1. /\ os' = t /\ remote' = Closed /\ state' = "not_connected" /\ stale' = FALSE
      /\ Closed.socket = None /\ Closed.info = None /\ Closed \in Node
  BY DEF UserDisconnect, Closed, Node
<1>2. t = NodeClose(os, remote, "remote")
  OBVIOUS
<1> HIDE DEF t
<1>3. HoldingType /\ NodesMatchState
  BY DEF HoldingInv
<1>4. HoldingType'
  BY <1>1, <1>2, <1>3, CloseRemote DEF HoldingType
<1>5. SocketsHeld' /\ InfosHeld' /\ NodesMatchState'
  BY <1>1, <1>2, <1>3, CloseRemote DEF SocketsHeld, InfosHeld, NodesMatchState
<1>6. LeftoversCounted'
  BY <1>1, <1>2, CloseRemote DEF LeftoversCounted, Leavings, Remotes
<1> QED BY <1>1, <1>2, <1>4, <1>5, <1>6, CloseRemote DEF CallIsSafe, ListenerKept, ListenerLost, HoldingInv

\* A descriptor and a block that were free become a holder's.
LEMMA Taken ==
    ASSUME NEW t \in Process, NEW fd \in Fds, t.files[fd] = "nobody",
           NEW info \in Infos, t.infos[info] = "nobody",
           NEW u, u = Take(t, fd, info, "remote")
    PROVE  /\ u \in Process /\ u.harm = t.harm
           /\ u.files[fd] = "remote" /\ u.infos[info] = "remote"
           /\ \A x \in Fds : x # fd => u.files[x] = t.files[x]
           /\ \A x \in Infos : x # info => u.infos[x] = t.infos[x]
           /\ Remotes(u.files) = Remotes(t.files) \cup {fd}
           /\ Remotes(u.infos) = Remotes(t.infos) \cup {info}
<1> DEFINE holder == "remote"
<1>1. holder \in Holders /\ u = Take(t, fd, info, holder) /\ holder = "remote"
  BY DEF Holders
<1> HIDE DEF holder
<1>2. /\ u \in Process /\ u.harm = t.harm
      /\ \A x \in Fds : u.files[x] = IF x = fd THEN holder ELSE t.files[x]
      /\ \A x \in Infos : u.infos[x] = IF x = info THEN holder ELSE t.infos[x]
  BY <1>1, TakeFacts
<1>3. DOMAIN u.files = Fds /\ DOMAIN t.files = Fds /\ DOMAIN u.infos = Infos /\ DOMAIN t.infos = Infos
  BY <1>2 DEF Process
<1>4. Remotes(u.files) = Remotes(t.files) \cup {fd}
  BY <1>1, <1>2, <1>3 DEF Remotes
<1>5. Remotes(u.infos) = Remotes(t.infos) \cup {info}
  BY <1>1, <1>2, <1>3 DEF Remotes
<1> QED BY <1>1, <1>2, <1>4, <1>5

\* user_begin_connect
LEMMA UserBeginConnectSafe ==
    ASSUME HoldingInv, UserBeginConnect, UNCHANGED <<local, leftovers>>
    PROVE  CallIsSafe /\ ListenerKept
<1> DEFINE closed == NodeClose(os, remote, "remote")
           fd == LowestFree(closed.files)
<1>1. HoldingType /\ NodesMatchState /\ local \in Node
  BY DEF HoldingInv, HoldingType
<1>2. /\ closed \in Process /\ os.harm \subseteq closed.harm /\ (closed.harm # os.harm => stale)
      /\ "file" \notin closed.harm /\ local.socket # None => closed.files[local.socket] = "local"
      /\ "memory" \notin closed.harm /\ local.info # None => closed.infos[local.info] = "local"
      /\ closed.harm = {} =>
            /\ \A x \in Fds : closed.files[x] = "local" => x = local.socket
            /\ \A x \in Infos : closed.infos[x] = "local" => x = local.info
            /\ Cardinality(Remotes(closed.files)) <= leftovers
            /\ Cardinality(Remotes(closed.infos)) <= leftovers
      /\ local.socket # None /\ os.files[local.socket] = "local"
         /\ closed.files[local.socket] # "local" =>
            remote.socket = local.socket /\ (stale \/ "file" \in os.harm)
  BY CloseRemote
<1>3. Free(closed.files) # {} => fd \in Fds /\ closed.files[fd] = "nobody"
  BY <1>2, LowestFreeFacts
<1>4. /\ \A info \in Free(closed.infos) : info \in Infos /\ closed.infos[info] = "nobody"
      /\ DOMAIN closed.files = Fds /\ DOMAIN closed.infos = Infos
  BY <1>2 DEF Free, Process
<1>5. CASE UserDisconnect
  BY <1>5, UserDisconnectSafe
<1>6. ASSUME NEW info \in Free(closed.infos), os' = closed,
             \/ remote' = [socket |-> None, info |-> info]
             \/ Free(closed.files) # {} /\ remote' = [socket |-> fd, info |-> info],
             state' = "not_connected", stale' = TRUE
      PROVE  CallIsSafe /\ ListenerKept
  <2>1. remote' \in Node
    BY <1>3, <1>4, <1>6 DEF Node
  <2> HIDE DEF closed, fd
  <2>2. HoldingType'
    BY <1>1, <1>2, <1>6, <2>1 DEF HoldingType
  <2>3. SocketsHeld' /\ InfosHeld' /\ NodesMatchState'
    BY <1>1, <1>2, <1>6 DEF SocketsHeld, InfosHeld, NodesMatchState
  <2>4. LeftoversCounted'
    BY <1>2, <1>6 DEF LeftoversCounted, Leavings, Remotes
  <2> QED BY <1>2, <1>6, <2>2, <2>3, <2>4 DEF CallIsSafe, ListenerKept, ListenerLost, HoldingInv
<1>7. ASSUME NEW info \in Free(closed.infos), Free(closed.files) # {},
             os' = Take(closed, fd, info, "remote"),
             remote' = [socket |-> fd, info |-> info],
             state' = "connecting", stale' = FALSE
      PROVE  CallIsSafe /\ ListenerKept
  <2>1. fd \in Fds /\ closed.files[fd] = "nobody"
    BY <1>3, <1>7
  <2> HIDE DEF closed, fd
  <2>2. info \in Infos /\ closed.infos[info] = "nobody"
    BY <1>4, <1>7
  <2>3. /\ os' \in Process /\ os'.harm = closed.harm
        /\ os'.files[fd] = "remote" /\ os'.infos[info] = "remote"
        /\ \A x \in Fds : x # fd => os'.files[x] = closed.files[x]
        /\ \A x \in Infos : x # info => os'.infos[x] = closed.infos[x]
        /\ Remotes(os'.files) = Remotes(closed.files) \cup {fd}
        /\ Remotes(os'.infos) = Remotes(closed.infos) \cup {info}
    BY <1>2, <1>7, <2>1, <2>2, Taken, SMTT(30)
  <2>4. remote' \in Node /\ remote'.socket = fd /\ remote'.info = info /\ fd # None
    BY <1>7, <2>1, <2>2, NoneIsNothing DEF Node
  <2>5. HoldingType'
    BY <1>1, <1>7, <2>3, <2>4 DEF HoldingType
  <2>6. /\ local.socket # None => local.socket \in Fds
        /\ local.info # None => local.info \in Infos
    BY <1>1 DEF Node
  <2>7. SocketsHeld' /\ InfosHeld' /\ NodesMatchState'
    BY <1>1, <1>2, <1>7, <2>1, <2>2, <2>3, <2>4, <2>6
       DEF SocketsHeld, InfosHeld, NodesMatchState
  <2>8. LeftoversCounted'
    <3> SUFFICES ASSUME os'.harm = {} PROVE LeftoversCounted'
      BY DEF LeftoversCounted
    <3>1. /\ Remotes(closed.files) \subseteq Fds /\ Remotes(closed.infos) \subseteq Infos
          /\ leftovers \in Nat
      BY <1>1, <1>4, LeavingsFacts DEF Remotes
    <3>2. /\ Cardinality(Remotes(os'.files) \ {fd}) <= leftovers
          /\ Cardinality(Remotes(os'.infos) \ {info}) <= leftovers
      BY <1>2, <2>3, <3>1, CountFewer
    <3>3. /\ \A x \in Fds : os'.files[x] = "local" => x = local.socket
          /\ \A x \in Infos : os'.infos[x] = "local" => x = local.info
      BY <1>2, <2>3
    <3>4. /\ Leavings(os.files, remote.socket)' = Remotes(os'.files) \ {fd}
          /\ Leavings(os.infos, remote.info)' = Remotes(os'.infos) \ {info}
      BY <1>7, <2>4 DEF Leavings, Remotes
    <3> QED BY <3>2, <3>3, <3>4 DEF LeftoversCounted
  <2>9. ListenerKept
    BY <1>2, <2>1, <2>3, <2>6, <1>7 DEF ListenerKept, ListenerLost, SocketsHeld
  <2> QED BY <1>2, <1>7, <2>3, <2>5, <2>7, <2>8, <2>9 DEF CallIsSafe, HoldingInv
<1> HIDE DEF closed, fd
<1> QED BY <1>5, <1>6, <1>7 DEF UserBeginConnect, closed, fd

\* node_close of the local node, which is never stale.
LEMMA CloseLocal ==
    ASSUME HoldingInv, NEW t, t = NodeClose(os, local, "local")
    PROVE  /\ t \in Process /\ t.harm = os.harm
           /\ "file" \notin t.harm /\ ~stale /\ remote.socket # None =>
                 t.files[remote.socket] = "remote"
           /\ "memory" \notin t.harm /\ ~stale /\ remote.info # None =>
                 t.infos[remote.info] = "remote"
           /\ t.harm = {} =>
                 /\ \A x \in Fds : t.files[x] # "local"
                 /\ \A x \in Infos : t.infos[x] # "local"
                 /\ Cardinality(Leavings(t.files, remote.socket)) <= leftovers
                 /\ Cardinality(Leavings(t.infos, remote.info)) <= leftovers
<1>1. /\ HoldingType /\ SocketsHeld /\ InfosHeld /\ LeftoversCounted
      /\ os \in Process /\ local \in Node /\ remote \in Node
  BY DEF HoldingInv, HoldingType
<1>2. /\ t \in Process
      /\ \A x \in Fds : t.files[x] = IF x = local.socket THEN "nobody" ELSE os.files[x]
      /\ \A x \in Infos : t.infos[x] = IF x = local.info THEN "nobody" ELSE os.infos[x]
      /\ "file" \in t.harm <=>
            \/ "file" \in os.harm
            \/ local.socket # None /\ os.files[local.socket] \notin {"nobody", "local"}
      /\ "memory" \in t.harm <=>
            "memory" \in os.harm \/ (local.info # None /\ os.infos[local.info] # "local")
  BY <1>1, NodeCloseFacts
<1>3. t.harm = os.harm
  <2>1. "file" \in t.harm <=> "file" \in os.harm
    BY <1>1, <1>2 DEF SocketsHeld
  <2>2. "memory" \in t.harm <=> "memory" \in os.harm
    BY <1>1, <1>2 DEF InfosHeld
  <2>3. os.harm \subseteq {"file", "memory"} /\ t.harm \subseteq {"file", "memory"}
    BY <1>1, <1>2 DEF Process
  <2> QED BY <2>1, <2>2, <2>3
<1>4. /\ remote.socket # None => remote.socket \in Fds
      /\ remote.info # None => remote.info \in Infos
  BY <1>1 DEF Node
<1>5. "file" \notin t.harm /\ ~stale /\ remote.socket # None => t.files[remote.socket] = "remote"
  BY <1>1, <1>2, <1>3, <1>4 DEF SocketsHeld
<1>6. "memory" \notin t.harm /\ ~stale /\ remote.info # None => t.infos[remote.info] = "remote"
  BY <1>1, <1>2, <1>3, <1>4 DEF InfosHeld
<1>7. ASSUME t.harm = {}
      PROVE  /\ \A x \in Fds : t.files[x] # "local"
             /\ \A x \in Infos : t.infos[x] # "local"
             /\ Cardinality(Leavings(t.files, remote.socket)) <= leftovers
             /\ Cardinality(Leavings(t.infos, remote.info)) <= leftovers
  <2>1. DOMAIN t.files = Fds /\ DOMAIN t.infos = Infos
        /\ DOMAIN os.files = Fds /\ DOMAIN os.infos = Infos
    BY <1>1, <1>2 DEF Process
  <2>2. Leavings(t.files, remote.socket) \subseteq Leavings(os.files, remote.socket)
    BY <1>2, <2>1 DEF Remotes, Leavings
  <2>3. Leavings(t.infos, remote.info) \subseteq Leavings(os.infos, remote.info)
    BY <1>2, <2>1 DEF Remotes, Leavings
  <2>4. Cardinality(Leavings(t.files, remote.socket)) <= leftovers
    BY <1>1, <1>3, <1>7, <2>2, LeavingsFacts, CountFewer DEF LeftoversCounted
  <2>5. Cardinality(Leavings(t.infos, remote.info)) <= leftovers
    BY <1>1, <1>3, <1>7, <2>3, LeavingsFacts, CountFewer DEF LeftoversCounted
  <2> QED BY <1>1, <1>2, <1>3, <1>7, <2>4, <2>5 DEF LeftoversCounted
<1> QED BY <1>2, <1>3, <1>5, <1>6, <1>7

\* The listener is closed, whatever comes after.
LEMMA LocalClosedSafe ==
    ASSUME HoldingInv, os' = NodeClose(os, local, "local"), local' = Closed,
           UNCHANGED <<remote, state, stale, leftovers>>
    PROVE  CallIsSafe
<1> DEFINE t == NodeClose(os, local, "local")
<1>1. t = NodeClose(os, local, "local") /\ os' = t
  OBVIOUS
<1> HIDE DEF t
<1>2. HoldingType /\ NodesMatchState
  BY DEF HoldingInv
<1>3. Closed \in Node /\ Closed.socket = None /\ Closed.info = None
  BY DEF Closed, Node
<1>4. HoldingType'
  BY <1>1, <1>2, <1>3, CloseLocal DEF HoldingType
<1>5. SocketsHeld' /\ InfosHeld' /\ NodesMatchState'
  BY <1>1, <1>2, <1>3, CloseLocal DEF SocketsHeld, InfosHeld, NodesMatchState
<1>6. LeftoversCounted'
  BY <1>1, CloseLocal DEF LeftoversCounted, Leavings, Remotes
<1> QED BY <1>1, <1>4, <1>5, <1>6, CloseLocal DEF CallIsSafe, HoldingInv

\* chat_begin_listen
LEMMA ChatBeginListenSafe ==
    ASSUME HoldingInv, ChatBeginListen, UNCHANGED <<remote, state, stale, leftovers>>
    PROVE  CallIsSafe
<1> DEFINE closed == NodeClose(os, local, "local")
           fd == LowestFree(closed.files)
<1>1. /\ HoldingType /\ NodesMatchState /\ remote \in Node
  BY DEF HoldingInv, HoldingType
<1>2. /\ closed \in Process /\ closed.harm = os.harm
      /\ "file" \notin closed.harm /\ ~stale /\ remote.socket # None =>
            closed.files[remote.socket] = "remote"
      /\ "memory" \notin closed.harm /\ ~stale /\ remote.info # None =>
            closed.infos[remote.info] = "remote"
      /\ closed.harm = {} =>
            /\ \A x \in Fds : closed.files[x] # "local"
            /\ \A x \in Infos : closed.infos[x] # "local"
            /\ Cardinality(Leavings(closed.files, remote.socket)) <= leftovers
            /\ Cardinality(Leavings(closed.infos, remote.info)) <= leftovers
  BY CloseLocal
<1>3. Free(closed.files) # {} => fd \in Fds /\ closed.files[fd] = "nobody"
  BY <1>2, LowestFreeFacts
<1>4. /\ \A info \in Free(closed.infos) : info \in Infos /\ closed.infos[info] = "nobody"
      /\ DOMAIN closed.files = Fds /\ DOMAIN closed.infos = Infos
  BY <1>2 DEF Free, Process
<1>5. CASE os' = closed /\ local' = Closed
  BY <1>5, LocalClosedSafe
<1>6. ASSUME NEW info \in Free(closed.infos), Free(closed.files) # {},
             os' = Take(closed, fd, info, "local"),
             local' = [socket |-> fd, info |-> info]
      PROVE  CallIsSafe
  <2> DEFINE holder == "local"
  <2>1. fd \in Fds /\ closed.files[fd] = "nobody"
    BY <1>3, <1>6
  <2>2. os' = Take(closed, fd, info, holder) /\ holder \in Holders /\ holder = "local"
    BY <1>6 DEF Holders
  <2> HIDE DEF closed, fd, holder
  <2>3. info \in Infos /\ closed.infos[info] = "nobody"
    BY <1>4, <1>6
  <2>4. /\ os' \in Process /\ os'.harm = closed.harm
        /\ \A x \in Fds : os'.files[x] = IF x = fd THEN holder ELSE closed.files[x]
        /\ \A x \in Infos : os'.infos[x] = IF x = info THEN holder ELSE closed.infos[x]
    BY <1>2, <2>1, <2>2, <2>3, TakeFacts
  <2>5. local' \in Node /\ local'.socket = fd /\ local'.info = info /\ fd # None /\ info # None
    BY <1>6, <2>1, <2>3, NoneIsNothing DEF Node
  <2>6. HoldingType'
    BY <1>1, <1>2, <2>4, <2>5 DEF HoldingType
  <2>7. /\ remote.socket # None => remote.socket \in Fds
        /\ remote.info # None => remote.info \in Infos
    BY <1>1 DEF Node
  <2>8. SocketsHeld' /\ InfosHeld' /\ NodesMatchState'
    BY <1>1, <1>2, <2>1, <2>2, <2>3, <2>4, <2>5, <2>7
       DEF SocketsHeld, InfosHeld, NodesMatchState
  <2>9. Remotes(os'.files) = Remotes(closed.files) /\ Remotes(os'.infos) = Remotes(closed.infos)
    <3>1. DOMAIN os'.files = Fds /\ DOMAIN os'.infos = Infos
      BY <2>4 DEF Process
    <3> QED BY <1>4, <2>1, <2>2, <2>3, <2>4, <3>1 DEF Remotes
  <2>10. LeftoversCounted'
    <3>1. /\ Leavings(os.files, remote.socket)' = Leavings(closed.files, remote.socket)
          /\ Leavings(os.infos, remote.info)' = Leavings(closed.infos, remote.info)
      BY <2>9 DEF Leavings, Remotes
    <3> QED BY <1>2, <2>2, <2>4, <2>5, <3>1 DEF LeftoversCounted
  <2> QED BY <1>2, <2>4, <2>6, <2>8, <2>10 DEF CallIsSafe, HoldingInv
<1> HIDE DEF closed, fd
<1> QED BY <1>5, <1>6 DEF ChatBeginListen, closed, fd

LEMMA NoCallIsSafe ==
    ASSUME HoldingInv, UNCHANGED <<local, remote, os, state, stale, leftovers>>
    PROVE  CallIsSafe /\ ListenerKept
BY DEF CallIsSafe, ListenerKept, ListenerLost, HoldingInv, HoldingType, SocketsHeld, InfosHeld,
       NodesMatchState, LeftoversCounted, Leavings, Remotes

\* chat_end_listen
LEMMA ChatEndListenSafe ==
    ASSUME HoldingInv, ChatEndListen, UNCHANGED <<remote, state, stale, leftovers>>
    PROVE  CallIsSafe
BY LocalClosedSafe, NoCallIsSafe DEF ChatEndListen

\* A recv or a send that fails.
LEMMA LoseSocketSafe ==
    ASSUME HoldingInv, LoseSocket, state # "connecting",
           UNCHANGED <<local, state, stale, leftovers>>
    PROVE  CallIsSafe /\ ListenerKept
<1> DEFINE fd == remote.socket
<1>1. /\ HoldingType /\ SocketsHeld /\ InfosHeld /\ NodesMatchState /\ LeftoversCounted
      /\ os \in Process /\ local \in Node /\ remote \in Node
      /\ fd \in Fds \cup {None}
  BY DEF HoldingInv, HoldingType, Node
<1>2. /\ os' = CloseFile(os, fd, "remote")
      /\ remote' = [remote EXCEPT !.socket = None]
  BY DEF LoseSocket
<1>3. fd = remote.socket
  OBVIOUS
<1> HIDE DEF fd
<1>4. /\ os' \in Process /\ os'.infos = os.infos
      /\ \A x \in Fds : os'.files[x] = IF x = fd THEN "nobody" ELSE os.files[x]
      /\ os'.harm = IF fd # None /\ os.files[fd] \notin {"nobody", "remote"}
                    THEN os.harm \cup {"file"} ELSE os.harm
  BY <1>1, <1>2, CloseFileFacts, SMTT(30)
<1>5. remote' \in Node /\ remote'.socket = None /\ remote'.info = remote.info
  BY <1>1, <1>2 DEF Node
<1>6. HoldingType'
  BY <1>1, <1>4, <1>5 DEF HoldingType
<1>7. /\ local.socket # None => local.socket \in Fds
      /\ local.info # None => local.info \in Infos
  BY <1>1 DEF Node
<1>8. SocketsHeld' /\ InfosHeld' /\ NodesMatchState'
  BY <1>1, <1>3, <1>4, <1>5, <1>7 DEF SocketsHeld, InfosHeld, NodesMatchState
<1>9. os'.harm # os.harm => stale
  BY <1>1, <1>3, <1>4 DEF SocketsHeld
<1>10. LeftoversCounted'
  <2> SUFFICES ASSUME os'.harm = {} PROVE LeftoversCounted'
    BY DEF LeftoversCounted
  <2>1. os.harm = {}
    BY <1>4
  <2>2. DOMAIN os'.files = Fds /\ DOMAIN os.files = Fds
    BY <1>1, <1>4 DEF Process
  <2>3. Leavings(os.files, remote.socket)' \subseteq Leavings(os.files, remote.socket)
    BY <1>3, <1>4, <1>5, <2>2 DEF Leavings, Remotes
  <2>4. Leavings(os.infos, remote.info)' = Leavings(os.infos, remote.info)
    BY <1>4, <1>5 DEF Leavings, Remotes
  <2>5. Cardinality(Leavings(os.files, remote.socket)') <= leftovers
    BY <1>1, <2>1, <2>3, LeavingsFacts, CountFewer DEF LeftoversCounted
  <2> QED BY <1>1, <1>4, <2>1, <2>4, <2>5 DEF LeftoversCounted
<1>11. ListenerKept
  BY <1>1, <1>3, <1>4, <1>7 DEF ListenerKept, ListenerLost, SocketsHeld
<1> QED BY <1>4, <1>6, <1>8, <1>9, <1>10, <1>11 DEF CallIsSafe, HoldingInv

\* user_accept, where the program is not connected unless a descriptor of the
\* listener was closed for it.
LEMMA UserAcceptSafe ==
    ASSUME HoldingInv, UserAccept, UNCHANGED local,
           "file" \notin os.harm => state = "not_connected"
    PROVE  CallIsSafe /\ ListenerKept
<1> DEFINE fd == LowestFree(os.files)
<1>1. /\ HoldingType /\ SocketsHeld /\ InfosHeld /\ NodesMatchState /\ LeftoversCounted
      /\ os \in Process /\ local \in Node /\ remote \in Node /\ leftovers \in Nat
      /\ DOMAIN os.files = Fds /\ DOMAIN os.infos = Infos
  BY LeavingsFacts DEF HoldingInv, HoldingType, Process
<1>2. stale' = FALSE /\ local' = local
  BY DEF UserAccept
<1>3. Free(os.files) # {} => fd \in Fds /\ os.files[fd] = "nobody"
  BY <1>1, LowestFreeFacts
<1>4. \A info \in Free(os.infos) : info \in Infos /\ os.infos[info] = "nobody"
  BY <1>1 DEF Free
<1>5. CASE remote' = Closed /\ UNCHANGED <<os, state, leftovers>>
  <2>1. Closed \in Node /\ Closed.socket = None /\ Closed.info = None
    BY DEF Closed, Node
  <2>2. HoldingType'
    BY <1>1, <1>2, <1>5, <2>1 DEF HoldingType
  <2>3. SocketsHeld' /\ InfosHeld' /\ NodesMatchState'
    BY <1>1, <1>2, <1>5, <2>1 DEF SocketsHeld, InfosHeld, NodesMatchState
  <2>4. LeftoversCounted'
    BY <1>1, <1>5 DEF LeftoversCounted, Leavings, Remotes
  <2> QED BY <1>5, <2>2, <2>3, <2>4 DEF CallIsSafe, ListenerKept, ListenerLost, HoldingInv
<1>6. ASSUME NEW info \in Free(os.infos), Free(os.files) # {},
             os' = Take(os, fd, info, "remote"),
             remote' = [socket |-> fd, info |-> info],
             \/ state' = "connected" /\ UNCHANGED leftovers
             \/ /\ leftovers < MaxLeftovers
                /\ leftovers' = leftovers + 1
                /\ UNCHANGED state
      PROVE  CallIsSafe /\ ListenerKept
  <2>1. fd \in Fds /\ os.files[fd] = "nobody"
    BY <1>3, <1>6
  <2> HIDE DEF fd
  <2>2. info \in Infos /\ os.infos[info] = "nobody"
    BY <1>4, <1>6
  <2>3. /\ os' \in Process /\ os'.harm = os.harm
        /\ os'.files[fd] = "remote" /\ os'.infos[info] = "remote"
        /\ \A x \in Fds : x # fd => os'.files[x] = os.files[x]
        /\ \A x \in Infos : x # info => os'.infos[x] = os.infos[x]
        /\ Remotes(os'.files) = Remotes(os.files) \cup {fd}
        /\ Remotes(os'.infos) = Remotes(os.infos) \cup {info}
    BY <1>1, <1>6, <2>1, <2>2, Taken, SMTT(30)
  <2>4. remote' \in Node /\ remote'.socket = fd /\ remote'.info = info /\ fd # None
    BY <1>6, <2>1, <2>2, NoneIsNothing DEF Node
  <2>5. HoldingType'
    <3>1. leftovers' \in 0 .. MaxLeftovers
      BY <1>1, <1>6, NodesAssumption DEF HoldingType
    <3> QED BY <1>1, <1>2, <1>6, <2>3, <2>4, <3>1 DEF HoldingType
  <2>6. /\ local.socket # None => local.socket \in Fds
        /\ local.info # None => local.info \in Infos
    BY <1>1 DEF Node
  <2>7. SocketsHeld' /\ InfosHeld'
    BY <1>1, <1>2, <2>1, <2>2, <2>3, <2>4, <2>6 DEF SocketsHeld, InfosHeld
  <2>8. NodesMatchState'
    BY <1>1, <1>2, <2>4 DEF NodesMatchState
  <2>9. LeftoversCounted'
    <3> SUFFICES ASSUME os'.harm = {} PROVE LeftoversCounted'
      BY DEF LeftoversCounted
    <3>1. state = "not_connected" /\ os.harm = {}
      BY <2>3
    <3>2. /\ Remotes(os.files) \subseteq Fds /\ Remotes(os.infos) \subseteq Infos
          /\ Cardinality(Remotes(os.files)) <= leftovers
          /\ Cardinality(Remotes(os.infos)) <= leftovers
      BY <1>1, <3>1, LeavingsFacts DEF LeftoversCounted, Leavings
    <3>3. /\ \A x \in Fds : os'.files[x] = "local" => x = local.socket
          /\ \A x \in Infos : os'.infos[x] = "local" => x = local.info
      BY <1>1, <2>3, <3>1 DEF LeftoversCounted
    <3>4. CASE state' = "connected" /\ leftovers' = leftovers
      <4>1. /\ Leavings(os.files, remote.socket)' = Remotes(os'.files) \ {fd}
            /\ Leavings(os.infos, remote.info)' = Remotes(os'.infos) \ {info}
        BY <2>4, <3>4 DEF Leavings, Remotes
      <4>2. /\ Cardinality(Remotes(os'.files) \ {fd}) <= leftovers
            /\ Cardinality(Remotes(os'.infos) \ {info}) <= leftovers
        BY <1>1, <2>3, <3>2, CountFewer
      <4> QED BY <1>2, <3>3, <3>4, <4>1, <4>2 DEF LeftoversCounted
    <3>5. CASE state' = state /\ leftovers' = leftovers + 1
      <4>1. /\ Leavings(os.files, remote.socket)' = Remotes(os.files) \cup {fd}
            /\ Leavings(os.infos, remote.info)' = Remotes(os.infos) \cup {info}
        BY <2>3, <3>1, <3>5 DEF Leavings, Remotes
      <4>2. /\ Cardinality(Remotes(os.files) \cup {fd}) <= leftovers + 1
            /\ Cardinality(Remotes(os.infos) \cup {info}) <= leftovers + 1
        BY <1>1, <3>2, CountOneMore
      <4> QED BY <1>2, <3>3, <3>5, <4>1, <4>2 DEF LeftoversCounted
    <3> QED BY <1>6, <3>4, <3>5
  <2>10. ListenerKept
    BY <1>1, <1>2, <2>1, <2>3, <2>6 DEF ListenerKept, ListenerLost, SocketsHeld
  <2> QED BY <2>3, <2>5, <2>7, <2>8, <2>9, <2>10 DEF CallIsSafe, HoldingInv
<1> HIDE DEF fd
<1> QED BY <1>5, <1>6 DEF UserAccept, fd

----------------------------------------------------------------------------
\* What the program makes of a text.
LEMMA PieceFacts ==
    ASSUME NEW x \in Piece
    PROVE  /\ x.type \in {"colon", "name", "number"}
           /\ x.type = "number" => x.value \in Int /\ x = Number(x.value)
           /\ x = Colon <=> x.type = "colon"
BY DEF Piece, Colon, Number

LEMMA StrtolFacts ==
    ASSUME NEW text \in Text
    PROVE  /\ Strtol(text).value \in Int
           /\ text = <<>> => Strtol(text).value = 0 /\ Strtol(text).rest = <<>>
           /\ text # <<>> /\ Strtol(text).rest = <<>> => text = <<Number(Strtol(text).value)>>
<1>1. CASE text = <<>>
  BY <1>1 DEF Strtol
<1>2. CASE text # <<>>
  <2>1. text[1] \in Piece /\ Len(text) \in Nat \ {0} /\ text \in Seq(Piece)
    BY <1>2, EmptySeq, LenProperties, ElementOfSeq DEF Text
  <2>2. CASE text[1].type = "number"
    <3>1. Strtol(text).value = text[1].value /\ Strtol(text).rest = Tail(text)
      BY <1>2, <2>2 DEF Strtol
    <3>2. text[1].value \in Int /\ text[1] = Number(text[1].value)
      BY <2>1, <2>2, PieceFacts
    <3>3. Tail(text) = <<>> => Len(text) = 1
      <4>1. Len(Tail(text)) = Len(text) - 1
        BY <1>2, <2>1, HeadTailProperties
      <4>2. Tail(text) = <<>> => Len(Tail(text)) = 0
        BY EmptySeq
      <4> QED BY <2>1, <4>1, <4>2
    <3>4. Len(text) = 1 => text = <<text[1]>>
      BY <2>1
    <3> QED BY <1>2, <3>1, <3>2, <3>3, <3>4
  <2>3. CASE text[1].type # "number"
    BY <1>2, <2>3 DEF Strtol
  <2> QED BY <2>2, <2>3
<1> QED BY <1>1, <1>2

LEMMA ChatArgsCases ==
    ASSUME NEW argv
    PROVE  /\ Len(argv) = 2 => ParseChatArgs(argv) = ListenOn(DefaultPort)
           /\ Len(argv) = 3 /\ Strtol(argv[3]).rest = <<>> =>
                 ParseChatArgs(argv) = ListenOn(Strtol(argv[3]).value % PortRange)
           /\ Len(argv) = 3 /\ Strtol(argv[3]).rest # <<>> =>
                 ParseChatArgs(argv) = ParseAddress(argv[3])
           /\ Len(argv) # 2 /\ Len(argv) # 3 => ParseChatArgs(argv) = Nothing
BY DEF ParseChatArgs

LEMMA ListenCases ==
    ASSUME NEW args, NEW port, port = Strtol(args[1]).value % UnsignedRange
    PROVE  /\ Len(args) = 0 => CommandListen(args) = ListenOn(DefaultPort)
           /\ Len(args) = 1 =>
                 CommandListen(args) = IF IsPort(port) /\ Strtol(args[1]).rest = <<>>
                                       THEN ListenOn(port) ELSE Nothing
           /\ Len(args) # 0 /\ Len(args) # 1 => CommandListen(args) = Nothing
BY DEF CommandListen

LEMMA LastColonFacts ==
    ASSUME NEW text \in Text, Colons(text) # {}
    PROVE  /\ LastColon(text) \in 1 .. Len(text) /\ text[LastColon(text)] = Colon
           /\ \A j \in 1 .. Len(text) : text[j] = Colon => j <= LastColon(text)
<1> DEFINE C == Colons(text)
           D == { Len(text) - i : i \in C }
<1>1. Len(text) \in Nat /\ DOMAIN text = 1 .. Len(text)
  BY LenProperties DEF Text
<1>2. C = { i \in 1 .. Len(text) : text[i] = Colon }
  BY <1>1 DEF Colons
<1>3. D \subseteq Nat /\ D # {}
  BY <1>1, <1>2
<1> HIDE DEF D
<1>4. PICK x \in D : \A y \in D : <<y, x>> \notin OpToRel(<, Nat)
  BY <1>3, NatLessThanWellFounded, WFMin, Zenon
<1>5. \A y \in D : x <= y
  <2>1. ASSUME NEW y \in D, y < x PROVE FALSE
    <3>1. <<y, x>> \in Nat \X Nat /\ <<y, x>>[1] < <<y, x>>[2]
      BY <1>3, <2>1
    <3>2. <<y, x>> \in OpToRel(<, Nat)
      BY <3>1 DEF OpToRel
    <3> QED BY <1>4, <3>2
  <2> QED BY <1>3, <2>1
<1>6. PICK i \in C : x = Len(text) - i
  BY DEF D
<1>7. ASSUME NEW j \in C PROVE j <= i
  <2>1. Len(text) - j \in D
    BY DEF D
  <2>2. Len(text) - i <= Len(text) - j
    BY <1>5, <1>6, <2>1
  <2>3. i \in Nat /\ j \in Nat
    BY <1>1, <1>2
  <2> QED BY <1>1, <2>2, <2>3
<1>8. LastColon(text) \in C /\ \A j \in C : j <= LastColon(text)
  BY <1>7 DEF LastColon
<1> QED BY <1>2, <1>8

LEMMA TextPart ==
    ASSUME NEW text \in Text, NEW m \in Nat, NEW n \in Nat, m >= 1, n <= Len(text)
    PROVE  /\ SubSeq(text, m, n) \in Text
           /\ Len(SubSeq(text, m, n)) = IF m <= n THEN n - m + 1 ELSE 0
           /\ \A i \in 1 .. n - m + 1 : SubSeq(text, m, n)[i] = text[m + i - 1]
<1>1. text \in Seq(Piece) /\ Len(text) \in Nat
  BY LenProperties DEF Text
<1>2. \A i \in m .. n : text[i] \in Piece
  BY <1>1, ElementOfSeq
<1> QED BY <1>1, <1>2, SubSeqProperties DEF Text

\* The address that is found is what the text says.
LEMMA AddressIsWritten ==
    ASSUME NEW text \in Text, text # <<>>, ParseAddress(text) # Nothing
    PROVE  ParseAddress(text) \in Meanings(text) /\ Written(ParseAddress(text), text)
<1>1. text \in Seq(Piece) /\ Len(text) \in Nat \ {0} /\ DOMAIN text = 1 .. Len(text)
  BY EmptySeq, LenProperties DEF Text
<1>2. CASE Colons(text) = {}
  <2>1. ParseAddress(text) = ConnectTo(text, DefaultPort)
    BY <1>2 DEF ParseAddress
  <2>2. text = SubSeq(text, 1, Len(text))
    BY <1>1
  <2>3. ConnectTo(text, DefaultPort) \in Meanings(text)
    <3>1. ConnectTo(SubSeq(text, 1, Len(text)), DefaultPort) \in Meanings(text)
      BY <1>1, RangesAssumption DEF Meanings
    <3> QED BY <2>2, <3>1, Zenon
  <2> QED BY <1>2, <2>1, <2>3 DEF Written, ConnectTo
<1>3. CASE Colons(text) # {}
  <2> DEFINE c == LastColon(text)
             tail == SubSeq(text, c + 1, Len(text))
             v == Strtol(tail).value
             node == SubSeq(text, 1, c - 1)
  <2>1. c \in 1 .. Len(text) /\ text[c] = Colon
    BY <1>3, LastColonFacts
  <2>2. /\ ParseAddress(text) = ConnectTo(node, v)
        /\ c > 1 /\ IsPort(v) /\ Strtol(tail).rest = <<>>
    BY <1>3 DEF ParseAddress
  <2> HIDE DEF c
  <2>3. /\ tail \in Text /\ Len(tail) = IF c + 1 <= Len(text) THEN Len(text) - c ELSE 0
        /\ \A i \in 1 .. Len(text) - c : tail[i] = text[c + i]
    BY <1>1, <2>1, TextPart
  <2>4. /\ node \in Text /\ Len(node) = c - 1
        /\ \A i \in 1 .. c - 1 : node[i] = text[i]
    BY <1>1, <2>1, <2>2, TextPart
  <2> HIDE DEF tail
  <2>5. v \in Int /\ v > 0 /\ v < PortRange /\ tail = <<Number(v)>>
    <3>1. v \in Int /\ v > 0 /\ v < PortRange
      BY <2>2, <2>3, StrtolFacts DEF IsPort
    <3>2. tail # <<>>
      BY <2>3, <3>1, StrtolFacts
    <3> QED BY <2>2, <2>3, <3>1, <3>2, StrtolFacts
  <2> HIDE DEF v
  <2>6. Len(tail) = 1 /\ tail[1] = Number(v)
    BY <2>5
  <2>7. c + 1 = Len(text) /\ text[c + 1] = Number(v)
    <3>1. c \in Nat /\ Len(text) \in Nat /\ c <= Len(text)
      BY <1>1, <2>1
    <3>2. c + 1 = Len(text)
      <4> DEFINE n == Len(text)
      <4>1. 1 = IF c + 1 <= n THEN n - c ELSE 0
        BY <2>3, <2>6
      <4>2. c \in Nat /\ n \in Nat
        BY <3>1
      <4> HIDE DEF n
      <4>3. c + 1 = n
        BY <4>1, <4>2
      <4> QED BY <4>3 DEF n
    <3>3. 1 \in 1 .. Len(text) - c
      BY <3>1, <3>2
    <3>4. tail[1] = text[c + 1]
      BY <2>3, <3>3
    <3> QED BY <2>6, <3>2, <3>4
  <2> DEFINE end == <<Colon, Number(v)>>
  <2>8. Len(end) = 2 /\ end[1] = Colon /\ end[2] = Number(v) /\ Number(v) \in Piece /\ Colon \in Piece
    BY <2>5 DEF Piece, Colon, Number
  <2>9. end \in Seq(Piece) /\ node \in Seq(Piece)
    BY <2>4, <2>8, SMTT(30) DEF Text
  <2> HIDE DEF end, node
  <2>10. text = node \o end
    <3>1. /\ node \o end \in Seq(Piece) /\ Len(node \o end) = Len(text)
          /\ \A i \in 1 .. c - 1 : (node \o end)[i] = node[i]
          /\ (node \o end)[c] = end[1] /\ (node \o end)[c + 1] = end[2]
      <4>1. /\ node \o end \in Seq(Piece) /\ Len(node \o end) = Len(node) + Len(end)
            /\ \A i \in 1 .. Len(node) + Len(end) :
                  (node \o end)[i] = IF i <= Len(node) THEN node[i] ELSE end[i - Len(node)]
        BY <2>9, ConcatProperties
      <4>2. /\ Len(node) = c - 1 /\ Len(end) = 2 /\ c \in Nat /\ c >= 1 /\ Len(text) = c + 1
        BY <2>1, <2>4, <2>7, <2>8
      <4> QED BY <4>1, <4>2, SMTT(30)
    <3>2. ASSUME NEW i \in 1 .. Len(text) PROVE text[i] = (node \o end)[i]
      <4>1. i \in 1 .. c - 1 \/ i = c \/ i = c + 1
        BY <2>1, <2>7
      <4> QED BY <2>1, <2>4, <2>7, <2>8, <3>1, <4>1
    <3> QED BY <1>1, <3>1, <3>2, SeqEqual, ZenonT(30)
  <2>11. ConnectTo(node, v) \in Meanings(text)
    BY <1>1, <2>1, <2>2, <2>5, <2>7, RangesAssumption, SMTT(30) DEF Meanings, node
  <2>12. Written(ConnectTo(node, v), text)
    BY <2>10 DEF Written, ConnectTo, end
  <2> QED BY <2>2, <2>11, <2>12
<1> QED BY <1>2, <1>3

\* A text that says an address is not refused, nor taken for another.
LEMMA WrittenIsParsed ==
    ASSUME NEW text \in Text, NEW call \in Meanings(text), Written(call, text)
    PROVE  ParseAddress(text) = call
<1>1. text \in Seq(Piece) /\ Len(text) \in Nat /\ DOMAIN text = 1 .. Len(text)
  BY LenProperties DEF Text
<1>2. PICK k \in 1 .. Len(text), port \in 1 .. PortRange - 1 :
         call = ConnectTo(SubSeq(text, 1, k), port)
  BY DEF Meanings
<1> DEFINE node == SubSeq(text, 1, k)
           end == <<Colon, Number(port)>>
<1>3. call.node = node /\ call.port = port
  BY <1>2 DEF ConnectTo
<1>4. CASE text = call.node /\ Colons(text) = {} /\ call.port = DefaultPort
  BY <1>2, <1>3, <1>4 DEF ParseAddress
<1>5. CASE text = node \o end
  <2>1. node \in Seq(Piece) /\ Len(node) = k
    BY <1>1, TextPart DEF Text
  <2>2. /\ Len(end) = 2 /\ end[1] = Colon /\ end[2] = Number(port)
        /\ Number(port) \in Piece /\ Colon \in Piece /\ Number(port) # Colon
    BY RangesAssumption DEF Piece, Colon, Number
  <2>3. end \in Seq(Piece)
    BY <2>2
  <2> HIDE DEF node, end
  <2>4. Len(text) = k + 2 /\ text[k + 1] = Colon /\ text[k + 2] = Number(port)
    <3>1. /\ Len(node \o end) = Len(node) + Len(end)
          /\ \A i \in 1 .. Len(node) + Len(end) :
                (node \o end)[i] = IF i <= Len(node) THEN node[i] ELSE end[i - Len(node)]
      BY <2>1, <2>3, ConcatProperties
    <3>2. Len(node) = k /\ Len(end) = 2 /\ k \in Nat /\ k >= 1
      BY <2>1, <2>2
    <3>3. /\ Len(node \o end) = k + 2
          /\ (node \o end)[k + 1] = end[1] /\ (node \o end)[k + 2] = end[2]
      BY <3>1, <3>2
    <3> QED BY <1>5, <2>2, <3>3
  <2>5. k + 1 \in Colons(text)
    BY <1>1, <2>4 DEF Colons
  <2>6. LastColon(text) = k + 1
    <3>1. /\ LastColon(text) \in 1 .. Len(text) /\ text[LastColon(text)] = Colon
          /\ k + 1 <= LastColon(text)
      BY <1>1, <2>4, <2>5, LastColonFacts
    <3>2. LastColon(text) # k + 2
      BY <2>2, <2>4, <3>1
    <3> QED BY <2>4, <3>1, <3>2
  <2> DEFINE tail == SubSeq(text, k + 2, k + 2)
  <2>7. tail \in Text /\ Len(tail) = 1 /\ tail[1] = Number(port)
    <3>1. k + 2 \in Nat /\ k + 2 >= 1 /\ k + 2 <= Len(text)
      BY <1>1, <2>4
    <3> DEFINE n == k + 2
    <3>2. n \in Nat /\ n >= 1 /\ n <= Len(text) /\ text[n] = Number(port)
      BY <2>4, <3>1
    <3> HIDE DEF n
    <3>3. /\ SubSeq(text, n, n) \in Text /\ Len(SubSeq(text, n, n)) = n - n + 1
          /\ \A i \in 1 .. n - n + 1 : SubSeq(text, n, n)[i] = text[n + i - 1]
      BY <3>2, TextPart
    <3>4. SubSeq(text, n, n)[1] = text[n]
      BY <3>2, <3>3
    <3> QED BY <3>2, <3>3, <3>4 DEF n
  <2> HIDE DEF tail
  <2>8. /\ Strtol(tail).value = port /\ Strtol(tail).rest = <<>>
    <3>1. tail \in Seq(Piece) /\ tail # <<>>
      <4>1. tail \in Seq(Piece)
        BY <2>7 DEF Text
      <4>2. Len(<<>>) = 0
        BY EmptySeq
      <4>3. Len(tail) # 0
        BY <2>7
      <4> QED BY <4>1, <4>2, <4>3, Zenon
    <3>2. Len(Tail(tail)) = 0 /\ Tail(tail) \in Seq(Piece)
      BY <2>7, <3>1, HeadTailProperties
    <3>3. Tail(tail) = <<>>
      BY <3>2, EmptySeq
    <3> QED BY <2>7, <3>1, <3>3 DEF Strtol, Number
  <2>9. IsPort(port) /\ k + 1 > 1 /\ (k + 1) + 1 = k + 2 /\ (k + 1) - 1 = k
    BY RangesAssumption DEF IsPort
  <2>10. ParseAddress(text) = ConnectTo(SubSeq(text, 1, k), port)
    BY <2>4, <2>5, <2>6, <2>8, <2>9 DEF ParseAddress, tail
  <2> QED BY <1>2, <2>10
<1> QED BY <1>3, <1>4, <1>5 DEF Written

\* parse_address is right about every text.
LEMMA AddressIsMeant ==
    ASSUME NEW text \in Text, text # <<>>
    PROVE  ParseAddress(text) \in MeantBy(text)
<1> DEFINE meant == { call \in Meanings(text) : Written(call, text) }
<1>1. CASE ParseAddress(text) = Nothing
  <2>1. \A call \in meant : call = Nothing
    BY <1>1, WrittenIsParsed
  <2>2. \A call \in meant : call.do = "connect"
    BY DEF Meanings, ConnectTo
  <2>3. meant = {}
    BY <2>1, <2>2 DEF Nothing
  <2> QED BY <1>1, <2>3 DEF MeantBy
<1>2. CASE ParseAddress(text) # Nothing
  BY <1>2, AddressIsWritten DEF MeantBy
<1> QED BY <1>1, <1>2

\* Dividing leaves nothing over once the remainder is taken away.
LEMMA RemainderFacts ==
    ASSUME NEW n \in Int, NEW d \in Nat \ {0}, NEW r, r = n % d
    PROVE  r \in 0 .. d - 1 /\ (n - r) % d = 0
<1> DEFINE q == n \div d
<1>1. q \in Int /\ r \in 0 .. d - 1 /\ n = d * q + r
  OBVIOUS
<1> HIDE DEF q
<1>2. n - r = d * q
  BY <1>1
<1>3. (d * q) % d = 0
  BY <1>1
<1> QED BY <1>1, <1>2, <1>3

\* A text is a number from beginning to end, or does not mean one.
LEMMA WrappedFacts ==
    ASSUME NEW text \in Text, text # <<>>, NEW range \in Nat \ {0}
    PROVE  /\ Strtol(text).rest # <<>> => Wrapped(text, range) = {}
           /\ Strtol(text).rest = <<>> => \A p \in 0 .. PortRange - 1 :
                 p = Strtol(text).value % range => ListenOn(p) \in Wrapped(text, range)
<1>1. text \in Seq(Piece) /\ Len(text) \in Nat \ {0} /\ DOMAIN text = 1 .. Len(text)
  BY EmptySeq, LenProperties DEF Text
<1>2. ASSUME Strtol(text).rest # <<>> PROVE Wrapped(text, range) = {}
  <2>1. ASSUME NEW n, text = <<Number(n)>> PROVE FALSE
    <3>1. text[1].type = "number" /\ Len(text) = 1
      BY <2>1 DEF Number
    <3>2. Strtol(text).rest = Tail(text)
      BY <3>1 DEF Strtol
    <3>3. Len(Tail(text)) = 0 /\ Tail(text) \in Seq(Piece)
      BY <1>1, <3>1, HeadTailProperties
    <3> QED BY <1>2, <3>2, <3>3, EmptySeq
  <2> QED BY <2>1 DEF Wrapped
<1>3. ASSUME Strtol(text).rest = <<>>, NEW p \in 0 .. PortRange - 1,
             p = Strtol(text).value % range
      PROVE  ListenOn(p) \in Wrapped(text, range)
  <2> DEFINE v == Strtol(text).value
             values == { text[i].value : i \in { j \in DOMAIN text : text[j].type = "number" } }
  <2>1. v \in Int /\ text = <<Number(v)>>
    BY <1>3, StrtolFacts
  <2>0. p = v % range
    BY <1>3
  <2> HIDE DEF v
  <2>2. (v - p) % range = 0
    BY <2>0, <2>1, RemainderFacts, Zenon
  <2>3. text[1].type = "number" /\ text[1].value = v
    BY <2>1 DEF Number
  <2>4. v \in values
    BY <1>1, <2>3
  <2>5. \E n \in values : text = <<Number(n)>> /\ (n - p) % range = 0
    BY <2>1, <2>2, <2>4
  <2> QED BY <2>5 DEF Wrapped
<1> QED BY <1>2, <1>3

\* A request for a port names one.
IsRequest(request) ==
    request.do \in {"connect", "listen"} => request.port \in 0 .. PortRange - 1

LEMMA AddressIsRequest ==
    ASSUME NEW text \in Text
    PROVE  IsRequest(ParseAddress(text)) /\ ParseAddress(text).do # "generate"
<1>1. text \in Seq(Piece) /\ Len(text) \in Nat
  BY LenProperties DEF Text
<1>2. CASE ParseAddress(text) = Nothing
  BY <1>2 DEF Nothing, IsRequest
<1>3. CASE Colons(text) = {}
  BY <1>3, RangesAssumption DEF ParseAddress, ConnectTo, IsRequest
<1>4. CASE Colons(text) # {} /\ ParseAddress(text) # Nothing
  <2> DEFINE c == LastColon(text)
             v == Strtol(SubSeq(text, c + 1, Len(text))).value
  <2>1. c \in 1 .. Len(text)
    BY <1>4, LastColonFacts
  <2>2. ParseAddress(text) = ConnectTo(SubSeq(text, 1, c - 1), v) /\ IsPort(v)
    BY <1>4 DEF ParseAddress
  <2> HIDE DEF c
  <2>3. v \in Int
    <3>1. SubSeq(text, c + 1, Len(text)) \in Text
      BY <1>1, <2>1, TextPart
    <3> QED BY <3>1, StrtolFacts
  <2> HIDE DEF v
  <2>4. v \in 0 .. PortRange - 1
    BY <2>2, <2>3, RangesAssumption DEF IsPort
  <2> QED BY <2>2, <2>4 DEF ConnectTo, IsRequest
<1> QED BY <1>2, <1>3, <1>4

\* parse_generate_args
LEMMA GenerateCases ==
    ASSUME NEW argv
    PROVE  \/ ParseGenerateArgs(argv) = Nothing
           \/ ParseGenerateArgs(argv).do = "generate" /\ Len(argv) = 2
<1>1. \A size : Generate(size).do = "generate"
  BY DEF Generate
<1> QED BY <1>1 DEF ParseGenerateArgs

\* parse_args
LEMMA ArgsAreRequest ==
    ASSUME NEW argv \in Seq(Text)
    PROVE  /\ IsRequest(ParseArgs(argv))
           /\ ParseArgs(argv).do = "generate" =>
                 Len(argv) = 3 /\ argv[1] = <<Name("--generate")>>
<1>1. CASE argv # <<>> /\ argv[1] = <<Name("--generate")>>
  <2>1. ParseArgs(argv) = ParseGenerateArgs(Tail(argv))
    BY <1>1 DEF ParseArgs
  <2>2. Len(Tail(argv)) = Len(argv) - 1 /\ Len(argv) \in Nat
    BY <1>1, HeadTailProperties, LenProperties
  <2>3. ParseArgs(argv) = Nothing \/ (ParseArgs(argv).do = "generate" /\ Len(Tail(argv)) = 2)
    BY <2>1, GenerateCases
  <2>4. CASE ParseArgs(argv) = Nothing
    BY <2>4 DEF Nothing, IsRequest
  <2>5. CASE ParseArgs(argv).do = "generate" /\ Len(Tail(argv)) = 2
    <3>1. Len(argv) = 3
      BY <2>2, <2>5
    <3>2. IsRequest(ParseArgs(argv))
      BY <2>5 DEF IsRequest
    <3> QED BY <1>1, <3>1, <3>2
  <2> QED BY <2>3, <2>4, <2>5
<1>2. CASE ~(argv # <<>> /\ argv[1] = <<Name("--generate")>>)
  <2>1. ParseArgs(argv) = ParseChatArgs(argv)
    BY <1>2 DEF ParseArgs
  <2>2. CASE Len(argv) = 2
    <3>1. ParseArgs(argv) = ListenOn(DefaultPort)
      BY <2>1, <2>2, ChatArgsCases
    <3> QED BY <3>1, RangesAssumption DEF ListenOn, IsRequest
  <2>3. CASE Len(argv) = 3
    <3>1. argv[3] \in Text
      <4>1. 3 \in 1 .. Len(argv)
        BY <2>3
      <4> QED BY <4>1, ElementOfSeq, Zenon
    <3>2. CASE Strtol(argv[3]).rest = <<>>
      <4>1. PICK v \in Int : v = Strtol(argv[3]).value
        BY <3>1, StrtolFacts
      <4>2. PICK p : p = v % PortRange
        OBVIOUS
      <4>3. p \in 0 .. PortRange - 1
        BY <4>2, RangesAssumption, RemainderFacts
      <4>4. ParseArgs(argv) = ListenOn(p)
        BY <2>1, <2>3, <3>2, <4>1, <4>2, ChatArgsCases
      <4> QED BY <4>3, <4>4 DEF ListenOn, IsRequest
    <3>3. CASE Strtol(argv[3]).rest # <<>>
      BY <2>1, <2>3, <3>1, <3>3, ChatArgsCases, AddressIsRequest
    <3> QED BY <3>2, <3>3
  <2>4. CASE Len(argv) # 2 /\ Len(argv) # 3
    BY <2>1, <2>4, ChatArgsCases DEF Nothing, IsRequest
  <2> QED BY <2>2, <2>3, <2>4
<1> QED BY <1>1, <1>2

LEMMA ArgsAreMeant ==
    ASSUME NEW argv \in Seq(Text), Len(argv) = 3, argv[3] # <<>>,
           ParseArgs(argv).do # "generate"
    PROVE  \/ argv[1] = <<Name("--generate")>> /\ ParseArgs(argv) = Nothing
           \/ ParseArgs(argv) \in IF Wrapped(argv[3], PortRange) # {}
                                  THEN Wrapped(argv[3], PortRange)
                                  ELSE MeantBy(argv[3])
<1>1. CASE argv # <<>> /\ argv[1] = <<Name("--generate")>>
  BY <1>1, GenerateCases DEF ParseArgs
<1>2. CASE ~(argv # <<>> /\ argv[1] = <<Name("--generate")>>)
  <2>1. ParseArgs(argv) = ParseChatArgs(argv) /\ argv[3] \in Text
    BY <1>2, ElementOfSeq, SMTT(30) DEF ParseArgs
  <2>2. CASE Strtol(argv[3]).rest = <<>>
    <3>1. PICK v \in Int : v = Strtol(argv[3]).value
      BY <2>1, StrtolFacts
    <3>2. PICK p : p = v % PortRange
      OBVIOUS
    <3>3. p \in 0 .. PortRange - 1
      BY <3>2, RangesAssumption, RemainderFacts
    <3>4. ListenOn(p) \in Wrapped(argv[3], PortRange)
      BY <2>1, <2>2, <3>1, <3>2, <3>3, RangesAssumption, WrappedFacts
    <3>5. ParseArgs(argv) = ListenOn(p)
      BY <2>1, <2>2, <3>1, <3>2, ChatArgsCases
    <3> QED BY <3>4, <3>5
  <2>3. CASE Strtol(argv[3]).rest # <<>>
    <3>1. ParseArgs(argv) = ParseAddress(argv[3])
      BY <2>1, <2>3, ChatArgsCases
    <3>2. Wrapped(argv[3], PortRange) = {}
      BY <2>1, <2>3, RangesAssumption, WrappedFacts
    <3> QED BY <2>1, <3>1, <3>2, AddressIsMeant
  <2> QED BY <2>2, <2>3
<1> QED BY <1>1, <1>2

\* command_handle
LEMMA CommandCases ==
    ASSUME NEW argv, argv # <<>>, NEW args, args = Tail(argv)
    PROVE  /\ argv[1] = <<Name("connect")>> => CommandHandle(argv) = CommandConnect(args)
           /\ argv[1] = <<Name("listen")>> => CommandHandle(argv) = CommandListen(args)
           /\ argv[1] \notin {<<Name("connect")>>, <<Name("listen")>>} =>
                 CommandHandle(argv) \in {Nothing, Disconnect, EndListen, Quit}
<1>1. /\ Name("connect") # Name("listen") /\ Name("connect") # Name("disconnect")
      /\ Name("connect") # Name("endlisten") /\ Name("connect") # Name("quit")
      /\ Name("listen") # Name("disconnect") /\ Name("listen") # Name("endlisten")
      /\ Name("listen") # Name("quit")
  BY DEF Name
<1>2. \A a, b : <<a>> = <<b>> => a = b
  OBVIOUS
<1>3. argv[1] = <<Name("connect")>> => CommandHandle(argv) = CommandConnect(args)
  BY <1>1, <1>2 DEF CommandHandle
<1>4. argv[1] = <<Name("listen")>> => CommandHandle(argv) = CommandListen(args)
  BY <1>1, <1>2 DEF CommandHandle
<1>5. argv[1] \notin {<<Name("connect")>>, <<Name("listen")>>} =>
         CommandHandle(argv) \in {Nothing, Disconnect, EndListen, Quit}
  BY DEF CommandHandle, Alone
<1> QED BY <1>3, <1>4, <1>5

\* command_listen
LEMMA ListenIsMeant ==
    ASSUME NEW args \in Seq(Text \ {<<>>})
    PROVE  /\ IsRequest(CommandListen(args)) /\ CommandListen(args).do # "generate"
           /\ Len(args) = 1 =>
                 CommandListen(args) \in Wrapped(args[1], UnsignedRange) \cup {Nothing}
<1>1. CASE CommandListen(args) = Nothing
  BY <1>1 DEF Nothing, IsRequest
<1>2. CASE Len(args) = 0
  BY <1>2, RangesAssumption, ListenCases DEF ListenOn, IsRequest
<1>3. CASE Len(args) = 1 /\ CommandListen(args) # Nothing
  <2>1. args[1] \in Text /\ args[1] # <<>>
    BY <1>3, ElementOfSeq
  <2>2. PICK v \in Int : v = Strtol(args[1]).value
    BY <2>1, StrtolFacts
  <2>3. PICK p : p = v % UnsignedRange
    OBVIOUS
  <2>4. p \in Int
    BY <2>3, RangesAssumption, RemainderFacts
  <2>5. IsPort(p) /\ Strtol(args[1]).rest = <<>> /\ CommandListen(args) = ListenOn(p)
    BY <1>3, <2>2, <2>3, ListenCases
  <2>6. p \in 0 .. PortRange - 1
    BY <2>4, <2>5, RangesAssumption DEF IsPort
  <2>7. ListenOn(p) \in Wrapped(args[1], UnsignedRange)
    BY <2>1, <2>2, <2>3, <2>5, <2>6, RangesAssumption, WrappedFacts
  <2> QED BY <2>5, <2>6, <2>7 DEF ListenOn, IsRequest
<1>4. Len(args) # 0 /\ Len(args) # 1 => CommandListen(args) = Nothing
  BY ListenCases
<1> QED BY <1>1, <1>2, <1>3, <1>4

LEMMA CommandIsRequest ==
    ASSUME NEW argv \in Seq(Text \ {<<>>})
    PROVE  /\ IsRequest(CommandHandle(argv)) /\ CommandHandle(argv).do # "generate"
           /\ Len(argv) = 2 =>
                 /\ argv[1] = <<Name("connect")>> => CommandHandle(argv) \in MeantBy(argv[2])
                 /\ argv[1] = <<Name("listen")>> =>
                       CommandHandle(argv) \in Wrapped(argv[2], UnsignedRange) \cup {Nothing}
<1>1. CASE argv = <<>>
  <2>1. CommandHandle(argv) = Nothing
    BY <1>1 DEF CommandHandle
  <2>2. Len(argv) # 2
    BY <1>1
  <2> QED BY <2>1, <2>2 DEF Nothing, IsRequest
<1>2. CASE argv # <<>>
  <2> DEFINE args == Tail(argv)
  <2>1. /\ args \in Seq(Text \ {<<>>}) /\ Len(args) = Len(argv) - 1 /\ Len(argv) \in Nat
        /\ Len(argv) = 2 => args[1] = argv[2]
    BY <1>2, HeadTailProperties, LenProperties
  <2>2. args = Tail(argv)
    OBVIOUS
  <2> HIDE DEF args
  <2>3. CASE argv[1] = <<Name("connect")>>
    <3>1. CommandHandle(argv) = CommandConnect(args)
      BY <1>2, <2>2, <2>3, CommandCases
    <3>2. <<Name("connect")>> # <<Name("listen")>>
      BY DEF Name
    <3>3. CASE Len(args) = 1
      <4>1. args[1] \in Text /\ args[1] # <<>>
        BY <2>1, <3>3, ElementOfSeq
      <4>2. CommandHandle(argv) = ParseAddress(args[1])
        BY <3>1, <3>3 DEF CommandConnect
      <4>3. IsRequest(CommandHandle(argv)) /\ CommandHandle(argv).do # "generate"
        BY <4>1, <4>2, AddressIsRequest
      <4>4. Len(argv) = 2 => CommandHandle(argv) \in MeantBy(argv[2])
        BY <2>1, <4>1, <4>2, AddressIsMeant
      <4> QED BY <2>3, <3>2, <4>3, <4>4, Zenon
    <3>4. CASE Len(args) # 1
      <4>1. CommandHandle(argv) = Nothing
        BY <3>1, <3>4 DEF CommandConnect
      <4>2. Len(argv) # 2
        BY <2>1, <3>4
      <4> QED BY <4>1, <4>2 DEF Nothing, IsRequest
    <3> QED BY <3>3, <3>4
  <2>4. CASE argv[1] = <<Name("listen")>>
    <3>1. CommandHandle(argv) = CommandListen(args)
      BY <1>2, <2>2, <2>4, CommandCases
    <3>2. <<Name("connect")>> # <<Name("listen")>>
      BY DEF Name
    <3>3. IsRequest(CommandHandle(argv)) /\ CommandHandle(argv).do # "generate"
      BY <2>1, <3>1, ListenIsMeant
    <3>4. Len(argv) = 2 => CommandHandle(argv) \in Wrapped(argv[2], UnsignedRange) \cup {Nothing}
      BY <2>1, <3>1, ListenIsMeant
    <3> QED BY <2>4, <3>2, <3>3, <3>4, Zenon
  <2>5. CASE argv[1] \notin {<<Name("connect")>>, <<Name("listen")>>}
    <3>1. CommandHandle(argv) \in {Nothing, Disconnect, EndListen, Quit}
      BY <1>2, <2>2, <2>5, CommandCases
    <3>2. IsRequest(CommandHandle(argv)) /\ CommandHandle(argv).do # "generate"
      BY <3>1 DEF Nothing, Disconnect, EndListen, Quit, IsRequest
    <3> QED BY <2>5, <3>2, Zenon
  <2> QED BY <2>3, <2>4, <2>5
<1> QED BY <1>1, <1>2

----------------------------------------------------------------------------
\* What a request does.
LEMMA AskFacts ==
    ASSUME AskInv
    PROVE  IsRequest(called) /\ AsWritten
<1>1. CASE typed = NothingTyped /\ called = Nothing
  <2>1. typed.at = "nowhere" /\ called.do = "nothing"
    BY <1>1 DEF NothingTyped, Nothing
  <2> QED BY <2>1 DEF IsRequest, AsWritten
<1>2. CASE typed.at = "args" /\ typed.words \in Seq(Text) /\ called = ParseArgs(typed.words)
  <2> DEFINE words == typed.words
  <2>1. words \in Seq(Text) /\ called = ParseArgs(words) /\ words = typed.words
    BY <1>2
  <2> HIDE DEF words
  <2>2. IsRequest(called) /\ (called.do = "generate" =>
            Len(words) = 3 /\ words[1] = <<Name("--generate")>>)
    BY <2>1, ArgsAreRequest
  <2>3. Len(words) = 3 /\ words[Len(words)] # <<>> /\ called.do # "generate" =>
            \/ words[1] = <<Name("--generate")>> /\ called = Nothing
            \/ called \in IF Wrapped(words[Len(words)], PortRange) # {}
                          THEN Wrapped(words[Len(words)], PortRange)
                          ELSE MeantBy(words[Len(words)])
    BY <2>1, ArgsAreMeant
  <2> QED BY <1>2, <2>1, <2>2, <2>3 DEF AsWritten
<1>3. CASE /\ typed.at = "line" /\ typed.words \in Seq(Text \ {<<>>})
           /\ called = CommandHandle(typed.words)
  <2> DEFINE words == typed.words
  <2>1. words \in Seq(Text \ {<<>>}) /\ called = CommandHandle(words) /\ words = typed.words
    BY <1>3
  <2> HIDE DEF words
  <2>2. IsRequest(called) /\ called.do # "generate"
    BY <2>1, CommandIsRequest
  <2>3. Len(words) = 2 =>
            /\ words[1] = <<Name("connect")>> => called \in MeantBy(words[Len(words)])
            /\ words[1] = <<Name("listen")>> =>
                  called \in Wrapped(words[Len(words)], UnsignedRange) \cup {Nothing}
    BY <2>1, CommandIsRequest
  <2> QED BY <1>3, <2>1, <2>2, <2>3 DEF AsWritten
<1> QED BY <1>1, <1>2, <1>3 DEF AskInv

LEMMA CarryIsSafe ==
    ASSUME HoldingInv, NEW request, Carry(request), UNCHANGED leftovers
    PROVE  /\ CallIsSafe
           /\ request.do \notin {"listen", "endlisten"} => ListenerKept
           /\ state' = "connected" => state = "connected"
<1>1. CASE request.do = "connect"
  <2>1. UserBeginConnect /\ UNCHANGED local
    BY <1>1 DEF Carry
  <2>2. state' # "connected"
    BY <2>1 DEF UserBeginConnect, UserDisconnect
  <2> QED BY <2>1, <2>2, UserBeginConnectSafe
<1>2. CASE request.do = "listen"
  <2>1. ChatBeginListen /\ UNCHANGED <<remote, state, stale>>
    BY <1>2 DEF Carry
  <2> QED BY <1>2, <2>1, ChatBeginListenSafe
<1>3. CASE request.do = "disconnect"
  <2>1. ChatDisconnect /\ UNCHANGED local
    BY <1>3 DEF Carry, ChatDisconnect
  <2>2. CASE state # "not_connected"
    <3>1. UserDisconnect /\ state' # "connected"
      BY <2>1, <2>2 DEF ChatDisconnect, UserDisconnect
    <3> QED BY <2>1, <3>1, UserDisconnectSafe
  <2>3. CASE state = "not_connected"
    BY <2>1, <2>3, NoCallIsSafe DEF ChatDisconnect
  <2> QED BY <2>2, <2>3
<1>4. CASE request.do = "endlisten"
  <2>1. ChatEndListen /\ UNCHANGED <<remote, state, stale>>
    BY <1>4 DEF Carry
  <2> QED BY <1>4, <2>1, ChatEndListenSafe
<1>5. CASE request.do \notin {"connect", "listen", "disconnect", "endlisten"}
  BY <1>5, NoCallIsSafe DEF Carry
<1> QED BY <1>1, <1>2, <1>3, <1>4, <1>5

\* user_finish_connect succeeds.
LEMMA ConnectedSafe ==
    ASSUME HoldingInv, state = "connecting", state' = "connected",
           UNCHANGED <<local, remote, os, stale, leftovers>>
    PROVE  CallIsSafe /\ ListenerKept
BY DEF CallIsSafe, ListenerKept, ListenerLost, HoldingInv, HoldingType, SocketsHeld, InfosHeld,
       NodesMatchState, LeftoversCounted, Leavings, Remotes

\* chat_end
LEMMA EndSafe ==
    ASSUME HoldingInv, End
    PROVE  CallIsSafe
<1> DEFINE t == NodeClose(os, local, "local")
           u == NodeClose(t, remote, "remote")
<1>1. /\ os' = u /\ local' = Closed /\ remote' = Closed
      /\ state' = "not_connected" /\ stale' = FALSE /\ leftovers' = leftovers
  BY DEF End
<1>2. HoldingType /\ remote \in Node /\ leftovers \in Nat
  BY LeavingsFacts DEF HoldingInv, HoldingType
<1>3. t = NodeClose(os, local, "local") /\ u = NodeClose(t, remote, "remote")
  OBVIOUS
<1> HIDE DEF t, u
<1>4. /\ t \in Process /\ t.harm = os.harm
      /\ "file" \notin t.harm /\ ~stale /\ remote.socket # None => t.files[remote.socket] = "remote"
      /\ "memory" \notin t.harm /\ ~stale /\ remote.info # None => t.infos[remote.info] = "remote"
      /\ t.harm = {} =>
            /\ \A x \in Fds : t.files[x] # "local"
            /\ \A x \in Infos : t.infos[x] # "local"
            /\ Cardinality(Leavings(t.files, remote.socket)) <= leftovers
            /\ Cardinality(Leavings(t.infos, remote.info)) <= leftovers
  BY <1>3, CloseLocal
<1>5. /\ u \in Process
      /\ \A x \in Fds : u.files[x] = IF x = remote.socket THEN "nobody" ELSE t.files[x]
      /\ \A x \in Infos : u.infos[x] = IF x = remote.info THEN "nobody" ELSE t.infos[x]
      /\ t.harm \subseteq u.harm
      /\ "file" \in u.harm <=>
            \/ "file" \in t.harm
            \/ remote.socket # None /\ t.files[remote.socket] \notin {"nobody", "remote"}
      /\ "memory" \in u.harm <=>
            "memory" \in t.harm \/ (remote.info # None /\ t.infos[remote.info] # "remote")
  BY <1>2, <1>3, <1>4, NodeCloseFacts
<1>6. ~stale => u.harm = os.harm
  <2> SUFFICES ASSUME ~stale PROVE u.harm = t.harm
    BY <1>4
  <2>1. "file" \in u.harm <=> "file" \in t.harm
    BY <1>4, <1>5
  <2>2. "memory" \in u.harm <=> "memory" \in t.harm
    BY <1>4, <1>5
  <2>3. t.harm \subseteq {"file", "memory"} /\ u.harm \subseteq {"file", "memory"}
    BY <1>4, <1>5 DEF Process
  <2> QED BY <2>1, <2>2, <2>3
<1>7. Closed \in Node /\ Closed.socket = None /\ Closed.info = None
  BY DEF Closed, Node
<1>8. HoldingType' /\ SocketsHeld' /\ InfosHeld' /\ NodesMatchState'
  BY <1>1, <1>2, <1>5, <1>7 DEF HoldingType, SocketsHeld, InfosHeld, NodesMatchState
<1>9. LeftoversCounted'
  <2> SUFFICES ASSUME u.harm = {}
               PROVE  /\ \A x \in Fds : u.files[x] # "local"
                      /\ \A x \in Infos : u.infos[x] # "local"
                      /\ Cardinality(Remotes(u.files)) <= leftovers
                      /\ Cardinality(Remotes(u.infos)) <= leftovers
    BY <1>1 DEF LeftoversCounted, Leavings, Remotes
  <2>1. t.harm = {}
    BY <1>5
  <2>2. DOMAIN u.files = Fds /\ DOMAIN t.files = Fds /\ DOMAIN u.infos = Infos /\ DOMAIN t.infos = Infos
    BY <1>4, <1>5 DEF Process
  <2>3. /\ Remotes(u.files) \subseteq Leavings(t.files, remote.socket)
        /\ Remotes(u.infos) \subseteq Leavings(t.infos, remote.info)
    BY <1>5, <2>2 DEF Remotes, Leavings
  <2>4. Leavings(t.files, remote.socket) \subseteq Fds /\ Leavings(t.infos, remote.info) \subseteq Infos
    BY <2>2 DEF Remotes, Leavings
  <2>5. Cardinality(Remotes(u.files)) <= leftovers
    BY <1>2, <1>4, <2>1, <2>3, <2>4, CountFewer
  <2>6. Cardinality(Remotes(u.infos)) <= leftovers
    BY <1>2, <1>4, <2>1, <2>3, <2>4, CountFewer
  <2> QED BY <1>4, <1>5, <2>1, <2>5, <2>6
<1> QED BY <1>1, <1>4, <1>5, <1>6, <1>8, <1>9 DEF CallIsSafe, HoldingInv

----------------------------------------------------------------------------
\* The loop: what each of its steps keeps, and what it does to the listener.
ListenerMinded == pc = "exit" \/ called'.do \in {"listen", "endlisten"} \/ ListenerKept
StepIsSafe == NodesInv' /\ CallIsSafe /\ ListenerMinded

LEMMA StartSafe ==
    ASSUME NodesInv, Start
    PROVE  StepIsSafe
<1>1. PICK argv \in ArgLines :
         /\ typed' = [at |-> "args", words |-> argv]
         /\ called' = ParseArgs(argv)
  BY DEF Start
<1>2. /\ pc = "start" /\ Carry(called') /\ waiting' \in BOOLEAN
      /\ pc' \in {"ended", "select"} /\ ready' = ready /\ leftovers' = leftovers
  BY DEF Start
<1>3. PICK request : request = called'
  OBVIOUS
<1>4. Carry(request)
  BY <1>2, <1>3
<1>5. LoopType /\ HoldingInv /\ state = "not_connected"
  BY <1>2 DEF NodesInv, RoundInv
<1>6. /\ CallIsSafe /\ state' # "connected"
      /\ called'.do \notin {"listen", "endlisten"} => ListenerKept
  BY <1>2, <1>3, <1>4, <1>5, CarryIsSafe
<1>7. HoldingInv'
  BY <1>6 DEF CallIsSafe
<1>8. LoopType'
  BY <1>2, <1>5 DEF LoopType
<1>9. RoundInv'
  BY <1>2, <1>6, <1>7 DEF RoundInv, HoldingInv, HoldingType, NodesMatchState
<1>10. AskInv'
  <2>1. argv \in Seq(Text)
    BY LinesAssumption
  <2> QED BY <1>1, <2>1 DEF AskInv
<1>11. LoopGoesOn'
  BY <1>2 DEF LoopGoesOn
<1> QED BY <1>6, <1>7, <1>8, <1>9, <1>10, <1>11 DEF StepIsSafe, NodesInv, ListenerMinded

LEMMA SelectSafe ==
    ASSUME NodesInv, Select
    PROVE  StepIsSafe
<1>1. /\ pc = "select" /\ typed' = NothingTyped /\ called' = Nothing
      /\ UNCHANGED <<waiting, state, local, remote, os, stale, leftovers>>
  BY DEF Select
<1>2. /\ LoopType /\ HoldingInv /\ RoundInv /\ SocketsHeld /\ NodesMatchState
      /\ local \in Node /\ remote \in Node
      /\ state \in {"not_connected", "connecting", "connected"}
  BY DEF NodesInv, HoldingInv, HoldingType
<1>3. CallIsSafe /\ ListenerKept
  BY <1>1, <1>2, NoCallIsSafe
<1>4. AskInv'
  BY <1>1 DEF AskInv
<1>5. CASE \E fd \in (ReadSet \cup WriteSet) \ {None} : os.files[fd] = "nobody"
  <2>1. pc' = "exit" /\ ready' = ready
    BY <1>5 DEF Select
  <2>2. PICK fd \in (ReadSet \cup WriteSet) \ {None} : os.files[fd] = "nobody"
    BY <1>5
  <2>3. fd = local.socket \/ (fd = remote.socket /\ state # "not_connected")
    BY <2>2 DEF ReadSet, WriteSet
  <2>4. "file" \in os.harm
    BY <1>2, <2>2, <2>3 DEF SocketsHeld, NodesMatchState
  <2>5. LoopType' /\ RoundInv'
    BY <1>1, <1>2, <2>1 DEF LoopType, RoundInv
  <2>6. LoopGoesOn'
    BY <1>1, <2>4 DEF LoopGoesOn
  <2> QED BY <1>3, <1>4, <2>5, <2>6 DEF StepIsSafe, NodesInv, ListenerMinded, CallIsSafe
<1>6. CASE ~ \E fd \in (ReadSet \cup WriteSet) \ {None} : os.files[fd] = "nobody"
  <2>1. PICK r \in SUBSET (ReadSet \ {None}), w \in SUBSET (WriteSet \ {None}), key \in BOOLEAN :
           ready' = [read |-> r, write |-> w, stdin |-> key]
    BY <1>6 DEF Select
  <2>2. pc' = "recv"
    BY <1>6 DEF Select
  <2>3. r \in SUBSET Fds /\ w \in SUBSET Fds
    BY <1>2 DEF ReadSet, WriteSet, Node
  <2>4. LoopType'
    BY <1>1, <1>2, <2>1, <2>2, <2>3 DEF LoopType
  <2>5. state = "connecting" => r = {}
    BY DEF ReadSet
  <2>6. local.socket \in r /\ state = "connected" =>
           local.socket = remote.socket /\ local.socket # None
    BY DEF ReadSet
  <2>7. "file" \notin os.harm /\ local.socket \in r => state = "not_connected"
    BY <1>2, <2>5, <2>6 DEF SocketsHeld, NodesMatchState
  <2>8. ready'.read = r
    BY <2>1
  <2>9. RoundInv'
    BY <1>1, <2>2, <2>5, <2>7, <2>8 DEF RoundInv
  <2>10. LoopGoesOn'
    BY <2>2 DEF LoopGoesOn
  <2> QED BY <1>3, <1>4, <2>4, <2>9, <2>10 DEF StepIsSafe, NodesInv, ListenerMinded, CallIsSafe
<1> QED BY <1>5, <1>6

\* What is typed lasts until select() is called again.
LEMMA AskLasts ==
    ASSUME AskInv, UNCHANGED <<typed, called>>
    PROVE  AskInv'
BY DEF AskInv

LEMMA ReceiveSafe ==
    ASSUME NodesInv, Receive
    PROVE  StepIsSafe
<1>1. /\ pc = "recv" /\ pc' \in {"write", "ended"}
      /\ UNCHANGED <<ready, waiting, state, local, typed, called, stale, leftovers>>
  BY DEF Receive, Goto
<1>2. LoopType /\ HoldingInv /\ RoundInv /\ AskInv
  BY DEF NodesInv
<1>3. CallIsSafe /\ ListenerKept
  <2>1. CASE remote.socket \in ready.read /\ LoseSocket
    <3>1. state # "connecting"
      BY <1>1, <1>2, <2>1 DEF RoundInv
    <3> QED BY <1>1, <1>2, <2>1, <3>1, LoseSocketSafe
  <2>2. CASE UNCHANGED <<os, remote>>
    BY <1>1, <1>2, <2>2, NoCallIsSafe
  <2> QED BY <2>1, <2>2 DEF Receive
<1>4. LoopType'
  BY <1>1, <1>2 DEF LoopType
<1>5. RoundInv'
  BY <1>1, <1>2, <1>3 DEF RoundInv, CallIsSafe
<1>6. LoopGoesOn'
  BY <1>1 DEF LoopGoesOn
<1> QED BY <1>1, <1>2, <1>3, <1>4, <1>5, <1>6, AskLasts
        DEF StepIsSafe, NodesInv, ListenerMinded, CallIsSafe

LEMMA WriteSafe ==
    ASSUME NodesInv, Write
    PROVE  StepIsSafe
<1>1. /\ pc = "write" /\ pc' \in {"accept", "ended"}
      /\ UNCHANGED <<ready, waiting, local, typed, called, leftovers>>
  BY DEF Write, Goto
<1>2. LoopType /\ HoldingInv /\ RoundInv /\ AskInv
  BY DEF NodesInv
<1>3. /\ CallIsSafe /\ ListenerKept
      /\ state' = state \/ state' = "not_connected" \/ state = "connecting"
  <2>1. CASE UNCHANGED <<os, remote, state, stale>>
    BY <1>1, <1>2, <2>1, NoCallIsSafe
  <2>2. CASE state = "connecting" /\ UserDisconnect
    BY <1>1, <1>2, <2>2, UserDisconnectSafe
  <2>3. CASE state = "connecting" /\ state' = "connected" /\ UNCHANGED <<os, remote, stale>>
    BY <1>1, <1>2, <2>3, ConnectedSafe
  <2>4. CASE state # "connecting" /\ LoseSocket /\ UNCHANGED <<state, stale>>
    BY <1>1, <1>2, <2>4, LoseSocketSafe
  <2> QED BY <2>1, <2>2, <2>3, <2>4 DEF Write
<1>4. LoopType'
  BY <1>1, <1>2 DEF LoopType
<1>5. RoundInv'
  BY <1>1, <1>2, <1>3 DEF RoundInv, CallIsSafe
<1>6. LoopGoesOn'
  BY <1>1 DEF LoopGoesOn
<1> QED BY <1>1, <1>2, <1>3, <1>4, <1>5, <1>6, AskLasts
        DEF StepIsSafe, NodesInv, ListenerMinded, CallIsSafe

LEMMA AcceptSafe ==
    ASSUME NodesInv, Accept
    PROVE  StepIsSafe
<1>1. /\ pc = "accept" /\ pc' \in {"stdin", "ended"}
      /\ UNCHANGED <<ready, waiting, local, typed, called>>
  BY DEF Accept, Goto
<1>2. LoopType /\ HoldingInv /\ RoundInv /\ AskInv
  BY DEF NodesInv
<1>3. CallIsSafe /\ ListenerKept
  <2>1. CASE local.socket \in ready.read
    <3>1. "file" \notin os.harm => state = "not_connected"
      BY <1>1, <1>2, <2>1 DEF RoundInv
    <3>2. UserAccept
      BY <2>1 DEF Accept
    <3> QED BY <1>1, <1>2, <3>1, <3>2, UserAcceptSafe
  <2>2. CASE local.socket \notin ready.read
    <3>1. UNCHANGED <<os, remote, state, stale, leftovers>>
      BY <2>2 DEF Accept
    <3> QED BY <1>1, <1>2, <3>1, NoCallIsSafe
  <2> QED BY <2>1, <2>2
<1>4. LoopType'
  BY <1>1, <1>2 DEF LoopType
<1>5. RoundInv' /\ LoopGoesOn'
  BY <1>1 DEF RoundInv, LoopGoesOn
<1> QED BY <1>1, <1>2, <1>3, <1>4, <1>5, AskLasts
        DEF StepIsSafe, NodesInv, ListenerMinded, CallIsSafe

LEMMA KeySafe ==
    ASSUME NodesInv, Key
    PROVE  StepIsSafe
<1>1. /\ pc' = "check" /\ UNCHANGED <<local, remote, os, state, stale, typed, called>>
      /\ UNCHANGED <<ready, waiting, leftovers>>
  BY DEF Key
<1>2. LoopType /\ HoldingInv /\ AskInv
  BY DEF NodesInv
<1>3. CallIsSafe /\ ListenerKept
  BY <1>1, <1>2, NoCallIsSafe
<1>4. LoopType' /\ RoundInv' /\ LoopGoesOn'
  BY <1>1, <1>2 DEF LoopType, RoundInv, LoopGoesOn
<1> QED BY <1>1, <1>2, <1>3, <1>4, AskLasts
        DEF StepIsSafe, NodesInv, ListenerMinded, CallIsSafe

LEMMA CommandSafe ==
    ASSUME NodesInv, Command
    PROVE  StepIsSafe
<1>1. PICK line \in Lines :
         /\ typed' = [at |-> "line", words |-> line]
         /\ called' = CommandHandle(line)
  BY DEF Command
<1>2. /\ Carry(called') /\ pc' \in {"check", "ended"}
      /\ UNCHANGED <<ready, waiting, leftovers>>
  BY DEF Command, Goto
<1>3. PICK request : request = called'
  OBVIOUS
<1>4. Carry(request)
  BY <1>2, <1>3
<1>5. LoopType /\ HoldingInv
  BY DEF NodesInv
<1>6. CallIsSafe /\ (called'.do \notin {"listen", "endlisten"} => ListenerKept)
  BY <1>2, <1>3, <1>4, <1>5, CarryIsSafe
<1>7. LoopType' /\ RoundInv' /\ LoopGoesOn'
  BY <1>2, <1>5 DEF LoopType, RoundInv, LoopGoesOn
<1>8. AskInv'
  <2>1. line \in Seq(Text \ {<<>>})
    BY LinesAssumption
  <2> QED BY <1>1, <2>1 DEF AskInv
<1> QED BY <1>6, <1>7, <1>8 DEF StepIsSafe, NodesInv, ListenerMinded, CallIsSafe

LEMMA CheckSafe ==
    ASSUME NodesInv, Check
    PROVE  StepIsSafe
<1>1. /\ pc' \in {"exit", "select", "ended"} /\ (pc' = "exit" => called = Quit)
      /\ ready' = Quiet
      /\ UNCHANGED <<waiting, local, typed, called, leftovers>>
  BY DEF Check, Goto
<1>2. LoopType /\ HoldingInv /\ AskInv
  BY DEF NodesInv
<1>3. /\ CallIsSafe /\ ListenerKept
      /\ state' = "connected" => remote'.socket # None
  <2>1. CASE UserDisconnect
    <3>1. state' = "not_connected"
      BY <2>1 DEF UserDisconnect
    <3> QED BY <1>1, <1>2, <2>1, <3>1, UserDisconnectSafe
  <2>2. CASE /\ state = "connected" => remote.socket # None
             /\ UNCHANGED <<os, remote, state, stale>>
    BY <1>1, <1>2, <2>2, NoCallIsSafe
  <2> QED BY <2>1, <2>2 DEF Check
<1>4. HoldingInv' /\ state' \in {"not_connected", "connecting", "connected"}
  BY <1>3 DEF CallIsSafe, HoldingInv, HoldingType
<1>5. LoopType'
  BY <1>1, <1>2 DEF LoopType, Quiet
<1>6. RoundInv'
  BY <1>1, <1>3, <1>4 DEF RoundInv, HoldingInv, NodesMatchState
<1>7. LoopGoesOn'
  BY <1>1 DEF LoopGoesOn
<1> QED BY <1>1, <1>2, <1>3, <1>4, <1>5, <1>6, <1>7, AskLasts
        DEF StepIsSafe, NodesInv, ListenerMinded

LEMMA ExitSafe ==
    ASSUME NodesInv, End
    PROVE  StepIsSafe
<1>1. pc = "exit" /\ pc' = "ended" /\ UNCHANGED <<ready, waiting, typed, called>>
  BY DEF End
<1>2. LoopType /\ HoldingInv /\ AskInv
  BY DEF NodesInv
<1>3. CallIsSafe
  BY <1>2, EndSafe
<1>4. LoopType' /\ RoundInv' /\ LoopGoesOn'
  BY <1>1, <1>2 DEF LoopType, RoundInv, LoopGoesOn
<1> QED BY <1>1, <1>2, <1>3, <1>4, AskLasts
        DEF StepIsSafe, NodesInv, ListenerMinded, CallIsSafe

----------------------------------------------------------------------------
LEMMA InitSafe ==
    ASSUME Init
    PROVE  NodesInv
<1>1. local = Closed /\ remote = Closed /\ state = "not_connected" /\ pc = "start"
      /\ stale = FALSE /\ leftovers = 0 /\ ready = Quiet /\ waiting = FALSE
      /\ typed = NothingTyped /\ called = Nothing
  BY DEF Init
<1>2. Closed \in Node /\ Closed.socket = None /\ Closed.info = None
  BY DEF Closed, Node
<1>3. /\ os.files = [fd \in Fds |-> "nobody"] /\ os.infos = [info \in Infos |-> "nobody"]
      /\ os.harm = {} /\ os \in Process
  <2> DEFINE files == [fd \in Fds |-> "nobody"]
             infos == [info \in Infos |-> "nobody"]
  <2>1. os = [files |-> files, infos |-> infos, harm |-> {}]
    BY DEF Init
  <2>2. files \in [Fds -> Holders] /\ infos \in [Infos -> Holders]
    BY DEF Holders
  <2>3. files = [fd \in Fds |-> "nobody"] /\ infos = [info \in Infos |-> "nobody"]
    OBVIOUS
  <2> HIDE DEF files, infos
  <2>4. os \in Process
    BY <2>1, <2>2 DEF Process
  <2> QED BY <2>1, <2>3, <2>4
<1>4. HoldingType
  <2>1. leftovers \in 0 .. MaxLeftovers
    BY <1>1, NodesAssumption
  <2>2. stale \in BOOLEAN /\ state \in {"not_connected", "connecting", "connected"}
    BY <1>1
  <2> QED BY <1>1, <1>2, <1>3, <2>1, <2>2 DEF HoldingType
<1>5. SocketsHeld /\ InfosHeld /\ NodesMatchState
  BY <1>1, <1>2 DEF SocketsHeld, InfosHeld, NodesMatchState
<1>6. LeftoversCounted
  <2>1. /\ \A x \in Fds : os.files[x] = "nobody"
        /\ \A x \in Infos : os.infos[x] = "nobody"
        /\ DOMAIN os.files = Fds /\ DOMAIN os.infos = Infos
    BY <1>3
  <2>2. Leavings(os.files, remote.socket) = {} /\ Leavings(os.infos, remote.info) = {}
    BY <2>1 DEF Leavings, Remotes
  <2>3. Cardinality({}) = 0
    BY FS_EmptySet
  <2> QED BY <1>1, <2>1, <2>2, <2>3 DEF LeftoversCounted
<1>7. LoopType /\ RoundInv /\ AskInv /\ LoopGoesOn
  BY <1>1 DEF LoopType, Quiet, RoundInv, AskInv, LoopGoesOn
<1> QED BY <1>4, <1>5, <1>6, <1>7 DEF NodesInv, HoldingInv

LEMMA StutterSafe ==
    ASSUME NodesInv, UNCHANGED vars
    PROVE  NodesInv'
<1>1. UNCHANGED <<local, remote, os, state, stale, leftovers>>
      /\ UNCHANGED <<pc, ready, waiting, typed, called>>
  BY DEF vars
<1>2. HoldingInv'
  BY <1>1, NoCallIsSafe DEF NodesInv, CallIsSafe
<1> QED BY <1>1, <1>2, AskLasts DEF NodesInv, LoopType, RoundInv, LoopGoesOn

LEMMA NextSafe ==
    ASSUME NodesInv, Next
    PROVE  StepIsSafe
BY StartSafe, SelectSafe, ReceiveSafe, WriteSafe, AcceptSafe, KeySafe, CommandSafe,
   CheckSafe, ExitSafe DEF Next

\* NodesInv is an invariant of any number of descriptors and of addrinfo blocks.
\* Two clauses of it are seldom thought of: what the fd_sets say of the listener
\* still holds when they are tested, since a step between the two never makes a
\* connection (chat.c:420); and the descriptors and the memory are judged apart,
\* for one may be in order where the other is not (node.c:126).
THEOREM NodesInvariant == Spec => []NodesInv
<1>1. Init => NodesInv
  BY InitSafe
<1>2. NodesInv /\ [Next]_vars => NodesInv'
  BY NextSafe, StutterSafe DEF StepIsSafe
<1> QED BY <1>1, <1>2, PTL DEF Spec

\* Every variable keeps its type, and a request never names a port that a
\* uint16_t does not hold (address.c:54, args.c:89, command.c:113).
THEOREM NodesTypeCorrect == Spec => []TypeOK
<1>1. NodesInv => TypeOK
  <2> SUFFICES ASSUME NodesInv PROVE TypeOK
    OBVIOUS
  <2>1. LoopType /\ HoldingType /\ AskInv
    BY DEF NodesInv, HoldingInv
  <2>2. IsRequest(called)
    BY <2>1, AskFacts
  <2> QED BY <2>1, <2>2 DEF TypeOK, LoopType, HoldingType, Process, Node, IsRequest
<1> QED BY <1>1, NodesInvariant, PTL

\* What a node holds is open, allocated and its own, as long as what a failed
\* node_connect left in the remote node (node.c:126, node.c:138) has not made
\* the program close or free what is another's.
THEOREM NodesHold == Spec => []NodesHoldTheirOwn
<1>1. NodesInv => NodesHoldTheirOwn
  BY DEF NodesInv, HoldingInv, SocketsHeld, InfosHeld, RoundInv, NodesHoldTheirOwn, Holds
<1> QED BY <1>1, NodesInvariant, PTL

\* No descriptor and no addrinfo is lost but the one of each accepted socket that
\* user_finish_connect found in error and did not close (user.c:112).
THEOREM NothingElseIsLost == Spec => []LostOnlyInAccept
<1>1. NodesInv => LostOnlyInAccept
  <2> SUFFICES ASSUME NodesInv, os.harm = {}
               PROVE  /\ Cardinality(Lost(os.files, {local.socket, remote.socket})) <= leftovers
                      /\ Cardinality(Lost(os.infos, {local.info, remote.info})) <= leftovers
    BY DEF LostOnlyInAccept
  <2>1. HoldingType /\ LeftoversCounted /\ os \in Process /\ leftovers \in Nat
    BY LeavingsFacts DEF NodesInv, HoldingInv, HoldingType
  <2>2. /\ Leavings(os.files, remote.socket) \subseteq Fds
        /\ Leavings(os.infos, remote.info) \subseteq Infos
    BY <2>1, LeavingsFacts
  <2>3. /\ DOMAIN os.files = Fds /\ DOMAIN os.infos = Infos
        /\ \A x \in Fds : os.files[x] \in {"nobody", "local", "remote"}
        /\ \A x \in Infos : os.infos[x] \in {"nobody", "local", "remote"}
    BY <2>1 DEF Process, Holders
  <2>4. Lost(os.files, {local.socket, remote.socket}) \subseteq Leavings(os.files, remote.socket)
    BY <2>1, <2>3 DEF Lost, Leavings, Remotes, LeftoversCounted
  <2>5. Lost(os.infos, {local.info, remote.info}) \subseteq Leavings(os.infos, remote.info)
    BY <2>1, <2>3 DEF Lost, Leavings, Remotes, LeftoversCounted
  <2>6. Cardinality(Leavings(os.files, remote.socket)) <= leftovers
        /\ Cardinality(Leavings(os.infos, remote.info)) <= leftovers
    BY <2>1 DEF LeftoversCounted
  <2>7. Cardinality(Lost(os.files, {local.socket, remote.socket})) <= leftovers
    BY <2>1, <2>2, <2>4, <2>6, CountFewer
  <2>8. Cardinality(Lost(os.infos, {local.info, remote.info})) <= leftovers
    BY <2>1, <2>2, <2>5, <2>6, CountFewer
  <2> QED BY <2>7, <2>8
<1> QED BY <1>1, NodesInvariant, PTL

\* select() is never given a descriptor the program itself has closed, unless the
\* rubbish of a failed node_connect has closed one of another's before: the loop
\* ends because the user quits (chat.c:394).
THEOREM LoopEndsWithQuit == Spec => []LoopGoesOn
<1>1. NodesInv => LoopGoesOn
  BY DEF NodesInv
<1> QED BY <1>1, NodesInvariant, PTL

\* The program dials and listens where the user wrote, whatever is written
\* (address.c:28, args.c:76, command.c:105), up to what the integer conversions
\* take from a port to listen on (args.c:89, command.c:113).
THEOREM UserIsObeyed == Spec => []AsWritten
<1>1. NodesInv => AsWritten
  BY AskFacts DEF NodesInv
<1> QED BY <1>1, NodesInvariant, PTL

\* The first step that closes another's descriptor, and the first that frees what
\* is another's, is one with the rubbish of a failed node_connect in the remote
\* node (node.c:126, node.c:138).  It says nothing of the steps after these.
THEOREM FirstHarmIsStale == Spec => FirstHarmByStale
<1> DEFINE First ==
        \A kind \in {"file", "memory"} : kind \in os'.harm /\ kind \notin os.harm => stale
<1>1. NodesInv /\ [Next]_vars => [First]_vars
  BY NextSafe DEF StepIsSafe, CallIsSafe
<1> QED BY <1>1, NodesInvariant, PTL DEF Spec, FirstHarmByStale

\* The listener's descriptor is closed by chat_end_listen, by chat_begin_listen
\* and by chat_end (chat.c:437), and by a connection only where remote.node holds
\* the same number: one that a failed node_connect left (node.c:126), or one that
\* has come to two holders because such a number was closed.
THEOREM ListenerStays == Spec => ListenerSurvives
<1> DEFINE Survives ==
        ListenerLost => \/ ListenerEnded
                        \/ remote.socket = local.socket /\ (stale \/ "file" \in os.harm)
<1>1. NodesInv /\ [Next]_vars => [Survives]_vars
  BY NextSafe DEF StepIsSafe, ListenerMinded, ListenerKept, ListenerEnded, ListenerLost, vars
<1> QED BY <1>1, NodesInvariant, PTL DEF Spec, ListenerSurvives
=============================================================================
