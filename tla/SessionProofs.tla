--------------------------- MODULE SessionProofs ---------------------------
(***************************************************************************)
(* Theorems about Session, for any number of instances and of connection   *)
(* attempts, whoever waits, dials, leaves, quits or is slow.               *)
(*                                                                         *)
(* The safety of the handshake rests on what is on its way: the messages   *)
(* an end has not read yet are those the other end has said and this end   *)
(* has not heard, the hello before the answer, and each says what its      *)
(* sender stands by.  SessionInv is that, with what it needs to know of    *)
(* sockets, of the backlogs and of the handlers that wait for their turn.  *)
(***************************************************************************)
EXTENDS Session, SequenceTheorems, TLAPS

\* Whom p was started to talk to, and could.
Befriends(p, q) == Friend[p] = q /\ Version[p] = Version[q]

\* The instance that p is connected to.
Partner(p) == Owner(Far(sock[p]))

\* The handlers select() reports for a state, which lasts until they run.
TurnsMatchState(p) ==
    /\ todo[p] # {} => "check" \in todo[p]
    /\ "read" \in todo[p] => state[p] = "CONNECTED"
    /\ "write" \in todo[p] => /\ state[p] = "CONNECTING" /\ hs[p] = Idle
                              /\ links[sock[p][1]].phase # "OPENING"
    /\ "accept" \in todo[p] => /\ state[p] = "NOT_CONNECTED" /\ hs[p] = Idle
                               /\ queue[p] # <<>>

\* What remote.node holds in each state.
SocketMatchesPhase(p) ==
    /\ sock[p] \in Ends => sock[p] \in open /\ Owner(sock[p]) = p
    /\ state[p] = "OFF" => /\ sock[p] = NoEnd /\ hs[p] = Idle
                           /\ todo[p] = {} /\ queue[p] = <<>>
    /\ state[p] = "NOT_CONNECTED" /\ sock[p] \in Ends =>
          sock[p][2] = "callee" /\ (hs[p] = Idle => Broken(sock[p]))
    /\ state[p] = "CONNECTING" => sock[p] \in Ends /\ sock[p][2] = "caller"
    /\ state[p] = "CONNECTED" /\ todo[p] = {} => sock[p] \in Ends
    /\ state[p] = "CONNECTED" => hs[p] = Idle /\ sock[p] # Stale
    /\ hs[p].phase = "none" => hs[p] = Idle
    /\ hs[p] # Idle => sock[p] \in Ends
    /\ sock[p] \in Ends /\ (hs[p] # Idle \/ state[p] = "CONNECTED") =>
          links[sock[p][1]].phase # "OPENING"

\* A backlog holds connections that were made and not accepted, each once.
BacklogIsFresh(p) ==
    /\ \A i \in 1 .. Len(queue[p]) :
          /\ queue[p][i] \in DOMAIN links
          /\ links[queue[p][i]].to = p
          /\ links[queue[p][i]].phase # "OPENING"
          /\ <<queue[p][i], "callee">> \in open
          /\ sock[p] # <<queue[p][i], "callee">>
    /\ \A i, j \in 1 .. Len(queue[p]) : queue[p][i] = queue[p][j] => i = j
    /\ state[p] = "OFF" => ~listening[p]

\* Nothing is sent over a connection before it is made.
NothingBeforeUp ==
    /\ \A e \in open : e[1] \in DOMAIN links
    /\ \A l \in DOMAIN links : links[l].phase = "OPENING" => <<l, "callee">> \notin open
    /\ \A e \in Ends : mail[e] # <<>> =>
          e[1] \in DOMAIN links /\ links[e[1]].phase # "OPENING"

\* Who has the remote key after the hellos has that of the partner.
KeyIsPartners(p) ==
    (hs[p].phase = "answer" /\ key[p] # NoKey) \/ (state[p] = "CONNECTED" /\ sock[p] \in Ends)
    => key[p] = Partner(p) /\ Befriends(p, Partner(p))

\* The messages the program has sent and read in the handshake, which are over
\* with it.
SaidBy(p) ==
    IF state[p] = "CONNECTED" THEN 2
    ELSE IF hs[p].phase = "hello" THEN IF hs[p].sent THEN 1 ELSE 0
    ELSE IF hs[p].phase = "answer" THEN IF hs[p].sent THEN 2 ELSE 1
    ELSE 0
HeardBy(p) ==
    IF state[p] = "CONNECTED" THEN 2
    ELSE IF hs[p].phase = "hello" THEN Len(hs[p].got)
    ELSE IF hs[p].phase = "answer" THEN 1 + Len(hs[p].got)
    ELSE 0

\* The same of an end, which may be waiting in the backlog.
Said(e) == IF sock[Owner(e)] = e THEN SaidBy(Owner(e)) ELSE 0
Heard(e) == IF sock[Owner(e)] = e THEN HeardBy(Owner(e)) ELSE 0

\* What q may say to p: first hello, then an answer it stands by.
Hello(q) == [version |-> Version[q], id |-> q]
Honest(n, m, p, q) ==
    IF n = 1 THEN m = Hello(q)
             ELSE m \in [accept : BOOLEAN] /\ (m.accept => Befriends(q, p))

HeardIsHonest(p) ==
    /\ Len(hs[p].got) <= 1
    /\ hs[p].got # <<>> =>
          Honest(IF hs[p].phase = "hello" THEN 1 ELSE 2, hs[p].got[1], p, Partner(p))
    /\ state[p] = "CONNECTED" /\ sock[p] \in Ends => Befriends(Partner(p), p)

MailIsHonest(e) ==
    /\ Heard(e) + Len(mail[e]) <= 2
    /\ \A i \in 1 .. Len(mail[e]) :
          Honest(Heard(e) + i, mail[e][i], Owner(e), Owner(Far(e)))

\* What one end has said, the other has heard or finds in its mail.
NothingIsLost(e) ==
    Far(e) \in open /\ ~Broken(e) => Said(e) = Heard(Far(e)) + Len(mail[Far(e)])

SessionInv ==
    /\ TypeOK
    /\ \A p \in Peers : TurnsMatchState(p) /\ SocketMatchesPhase(p)
    /\ \A p \in Peers : BacklogIsFresh(p)
    /\ NothingBeforeUp
    /\ \A p \in Peers : KeyIsPartners(p) /\ HeardIsHonest(p)
    /\ \A e \in open : MailIsHonest(e) /\ NothingIsLost(e)

----------------------------------------------------------------------------
\* What no step undoes: a connection stays between the same instances, and what
\* is reset stays so.
LinksKept ==
    \A l \in DOMAIN links :
        /\ l \in DOMAIN links'
        /\ links'[l].from = links[l].from /\ links'[l].to = links[l].to
        /\ links[l].phase # "OPENING" => links'[l].phase # "OPENING"
        /\ links[l].phase = "RESET" => links'[l].phase = "RESET"

LEMMA EndFacts ==
    ASSUME NEW e \in Ends
    PROVE  /\ Far(e) \in Ends /\ Far(Far(e)) = e /\ Far(e) # e /\ Far(e)[1] = e[1]
           /\ e # NoEnd /\ e # Stale
           /\ e = <<e[1], e[2]>> /\ e[1] \in 1 .. MaxLinks /\ e[2] \in {"caller", "callee"}
BY BoundsAssumption DEF Ends, Far, Sides, NoEnd, Stale

LEMMA NoneIsEnd == NoEnd \notin Ends /\ Stale \notin Ends /\ NoEnd # Stale
BY EndFacts DEF NoEnd, Stale

LEMMA LinkFacts ==
    ASSUME TypeOK
    PROVE  /\ Len(links) \in Nat /\ DOMAIN links = 1 .. Len(links)
           /\ DOMAIN links \subseteq 1 .. MaxLinks
           /\ \A l \in DOMAIN links : links[l] \in Link
           /\ \A e \in Ends : e[1] \in DOMAIN links => Owner(e) \in Peers
<1>1. /\ Len(links) \in Nat /\ DOMAIN links = 1 .. Len(links)
      /\ \A l \in DOMAIN links : links[l] \in Link
  BY LenProperties, ElementOfSeq DEF TypeOK
<1>2. DOMAIN links \subseteq 1 .. MaxLinks
  BY <1>1, BoundsAssumption DEF TypeOK
<1>3. \A e \in Ends : e[1] \in DOMAIN links => Owner(e) \in Peers
  BY <1>1 DEF Owner, Link
<1> QED BY <1>1, <1>2, <1>3

LEMMA ResolvedFacts ==
    ASSUME TypeOK, NEW ls
    PROVE  /\ Resolved(ls) \in Seq(Link) /\ Len(Resolved(ls)) = Len(links)
           /\ DOMAIN Resolved(ls) = DOMAIN links
           /\ \A l \in DOMAIN links :
                 /\ Resolved(ls)[l].from = links[l].from /\ Resolved(ls)[l].to = links[l].to
                 /\ Resolved(ls)[l].phase = IF l \in ls THEN "RESET" ELSE links[l].phase
<1> DEFINE R(l) == IF l \in ls THEN [links[l] EXCEPT !.phase = "RESET"] ELSE links[l]
<1>1. /\ Len(links) \in Nat /\ DOMAIN links = 1 .. Len(links)
      /\ \A l \in DOMAIN links : links[l] \in Link
  BY LinkFacts
<1>2. \A l \in 1 .. Len(links) :
         /\ R(l) \in Link
         /\ R(l).from = links[l].from /\ R(l).to = links[l].to
         /\ R(l).phase = IF l \in ls THEN "RESET" ELSE links[l].phase
  BY <1>1 DEF Link
<1>3. Resolved(ls) = [l \in 1 .. Len(links) |-> R(l)]
  BY <1>1 DEF Resolved
<1> HIDE DEF R
<1>4. [l \in 1 .. Len(links) |-> R(l)] \in Seq(Link)
  BY <1>1, <1>2, IsASeq
<1>5. Len(Resolved(ls)) = Len(links)
  BY <1>1, <1>3, <1>4, LenProperties
<1> QED BY <1>1, <1>2, <1>3, <1>4, <1>5

LEMMA NotEmpty ==
    ASSUME NEW S, NEW s \in Seq(S), s # <<>>
    PROVE  Len(s) \in Nat \ {0} /\ Head(s) = s[1] /\ s[1] \in S
<1>1. Len(s) \in Nat \ {0}
  BY EmptySeq
<1>2. s[1] \in S
  BY <1>1, ElementOfSeq
<1>3. Head(s) = s[1]
  OBVIOUS
<1> QED BY <1>1, <1>2, <1>3

\* The owner of an end is always the same.
LEMMA OwnerKept ==
    ASSUME LinksKept, NEW e, e[1] \in DOMAIN links
    PROVE  Owner(e)' = Owner(e) /\ (Broken(e) => Broken(e)')
BY DEF LinksKept, Owner, Broken

\* What holds of an instance goes on to hold while it keeps its connection, nobody
\* closes its socket, and no handler is called out of turn.
LEMMA SocketKept ==
    ASSUME SessionInv, LinksKept, NEW r \in Peers,
           UNCHANGED <<state[r], sock[r], key[r], hs[r]>>,
           todo'[r] \subseteq todo[r], todo'[r] # {} => "check" \in todo'[r],
           todo'[r] = {} /\ state[r] = "CONNECTED" => sock[r] \in Ends,
           "accept" \in todo'[r] => queue'[r] # <<>>,
           state[r] = "OFF" => queue'[r] = <<>>,
           sock[r] \in Ends => sock[r] \in open'
    PROVE  /\ TurnsMatchState(r)' /\ SocketMatchesPhase(r)'
           /\ KeyIsPartners(r)' /\ HeardIsHonest(r)'
<1>1. TypeOK /\ NothingBeforeUp
  BY DEF SessionInv
<1>2. /\ TurnsMatchState(r) /\ SocketMatchesPhase(r)
      /\ KeyIsPartners(r) /\ HeardIsHonest(r)
  BY DEF SessionInv
<1>3. sock[r] \in Ends => sock[r] \in open /\ sock[r][1] \in DOMAIN links
  BY <1>1, <1>2 DEF TypeOK, SocketMatchesPhase, NothingBeforeUp
<1>4. sock[r] \in Ends => Owner(sock[r])' = Owner(sock[r]) /\ Partner(r)' = Partner(r)
  <2> SUFFICES ASSUME sock[r] \in Ends
               PROVE  Owner(sock[r])' = Owner(sock[r]) /\ Partner(r)' = Partner(r)
    OBVIOUS
  <2>1. Far(sock[r])[1] \in DOMAIN links
    BY <1>3, EndFacts
  <2>2. sock'[r] = sock[r]
    OBVIOUS
  <2>3. LinksKept
    OBVIOUS
  <2> QED BY <1>3, <2>1, <2>2, <2>3 DEF LinksKept, Owner, Partner, Far
<1>5. TurnsMatchState(r)'
  <2>1. "write" \in todo[r] => links'[sock[r][1]].phase # "OPENING"
    BY <1>2, <1>3 DEF TurnsMatchState, SocketMatchesPhase, LinksKept
  <2> QED BY <1>2, <2>1 DEF TurnsMatchState
<1>6. SocketMatchesPhase(r)'
  <2>1. sock[r] \in Ends => sock[r] \in open' /\ (Broken(sock[r]) => Broken(sock[r])')
    BY <1>2, <1>3 DEF SocketMatchesPhase, LinksKept, Broken
  <2>2. sock[r] \in Ends /\ (hs[r] # Idle \/ state[r] = "CONNECTED") =>
          links'[sock[r][1]].phase # "OPENING"
    BY <1>2, <1>3 DEF SocketMatchesPhase, LinksKept
  <2> QED BY <1>2, <1>4, <2>1, <2>2 DEF SocketMatchesPhase, Broken, Owner
<1>7. KeyIsPartners(r)'
  BY <1>2, <1>4 DEF KeyIsPartners, SocketMatchesPhase, Befriends, Idle
<1>8. HeardIsHonest(r)'
  BY <1>2, <1>4 DEF HeardIsHonest, SocketMatchesPhase, Befriends, Honest, Hello, Idle
<1> QED BY <1>5, <1>6, <1>7, <1>8

LEMMA InstanceKept ==
    ASSUME SessionInv, LinksKept, NEW r \in Peers,
           UNCHANGED <<todo[r], state[r], sock[r], key[r], hs[r], queue[r], listening[r]>>,
           \A e \in open : Owner(e) = r => e \in open'
    PROVE  /\ TurnsMatchState(r)' /\ SocketMatchesPhase(r)' /\ BacklogIsFresh(r)'
           /\ KeyIsPartners(r)' /\ HeardIsHonest(r)'
<1>1. BacklogIsFresh(r)
  BY DEF SessionInv
<1>2. ASSUME NEW i \in 1 .. Len(queue[r])
      PROVE  /\ queue[r][i] \in DOMAIN links'
             /\ links'[queue[r][i]].to = r
             /\ links'[queue[r][i]].phase # "OPENING"
             /\ <<queue[r][i], "callee">> \in open'
  BY <1>1 DEF BacklogIsFresh, LinksKept, Owner
<1>3. BacklogIsFresh(r)'
  BY <1>1, <1>2 DEF BacklogIsFresh
<1>4. TurnsMatchState(r) /\ SocketMatchesPhase(r)
  BY DEF SessionInv
<1>5. /\ todo'[r] # {} => "check" \in todo'[r]
      /\ todo'[r] = {} /\ state[r] = "CONNECTED" => sock[r] \in Ends
      /\ "accept" \in todo'[r] => queue'[r] # <<>>
      /\ state[r] = "OFF" => queue'[r] = <<>>
      /\ sock[r] \in Ends => sock[r] \in open'
  BY <1>4 DEF TurnsMatchState, SocketMatchesPhase
<1> QED BY <1>3, <1>5, SocketKept

\* An end's count of messages changes only by what its owner does with it.
LEMMA CountsKept ==
    ASSUME LinksKept, NEW e, e[1] \in DOMAIN links, NEW r, Owner(e) = r,
           \/ UNCHANGED <<sock[r], state[r], hs[r]>>
           \/ sock[r] # e /\ sock'[r] # e
    PROVE  Said(e)' = Said(e) /\ Heard(e)' = Heard(e)
<1>1. Owner(e)' = r
  BY DEF LinksKept, Owner
<1> HIDE DEF LinksKept
<1>2. CASE UNCHANGED <<sock[r], state[r], hs[r]>>
  BY <1>1, <1>2 DEF Said, Heard, SaidBy, HeardBy
<1>3. CASE sock[r] # e /\ sock'[r] # e
  BY <1>1, <1>3 DEF Said, Heard
<1> QED BY <1>2, <1>3

LEMMA MailKept ==
    ASSUME SessionInv, LinksKept, NEW e \in open,
           Far(e) \in open' => Far(e) \in open /\ Heard(Far(e))' = Heard(Far(e)),
           Said(e)' = Said(e), Heard(e)' = Heard(e),
           UNCHANGED <<mail[e], mail[Far(e)]>>
    PROVE  MailIsHonest(e)' /\ NothingIsLost(e)'
<1>1. e \in Ends /\ e[1] \in DOMAIN links /\ Far(e) \in Ends /\ Far(e)[1] = e[1]
  BY EndFacts DEF SessionInv, TypeOK, NothingBeforeUp
<1>2. /\ Owner(e)' = Owner(e) /\ Owner(Far(e))' = Owner(Far(e))
      /\ Broken(e) => Broken(e)'
  BY <1>1, OwnerKept DEF LinksKept, Owner, Far
<1>3. MailIsHonest(e) /\ NothingIsLost(e)
  BY DEF SessionInv
<1>4. MailIsHonest(e)'
  BY <1>2, <1>3 DEF MailIsHonest, Honest, Befriends, Hello
<1>5. NothingIsLost(e)'
  BY <1>2, <1>3 DEF NothingIsLost
<1> QED BY <1>4, <1>5

\* Ends stay as they are when no message is sent or read and none is opened.
LEMMA EndsKept ==
    ASSUME SessionInv, LinksKept, NEW p \in Peers, UNCHANGED mail, open' \subseteq open,
           \A r \in Peers \ {p} : UNCHANGED <<sock[r], state[r], hs[r]>>,
           \A e \in open' : Owner(e) = p => Said(e)' = Said(e) /\ Heard(e)' = Heard(e)
    PROVE  \A e \in open' : MailIsHonest(e)' /\ NothingIsLost(e)'
<1>1. ASSUME NEW e \in open'
      PROVE  Said(e)' = Said(e) /\ Heard(e)' = Heard(e)
  <2>1. e \in Ends /\ e[1] \in DOMAIN links /\ Owner(e) \in Peers
    BY LinkFacts DEF SessionInv, TypeOK, NothingBeforeUp
  <2>2. CASE Owner(e) = p
    BY <2>2
  <2>3. CASE Owner(e) # p
    BY <2>1, <2>3, CountsKept
  <2> QED BY <2>2, <2>3
<1>2. ASSUME NEW e \in open'
      PROVE  MailIsHonest(e)' /\ NothingIsLost(e)'
  <2>1. e \in open
    OBVIOUS
  <2>2. Far(e) \in open' => Far(e) \in open /\ Heard(Far(e))' = Heard(Far(e))
    BY <1>1
  <2>3. UNCHANGED <<mail[e], mail[Far(e)]>>
    OBVIOUS
  <2> QED BY <1>1, <2>1, <2>2, <2>3, MailKept
<1> QED BY <1>2

\* A step of p leaves the others what they hold.
LEMMA OneActs ==
    ASSUME SessionInv, LinksKept, NEW p \in Peers, TypeOK', NothingBeforeUp',
           \A r \in Peers \ {p} :
              UNCHANGED <<todo[r], state[r], sock[r], key[r], hs[r], queue[r], listening[r]>>,
           \A e \in open : Owner(e) # p => e \in open',
           TurnsMatchState(p)', SocketMatchesPhase(p)', BacklogIsFresh(p)',
           KeyIsPartners(p)', HeardIsHonest(p)',
           \A e \in open' : MailIsHonest(e)' /\ NothingIsLost(e)'
    PROVE  SessionInv'
<1>1. ASSUME NEW r \in Peers
      PROVE  /\ TurnsMatchState(r)' /\ SocketMatchesPhase(r)' /\ BacklogIsFresh(r)'
             /\ KeyIsPartners(r)' /\ HeardIsHonest(r)'
  <2>1. CASE r = p
    BY <2>1
  <2>2. CASE r # p
    <3>1. UNCHANGED <<todo[r], state[r], sock[r], key[r], hs[r], queue[r], listening[r]>>
      BY <2>2
    <3>2. \A e \in open : Owner(e) = r => e \in open'
      BY <2>2
    <3> QED BY <3>1, <3>2, InstanceKept
  <2> QED BY <2>1, <2>2
<1> QED BY <1>1 DEF SessionInv

----------------------------------------------------------------------------
\* Network: a connection is refused or reset.
LEMMA ResetKeeps ==
    ASSUME SessionInv, NEW l \in DOMAIN links, links' = Resolved({l}),
           UNCHANGED <<program, listening, queue, open, mail, starts>>
    PROVE  SessionInv'
<1>1. TypeOK /\ NothingBeforeUp
  BY DEF SessionInv
<1>2. /\ links' \in Seq(Link) /\ Len(links') = Len(links) /\ DOMAIN links' = DOMAIN links
      /\ \A k \in DOMAIN links :
            /\ links'[k].from = links[k].from /\ links'[k].to = links[k].to
            /\ links'[k].phase = IF k = l THEN "RESET" ELSE links[k].phase
  BY <1>1, ResolvedFacts
<1>3. LinksKept
  BY <1>2 DEF LinksKept
<1>4. TypeOK'
  BY <1>1, <1>2 DEF TypeOK, program
<1>5. NothingBeforeUp'
  BY <1>1, <1>2 DEF NothingBeforeUp
<1>6. ASSUME NEW r \in Peers
      PROVE  /\ TurnsMatchState(r)' /\ SocketMatchesPhase(r)' /\ BacklogIsFresh(r)'
             /\ KeyIsPartners(r)' /\ HeardIsHonest(r)'
  BY <1>3, InstanceKept DEF program
<1>7. ASSUME NEW e \in open'
      PROVE  MailIsHonest(e)' /\ NothingIsLost(e)'
  <2>1. ASSUME NEW f \in open
        PROVE  Said(f)' = Said(f) /\ Heard(f)' = Heard(f)
    <3>1. f[1] \in DOMAIN links
      BY <1>1 DEF NothingBeforeUp
    <3> QED BY <1>3, <3>1, CountsKept DEF program
  <2> QED BY <1>3, <2>1, MailKept DEF program
<1> QED BY <1>4, <1>5, <1>6, <1>7 DEF SessionInv

\* An end that its owner does not hold, or whose connection is being formed, has
\* said and heard nothing.
LEMMA SilentBeforeUp ==
    ASSUME SessionInv, NEW e \in Ends, e[1] \in DOMAIN links,
           links[e[1]].phase = "OPENING"
    PROVE  Said(e) = 0 /\ Heard(e) = 0 /\ mail[e] = <<>>
<1>1. Owner(e) \in Peers
  BY LinkFacts DEF SessionInv
<1>2. sock[Owner(e)] = e => hs[Owner(e)] = Idle /\ state[Owner(e)] # "CONNECTED"
  BY <1>1, EndFacts DEF SessionInv, SocketMatchesPhase
<1> QED BY <1>2 DEF SessionInv, NothingBeforeUp, Said, Heard, SaidBy, HeardBy, Idle

LEMMA EstablishKeeps ==
    ASSUME SessionInv, NEW l \in DOMAIN links, NEW q, q = links[l].to, Establish(l)
    PROVE  SessionInv'
<1> DEFINE caller == <<l, "caller">>
           callee == <<l, "callee">>
<1>1. /\ links' = [links EXCEPT ![l].phase = "UP"]
      /\ open' = open \cup {callee}
      /\ queue' = [queue EXCEPT ![q] = Append(@, l)]
      /\ UNCHANGED <<todo, state, sock, key, hs, listening, mail, starts>>
      /\ links[l].phase = "OPENING" /\ listening[q]
      /\ caller \in open
  BY DEF Establish, program
<1>2. TypeOK /\ NothingBeforeUp
  BY DEF SessionInv
<1>3. /\ Len(links) \in Nat /\ DOMAIN links = 1 .. Len(links)
      /\ DOMAIN links \subseteq 1 .. MaxLinks
      /\ l \in 1 .. MaxLinks
      /\ \A k \in DOMAIN links : links[k] \in Link
      /\ links[l] \in Link
      /\ q \in Peers
  BY <1>2, LinkFacts DEF Link
<1>4. /\ callee \in Ends /\ callee \notin open /\ caller \in Ends
      /\ Far(callee) = caller /\ Far(caller) = callee
      /\ Owner(callee) = q
  BY <1>1, <1>2, <1>3 DEF NothingBeforeUp, Ends, Sides, Far, Owner
<1>5. /\ links' \in Seq(Link) /\ Len(links') = Len(links) /\ DOMAIN links' = DOMAIN links
      /\ \A k \in DOMAIN links :
            /\ links'[k].from = links[k].from /\ links'[k].to = links[k].to
            /\ links'[k].phase = IF k = l THEN "UP" ELSE links[k].phase
  <2> DEFINE up == [links[l] EXCEPT !.phase = "UP"]
  <2>1. up \in Link /\ up.from = links[l].from /\ up.to = links[l].to /\ up.phase = "UP"
    BY <1>3 DEF Link
  <2>2. links' = [links EXCEPT ![l] = up]
    BY <1>1
  <2> HIDE DEF up
  <2>3. links \in Seq(Link) /\ l \in 1 .. Len(links)
    BY <1>2, <1>3 DEF TypeOK
  <2>4. /\ links' \in Seq(Link) /\ Len(links') = Len(links)
        /\ \A k \in 1 .. Len(links) : links'[k] = IF k = l THEN up ELSE links[k]
    BY <2>1, <2>2, <2>3, ExceptSeq
  <2>5. DOMAIN links' = DOMAIN links
    BY <1>3, <2>4, LenProperties
  <2> QED BY <1>3, <2>1, <2>4, <2>5
<1>6. LinksKept
  BY <1>1, <1>5 DEF LinksKept
<1>7. /\ queue[q] \in Seq(1 .. MaxLinks)
      /\ Append(queue[q], l) \in Seq(1 .. MaxLinks)
      /\ Len(queue[q]) \in Nat
      /\ Len(Append(queue[q], l)) = Len(queue[q]) + 1
      /\ \A i \in 1 .. Len(queue[q]) : Append(queue[q], l)[i] = queue[q][i]
      /\ Append(queue[q], l)[Len(queue[q]) + 1] = l
  BY <1>2, <1>3, AppendProperties, LenProperties DEF TypeOK
<1>8. TypeOK'
  BY <1>1, <1>2, <1>3, <1>4, <1>5, <1>7 DEF TypeOK
<1>9. NothingBeforeUp'
  BY <1>1, <1>2, <1>3, <1>4, <1>5 DEF NothingBeforeUp
<1>10. ASSUME NEW r \in Peers
       PROVE  /\ TurnsMatchState(r)' /\ SocketMatchesPhase(r)' /\ BacklogIsFresh(r)'
              /\ KeyIsPartners(r)' /\ HeardIsHonest(r)'
  <2>1. CASE r # q
    <3>1. queue'[r] = queue[r]
      BY <1>1, <1>2, <2>1 DEF TypeOK
    <3>2. \A e \in open : Owner(e) = r => e \in open'
      BY <1>1
    <3> QED BY <1>1, <1>6, <3>1, <3>2, InstanceKept
  <2>2. CASE r = q
    <3>1. SocketMatchesPhase(q) /\ BacklogIsFresh(q)
      BY <1>3 DEF SessionInv
    <3>2. queue'[q] = Append(queue[q], l) /\ queue'[q] # <<>>
      <4>1. queue'[q] = Append(queue[q], l)
        BY <1>1, <1>2, <1>3 DEF TypeOK
      <4> HIDE DEF caller, callee
      <4>2. Len(queue'[q]) # 0
        BY <1>7, <4>1
      <4> QED BY <4>1, <4>2, EmptySeq
    <3>3. sock[q] \in Ends => sock[q] \in open
      BY <3>1 DEF SocketMatchesPhase
    <3>4. state[q] # "OFF"
      BY <1>1, <3>1 DEF BacklogIsFresh
    <3>5. BacklogIsFresh(q)'
      <4>1. /\ Len(queue[q]) \in Nat /\ Len(queue'[q]) = Len(queue[q]) + 1
            /\ \A i \in 1 .. Len(queue[q]) : queue'[q][i] = queue[q][i]
            /\ queue'[q][Len(queue[q]) + 1] = l
        BY <1>7, <3>2
      <4>2. \A i \in 1 .. Len(queue'[q]) :
              i \in 1 .. Len(queue[q]) \/ i = Len(queue[q]) + 1
        BY <4>1
      <4>3. l \in DOMAIN links' /\ links'[l].to = q /\ links'[l].phase # "OPENING"
        BY <1>5
      <4>4. callee \in open' /\ sock[q] # callee
        BY <1>1, <1>4, <3>3, EndFacts
      <4>5. ASSUME NEW i \in 1 .. Len(queue[q])
            PROVE  /\ queue[q][i] \in DOMAIN links'
                   /\ links'[queue[q][i]].to = q
                   /\ links'[queue[q][i]].phase # "OPENING"
                   /\ <<queue[q][i], "callee">> \in open'
                   /\ sock[q] # <<queue[q][i], "callee">>
                   /\ queue[q][i] # l
        BY <1>1, <1>4, <1>5, <3>1 DEF BacklogIsFresh
      <4>6. \A i, j \in 1 .. Len(queue[q]) : queue[q][i] = queue[q][j] => i = j
        BY <3>1 DEF BacklogIsFresh
      <4>7. \A i \in 1 .. Len(queue'[q]) :
               /\ queue'[q][i] \in DOMAIN links'
               /\ links'[queue'[q][i]].to = q
               /\ links'[queue'[q][i]].phase # "OPENING"
               /\ <<queue'[q][i], "callee">> \in open'
               /\ sock'[q] # <<queue'[q][i], "callee">>
        BY <1>1, <4>1, <4>2, <4>3, <4>4, <4>5
      <4>8. \A i, j \in 1 .. Len(queue'[q]) : queue'[q][i] = queue'[q][j] => i = j
        <5>1. ASSUME NEW i \in 1 .. Len(queue[q]), NEW j \in 1 .. Len(queue[q]),
                     queue'[q][i] = queue'[q][j]
              PROVE  i = j
          BY <4>1, <4>6, <5>1
        <5>2. \A i \in 1 .. Len(queue[q]) : queue'[q][i] # l
          BY <4>1, <4>5
        <5> QED BY <4>1, <4>2, <5>1, <5>2, SMTT(30)
      <4> QED BY <1>1, <3>4, <4>7, <4>8 DEF BacklogIsFresh
    <3>6. /\ TurnsMatchState(q)' /\ SocketMatchesPhase(q)'
          /\ KeyIsPartners(q)' /\ HeardIsHonest(q)'
      <4>1. TurnsMatchState(q)
        BY <1>3 DEF SessionInv
      <4>2. /\ todo'[q] # {} => "check" \in todo'[q]
            /\ todo'[q] = {} /\ state[q] = "CONNECTED" => sock[q] \in Ends
            /\ sock[q] \in Ends => sock[q] \in open'
        BY <1>1, <3>1, <3>3, <4>1 DEF TurnsMatchState, SocketMatchesPhase
      <4> QED BY <1>1, <1>3, <1>6, <3>2, <3>4, <4>2, SocketKept
    <3> QED BY <2>2, <3>5, <3>6
  <2> QED BY <2>1, <2>2
<1>11. ASSUME NEW e \in Ends, e[1] \in DOMAIN links
       PROVE  Said(e)' = Said(e) /\ Heard(e)' = Heard(e)
  BY <1>1, <1>6, <1>11, CountsKept
<1>12. ASSUME NEW e \in open'
       PROVE  MailIsHonest(e)' /\ NothingIsLost(e)'
  <2>1. /\ Said(caller) = 0 /\ Heard(caller) = 0 /\ mail[caller] = <<>>
        /\ Said(callee) = 0 /\ Heard(callee) = 0 /\ mail[callee] = <<>>
    BY <1>1, <1>4, SilentBeforeUp
  <2>2. /\ Said(caller)' = 0 /\ Heard(caller)' = 0 /\ mail'[caller] = <<>>
        /\ Said(callee)' = 0 /\ Heard(callee)' = 0 /\ mail'[callee] = <<>>
    BY <1>1, <1>4, <1>11, <2>1
  <2>3. CASE e = caller \/ e = callee
    <3>1. Far(e) = caller \/ Far(e) = callee
      BY <1>4, <2>3
    <3>2. Len(<<>>) = 0
      BY EmptySeq
    <3>3. MailIsHonest(e)'
      BY <2>2, <2>3, <3>2 DEF MailIsHonest
    <3>4. Said(e)' = Heard(Far(e))' + Len(mail'[Far(e)])
      BY <2>2, <2>3, <3>1, <3>2
    <3> QED BY <3>3, <3>4 DEF NothingIsLost
  <2>4. CASE e # caller /\ e # callee
    <3>1. e \in open /\ e \in Ends /\ e[1] \in DOMAIN links
      BY <1>1, <1>2, <2>4 DEF TypeOK, NothingBeforeUp
    <3>2. Far(e) \in Ends /\ Far(e)[1] \in DOMAIN links /\ Far(e) # callee
      BY <1>4, <2>4, <3>1, EndFacts
    <3> QED BY <1>1, <1>6, <1>11, <3>1, <3>2, MailKept
  <2> QED BY <2>3, <2>4
<1> QED BY <1>8, <1>9, <1>10, <1>12 DEF SessionInv

----------------------------------------------------------------------------
\* Steps that leave the network and what the program holds as they are.
LEMMA SelectKeeps ==
    ASSUME SessionInv, NEW p \in Peers, AtSelect(p), NEW ready,
           ready \subseteq SocketReady(p) \cup {"stdin"}, Select(p, ready)
    PROVE  SessionInv'
<1>1. /\ todo' = [todo EXCEPT ![p] = ready \cup {"check"}]
      /\ UNCHANGED <<state, sock, key, hs, listening, queue, links, open, mail, starts>>
  BY DEF Select, network
<1>2. /\ TypeOK /\ NothingBeforeUp /\ TurnsMatchState(p) /\ SocketMatchesPhase(p)
      /\ BacklogIsFresh(p) /\ KeyIsPartners(p) /\ HeardIsHonest(p)
  BY DEF SessionInv
<1>3. LinksKept
  BY <1>1 DEF LinksKept
<1>4. state[p] # "OFF" /\ hs[p] = Idle
  BY <1>2 DEF AtSelect, SocketMatchesPhase
<1>5. ready \cup {"check"} \subseteq Handlers
  BY DEF SocketReady, Handlers
<1>6. TypeOK'
  BY <1>1, <1>2, <1>5 DEF TypeOK
<1>7. NothingBeforeUp'
  BY <1>1, <1>2 DEF NothingBeforeUp
<1>8. TurnsMatchState(p)'
  <2>1. todo'[p] = ready \cup {"check"}
    BY <1>1, <1>2 DEF TypeOK
  <2> QED BY <1>1, <1>4, <2>1 DEF TurnsMatchState, SocketReady, Accepts
<1>9. SocketMatchesPhase(p)' /\ BacklogIsFresh(p)' /\ KeyIsPartners(p)' /\ HeardIsHonest(p)'
  <2>1. todo[p] = {}
    BY DEF AtSelect
  <2>2. SocketMatchesPhase(p)'
    BY <1>1, <1>2, <1>4, <2>1 DEF SocketMatchesPhase, Broken, Owner
  <2>3. BacklogIsFresh(p)'
    BY <1>1, <1>2, SMTT(30) DEF BacklogIsFresh
  <2>4. KeyIsPartners(p)' /\ HeardIsHonest(p)'
    BY <1>1, <1>2 DEF KeyIsPartners, HeardIsHonest, Partner, Owner, Befriends, Honest, Hello
  <2> QED BY <2>2, <2>3, <2>4
<1>10. ASSUME NEW e \in open', Owner(e) = p
       PROVE  Said(e)' = Said(e) /\ Heard(e)' = Heard(e)
  BY <1>1, <1>2, <1>3, <1>10, CountsKept DEF NothingBeforeUp
<1>11. \A e \in open' : MailIsHonest(e)' /\ NothingIsLost(e)'
  BY <1>1, <1>3, <1>10, EndsKept
<1>12. \A r \in Peers \ {p} : todo'[r] = todo[r]
  BY <1>1, <1>2 DEF TypeOK
<1> QED BY <1>1, <1>3, <1>6, <1>7, <1>8, <1>9, <1>11, <1>12, OneActs

\* A handler that turns out to have nothing to do.
LEMMA NothingDone ==
    ASSUME SessionInv, NEW p \in Peers, NEW h, h \in todo[p], Done(p, h),
           todo[p] \subseteq {"stdin", "check"},
           h = "check" => /\ todo[p] = {"check"}
                          /\ state[p] = "CONNECTED" => sock[p] \in Ends,
           UNCHANGED <<state, sock, key, hs, listening, queue, network, starts>>
    PROVE  SessionInv'
<1>1. /\ todo' = [todo EXCEPT ![p] = @ \ {h}]
      /\ UNCHANGED <<state, sock, key, hs, listening, queue, links, open, mail, starts>>
  BY DEF Done, network
<1>2. /\ TypeOK /\ NothingBeforeUp /\ TurnsMatchState(p) /\ SocketMatchesPhase(p)
      /\ BacklogIsFresh(p)
  BY DEF SessionInv
<1>3. LinksKept
  BY <1>1 DEF LinksKept
<1>4. TypeOK'
  BY <1>1, <1>2 DEF TypeOK
<1>5. NothingBeforeUp'
  BY <1>1, <1>2 DEF NothingBeforeUp
<1>6. /\ todo'[p] = todo[p] \ {h}
      /\ \A r \in Peers \ {p} : todo'[r] = todo[r]
  BY <1>1, <1>2 DEF TypeOK
<1>7. /\ TurnsMatchState(p)' /\ SocketMatchesPhase(p)'
      /\ KeyIsPartners(p)' /\ HeardIsHonest(p)'
  <2>1. state[p] # "OFF"
    BY <1>2 DEF SocketMatchesPhase
  <2>2. "check" \in todo[p]
    BY <1>2 DEF TurnsMatchState
  <2>3. h # "check" => "check" \in todo'[p]
    BY <1>6, <2>2
  <2>4. /\ todo'[p] # {} => "check" \in todo'[p]
        /\ todo'[p] = {} /\ state[p] = "CONNECTED" => sock[p] \in Ends
        /\ "accept" \notin todo'[p]
        /\ sock[p] \in Ends => sock[p] \in open'
    BY <1>1, <1>2, <1>6, <2>3 DEF SocketMatchesPhase
  <2> QED BY <1>1, <1>3, <1>6, <2>1, <2>4, SocketKept
<1>8. BacklogIsFresh(p)'
  BY <1>1, <1>2 DEF BacklogIsFresh
<1>9. ASSUME NEW e \in open', Owner(e) = p
      PROVE  Said(e)' = Said(e) /\ Heard(e)' = Heard(e)
  BY <1>1, <1>2, <1>3, <1>9, CountsKept DEF NothingBeforeUp
<1>10. \A e \in open' : MailIsHonest(e)' /\ NothingIsLost(e)'
  BY <1>1, <1>3, <1>9, EndsKept
<1> QED BY <1>1, <1>3, <1>4, <1>5, <1>6, <1>7, <1>8, <1>10, OneActs

\* /listen and /endlisten.
LEMMA CloseListenerKeeps ==
    ASSUME SessionInv, NEW p \in Peers, Turn(p, "stdin"), Done(p, "stdin"),
           CloseListener(p), NEW on \in BOOLEAN, listening' = [listening EXCEPT ![p] = on],
           UNCHANGED <<state, sock, key, hs, mail, starts>>
    PROVE  SessionInv'
<1>1. /\ todo' = [todo EXCEPT ![p] = @ \ {"stdin"}]
      /\ links' = Resolved(Queued(p))
      /\ open' = open \ (Queued(p) \X {"callee"})
      /\ queue' = [queue EXCEPT ![p] = <<>>]
  BY DEF Done, CloseListener
<1>2. /\ TypeOK /\ NothingBeforeUp /\ TurnsMatchState(p) /\ SocketMatchesPhase(p)
      /\ BacklogIsFresh(p)
  BY DEF SessionInv
<1>3. /\ links' \in Seq(Link) /\ Len(links') = Len(links) /\ DOMAIN links' = DOMAIN links
      /\ \A l \in DOMAIN links :
            /\ links'[l].from = links[l].from /\ links'[l].to = links[l].to
            /\ links'[l].phase = IF l \in Queued(p) THEN "RESET" ELSE links[l].phase
  BY <1>1, <1>2, ResolvedFacts
<1>4. LinksKept
  BY <1>3 DEF LinksKept
<1>5. DOMAIN queue[p] = 1 .. Len(queue[p])
  BY <1>2, LenProperties DEF TypeOK
<1>6. \A e \in open : Owner(e) # p => e \in open'
  BY <1>1, <1>2, <1>5 DEF BacklogIsFresh, Queued, Owner, TypeOK
<1>7. sock[p] \in Ends => sock[p] \in open'
  BY <1>1, <1>2, <1>5 DEF BacklogIsFresh, Queued, SocketMatchesPhase
<1>8. TypeOK'
  <2>1. <<>> \in Seq(1 .. MaxLinks)
    BY EmptySeq
  <2> QED BY <1>1, <1>2, <1>3, <2>1 DEF TypeOK
<1>9. NothingBeforeUp'
  BY <1>1, <1>2, <1>3 DEF NothingBeforeUp
<1>10. /\ todo'[p] = todo[p] \ {"stdin"} /\ queue'[p] = <<>>
       /\ \A r \in Peers \ {p} : UNCHANGED <<todo[r], queue[r], listening[r]>>
  BY <1>1, <1>2 DEF TypeOK
<1>11. /\ "stdin" \in todo[p] /\ "accept" \notin todo[p] /\ state[p] # "OFF"
  BY <1>2 DEF Turn, Before, SocketMatchesPhase
<1>12. /\ TurnsMatchState(p)' /\ SocketMatchesPhase(p)'
       /\ KeyIsPartners(p)' /\ HeardIsHonest(p)'
  <2>1. "check" \in todo'[p]
    BY <1>2, <1>10, <1>11 DEF TurnsMatchState
  <2> QED BY <1>4, <1>7, <1>10, <1>11, <2>1, SocketKept
<1>13. BacklogIsFresh(p)'
  <2>1. Len(queue'[p]) = 0
    BY <1>10, EmptySeq
  <2> QED BY <1>11, <2>1 DEF BacklogIsFresh
<1>14. open' \subseteq open
  BY <1>1
<1>15. ASSUME NEW e \in open', Owner(e) = p
       PROVE  Said(e)' = Said(e) /\ Heard(e)' = Heard(e)
  BY <1>2, <1>4, <1>14, <1>15, CountsKept DEF NothingBeforeUp
<1>16. \A e \in open' : MailIsHonest(e)' /\ NothingIsLost(e)'
  BY <1>4, <1>14, <1>15, EndsKept
<1> QED BY <1>4, <1>6, <1>8, <1>9, <1>10, <1>12, <1>13, <1>16, OneActs

\* chat_init of a program that waits.
LEMMA StartWaitingKeeps ==
    ASSUME SessionInv, NEW p \in Peers, state[p] = "OFF", starts[p] < MaxStarts,
           starts' = [starts EXCEPT ![p] = @ + 1], NEW on \in BOOLEAN,
           listening' = [listening EXCEPT ![p] = on],
           state' = [state EXCEPT ![p] = "NOT_CONNECTED"],
           UNCHANGED <<todo, sock, key, hs, queue, network>>
    PROVE  SessionInv'
<1>1. UNCHANGED <<todo, sock, key, hs, queue, links, open, mail>>
  BY DEF network
<1>2. /\ TypeOK /\ NothingBeforeUp /\ TurnsMatchState(p) /\ SocketMatchesPhase(p)
      /\ BacklogIsFresh(p) /\ KeyIsPartners(p) /\ HeardIsHonest(p)
  BY DEF SessionInv
<1>3. LinksKept
  BY <1>1 DEF LinksKept
<1>4. sock[p] = NoEnd /\ hs[p] = Idle /\ todo[p] = {} /\ queue[p] = <<>>
  BY <1>2 DEF SocketMatchesPhase
<1>5. TypeOK'
  BY <1>1, <1>2, BoundsAssumption DEF TypeOK
<1>6. NothingBeforeUp'
  BY <1>1, <1>2 DEF NothingBeforeUp
<1>7. /\ state'[p] = "NOT_CONNECTED"
      /\ \A r \in Peers \ {p} : UNCHANGED <<state[r], listening[r]>>
  BY <1>2 DEF TypeOK
<1>8. TurnsMatchState(p)'
  BY <1>1, <1>4 DEF TurnsMatchState
<1>9. SocketMatchesPhase(p)'
  BY <1>1, <1>4, <1>7, NoneIsEnd DEF SocketMatchesPhase
<1>10. BacklogIsFresh(p)'
  <2>1. Len(queue'[p]) = 0
    BY <1>1, <1>4, EmptySeq
  <2> QED BY <1>7, <2>1 DEF BacklogIsFresh
<1>11. KeyIsPartners(p)' /\ HeardIsHonest(p)'
  BY <1>1, <1>4, <1>7, EmptySeq DEF KeyIsPartners, HeardIsHonest, Idle
<1>12. ASSUME NEW e \in open', Owner(e) = p
       PROVE  Said(e)' = Said(e) /\ Heard(e)' = Heard(e)
  <2>1. e[1] \in DOMAIN links /\ e # NoEnd
    BY <1>1, <1>2, EndFacts DEF NothingBeforeUp, TypeOK
  <2> QED BY <1>1, <1>3, <1>4, <1>12, <2>1, CountsKept
<1>13. \A e \in open' : MailIsHonest(e)' /\ NothingIsLost(e)'
  BY <1>1, <1>3, <1>7, <1>12, EndsKept
<1> QED BY <1>1, <1>3, <1>5, <1>6, <1>7, <1>8, <1>9, <1>10, <1>11, <1>13, OneActs

----------------------------------------------------------------------------
\* Steps that close the connection: user_disconnect, the read handler, and a
\* node_connect that fails.
LEMMA DropKeeps ==
    ASSUME SessionInv, NEW p \in Peers, NEW s \in {"NOT_CONNECTED", "CONNECTED"},
           NEW k \in Keys, NEW t \in SUBSET {"stdin", "check"}, t # {} => "check" \in t,
           NEW none \in {NoEnd, Stale}, s = "CONNECTED" => t # {} /\ none = NoEnd,
           state' = [state EXCEPT ![p] = s], key' = [key EXCEPT ![p] = k],
           todo' = [todo EXCEPT ![p] = t], hs' = [hs EXCEPT ![p] = Idle],
           open' = open \ {sock[p]}, sock' = [sock EXCEPT ![p] = none],
           starts' \in [Peers -> 0 .. MaxStarts],
           UNCHANGED <<listening, queue, links, mail>>
    PROVE  SessionInv'
<1>1. /\ TypeOK /\ NothingBeforeUp /\ SocketMatchesPhase(p) /\ BacklogIsFresh(p)
  BY DEF SessionInv
<1>2. LinksKept
  BY DEF LinksKept
<1>3. Idle \in Handshake
  BY EmptySeq DEF Idle, Handshake
<1>4. TypeOK'
  BY <1>1, <1>3 DEF TypeOK, Handlers
<1>5. NothingBeforeUp'
  BY <1>1 DEF NothingBeforeUp
<1>6. /\ state'[p] = s /\ key'[p] = k /\ todo'[p] = t /\ hs'[p] = Idle /\ sock'[p] = none
      /\ \A r \in Peers \ {p} :
            UNCHANGED <<todo[r], state[r], sock[r], key[r], hs[r], queue[r], listening[r]>>
      /\ none \notin Ends
  BY <1>1, NoneIsEnd DEF TypeOK
<1>7. TurnsMatchState(p)' /\ SocketMatchesPhase(p)' /\ KeyIsPartners(p)' /\ HeardIsHonest(p)'
  <2>1. TurnsMatchState(p)'
    BY <1>6 DEF TurnsMatchState
  <2>2. SocketMatchesPhase(p)'
    BY <1>6, NoneIsEnd DEF SocketMatchesPhase
  <2>3. KeyIsPartners(p)' /\ HeardIsHonest(p)'
    BY <1>6, EmptySeq DEF KeyIsPartners, HeardIsHonest, Idle
  <2> QED BY <2>1, <2>2, <2>3
<1>8. BacklogIsFresh(p)'
  <2>1. \A i \in 1 .. Len(queue[p]) : <<queue[p][i], "callee">> # none
    BY DEF NoEnd, Stale
  <2> QED BY <1>1, <1>6, <2>1 DEF BacklogIsFresh
<1>9. \A e \in open : Owner(e) # p => e \in open'
  BY <1>1, EndFacts DEF TypeOK, SocketMatchesPhase
<1>10. ASSUME NEW e \in open', Owner(e) = p
       PROVE  Said(e)' = Said(e) /\ Heard(e)' = Heard(e)
  <2>1. e[1] \in DOMAIN links /\ e # none /\ e # sock[p]
    BY <1>1, EndFacts DEF NothingBeforeUp, TypeOK
  <2> QED BY <1>2, <1>6, <1>10, <2>1, CountsKept
<1>11. \A e \in open' : MailIsHonest(e)' /\ NothingIsLost(e)'
  BY <1>2, <1>6, <1>10, EndsKept
<1> QED BY <1>2, <1>4, <1>5, <1>6, <1>7, <1>8, <1>9, <1>11, OneActs

\* The process ends.
LEMMA ExitKeeps ==
    ASSUME SessionInv, NEW p \in Peers, Exit(p)
    PROVE  SessionInv'
<1>1. /\ TypeOK /\ NothingBeforeUp /\ SocketMatchesPhase(p) /\ BacklogIsFresh(p)
  BY DEF SessionInv
<1>2. /\ links' = Resolved(Queued(p)) /\ open' = { e \in open : Owner(e) # p }
      /\ UNCHANGED <<mail, starts>>
  BY DEF Exit
<1>3. /\ links' \in Seq(Link) /\ Len(links') = Len(links) /\ DOMAIN links' = DOMAIN links
      /\ \A l \in DOMAIN links :
            /\ links'[l].from = links[l].from /\ links'[l].to = links[l].to
            /\ links'[l].phase = IF l \in Queued(p) THEN "RESET" ELSE links[l].phase
  BY <1>1, <1>2, ResolvedFacts
<1>4. LinksKept
  BY <1>3 DEF LinksKept
<1>5. Idle \in Handshake /\ NoKey \in Keys /\ <<>> \in Seq(1 .. MaxLinks)
  BY EmptySeq DEF Idle, Handshake, Keys
<1>6. TypeOK'
  BY <1>1, <1>2, <1>3, <1>5 DEF TypeOK, Exit
<1>7. NothingBeforeUp'
  BY <1>1, <1>2, <1>3 DEF NothingBeforeUp
<1>8. /\ state'[p] = "OFF" /\ todo'[p] = {} /\ hs'[p] = Idle /\ sock'[p] = NoEnd
      /\ queue'[p] = <<>> /\ listening'[p] = FALSE
      /\ \A r \in Peers \ {p} :
            UNCHANGED <<todo[r], state[r], sock[r], key[r], hs[r], queue[r], listening[r]>>
  BY <1>1 DEF TypeOK, Exit
<1>9. TurnsMatchState(p)' /\ SocketMatchesPhase(p)' /\ KeyIsPartners(p)' /\ HeardIsHonest(p)'
  <2>1. TurnsMatchState(p)'
    BY <1>8 DEF TurnsMatchState
  <2>2. SocketMatchesPhase(p)'
    BY <1>8, NoneIsEnd DEF SocketMatchesPhase
  <2>3. KeyIsPartners(p)' /\ HeardIsHonest(p)'
    BY <1>8, EmptySeq DEF KeyIsPartners, HeardIsHonest, Idle
  <2> QED BY <2>1, <2>2, <2>3
<1>10. BacklogIsFresh(p)'
  <2>1. Len(queue'[p]) = 0
    BY <1>8, EmptySeq
  <2> QED BY <1>8, <2>1 DEF BacklogIsFresh
<1>11. \A e \in open' : MailIsHonest(e)' /\ NothingIsLost(e)'
  BY <1>2, <1>4, <1>8, EndsKept
<1> QED BY <1>2, <1>4, <1>6, <1>7, <1>8, <1>9, <1>10, <1>11, OneActs

----------------------------------------------------------------------------
\* user_begin_connect, when node_connect succeeds.
LEMMA ConnectKeeps ==
    ASSUME SessionInv, NEW p \in Peers, NEW q \in Peers, NodeConnect(p, q), hs[p] = Idle,
           NEW l, l = Len(links) + 1,
           NEW t \in SUBSET {"stdin", "check"}, t # {} => "check" \in t,
           todo' = [todo EXCEPT ![p] = t], state' = [state EXCEPT ![p] = "CONNECTING"],
           starts' \in [Peers -> 0 .. MaxStarts],
           UNCHANGED <<key, hs, listening, queue, mail>>
    PROVE  SessionInv'
<1> DEFINE caller == <<l, "caller">>
           callee == <<l, "callee">>
           link == [from |-> p, to |-> q, phase |-> "OPENING"]
<1>1. /\ Len(links) < MaxLinks
      /\ links' = Append(links, link)
      /\ open' = (open \ {sock[p]}) \cup {caller}
      /\ sock' = [sock EXCEPT ![p] = caller]
  BY DEF NodeConnect
<1>2. /\ TypeOK /\ NothingBeforeUp /\ SocketMatchesPhase(p) /\ BacklogIsFresh(p)
  BY DEF SessionInv
<1>3. /\ Len(links) \in Nat /\ DOMAIN links = 1 .. Len(links)
      /\ links \in Seq(Link) /\ link \in Link
  BY <1>2, LinkFacts DEF TypeOK, Link
<1>4. l \in 1 .. MaxLinks /\ l \notin DOMAIN links
  BY <1>1, <1>3, BoundsAssumption
<1>5. /\ caller \in Ends /\ callee \in Ends /\ Far(caller) = callee /\ Far(callee) = caller
      /\ caller # NoEnd /\ caller # callee
      /\ caller \notin open /\ callee \notin open
      /\ mail[caller] = <<>> /\ mail[callee] = <<>>
  <2>1. caller \in Ends /\ callee \in Ends
    BY <1>4 DEF Ends, Sides
  <2>2. caller \notin open /\ callee \notin open
    BY <1>2, <1>4 DEF NothingBeforeUp
  <2>3. mail[caller] = <<>> /\ mail[callee] = <<>>
    BY <1>2, <1>4, <2>1 DEF NothingBeforeUp
  <2>4. Far(caller) = callee /\ Far(callee) = caller /\ caller # callee
    BY DEF Far
  <2> QED BY <2>1, <2>2, <2>3, <2>4, EndFacts
<1>6. /\ links' \in Seq(Link) /\ Len(links') = l /\ DOMAIN links' = 1 .. l
      /\ \A k \in DOMAIN links : links'[k] = links[k]
      /\ links'[l].from = p /\ links'[l].to = q /\ links'[l].phase = "OPENING"
  <2> HIDE DEF link
  <2>1. /\ links' \in Seq(Link) /\ Len(links') = Len(links) + 1
        /\ \A k \in 1 .. Len(links) : links'[k] = links[k]
        /\ links'[Len(links) + 1] = link
    BY <1>1, <1>3, AppendProperties
  <2>2. DOMAIN links' = 1 .. l
    BY <2>1, LenProperties
  <2> QED BY <1>3, <2>1, <2>2 DEF link
<1>7. LinksKept
  BY <1>3, <1>6 DEF LinksKept
<1> HIDE DEF caller, callee, link
<1>8. TypeOK'
  BY <1>1, <1>2, <1>4, <1>5, <1>6 DEF TypeOK, Handlers
<1>9. NothingBeforeUp'
  <2>1. caller[1] = l /\ callee = <<l, "callee">> /\ caller # <<l, "callee">>
    BY <1>5 DEF caller, callee
  <2>2. \A e \in open' : e[1] \in DOMAIN links'
    BY <1>1, <1>2, <1>6, <1>7, <2>1, <1>4 DEF NothingBeforeUp, LinksKept
  <2>3. \A k \in DOMAIN links' : k \in DOMAIN links \/ k = l
    BY <1>3, <1>6
  <2>4. ASSUME NEW k \in DOMAIN links', links'[k].phase = "OPENING"
        PROVE  <<k, "callee">> \notin open'
    <3>1. <<k, "callee">> # caller
      BY DEF caller
    <3>2. CASE k = l
      BY <1>1, <1>5, <2>1, <3>1, <3>2
    <3>3. CASE k \in DOMAIN links
      BY <1>1, <1>2, <1>6, <2>4, <3>1, <3>3 DEF NothingBeforeUp
    <3> QED BY <2>3, <3>2, <3>3
  <2>5. ASSUME NEW e \in Ends, mail'[e] # <<>>
        PROVE  e[1] \in DOMAIN links' /\ links'[e[1]].phase # "OPENING"
    BY <1>2, <1>7, <2>5 DEF NothingBeforeUp, LinksKept
  <2> QED BY <2>2, <2>4, <2>5 DEF NothingBeforeUp
<1>10. /\ state'[p] = "CONNECTING" /\ todo'[p] = t /\ hs'[p] = Idle /\ sock'[p] = caller
       /\ \A r \in Peers \ {p} :
             UNCHANGED <<todo[r], state[r], sock[r], key[r], hs[r], queue[r], listening[r]>>
  BY <1>1, <1>2 DEF TypeOK
<1>11. Owner(caller)' = p
  BY <1>6 DEF Owner, caller
<1>12. TurnsMatchState(p)'
  BY <1>10 DEF TurnsMatchState
<1>13. SocketMatchesPhase(p)'
  <2>1. sock'[p] \in open' /\ sock'[p] \in Ends
    BY <1>1, <1>5, <1>10
  <2>2. sock'[p][2] = "caller" /\ caller[2] = "caller"
    BY <1>10 DEF caller
  <2>3. Owner(sock[p])' = p
    BY <1>10, <1>11, <2>2 DEF Owner
  <2> QED BY <1>10, <2>1, <2>2, <2>3 DEF SocketMatchesPhase
<1>14. KeyIsPartners(p)' /\ HeardIsHonest(p)'
  BY <1>10, EmptySeq DEF KeyIsPartners, HeardIsHonest, Idle
<1>15. BacklogIsFresh(p)'
  <2>1. \A i \in 1 .. Len(queue[p]) : <<queue[p][i], "callee">> # caller
    BY DEF caller
  <2>2. ASSUME NEW i \in 1 .. Len(queue[p])
        PROVE  /\ queue[p][i] \in DOMAIN links'
               /\ links'[queue[p][i]].to = p
               /\ links'[queue[p][i]].phase # "OPENING"
               /\ <<queue[p][i], "callee">> \in open'
               /\ sock'[p] # <<queue[p][i], "callee">>
    <3>1. /\ queue[p][i] \in DOMAIN links
          /\ links[queue[p][i]].to = p
          /\ links[queue[p][i]].phase # "OPENING"
          /\ <<queue[p][i], "callee">> \in open
          /\ sock[p] # <<queue[p][i], "callee">>
      BY <1>2 DEF BacklogIsFresh
    <3>2. <<queue[p][i], "callee">> \in open'
      BY <1>1, <3>1
    <3>3. sock'[p] # <<queue[p][i], "callee">>
      BY <1>10, <2>1
    <3> QED BY <1>7, <3>1, <3>2, <3>3 DEF LinksKept
  <2> QED BY <1>2, <1>10, <2>2 DEF BacklogIsFresh
<1>16. \A e \in open : Owner(e) # p => e \in open'
  BY <1>1, <1>2, EndFacts DEF TypeOK, SocketMatchesPhase
<1>17. ASSUME NEW e \in open, e \in open'
       PROVE  Said(e)' = Said(e) /\ Heard(e)' = Heard(e)
  <2>1. e[1] \in DOMAIN links /\ e \in Ends /\ e # caller /\ e # sock[p] /\ Owner(e) \in Peers
    BY <1>1, <1>2, <1>5, <1>17, LinkFacts DEF NothingBeforeUp, TypeOK
  <2>2. CASE Owner(e) = p
    BY <1>7, <1>10, <2>1, <2>2, CountsKept
  <2>3. CASE Owner(e) # p
    BY <1>7, <1>10, <2>1, <2>3, CountsKept
  <2> QED BY <2>2, <2>3
<1>18. ASSUME NEW e \in open'
       PROVE  MailIsHonest(e)' /\ NothingIsLost(e)'
  <2>1. CASE e = caller
    <3>1. Heard(caller)' = 0
      BY <1>10, <1>11 DEF Heard, HeardBy, Idle
    <3>2. MailIsHonest(e)'
      <4>1. mail'[e] = <<>> /\ Heard(e)' = 0
        BY <1>5, <2>1, <3>1
      <4>2. Len(mail'[e]) = 0
        BY <4>1, EmptySeq
      <4> QED BY <4>1, <4>2 DEF MailIsHonest
    <3>3. Far(e) \notin open'
      BY <1>1, <1>5, <2>1
    <3> QED BY <3>2, <3>3 DEF NothingIsLost
  <2>2. CASE e # caller
    <3>1. e \in open /\ e \in Ends /\ e # callee
      BY <1>1, <1>2, <1>5, <2>2 DEF TypeOK
    <3>2. Far(e) # caller
      BY <1>5, <3>1, EndFacts
    <3>3. Far(e) \in open' => Far(e) \in open
      BY <1>1, <3>2
    <3> QED BY <1>7, <1>17, <3>1, <3>3, MailKept
  <2> QED BY <2>1, <2>2
<1> QED BY <1>7, <1>8, <1>9, <1>10, <1>12, <1>13, <1>14, <1>15, <1>16, <1>18, OneActs

----------------------------------------------------------------------------
\* The handshake begins.
LEMMA FinishConnectKeeps ==
    ASSUME SessionInv, NEW p \in Peers, Turn(p, "write"), Done(p, "write"),
           hs' = [hs EXCEPT ![p] = Exchange("hello")],
           UNCHANGED <<state, sock, key, open, listening, queue, links, mail, starts>>
    PROVE  SessionInv'
<1>1. /\ TypeOK /\ NothingBeforeUp /\ TurnsMatchState(p) /\ SocketMatchesPhase(p)
      /\ BacklogIsFresh(p)
  BY DEF SessionInv
<1>2. LinksKept
  BY DEF LinksKept
<1>3. /\ state[p] = "CONNECTING" /\ hs[p] = Idle /\ sock[p] \in Ends
      /\ links[sock[p][1]].phase # "OPENING"
      /\ "check" \in todo[p] /\ "read" \notin todo[p] /\ "accept" \notin todo[p]
  BY <1>1 DEF Turn, TurnsMatchState, SocketMatchesPhase
<1>4. Exchange("hello") \in Handshake
  BY EmptySeq DEF Exchange, Handshake
<1>5. TypeOK'
  BY <1>1, <1>4 DEF TypeOK, Done
<1>6. NothingBeforeUp'
  BY <1>1 DEF NothingBeforeUp
<1>7. /\ todo'[p] = todo[p] \ {"write"} /\ hs'[p] = Exchange("hello")
      /\ \A r \in Peers \ {p} :
            UNCHANGED <<todo[r], state[r], sock[r], key[r], hs[r], queue[r], listening[r]>>
  BY <1>1 DEF TypeOK, Done
<1>8. /\ Exchange("hello").phase = "hello" /\ Exchange("hello").sent = FALSE
      /\ Exchange("hello").got = <<>> /\ Len(Exchange("hello").got) = 0
      /\ Exchange("hello") # Idle
  BY EmptySeq DEF Exchange, Idle
<1>9. TurnsMatchState(p)'
  BY <1>3, <1>7 DEF TurnsMatchState
<1>10. SocketMatchesPhase(p)'
  BY <1>1, <1>3, <1>7, <1>8 DEF SocketMatchesPhase, Owner
<1>11. BacklogIsFresh(p)'
  BY <1>1 DEF BacklogIsFresh
<1>12. KeyIsPartners(p)' /\ HeardIsHonest(p)'
  BY <1>3, <1>7, <1>8 DEF KeyIsPartners, HeardIsHonest
<1>13. ASSUME NEW e \in open', Owner(e) = p
       PROVE  Said(e)' = Said(e) /\ Heard(e)' = Heard(e)
  <2>1. Owner(e)' = p
    BY <1>13 DEF Owner
  <2> QED BY <1>3, <1>7, <1>8, <1>13, <2>1 DEF Said, Heard, SaidBy, HeardBy, Idle
<1>14. \A e \in open' : MailIsHonest(e)' /\ NothingIsLost(e)'
  BY <1>2, <1>7, <1>13, EndsKept
<1> QED BY <1>2, <1>5, <1>6, <1>7, <1>9, <1>10, <1>11, <1>12, <1>14, OneActs

LEMMA AcceptKeeps ==
    ASSUME SessionInv, NEW p \in Peers, NEW e, e = Incoming(p), Accept(p)
    PROVE  SessionInv'
<1>1. /\ TypeOK /\ NothingBeforeUp /\ TurnsMatchState(p) /\ SocketMatchesPhase(p)
      /\ BacklogIsFresh(p)
  BY DEF SessionInv
<1>2. /\ todo' = [todo EXCEPT ![p] = @ \ {"accept"}]
      /\ sock' = [sock EXCEPT ![p] = e]
      /\ queue' = [queue EXCEPT ![p] = Tail(@)]
      /\ hs' = IF Broken(e) THEN hs ELSE [hs EXCEPT ![p] = Exchange("hello")]
      /\ UNCHANGED <<state, key, listening, links, open, mail, starts>>
  BY DEF Accept, Done, network
<1>3. LinksKept
  BY <1>2 DEF LinksKept
<1>4. /\ state[p] = "NOT_CONNECTED" /\ hs[p] = Idle /\ queue[p] # <<>>
      /\ "check" \in todo[p] /\ "read" \notin todo[p] /\ "write" \notin todo[p]
  BY <1>1 DEF Accept, Turn, TurnsMatchState
<1>5. /\ queue[p] \in Seq(1 .. MaxLinks) /\ Len(queue[p]) \in Nat \ {0}
      /\ Head(queue[p]) = queue[p][1]
      /\ Tail(queue[p]) \in Seq(1 .. MaxLinks) /\ Len(Tail(queue[p])) = Len(queue[p]) - 1
      /\ \A i \in 1 .. Len(Tail(queue[p])) : Tail(queue[p])[i] = queue[p][i + 1]
  <2>1. queue[p] \in Seq(1 .. MaxLinks)
    BY <1>1 DEF TypeOK
  <2>2. Len(queue[p]) \in Nat \ {0}
    BY <1>4, <2>1, EmptySeq
  <2>3. /\ Tail(queue[p]) \in Seq(1 .. MaxLinks) /\ Len(Tail(queue[p])) = Len(queue[p]) - 1
        /\ \A i \in 1 .. Len(Tail(queue[p])) : Tail(queue[p])[i] = queue[p][i + 1]
    BY <1>4, <2>1, HeadTailProperties
  <2>4. Head(queue[p]) = queue[p][1]
    BY <1>4, <2>1
  <2> QED BY <2>1, <2>2, <2>3, <2>4
<1>6. /\ e \in Ends /\ e \in open /\ Owner(e) = p /\ e[2] = "callee"
      /\ e = <<queue[p][1], "callee">>
      /\ e # sock[p] /\ e # NoEnd /\ links[e[1]].phase # "OPENING" /\ e[1] \in DOMAIN links
  <2>1. e = <<queue[p][1], "callee">>
    BY <1>5 DEF Incoming
  <2>2. 1 \in 1 .. Len(queue[p])
    BY <1>5
  <2>3. e \in open /\ e # sock[p] /\ links[e[1]].phase # "OPENING" /\ e[1] \in DOMAIN links
        /\ links[e[1]].to = p
    BY <1>1, <2>1, <2>2 DEF BacklogIsFresh
  <2>4. e \in Ends
    BY <1>1, <2>3 DEF TypeOK
  <2>5. e[2] = "callee" /\ Owner(e) = p
    BY <2>1, <2>3 DEF Owner
  <2> QED BY <2>1, <2>3, <2>4, <2>5, EndFacts
<1>7. Exchange("hello") \in Handshake
  BY EmptySeq DEF Exchange, Handshake
<1>8. TypeOK'
  BY <1>1, <1>2, <1>5, <1>6, <1>7 DEF TypeOK
<1>9. NothingBeforeUp'
  BY <1>1, <1>2 DEF NothingBeforeUp
<1>10. /\ todo'[p] = todo[p] \ {"accept"} /\ sock'[p] = e /\ queue'[p] = Tail(queue[p])
       /\ hs'[p] = IF Broken(e) THEN Idle ELSE Exchange("hello")
       /\ \A r \in Peers \ {p} :
             UNCHANGED <<todo[r], state[r], sock[r], key[r], hs[r], queue[r], listening[r]>>
  BY <1>1, <1>2, <1>4 DEF TypeOK
<1>11. /\ Exchange("hello").phase = "hello" /\ Exchange("hello").sent = FALSE
       /\ Exchange("hello").got = <<>> /\ Len(Exchange("hello").got) = 0
       /\ Exchange("hello") # Idle
       /\ Idle.phase = "none" /\ Idle.got = <<>> /\ Len(Idle.got) = 0
  BY EmptySeq DEF Exchange, Idle
<1>12. TurnsMatchState(p)'
  BY <1>4, <1>10 DEF TurnsMatchState
<1>13. SocketMatchesPhase(p)'
  <2>1. Owner(sock[p])' = p
    BY <1>2, <1>6, <1>10 DEF Owner
  <2>2. hs'[p] = Idle => Broken(sock[p])'
    BY <1>2, <1>10, <1>11 DEF Broken
  <2> QED BY <1>2, <1>4, <1>6, <1>10, <1>11, <2>1, <2>2 DEF SocketMatchesPhase
<1>14. KeyIsPartners(p)' /\ HeardIsHonest(p)'
  BY <1>2, <1>4, <1>10, <1>11 DEF KeyIsPartners, HeardIsHonest
<1>15. BacklogIsFresh(p)'
  <2>1. ASSUME NEW i \in 1 .. Len(queue'[p])
        PROVE  /\ i + 1 \in 1 .. Len(queue[p]) /\ queue'[p][i] = queue[p][i + 1]
               /\ i + 1 # 1
    BY <1>5, <1>10
  <2>2. \A j \in 1 .. Len(queue[p]) : j # 1 => queue[p][j] # queue[p][1]
    BY <1>1, <1>5 DEF BacklogIsFresh
  <2>3. ASSUME NEW i \in 1 .. Len(queue'[p])
        PROVE  /\ queue'[p][i] \in DOMAIN links'
               /\ links'[queue'[p][i]].to = p
               /\ links'[queue'[p][i]].phase # "OPENING"
               /\ <<queue'[p][i], "callee">> \in open'
               /\ sock'[p] # <<queue'[p][i], "callee">>
    <3>1. \A l : l = queue[p][i + 1] =>
             /\ l \in DOMAIN links /\ links[l].to = p
             /\ links[l].phase # "OPENING" /\ <<l, "callee">> \in open
      BY <1>1, <2>1 DEF BacklogIsFresh
    <3>2. queue'[p][i] # queue[p][1]
      BY <2>1, <2>2
    <3>3. sock'[p] # <<queue'[p][i], "callee">>
      BY <1>6, <1>10, <3>2
    <3>4. queue'[p][i] = queue[p][i + 1]
      BY <2>1
    <3> QED BY <1>2, <3>1, <3>3, <3>4
  <2>4. ASSUME NEW i \in 1 .. Len(queue'[p]), NEW j \in 1 .. Len(queue'[p]),
               queue'[p][i] = queue'[p][j]
        PROVE  i = j
    <3>1. i + 1 = j + 1
      BY <1>1, <2>1, <2>4 DEF BacklogIsFresh
    <3>2. i \in Nat /\ j \in Nat
      OBVIOUS
    <3> QED BY <3>1, <3>2
  <2> QED BY <1>2, <1>4, <2>3, <2>4 DEF BacklogIsFresh
<1>16. ASSUME NEW f \in open', Owner(f) = p
       PROVE  Said(f)' = Said(f) /\ Heard(f)' = Heard(f)
  <2>1. Owner(f)' = p
    BY <1>2, <1>16 DEF Owner
  <2>2. /\ SaidBy(p) = 0 /\ HeardBy(p) = 0 /\ SaidBy(p)' = 0 /\ HeardBy(p)' = 0
    BY <1>2, <1>4, <1>10, <1>11 DEF SaidBy, HeardBy
  <2> QED BY <1>16, <2>1, <2>2 DEF Said, Heard
<1>17. \A f \in open' : MailIsHonest(f)' /\ NothingIsLost(f)'
  BY <1>2, <1>3, <1>10, <1>16, EndsKept
<1> QED BY <1>2, <1>3, <1>8, <1>9, <1>10, <1>12, <1>13, <1>14, <1>15, <1>17, OneActs

----------------------------------------------------------------------------
\* During a handshake.
LEMMA InHandshake ==
    ASSUME SessionInv, NEW p \in Peers, hs[p].phase # "none"
    PROVE  /\ hs[p] \in Handshake /\ hs[p] # Idle /\ hs[p].phase \in {"hello", "answer"}
           /\ sock[p] \in open /\ sock[p] \in Ends
           /\ sock[p][1] \in DOMAIN links /\ links[sock[p][1]].phase # "OPENING"
           /\ Owner(sock[p]) = p /\ Partner(p) \in Peers
           /\ state[p] \in {"NOT_CONNECTED", "CONNECTING"}
           /\ todo[p] \subseteq {"stdin", "check"}
           /\ hs[p].got # <<>> => /\ Len(hs[p].got) = 1 /\ hs[p].got[1] \in Message
                                  /\ Head(hs[p].got) = hs[p].got[1]
           /\ hs[p].got \in Seq(Message) /\ Len(<<>>) = 0
<1>1. /\ TypeOK /\ NothingBeforeUp /\ TurnsMatchState(p) /\ SocketMatchesPhase(p)
      /\ HeardIsHonest(p)
  BY DEF SessionInv
<1>2. hs[p] \in Handshake /\ hs[p] # Idle /\ hs[p].phase \in {"hello", "answer"}
  BY <1>1 DEF TypeOK, Handshake, Idle
<1>3. /\ sock[p] \in open /\ sock[p] \in Ends
      /\ links[sock[p][1]].phase # "OPENING" /\ Owner(sock[p]) = p
      /\ sock[p][1] \in DOMAIN links
  BY <1>1, <1>2 DEF TypeOK, SocketMatchesPhase, NothingBeforeUp
<1>4. state[p] \in {"NOT_CONNECTED", "CONNECTING"}
  BY <1>1, <1>2 DEF TypeOK, SocketMatchesPhase
<1>5. todo[p] \subseteq {"stdin", "check"}
  BY <1>1, <1>2, <1>4 DEF TypeOK, TurnsMatchState, Handlers
<1>6. Partner(p) \in Peers
  BY <1>1, <1>3, LinkFacts, EndFacts DEF Partner
<1>7. hs[p].got \in Seq(Message) /\ Len(hs[p].got) \in Nat /\ Len(hs[p].got) <= 1
  BY <1>1, <1>2, LenProperties DEF Handshake, HeardIsHonest
<1>8. Len(<<>>) = 0
  BY EmptySeq
<1>9. hs[p].got # <<>> =>
         Len(hs[p].got) = 1 /\ hs[p].got[1] \in Message /\ Head(hs[p].got) = hs[p].got[1]
  <2> SUFFICES ASSUME hs[p].got # <<>>
               PROVE  /\ Len(hs[p].got) = 1 /\ hs[p].got[1] \in Message
                      /\ Head(hs[p].got) = hs[p].got[1]
    OBVIOUS
  <2>1. /\ Len(hs[p].got) \in Nat \ {0} /\ hs[p].got[1] \in Message
        /\ Head(hs[p].got) = hs[p].got[1]
    BY <1>7, NotEmpty
  <2>2. \A n \in Nat \ {0} : n <= 1 => n = 1
    OBVIOUS
  <2>3. Len(hs[p].got) = 1
    BY <1>7, <2>1, <2>2, Zenon
  <2> QED BY <2>1, <2>3, Zenon
<1> QED BY <1>2, <1>3, <1>4, <1>5, <1>6, <1>7, <1>8, <1>9

\* A step of the handshake that keeps the connection keeps the sockets, too.
LEMMA HandshakeKeepsSockets ==
    ASSUME SessionInv, NEW p \in Peers, hs[p].phase # "none", TypeOK',
           \/ hs'[p].phase # "none" /\ state'[p] = state[p]
           \/ hs'[p] = Idle /\ state'[p] = "CONNECTED",
           \A e \in Ends : mail'[e] # <<>> =>
              mail[e] # <<>> \/ e = sock[p] \/ e = Far(sock[p]),
           UNCHANGED <<todo, sock, listening, queue, links, open, starts>>
    PROVE  /\ NothingBeforeUp'
           /\ TurnsMatchState(p)' /\ SocketMatchesPhase(p)' /\ BacklogIsFresh(p)'
<1>1. /\ TypeOK /\ NothingBeforeUp /\ TurnsMatchState(p) /\ SocketMatchesPhase(p)
      /\ BacklogIsFresh(p)
  BY DEF SessionInv
<1>2. /\ sock[p] \in open /\ sock[p] \in Ends
      /\ sock[p][1] \in DOMAIN links /\ links[sock[p][1]].phase # "OPENING"
      /\ Owner(sock[p]) = p
      /\ state[p] \in {"NOT_CONNECTED", "CONNECTING"}
      /\ todo[p] \subseteq {"stdin", "check"}
      /\ Far(sock[p])[1] = sock[p][1]
  BY InHandshake, EndFacts
<1>3. NothingBeforeUp'
  BY <1>1, <1>2 DEF NothingBeforeUp
<1>4. TurnsMatchState(p)'
  BY <1>1, <1>2 DEF TurnsMatchState
<1>5. SocketMatchesPhase(p)'
  BY <1>1, <1>2, NoneIsEnd DEF SocketMatchesPhase, Owner, Idle
<1>6. BacklogIsFresh(p)'
  BY <1>1, <1>2 DEF BacklogIsFresh
<1> QED BY <1>3, <1>4, <1>5, <1>6

\* node_send.
LEMMA SayKeeps ==
    ASSUME SessionInv, NEW p \in Peers, NEW e, e = sock[p], Say(p)
    PROVE  SessionInv'
<1> DEFINE f == Far(e)
           h == [hs[p] EXCEPT !.sent = TRUE]
           m == Saying(p)
           n == IF hs[p].phase = "hello" THEN 1 ELSE 2
<1>1. /\ hs[p].phase # "none" /\ ~hs[p].sent /\ ~Broken(e)
      /\ hs' = [hs EXCEPT ![p].sent = TRUE]
      /\ mail' = IF f \in open THEN [mail EXCEPT ![f] = Append(@, m)] ELSE mail
      /\ UNCHANGED <<todo, state, sock, key, listening, queue, links, open, starts>>
  BY DEF Say
<1>2. /\ TypeOK /\ NothingBeforeUp /\ KeyIsPartners(p) /\ HeardIsHonest(p)
      /\ \A g \in open : MailIsHonest(g) /\ NothingIsLost(g)
  BY DEF SessionInv
<1>3. /\ hs[p] \in Handshake /\ hs[p].phase \in {"hello", "answer"}
      /\ e \in open /\ e \in Ends /\ e[1] \in DOMAIN links
      /\ Owner(e) = p /\ Partner(p) = Owner(f) /\ Partner(p) \in Peers
      /\ state[p] \in {"NOT_CONNECTED", "CONNECTING"}
  BY <1>1, InHandshake DEF Partner
<1>4. f \in Ends /\ f # e /\ Far(f) = e /\ f[1] = e[1] /\ f[1] \in DOMAIN links
  BY <1>3, EndFacts
<1>5. m \in Message /\ Honest(n, m, Owner(f), p)
  <2>1. CASE hs[p].phase = "hello"
    BY <2>1, StartAssumption DEF Saying, Message, Honest, Hello
  <2>2. CASE hs[p].phase = "answer"
    <3>1. m = [accept |-> key[p] # NoKey]
      BY <2>2 DEF Saying
    <3>2. key[p] # NoKey => Befriends(p, Owner(f))
      BY <1>2, <1>3, <2>2 DEF KeyIsPartners
    <3> HIDE DEF m
    <3>3. m \in [accept : BOOLEAN] /\ (m.accept => key[p] # NoKey)
      <4>1. CASE key[p] # NoKey
        <5>1. m = [accept |-> TRUE]
          BY <3>1, <4>1
        <5> QED BY <4>1, <5>1
      <4>2. CASE key[p] = NoKey
        <5>1. m = [accept |-> FALSE]
          BY <3>1, <4>2
        <5> QED BY <4>2, <5>1
      <4> QED BY <4>1, <4>2
    <3>4. n = 2
      BY <2>2
    <3> HIDE DEF n, f
    <3> QED BY <3>2, <3>3, <3>4 DEF Message, Honest
  <2> QED BY <1>3, <2>1, <2>2
<1>6. h \in Handshake /\ h.phase = hs[p].phase /\ h.got = hs[p].got /\ h.sent = TRUE
  BY <1>3 DEF Handshake
<1>7. hs' = [hs EXCEPT ![p] = h]
  BY <1>1, <1>2 DEF TypeOK
<1> HIDE DEF h, m
<1>8. \A g \in Ends : /\ mail[g] \in Seq(Message) /\ Len(mail[g]) \in Nat
                      /\ g # f \/ f \notin open => mail'[g] = mail[g]
                      /\ g = f /\ f \in open => mail'[g] = Append(mail[g], m)
  BY <1>1, <1>2, LenProperties DEF TypeOK
<1>9. f \in open =>
         /\ mail'[f] \in Seq(Message) /\ Len(mail'[f]) = Len(mail[f]) + 1
         /\ \A i \in 1 .. Len(mail[f]) : mail'[f][i] = mail[f][i]
         /\ mail'[f][Len(mail[f]) + 1] = m
  <2> SUFFICES ASSUME f \in open
               PROVE  /\ mail'[f] \in Seq(Message) /\ Len(mail'[f]) = Len(mail[f]) + 1
                      /\ \A i \in 1 .. Len(mail[f]) : mail'[f][i] = mail[f][i]
                      /\ mail'[f][Len(mail[f]) + 1] = m
    OBVIOUS
  <2> DEFINE s == mail[f]
             t == mail'[f]
  <2>1. s \in Seq(Message) /\ m \in Message /\ t = Append(s, m)
    BY <1>4, <1>5, <1>8
  <2> HIDE DEF s, t
  <2>2. /\ t \in Seq(Message) /\ Len(t) = Len(s) + 1
        /\ \A i \in 1 .. Len(s) : t[i] = s[i]
        /\ t[Len(s) + 1] = m
    BY <2>1, AppendProperties
  <2> QED BY <2>2 DEF s, t
<1>10. mail' \in [Ends -> Seq(Message)]
  BY <1>1, <1>2, <1>4, <1>8, <1>9 DEF TypeOK
<1>11. /\ TypeOK' /\ NothingBeforeUp'
       /\ TurnsMatchState(p)' /\ SocketMatchesPhase(p)' /\ BacklogIsFresh(p)'
       /\ hs'[p] = h
       /\ \A r \in Peers \ {p} : hs'[r] = hs[r]
  <2>1. hs'[p] = h /\ \A r \in Peers \ {p} : hs'[r] = hs[r]
    BY <1>2, <1>7 DEF TypeOK
  <2>2. TypeOK'
    BY <1>1, <1>2, <1>6, <1>7, <1>10, ZenonT(30) DEF TypeOK
  <2>3. \A g \in Ends : mail'[g] # <<>> => mail[g] # <<>> \/ g = sock[p] \/ g = Far(sock[p])
    BY <1>8
  <2>4. hs'[p].phase # "none" /\ state'[p] = state[p]
    BY <1>1, <1>6, <2>1
  <2> QED BY <1>1, <2>1, <2>2, <2>3, <2>4, HandshakeKeepsSockets
<1>12. LinksKept
  BY <1>1 DEF LinksKept
<1>13. KeyIsPartners(p)' /\ HeardIsHonest(p)'
  <2>1. Partner(p)' = Partner(p)
    BY <1>1 DEF Partner, Owner
  <2> QED BY <1>1, <1>2, <1>6, <1>11, <2>1
          DEF KeyIsPartners, HeardIsHonest, Befriends, Honest, Hello
<1>14. SaidBy(p)' = SaidBy(p) + 1 /\ SaidBy(p) + 1 = n /\ HeardBy(p)' = HeardBy(p)
  BY <1>1, <1>3, <1>6, <1>11 DEF SaidBy, HeardBy
<1>15. /\ Said(e) = SaidBy(p) /\ Said(e)' = Said(e) + 1
       /\ \A g \in open : Heard(g)' = Heard(g) /\ (g # e => Said(g)' = Said(g))
  <2>1. \A g \in open : g[1] \in DOMAIN links /\ Owner(g) \in Peers
    BY <1>2, LinkFacts DEF NothingBeforeUp, TypeOK
  <2>2. \A g \in open : Owner(g)' = Owner(g)
    BY <1>1 DEF Owner
  <2>3. ASSUME NEW g \in open, Owner(g) # p
        PROVE  Said(g)' = Said(g) /\ Heard(g)' = Heard(g)
    BY <1>1, <1>11, <1>12, <2>1, <2>3, CountsKept
  <2>4. ASSUME NEW g \in open, Owner(g) = p
        PROVE  Heard(g)' = Heard(g) /\ (g # e => Said(g)' = Said(g))
    BY <1>1, <1>14, <2>2, <2>4 DEF Said, Heard
  <2>5. Said(e) = SaidBy(p) /\ Said(e)' = Said(e) + 1
    BY <1>1, <1>3, <1>14, <2>2 DEF Said
  <2> QED BY <1>3, <2>3, <2>4, <2>5
<1>16. ASSUME NEW g \in open
       PROVE  MailIsHonest(g)' /\ NothingIsLost(g)'
  <2>1. /\ Owner(g)' = Owner(g) /\ Owner(Far(g))' = Owner(Far(g)) /\ Broken(g)' = Broken(g)
        /\ Owner(f)' = Owner(f) /\ Broken(e)' = Broken(e)
    BY <1>1 DEF Owner, Broken
  <2>2. g \in Ends /\ Far(g) \in Ends /\ Far(Far(g)) = g
    BY <1>2, EndFacts DEF TypeOK
  <2>3. CASE g # e /\ g # f
    <3>1. Far(g) # f
      BY <1>4, <2>2, <2>3
    <3>2. mail'[g] = mail[g] /\ mail'[Far(g)] = mail[Far(g)]
      BY <1>8, <2>2, <2>3, <3>1
    <3> QED BY <1>1, <1>12, <1>15, <2>3, <3>2, MailKept
  <2>4. CASE g = e
    <3>1. MailIsHonest(e)'
      BY <1>2, <1>3, <1>4, <1>8, <1>15, <2>1, <2>4 DEF MailIsHonest, Honest, Hello, Befriends
    <3>2. f \in open => Said(e) = Heard(f) + Len(mail[f])
      BY <1>1, <1>2, <1>3 DEF NothingIsLost
    <3>3. f \in open => Said(e)' = Heard(f)' + Len(mail'[f])
      <4> SUFFICES ASSUME f \in open PROVE Said(e)' = Heard(f)' + Len(mail'[f])
        OBVIOUS
      <4>1. Heard(f) \in Nat
        BY <1>2, <1>3, <1>4, <1>8, LenProperties, LinkFacts
           DEF Heard, HeardBy, TypeOK, Handshake
      <4>2. Said(e)' = Heard(f) + Len(mail[f]) + 1
        BY <1>15, <3>2
      <4>3. Heard(f)' = Heard(f)
        BY <1>15
      <4>4. Len(mail'[f]) = Len(mail[f]) + 1 /\ Len(mail[f]) \in Nat
        BY <1>4, <1>8, <1>9
      <4> HIDE DEF f
      <4> QED BY <4>1, <4>2, <4>3, <4>4
    <3> QED BY <1>1, <2>4, <3>1, <3>3 DEF NothingIsLost
  <2>5. CASE g = f
    <3>1. Said(e) = Heard(f) + Len(mail[f])
      BY <1>1, <1>2, <1>3, <2>5 DEF NothingIsLost
    <3>2. n = Heard(f) + Len(mail[f]) + 1
      BY <1>14, <1>15, <3>1
    <3>3. /\ Heard(f) \in Nat /\ Len(mail[f]) \in Nat
      BY <1>2, <1>3, <1>4, <1>8, LenProperties, LinkFacts
         DEF Heard, HeardBy, TypeOK, Handshake
    <3>4. \A i \in 1 .. Len(mail[f]) : Honest(Heard(f) + i, mail[f][i], Owner(f), Owner(Far(f)))
      BY <1>2, <2>5 DEF MailIsHonest
    <3> HIDE DEF f
    <3>5. /\ Len(mail'[f]) = Len(mail[f]) + 1
          /\ \A i \in 1 .. Len(mail[f]) : mail'[f][i] = mail[f][i]
          /\ mail'[f][Len(mail[f]) + 1] = m
      BY <1>9, <2>5
    <3>6. Heard(f)' + Len(mail'[f]) <= 2
      <4>1. n <= 2
        OBVIOUS
      <4> HIDE DEF n
      <4> QED BY <1>15, <2>5, <3>2, <3>3, <3>5, <4>1
    <3> HIDE DEF n
    <3>7. ASSUME NEW i \in 1 .. Len(mail'[f])
          PROVE  Honest(Heard(f) + i, mail'[f][i], Owner(f), p)
      <4>1. CASE i \in 1 .. Len(mail[f])
        BY <1>3, <1>4, <3>4, <3>5, <4>1
      <4>2. CASE i = Len(mail[f]) + 1
        <5>1. Heard(f) + i = n
          BY <3>2, <3>3, <4>2
        <5> QED BY <1>5, <3>5, <4>2, <5>1
      <4> QED BY <3>3, <3>5, <4>1, <4>2
    <3>8. MailIsHonest(f)'
      <4>1. Owner(Far(f))' = p /\ Heard(f)' = Heard(f)
        BY <1>3, <1>4, <1>15, <2>1, <2>5
      <4> QED BY <2>1, <3>6, <3>7, <4>1 DEF MailIsHonest, Honest, Hello, Befriends
    <3>9. NothingIsLost(f)'
      BY <1>1, <1>2, <1>3, <1>4, <1>8, <1>15, <2>1, <2>5 DEF NothingIsLost
    <3> QED BY <2>5, <3>8, <3>9
  <2> QED BY <2>3, <2>4, <2>5
<1> QED BY <1>1, <1>11, <1>12, <1>13, <1>16, OneActs

\* node_recv.
LEMMA HearKeeps ==
    ASSUME SessionInv, NEW p \in Peers, NEW e, e = sock[p], Hear(p)
    PROVE  SessionInv'
<1> DEFINE f == Far(e)
           m == mail[e][1]
           rest == Tail(mail[e])
           h == [hs[p] EXCEPT !.got = <<m>>]
           n == IF hs[p].phase = "hello" THEN 1 ELSE 2
<1>1. /\ hs[p].phase # "none" /\ hs[p].got = <<>> /\ mail[e] # <<>>
      /\ hs' = [hs EXCEPT ![p].got = <<Head(mail[e])>>]
      /\ mail' = [mail EXCEPT ![e] = rest]
      /\ UNCHANGED <<todo, state, sock, key, listening, queue, links, open, starts>>
  BY DEF Hear
<1>2. /\ TypeOK /\ NothingBeforeUp /\ KeyIsPartners(p) /\ HeardIsHonest(p)
      /\ \A g \in open : MailIsHonest(g) /\ NothingIsLost(g)
  BY DEF SessionInv
<1>3. /\ hs[p] \in Handshake /\ hs[p].phase \in {"hello", "answer"}
      /\ e \in open /\ e \in Ends /\ e[1] \in DOMAIN links
      /\ Owner(e) = p /\ Partner(p) = Owner(f) /\ Partner(p) \in Peers
      /\ state[p] \in {"NOT_CONNECTED", "CONNECTING"} /\ Len(hs[p].got) = 0
  BY <1>1, InHandshake DEF Partner
<1>4. f \in Ends /\ f # e /\ Far(f) = e /\ f[1] = e[1] /\ f[1] \in DOMAIN links
  BY <1>3, EndFacts
<1>5. /\ mail[e] \in Seq(Message) /\ Len(mail[e]) \in Nat \ {0}
      /\ Head(mail[e]) = m /\ m \in Message
  <2>1. mail[e] \in Seq(Message)
    BY <1>2, <1>3 DEF TypeOK
  <2> QED BY <1>1, <2>1, NotEmpty
<1>6. /\ rest \in Seq(Message) /\ Len(rest) = Len(mail[e]) - 1
      /\ \A i \in 1 .. Len(rest) : rest[i] = mail[e][i + 1]
  BY <1>1, <1>5, HeadTailProperties
<1>n. /\ hs[p].phase = "hello" => n = 1
      /\ hs[p].phase = "answer" => n = 2
      /\ n = IF hs[p].phase = "hello" THEN 1 ELSE 2
  BY <1>3
<1> HIDE DEF n
<1>7. HeardBy(p) = n - 1 /\ Heard(e) = n - 1
  <2>1. CASE hs[p].phase = "hello"
    BY <1>3, <1>n, <2>1 DEF HeardBy, Heard
  <2>2. CASE hs[p].phase = "answer"
    BY <1>3, <1>n, <2>2 DEF HeardBy, Heard
  <2> QED BY <1>3, <2>1, <2>2
<1>8. Honest(n, m, p, Owner(f))
  <2>1. 1 \in 1 .. Len(mail[e]) /\ Heard(e) + 1 = n
    BY <1>3, <1>5, <1>7, <1>n
  <2> QED BY <1>2, <1>3, <2>1 DEF MailIsHonest
<1>9. /\ h \in Handshake /\ h.phase = hs[p].phase /\ h.sent = hs[p].sent
      /\ h.got = <<m>> /\ Len(h.got) = 1 /\ h.got[1] = m
  <2> DEFINE got == <<m>>
  <2>1. got \in Seq(Message) /\ Len(got) = 1 /\ got[1] = m
    BY <1>5
  <2> HIDE DEF got
  <2>2. /\ [hs[p] EXCEPT !.got = got] \in Handshake
        /\ [hs[p] EXCEPT !.got = got].phase = hs[p].phase
        /\ [hs[p] EXCEPT !.got = got].sent = hs[p].sent
        /\ [hs[p] EXCEPT !.got = got].got = got
    BY <1>3, <2>1 DEF Handshake
  <2>3. h = [hs[p] EXCEPT !.got = got] /\ got = <<m>>
    BY DEF got
  <2> HIDE DEF h, m
  <2> QED BY <2>1, <2>2, <2>3
<1>10. hs' = [hs EXCEPT ![p] = h]
  BY <1>1, <1>2, <1>5 DEF TypeOK
<1> HIDE DEF h, m, rest
<1>11. /\ TypeOK' /\ NothingBeforeUp'
       /\ TurnsMatchState(p)' /\ SocketMatchesPhase(p)' /\ BacklogIsFresh(p)'
       /\ hs'[p] = h
       /\ \A r \in Peers \ {p} : hs'[r] = hs[r]
       /\ mail'[e] = rest /\ \A g \in Ends : g # e => mail'[g] = mail[g]
  <2>1. hs'[p] = h /\ \A r \in Peers \ {p} : hs'[r] = hs[r]
    BY <1>2, <1>10 DEF TypeOK
  <2>2. TypeOK'
    BY <1>1, <1>2, <1>3, <1>6, <1>9, <1>10, ZenonT(30) DEF TypeOK
  <2>3. mail'[e] = rest /\ \A g \in Ends : g # e => mail'[g] = mail[g]
    BY <1>1, <1>2, <1>3 DEF TypeOK
  <2>4. \A g \in Ends : mail'[g] # <<>> => mail[g] # <<>> \/ g = sock[p] \/ g = Far(sock[p])
    BY <2>3
  <2>5. hs'[p].phase # "none" /\ state'[p] = state[p]
    BY <1>1, <1>9, <2>1
  <2> QED BY <1>1, <2>1, <2>2, <2>3, <2>4, <2>5, HandshakeKeepsSockets
<1>12. LinksKept
  BY <1>1 DEF LinksKept
<1>13. KeyIsPartners(p)' /\ HeardIsHonest(p)'
  <2>1. Partner(p)' = Partner(p)
    BY <1>1 DEF Partner, Owner
  <2>2. KeyIsPartners(p)'
    BY <1>1, <1>2, <1>9, <1>11, <2>1 DEF KeyIsPartners, Befriends
  <2>3. Honest(IF hs'[p].phase = "hello" THEN 1 ELSE 2, hs'[p].got[1], p, Partner(p))
    BY <1>3, <1>n, <1>8, <1>9, <1>11
  <2> QED BY <1>1, <1>3, <1>9, <1>11, <2>1, <2>2, <2>3
          DEF HeardIsHonest, Befriends, Honest, Hello
<1>14. SaidBy(p)' = SaidBy(p) /\ HeardBy(p)' = n
  <2>1. /\ state'[p] = state[p] /\ hs'[p].phase = hs[p].phase /\ hs'[p].sent = hs[p].sent
        /\ Len(hs'[p].got) = 1
    BY <1>1, <1>9, <1>11
  <2>2. SaidBy(p)' = SaidBy(p)
    BY <2>1 DEF SaidBy
  <2>3. HeardBy(p)' = n
    BY <1>3, <1>n, <2>1 DEF HeardBy
  <2> QED BY <2>2, <2>3
<1>15. /\ Heard(e)' = Heard(e) + 1
       /\ \A g \in open : Said(g)' = Said(g) /\ (g # e => Heard(g)' = Heard(g))
  <2>1. \A g \in open : g[1] \in DOMAIN links /\ Owner(g) \in Peers
    BY <1>2, LinkFacts DEF NothingBeforeUp, TypeOK
  <2>2. \A g \in open : Owner(g)' = Owner(g)
    BY <1>1 DEF Owner
  <2>3. ASSUME NEW g \in open, Owner(g) # p
        PROVE  Said(g)' = Said(g) /\ Heard(g)' = Heard(g)
    BY <1>1, <1>11, <1>12, <2>1, <2>3, CountsKept
  <2>4. ASSUME NEW g \in open, Owner(g) = p
        PROVE  Said(g)' = Said(g) /\ (g # e => Heard(g)' = Heard(g))
    BY <1>1, <1>14, <2>2, <2>4 DEF Said, Heard
  <2>5. Heard(e)' = n
    BY <1>1, <1>3, <1>14, <2>2 DEF Heard
  <2> QED BY <1>3, <1>7, <1>n, <2>3, <2>4, <2>5
<1>16. ASSUME NEW g \in open
       PROVE  MailIsHonest(g)' /\ NothingIsLost(g)'
  <2>1. /\ Owner(g)' = Owner(g) /\ Owner(Far(g))' = Owner(Far(g)) /\ Broken(g)' = Broken(g)
    BY <1>1 DEF Owner, Broken
  <2>2. g \in Ends /\ Far(g) \in Ends /\ Far(Far(g)) = g /\ Far(g) # g
    BY <1>2, EndFacts DEF TypeOK
  <2>3. MailIsHonest(g) /\ NothingIsLost(g)
    BY <1>2
  <2>4. CASE g # e /\ g # f
    <3>1. Far(g) # e
      BY <1>4, <2>2, <2>4
    <3>2. mail'[g] = mail[g] /\ mail'[Far(g)] = mail[Far(g)]
      BY <1>11, <2>2, <2>4, <3>1
    <3> QED BY <1>1, <1>12, <1>15, <2>4, <3>1, <3>2, MailKept
  <2>5. CASE g = e
    <3>1. Heard(e) \in Nat
      BY <1>3, <1>7, <1>n
    <3>2. Heard(e)' + Len(mail'[e]) <= 2
      <4>1. Heard(e) + Len(mail[e]) <= 2
        BY <2>3, <2>5 DEF MailIsHonest
      <4> QED BY <1>5, <1>6, <1>11, <1>15, <3>1, <4>1
    <3>3. ASSUME NEW i \in 1 .. Len(rest)
          PROVE  Honest(Heard(e) + 1 + i, rest[i], Owner(e), Owner(f))
      <4>1. i + 1 \in 1 .. Len(mail[e]) /\ rest[i] = mail[e][i + 1]
        BY <1>5, <1>6
      <4>2. Honest(Heard(e) + (i + 1), mail[e][i + 1], Owner(e), Owner(f))
        BY <2>3, <2>5, <4>1 DEF MailIsHonest
      <4>3. Heard(e) + (i + 1) = Heard(e) + 1 + i
        BY <3>1
      <4> QED BY <4>1, <4>2, <4>3
    <3>4. MailIsHonest(e)'
      BY <1>11, <1>15, <2>1, <2>5, <3>2, <3>3 DEF MailIsHonest, Honest, Hello, Befriends
    <3>5. NothingIsLost(e)'
      BY <1>1, <1>4, <1>11, <1>15, <2>1, <2>3, <2>5 DEF NothingIsLost
    <3> QED BY <2>5, <3>4, <3>5
  <2>6. CASE g = f
    <3>1. MailIsHonest(f)'
      BY <1>4, <1>11, <1>15, <2>1, <2>3, <2>6 DEF MailIsHonest, Honest, Hello, Befriends
    <3>2. ~Broken(f) => Said(f) = Heard(e) + Len(mail[e])
      BY <1>3, <1>4, <2>3, <2>6 DEF NothingIsLost
    <3>3. ~Broken(f) => Said(f)' = Heard(e)' + Len(mail'[e])
      <4>1. Said(f)' = Said(f) /\ Heard(e)' = Heard(e) + 1 /\ Heard(e) \in Nat
        BY <1>3, <1>7, <1>15, <1>n, <2>6
      <4>2. Len(mail'[e]) = Len(mail[e]) - 1 /\ Len(mail[e]) \in Nat
        BY <1>5, <1>6, <1>11
      <4> HIDE DEF f
      <4> QED BY <3>2, <4>1, <4>2, SMTT(30)
    <3>4. NothingIsLost(f)'
      BY <1>4, <2>1, <2>6, <3>3 DEF NothingIsLost
    <3> QED BY <2>6, <3>1, <3>4
  <2> QED BY <2>4, <2>5, <2>6
<1> QED BY <1>1, <1>11, <1>12, <1>13, <1>16, OneActs

\* The hello was the partner's: so is the key that is found for it.
LEMMA JudgeHelloKeeps ==
    ASSUME SessionInv, NEW p \in Peers, NEW q, q = Partner(p),
           hs[p].phase = "hello", Exchanged(p), Head(hs[p].got).version = Version[p],
           key' = [key EXCEPT ![p] = KeyStoreFind(p, Head(hs[p].got).id)],
           hs' = [hs EXCEPT ![p] = Exchange("answer")],
           UNCHANGED <<todo, state, sock, listening, queue, links, open, mail, starts>>
    PROVE  SessionInv'
<1> DEFINE k == KeyStoreFind(p, Head(hs[p].got).id)
           x == Exchange("answer")
<1>1. /\ TypeOK /\ HeardIsHonest(p)
  BY DEF SessionInv
<1>2. /\ q \in Peers /\ state[p] \in {"NOT_CONNECTED", "CONNECTING"}
      /\ hs[p].sent /\ hs[p].got # <<>> /\ Len(hs[p].got) = 1
      /\ Head(hs[p].got) = hs[p].got[1]
  BY InHandshake DEF Exchanged
<1>3. hs[p].got[1] = Hello(q)
  BY <1>1, <1>2 DEF HeardIsHonest, Honest
<1>4. k \in Keys /\ (k # NoKey => k = q /\ Befriends(p, q))
  <2>1. Head(hs[p].got).id = q /\ Version[q] = Version[p]
    BY <1>2, <1>3 DEF Hello
  <2>2. k = IF q = Friend[p] THEN q ELSE NoKey
    BY <2>1 DEF KeyStoreFind
  <2> HIDE DEF k
  <2> QED BY <1>2, <2>1, <2>2 DEF Keys, Befriends
<1>5. x \in Handshake /\ x.phase = "answer" /\ x.sent = FALSE /\ x.got = <<>> /\ Len(x.got) = 0
  BY EmptySeq DEF Exchange, Handshake
<1>6. key' = [key EXCEPT ![p] = k] /\ hs' = [hs EXCEPT ![p] = x]
  OBVIOUS
<1> HIDE DEF k, x
<1>7. /\ key'[p] = k /\ hs'[p] = x
      /\ \A r \in Peers \ {p} : hs'[r] = hs[r] /\ key'[r] = key[r]
      /\ TypeOK'
  BY <1>1, <1>4, <1>5, <1>6 DEF TypeOK
<1>8. /\ NothingBeforeUp'
      /\ TurnsMatchState(p)' /\ SocketMatchesPhase(p)' /\ BacklogIsFresh(p)'
  <2>1. hs'[p].phase # "none" /\ state'[p] = state[p]
    BY <1>5, <1>7
  <2>2. hs[p].phase # "none"
    OBVIOUS
  <2> QED BY <1>7, <2>1, <2>2, HandshakeKeepsSockets
<1>9. LinksKept
  BY DEF LinksKept
<1>10. KeyIsPartners(p)' /\ HeardIsHonest(p)'
  <2>1. Partner(p)' = q
    BY DEF Partner, Owner
  <2> QED BY <1>2, <1>4, <1>5, <1>7, <2>1 DEF KeyIsPartners, HeardIsHonest, Befriends
<1>11. SaidBy(p)' = SaidBy(p) /\ HeardBy(p)' = HeardBy(p)
  BY <1>2, <1>5, <1>7 DEF SaidBy, HeardBy
<1>12. ASSUME NEW f \in open', Owner(f) = p
       PROVE  Said(f)' = Said(f) /\ Heard(f)' = Heard(f)
  <2>1. Owner(f)' = p
    BY <1>12 DEF Owner
  <2> QED BY <1>11, <1>12, <2>1 DEF Said, Heard
<1>13. \A f \in open' : MailIsHonest(f)' /\ NothingIsLost(f)'
  BY <1>7, <1>9, <1>12, EndsKept
<1> QED BY <1>7, <1>8, <1>9, <1>10, <1>13, OneActs

\* Both answers were yes: each side has the key of the other.
LEMMA JudgeAnswerKeeps ==
    ASSUME SessionInv, NEW p \in Peers, NEW q, q = Partner(p),
           hs[p].phase = "answer", Exchanged(p), Agreed(p),
           state' = [state EXCEPT ![p] = "CONNECTED"],
           hs' = [hs EXCEPT ![p] = Idle],
           UNCHANGED <<todo, sock, key, listening, queue, links, open, mail, starts>>
    PROVE  SessionInv'
<1>1. /\ TypeOK /\ HeardIsHonest(p) /\ KeyIsPartners(p)
  BY DEF SessionInv
<1>2. /\ q \in Peers /\ state[p] \in {"NOT_CONNECTED", "CONNECTING"}
      /\ hs[p].sent /\ hs[p].got # <<>> /\ Len(hs[p].got) = 1
      /\ Head(hs[p].got) = hs[p].got[1]
  BY InHandshake DEF Exchanged
<1>3. Befriends(q, p)
  BY <1>1, <1>2 DEF HeardIsHonest, Honest, Agreed
<1>4. key[p] = q /\ Befriends(p, q)
  BY <1>1 DEF KeyIsPartners, Agreed
<1>5. Idle \in Handshake /\ Idle.phase = "none" /\ Idle.got = <<>> /\ Len(Idle.got) = 0
  BY EmptySeq DEF Idle, Handshake
<1>6. /\ state'[p] = "CONNECTED" /\ hs'[p] = Idle
      /\ \A r \in Peers \ {p} : hs'[r] = hs[r] /\ state'[r] = state[r]
      /\ TypeOK'
  BY <1>1, <1>5 DEF TypeOK
<1>7. /\ NothingBeforeUp'
      /\ TurnsMatchState(p)' /\ SocketMatchesPhase(p)' /\ BacklogIsFresh(p)'
  <2>1. hs[p].phase # "none"
    OBVIOUS
  <2> QED BY <1>6, <2>1, HandshakeKeepsSockets
<1>8. LinksKept
  BY DEF LinksKept
<1>9. KeyIsPartners(p)' /\ HeardIsHonest(p)'
  <2>1. Partner(p)' = q
    BY DEF Partner, Owner
  <2> QED BY <1>3, <1>4, <1>5, <1>6, <2>1 DEF KeyIsPartners, HeardIsHonest, Befriends
<1>10. SaidBy(p)' = SaidBy(p) /\ HeardBy(p)' = HeardBy(p)
  BY <1>2, <1>6 DEF SaidBy, HeardBy
<1>11. ASSUME NEW f \in open', Owner(f) = p
       PROVE  Said(f)' = Said(f) /\ Heard(f)' = Heard(f)
  <2>1. Owner(f)' = p
    BY <1>11 DEF Owner
  <2> QED BY <1>10, <1>11, <2>1 DEF Said, Heard
<1>12. \A f \in open' : MailIsHonest(f)' /\ NothingIsLost(f)'
  BY <1>6, <1>8, <1>11, EndsKept
<1> QED BY <1>6, <1>7, <1>8, <1>9, <1>12, OneActs

----------------------------------------------------------------------------
\* The handlers that are left when one has its turn.
LEMMA TurnFacts ==
    ASSUME SessionInv, NEW p \in Peers, NEW h \in Handlers, Turn(p, h)
    PROVE  /\ h \in todo[p] /\ "check" \in todo[p] /\ todo[p] \subseteq Handlers
           /\ hs[p] = Idle
           /\ h # "accept" => todo[p] \ {h} \subseteq {"stdin", "check"}
           /\ h = "check" => todo[p] = {"check"}
<1>1. TypeOK /\ TurnsMatchState(p) /\ SocketMatchesPhase(p)
  BY DEF SessionInv
<1>2. h \in todo[p] /\ todo[p] \cap Before(h) = {} /\ hs[p].phase = "none"
  BY DEF Turn
<1>3. /\ Before("stdin") = {"read", "write", "accept"}
      /\ Before("check") = {"read", "write", "accept", "stdin"}
  BY DEF Before
<1>4. todo[p] \subseteq Handlers
  BY <1>1 DEF TypeOK
<1>5. CASE h = "stdin"
  BY <1>1, <1>2, <1>3, <1>4, <1>5 DEF TurnsMatchState, SocketMatchesPhase, Handlers
<1>6. CASE h = "check"
  BY <1>1, <1>2, <1>3, <1>4, <1>6 DEF TurnsMatchState, SocketMatchesPhase, Handlers
<1>7. CASE h \in {"read", "write", "accept"}
  BY <1>1, <1>2, <1>4, <1>7 DEF TurnsMatchState, SocketMatchesPhase, Handlers
<1> QED BY <1>5, <1>6, <1>7 DEF Handlers

\* user_disconnect, whoever calls it.
LEMMA DisconnectKeeps ==
    ASSUME SessionInv, NEW p \in Peers, NEW k \in Keys, UserDisconnect(p, k),
           NEW t \in SUBSET {"stdin", "check"}, t # {} => "check" \in t,
           todo' = [todo EXCEPT ![p] = t], hs' = [hs EXCEPT ![p] = Idle],
           starts' \in [Peers -> 0 .. MaxStarts],
           UNCHANGED <<listening, queue, links, mail>>
    PROVE  SessionInv'
<1>1. /\ state' = [state EXCEPT ![p] = "NOT_CONNECTED"] /\ key' = [key EXCEPT ![p] = k]
      /\ open' = open \ {sock[p]} /\ sock' = [sock EXCEPT ![p] = NoEnd]
  BY DEF UserDisconnect
<1> DEFINE s == "NOT_CONNECTED"
           none == NoEnd
<1>2. /\ s \in {"NOT_CONNECTED", "CONNECTED"} /\ none \in {NoEnd, Stale}
      /\ s = "CONNECTED" => t # {} /\ none = NoEnd
  OBVIOUS
<1>3. state' = [state EXCEPT ![p] = s] /\ sock' = [sock EXCEPT ![p] = none]
  BY <1>1
<1> HIDE DEF s, none
<1> QED BY <1>1, <1>2, <1>3, DropKeeps

LEMMA HandshakeFailsKeeps ==
    ASSUME SessionInv, NEW p \in Peers, hs[p].phase # "none", HandshakeFails(p),
           UNCHANGED <<todo, listening, queue, links, mail, starts>>
    PROVE  SessionInv'
<1> DEFINE k == IF sock[p][2] = "caller" THEN NoKey ELSE key[p]
           t == todo[p]
<1>1. TypeOK /\ TurnsMatchState(p)
  BY DEF SessionInv
<1>2. UserDisconnect(p, k) /\ hs' = [hs EXCEPT ![p] = Idle]
  BY DEF HandshakeFails
<1>3. k \in Keys
  BY <1>1 DEF TypeOK, Keys
<1>4. t \in SUBSET {"stdin", "check"} /\ (t # {} => "check" \in t)
  BY <1>1, InHandshake DEF TurnsMatchState
<1>5. todo' = [todo EXCEPT ![p] = t] /\ starts' \in [Peers -> 0 .. MaxStarts]
  BY <1>1 DEF TypeOK
<1> HIDE DEF k, t
<1> QED BY <1>2, <1>3, <1>4, <1>5, DisconnectKeeps

LEMMA ReadKeeps ==
    ASSUME SessionInv, NEW p \in Peers, Read(p)
    PROVE  SessionInv'
<1> DEFINE s == state[p]
           k == key[p]
           t == todo[p] \ {"read"}
           none == NoEnd
<1>1. TypeOK /\ TurnsMatchState(p)
  BY DEF SessionInv
<1>2. /\ Turn(p, "read") /\ todo' = [todo EXCEPT ![p] = t]
      /\ open' = open \ {sock[p]} /\ sock' = [sock EXCEPT ![p] = none]
      /\ UNCHANGED <<state, key, hs, listening, queue, links, mail, starts>>
  BY DEF Read, Done
<1>3. /\ "read" \in todo[p] /\ hs[p] = Idle
      /\ t \in SUBSET {"stdin", "check"} /\ "check" \in t
  BY <1>2, TurnFacts DEF Handlers
<1>4. s \in {"NOT_CONNECTED", "CONNECTED"} /\ k \in Keys
  BY <1>1, <1>3 DEF TypeOK, TurnsMatchState
<1>5. /\ state' = [state EXCEPT ![p] = s] /\ key' = [key EXCEPT ![p] = k]
      /\ hs' = [hs EXCEPT ![p] = Idle] /\ starts' \in [Peers -> 0 .. MaxStarts]
  BY <1>1, <1>2, <1>3 DEF TypeOK
<1>6. /\ none \in {NoEnd, Stale} /\ (t # {} => "check" \in t)
      /\ s = "CONNECTED" => t # {} /\ none = NoEnd
  BY <1>3
<1> HIDE DEF s, k, t, none
<1> QED BY <1>2, <1>3, <1>4, <1>5, <1>6, DropKeeps

\* A handler that gives up the connection in its turn.
LEMMA DropInTurnKeeps ==
    ASSUME SessionInv, NEW p \in Peers, NEW h \in Handlers \ {"accept"}, NEW k \in Keys,
           Turn(p, h), Done(p, h), UserDisconnect(p, k),
           UNCHANGED <<hs, listening, queue, links, mail, starts>>
    PROVE  SessionInv'
<1> DEFINE t == todo[p] \ {h}
<1>1. TypeOK
  BY DEF SessionInv
<1>2. /\ hs[p] = Idle /\ t \in SUBSET {"stdin", "check"}
      /\ "check" \in todo[p] /\ (h = "check" => todo[p] = {"check"})
  BY TurnFacts
<1>3. t # {} => "check" \in t
  BY <1>2
<1>4. /\ todo' = [todo EXCEPT ![p] = t] /\ hs' = [hs EXCEPT ![p] = Idle]
      /\ starts' \in [Peers -> 0 .. MaxStarts]
  BY <1>1, <1>2 DEF Done, TypeOK
<1> HIDE DEF t
<1> QED BY <1>2, <1>3, <1>4, DisconnectKeeps

LEMMA WriteKeeps ==
    ASSUME SessionInv, NEW p \in Peers, FinishConnect(p)
    PROVE  SessionInv'
<1>1. /\ Turn(p, "write") /\ Done(p, "write")
      /\ UNCHANGED <<listening, queue, links, mail, starts>>
  BY DEF FinishConnect
<1>2. CASE UserDisconnect(p, NoKey) /\ UNCHANGED hs
  BY <1>1, <1>2, DropInTurnKeeps DEF Handlers, Keys
<1>3. CASE hs' = [hs EXCEPT ![p] = Exchange("hello")] /\ UNCHANGED <<state, sock, key, open>>
  BY <1>1, <1>3, FinishConnectKeeps
<1> QED BY <1>2, <1>3 DEF FinishConnect

LEMMA CheckKeeps ==
    ASSUME SessionInv, NEW p \in Peers, Check(p)
    PROVE  SessionInv'
<1>1. /\ Turn(p, "check") /\ Done(p, "check")
      /\ UNCHANGED <<hs, listening, queue, links, mail, starts>>
  BY DEF Check
<1>2. CASE UserDisconnect(p, NoKey)
  BY <1>1, <1>2, DropInTurnKeeps DEF Handlers, Keys
<1>3. CASE UNCHANGED <<state, sock, key, open>> /\ (state[p] = "CONNECTED" => sock[p] \in Ends)
  <2>1. todo[p] = {"check"}
    BY <1>1, TurnFacts DEF Handlers
  <2> QED BY <1>1, <1>3, <2>1, NothingDone DEF network
<1>4. sock[p] \in Ends \cup {NoEnd, Stale} /\ (state[p] = "CONNECTED" => sock[p] # Stale)
  BY DEF SessionInv, TypeOK, SocketMatchesPhase
<1> QED BY <1>2, <1>3, <1>4 DEF Check

\* user_begin_connect, from chat_init and from /connect.
LEMMA BeginConnectKeeps ==
    ASSUME SessionInv, NEW p \in Peers, NEW q \in Peers, BeginConnect(p, q), hs[p] = Idle,
           NEW t \in SUBSET {"stdin", "check"}, t # {} => "check" \in t,
           todo' = [todo EXCEPT ![p] = t], starts' \in [Peers -> 0 .. MaxStarts],
           UNCHANGED <<hs, listening, queue, mail>>
    PROVE  SessionInv'
<1>1. TypeOK
  BY DEF SessionInv
<1>2. CASE /\ NodeConnect(p, q) /\ state' = [state EXCEPT ![p] = "CONNECTING"]
           /\ UNCHANGED key
  <2> DEFINE l == Len(links) + 1
  <2>1. l = Len(links) + 1
    OBVIOUS
  <2> HIDE DEF l
  <2> QED BY <1>2, <2>1, ConnectKeeps
<1>3. CASE /\ open' = open \ {sock[p]}
           /\ \E left \in {NoEnd, Stale} : sock' = [sock EXCEPT ![p] = left]
           /\ state' = [state EXCEPT ![p] = "NOT_CONNECTED"]
           /\ UNCHANGED <<key, links>>
  <2> DEFINE s == "NOT_CONNECTED"
             k == key[p]
  <2>1. PICK none \in {NoEnd, Stale} : sock' = [sock EXCEPT ![p] = none]
    BY <1>3
  <2>2. /\ s \in {"NOT_CONNECTED", "CONNECTED"} /\ k \in Keys
        /\ s = "CONNECTED" => t # {} /\ none = NoEnd
    BY <1>1 DEF TypeOK
  <2>3. /\ state' = [state EXCEPT ![p] = s] /\ key' = [key EXCEPT ![p] = k]
        /\ hs' = [hs EXCEPT ![p] = Idle]
    BY <1>1, <1>3 DEF TypeOK
  <2> HIDE DEF s, k
  <2> QED BY <1>3, <2>1, <2>2, <2>3, DropKeeps
<1> QED BY <1>2, <1>3 DEF BeginConnect

LEMMA StartKeeps ==
    ASSUME SessionInv, NEW p \in Peers, Start(p)
    PROVE  SessionInv'
<1>1. TypeOK /\ SocketMatchesPhase(p)
  BY DEF SessionInv
<1>2. /\ state[p] = "OFF" /\ starts[p] < MaxStarts
      /\ starts' = [starts EXCEPT ![p] = @ + 1]
      /\ UNCHANGED <<todo, hs, queue>>
  BY DEF Start
<1>3. CASE /\ \E success \in Listens : listening' = [listening EXCEPT ![p] = success]
           /\ state' = [state EXCEPT ![p] = "NOT_CONNECTED"]
           /\ UNCHANGED <<sock, key, network>>
  <2>1. PICK on \in BOOLEAN : listening' = [listening EXCEPT ![p] = on]
    BY <1>3 DEF Listens
  <2> QED BY <1>2, <1>3, <2>1, StartWaitingKeeps
<1>4. CASE BeginConnect(p, Target[p]) /\ UNCHANGED <<listening, mail>>
  <2> DEFINE t == todo[p]
             q == Target[p]
  <2>1. hs[p] = Idle /\ t = {}
    BY <1>1, <1>2 DEF SocketMatchesPhase
  <2>2. todo' = [todo EXCEPT ![p] = t] /\ starts' \in [Peers -> 0 .. MaxStarts]
    BY <1>1, <1>2, BoundsAssumption DEF TypeOK
  <2>3. q \in Peers /\ BeginConnect(p, q)
    BY <1>4, StartAssumption
  <2>4. t \in SUBSET {"stdin", "check"} /\ (t # {} => "check" \in t)
    BY <2>1
  <2> HIDE DEF t, q
  <2> QED BY <1>2, <1>4, <2>1, <2>2, <2>3, <2>4, BeginConnectKeeps
<1> QED BY <1>3, <1>4 DEF Start

LEMMA StdinKeeps ==
    ASSUME SessionInv, NEW p \in Peers, Stdin(p)
    PROVE  SessionInv'
<1>1. TypeOK
  BY DEF SessionInv
<1>2. Turn(p, "stdin") /\ Done(p, "stdin")
  BY DEF Stdin, Connect, Disconnect, Listen, EndListen, OtherKey
<1>3. /\ "stdin" \in todo[p] /\ "check" \in todo[p] /\ hs[p] = Idle
      /\ todo[p] \ {"stdin"} \in SUBSET {"stdin", "check"}
  BY <1>2, TurnFacts DEF Handlers
<1>4. CASE Connect(p)
  <2> DEFINE t == todo[p] \ {"stdin"}
  <2>1. UNCHANGED <<hs, listening, queue, mail, starts>>
    BY <1>4 DEF Connect
  <2>2. PICK q \in Peers : BeginConnect(p, q)
    BY <1>4, UsersAssumption DEF Connect
  <2>3. /\ t \in SUBSET {"stdin", "check"} /\ (t # {} => "check" \in t)
        /\ todo' = [todo EXCEPT ![p] = t] /\ starts' \in [Peers -> 0 .. MaxStarts]
    BY <1>1, <1>2, <1>3, <2>1 DEF Done, TypeOK
  <2> HIDE DEF t
  <2> QED BY <1>3, <2>1, <2>2, <2>3, BeginConnectKeeps
<1>5. CASE Disconnect(p)
  <2> DEFINE k == key[p]
  <2>1. k \in Keys
    BY <1>1 DEF TypeOK
  <2>2. /\ UserDisconnect(p, k)
        /\ UNCHANGED <<hs, listening, queue, links, mail, starts>>
    BY <1>5 DEF Disconnect
  <2> HIDE DEF k
  <2> QED BY <1>2, <2>1, <2>2, DropInTurnKeeps DEF Handlers
<1>6. CASE Listen(p) \/ EndListen(p)
  <2>1. CloseListener(p) /\ UNCHANGED <<state, sock, key, hs, mail, starts>>
    BY <1>6 DEF Listen, EndListen
  <2>2. PICK on \in BOOLEAN : listening' = [listening EXCEPT ![p] = on]
    BY <1>6 DEF Listen, EndListen, Listens
  <2> QED BY <1>2, <2>1, <2>2, CloseListenerKeeps
<1>7. CASE OtherKey(p)
  <2>1. UNCHANGED <<state, sock, key, hs, listening, queue, network, starts>>
    BY <1>7 DEF OtherKey
  <2>2. todo[p] \subseteq {"stdin", "check"}
    BY <1>3
  <2>3. "stdin" # "check"
    OBVIOUS
  <2> QED BY <1>2, <1>3, <2>1, <2>2, <2>3, NothingDone
<1> QED BY <1>4, <1>5, <1>6, <1>7 DEF Stdin

LEMMA HandshakingKeeps ==
    ASSUME SessionInv, NEW p \in Peers, Handshaking(p)
    PROVE  SessionInv'
<1>1. CASE Say(p)
  <2> DEFINE e == sock[p]
  <2>1. e = sock[p]
    OBVIOUS
  <2> HIDE DEF e
  <2> QED BY <1>1, <2>1, SayKeeps
<1>2. CASE Hear(p)
  <2> DEFINE e == sock[p]
  <2>1. e = sock[p]
    OBVIOUS
  <2> HIDE DEF e
  <2> QED BY <1>2, <2>1, HearKeeps
<1>3. CASE JudgeHello(p)
  <2> DEFINE q == Partner(p)
  <2>1. q = Partner(p)
    OBVIOUS
  <2>2. hs[p].phase = "hello" /\ hs[p].phase # "none" /\ Exchanged(p)
        /\ UNCHANGED <<todo, listening, queue, links, mail, starts>>
    BY <1>3 DEF JudgeHello
  <2> HIDE DEF q
  <2>3. CASE HandshakeFails(p)
    BY <2>2, <2>3, HandshakeFailsKeeps
  <2>4. CASE /\ Head(hs[p].got).version = Version[p]
             /\ key' = [key EXCEPT ![p] = KeyStoreFind(p, Head(hs[p].got).id)]
             /\ hs' = [hs EXCEPT ![p] = Exchange("answer")]
             /\ UNCHANGED <<state, sock, open>>
    BY <2>1, <2>2, <2>4, JudgeHelloKeeps
  <2> QED BY <1>3, <2>3, <2>4 DEF JudgeHello
<1>4. CASE JudgeAnswer(p)
  <2> DEFINE q == Partner(p)
  <2>1. q = Partner(p)
    OBVIOUS
  <2>2. hs[p].phase = "answer" /\ hs[p].phase # "none" /\ Exchanged(p)
        /\ UNCHANGED <<todo, listening, queue, links, mail, starts>>
    BY <1>4 DEF JudgeAnswer
  <2> HIDE DEF q
  <2>3. CASE HandshakeFails(p)
    BY <2>2, <2>3, HandshakeFailsKeeps
  <2>4. CASE /\ Agreed(p)
             /\ state' = [state EXCEPT ![p] = "CONNECTED"]
             /\ hs' = [hs EXCEPT ![p] = Idle]
             /\ UNCHANGED <<sock, key, open>>
    BY <2>1, <2>2, <2>4, JudgeAnswerKeeps
  <2> QED BY <1>4, <2>3, <2>4 DEF JudgeAnswer
<1>5. CASE GiveUp(p)
  BY <1>5, HandshakeFailsKeeps DEF GiveUp
<1> QED BY <1>1, <1>2, <1>3, <1>4, <1>5 DEF Handshaking

LEMMA InitSession == Init => SessionInv
<1> SUFFICES ASSUME Init PROVE SessionInv
  OBVIOUS
<1>1. Idle \in Handshake
  BY EmptySeq DEF Idle, Handshake
<1>2. /\ <<>> \in Seq(1 .. MaxLinks) /\ <<>> \in Seq(Link) /\ <<>> \in Seq(Message)
      /\ Len(<<>>) = 0
  BY EmptySeq
<1>3. TypeOK
  BY <1>1, <1>2, BoundsAssumption DEF Init, TypeOK, Keys
<1>4. \A p \in Peers : TurnsMatchState(p) /\ SocketMatchesPhase(p)
  BY NoneIsEnd DEF Init, TurnsMatchState, SocketMatchesPhase
<1>5. \A p \in Peers : BacklogIsFresh(p)
  BY <1>2 DEF Init, BacklogIsFresh
<1>6. NothingBeforeUp
  <2>1. DOMAIN links = {}
    BY <1>2, <1>3, LinkFacts DEF Init
  <2> QED BY <2>1 DEF Init, NothingBeforeUp
<1>7. \A p \in Peers : KeyIsPartners(p) /\ HeardIsHonest(p)
  BY <1>2 DEF Init, KeyIsPartners, HeardIsHonest, Idle
<1>8. \A e \in open : MailIsHonest(e) /\ NothingIsLost(e)
  BY DEF Init
<1> QED BY <1>3, <1>4, <1>5, <1>6, <1>7, <1>8 DEF SessionInv

LEMMA NetworkKeeps ==
    ASSUME SessionInv, Network
    PROVE  SessionInv'
<1>1. PICK l \in DOMAIN links : Establish(l) \/ Refuse(l) \/ Cut(l)
  BY DEF Network
<1>2. CASE Establish(l)
  <2> DEFINE q == links[l].to
  <2>1. q = links[l].to
    OBVIOUS
  <2> HIDE DEF q
  <2> QED BY <1>2, <2>1, EstablishKeeps
<1>3. CASE Refuse(l) \/ Cut(l)
  BY <1>3, ResetKeeps DEF Refuse, Cut
<1> QED BY <1>1, <1>2, <1>3

LEMMA StutterKeeps ==
    ASSUME SessionInv, UNCHANGED vars
    PROVE  SessionInv'
<1>1. UNCHANGED <<todo, state, sock, key, hs, listening, queue, links, open, mail, starts>>
  BY DEF vars, program, network
<1>2. TypeOK'
  BY <1>1 DEF SessionInv, TypeOK
<1>3. \A e : Owner(e)' = Owner(e) /\ Broken(e)' = Broken(e)
  BY <1>1 DEF Owner, Broken
<1>4. \A p : Partner(p)' = Partner(p) /\ SaidBy(p)' = SaidBy(p) /\ HeardBy(p)' = HeardBy(p)
  BY <1>1 DEF Partner, Owner, SaidBy, HeardBy
<1>5. \A e : Said(e)' = Said(e) /\ Heard(e)' = Heard(e)
  BY <1>1, <1>4 DEF Said, Heard, Owner
<1>6. LinksKept
  BY <1>1 DEF LinksKept
<1>7. \A p \in Peers : /\ TurnsMatchState(p)' /\ SocketMatchesPhase(p)' /\ BacklogIsFresh(p)'
                      /\ KeyIsPartners(p)' /\ HeardIsHonest(p)'
  BY <1>1, <1>6, InstanceKept
<1>8. NothingBeforeUp'
  BY <1>1 DEF SessionInv, NothingBeforeUp
<1>9. \A e \in open' : MailIsHonest(e)' /\ NothingIsLost(e)'
  BY <1>1, <1>5, <1>6, MailKept
<1> QED BY <1>2, <1>7, <1>8, <1>9 DEF SessionInv

LEMMA SessionStep == SessionInv /\ [Next]_vars => SessionInv'
<1> SUFFICES ASSUME SessionInv, [Next]_vars PROVE SessionInv'
  OBVIOUS
<1>1. CASE Network
  BY <1>1, NetworkKeeps
<1>2. ASSUME NEW p \in Peers, Start(p) \/ SelectSome(p) \/ Handle(p) \/ Exit(p)
      PROVE  SessionInv'
  <2>1. CASE Start(p)
    BY <2>1, StartKeeps
  <2>2. CASE SelectSome(p)
    BY <2>2, SelectKeeps DEF SelectSome
  <2>3. CASE Read(p) \/ FinishConnect(p) \/ Handshaking(p) \/ Stdin(p) \/ Check(p)
    BY <2>3, ReadKeeps, WriteKeeps, HandshakingKeeps, StdinKeeps, CheckKeeps
  <2>4. CASE Accept(p)
    <3> DEFINE e == Incoming(p)
    <3>1. e = Incoming(p)
      OBVIOUS
    <3> HIDE DEF e
    <3> QED BY <2>4, <3>1, AcceptKeeps
  <2>5. CASE Exit(p)
    BY <2>5, ExitKeeps
  <2> QED BY <1>2, <2>1, <2>2, <2>3, <2>4, <2>5 DEF Handle
<1>3. CASE UNCHANGED vars
  BY <1>3, StutterKeeps
<1> QED BY <1>1, <1>2, <1>3 DEF Next

----------------------------------------------------------------------------
\* Whatever user_handshake, node_accept, node_connect and the commands do and in
\* whatever order: what an end has said is heard or on its way, honest, and about
\* the connection that remote.node holds.
THEOREM SessionInvariant == Spec => []SessionInv
<1>1. Init => SessionInv
  BY InitSession
<1>2. SessionInv /\ [Next]_vars => SessionInv'
  BY SessionStep
<1> QED BY <1>1, <1>2, PTL DEF Spec

\* remote.state, remote.node, remote.key and the backlogs hold only what chat.c and
\* user.c may put there, and no kernel ever holds more than MaxLinks attempts.
THEOREM SessionTypeCorrect == Spec => []TypeOK
<1>1. SessionInv => TypeOK
  BY DEF SessionInv
<1> QED BY <1>1, SessionInvariant, PTL

\* Whoever user_handshake leaves CONNECTED has remote.key of whom it was started to
\* talk to, the other end is that instance, it was started to talk to this one,
\* and both have the same PROTOCOL_ID.
THEOREM OnlyFriendsConnect == Spec => []ConnectedToFriend
<1>1. SessionInv => ConnectedToFriend
  <2> SUFFICES ASSUME SessionInv, NEW p \in Peers, state[p] = "CONNECTED", sock[p] # NoEnd
               PROVE  /\ key[p] = Partner(p) /\ Friend[p] = Partner(p)
                      /\ Friend[Partner(p)] = p /\ Version[p] = Version[Partner(p)]
    BY DEF ConnectedToFriend, Partner
  <2>1. KeyIsPartners(p) /\ HeardIsHonest(p)
    BY DEF SessionInv
  <2>2. sock[p] \in Ends
    BY DEF SessionInv, TypeOK, SocketMatchesPhase
  <2> QED BY <2>1, <2>2 DEF KeyIsPartners, HeardIsHonest, Befriends
<1> QED BY <1>1, SessionInvariant, PTL

\* When chat() is at its select(), remote.node.socket is open if remote.state says
\* that there is a connection; else there is none, but for one that was reset
\* before user_accept could use it, or the number of a socket that node_connect has
\* closed and left there.
THEOREM SocketsMatchStates == Spec => []SocketMatchesState
<1>1. SessionInv => SocketMatchesState
  <2> SUFFICES ASSUME SessionInv, NEW p \in Peers, AtSelect(p)
               PROVE  IF state[p] \in {"CONNECTING", "CONNECTED"}
                      THEN sock[p] \in open
                      ELSE sock[p] \in Ends => Broken(sock[p])
    BY DEF SocketMatchesState
  <2>1. TypeOK /\ SocketMatchesPhase(p)
    BY DEF SessionInv
  <2>2. state[p] # "OFF" /\ todo[p] = {} /\ hs[p].phase = "none"
    BY DEF AtSelect
  <2> QED BY <2>1, <2>2 DEF TypeOK, SocketMatchesPhase
<1> QED BY <1>1, SessionInvariant, PTL

\* A step of p leaves its socket, closes it, connects anew, or takes a call while
\* it is not connected; if it fails to connect it is not connected after it.
LEMMA SocketChanges ==
    ASSUME SessionInv, NEW p \in Peers, Start(p) \/ SelectSome(p) \/ Handle(p) \/ Exit(p)
    PROVE  \/ sock' = sock \/ sock' = [sock EXCEPT ![p] = NoEnd]
           \/ \E s \in {"CONNECTING", "NOT_CONNECTED"} :
                 /\ state' = [state EXCEPT ![p] = s]
                 /\ \E e : sock' = [sock EXCEPT ![p] = e]
           \/ /\ state' = state /\ state[p] = "NOT_CONNECTED"
              /\ \E e : sock' = [sock EXCEPT ![p] = e]
<1>1. CASE Start(p)
  BY <1>1 DEF Start, BeginConnect, NodeConnect, UserDisconnect
<1>2. CASE SelectSome(p)
  BY <1>2 DEF SelectSome, Select
<1>3. CASE Read(p)
  BY <1>3 DEF Read
<1>4. CASE FinishConnect(p)
  BY <1>4 DEF FinishConnect, UserDisconnect
<1>5. CASE Accept(p)
  <2>1. state[p] = "NOT_CONNECTED"
    BY <1>5 DEF Accept, Turn, SessionInv, TurnsMatchState
  <2> QED BY <1>5, <2>1 DEF Accept
<1>6. CASE Handshaking(p)
  <2>1. CASE Say(p) \/ Hear(p)
    BY <2>1 DEF Say, Hear
  <2>2. CASE JudgeHello(p) \/ JudgeAnswer(p) \/ GiveUp(p)
    BY <2>2 DEF JudgeHello, JudgeAnswer, GiveUp, HandshakeFails, UserDisconnect
  <2> QED BY <1>6, <2>1, <2>2 DEF Handshaking
<1>7. CASE Stdin(p)
  <2>1. CASE Connect(p)
    BY <2>1 DEF Connect, BeginConnect, NodeConnect, UserDisconnect
  <2>2. CASE Disconnect(p)
    BY <2>2 DEF Disconnect, UserDisconnect
  <2>3. CASE Listen(p) \/ EndListen(p) \/ OtherKey(p)
    BY <2>3 DEF Listen, EndListen, OtherKey
  <2> QED BY <1>7, <2>1, <2>2, <2>3 DEF Stdin
<1>8. CASE Check(p)
  BY <1>8 DEF Check, UserDisconnect
<1>9. CASE Exit(p)
  BY <1>9 DEF Exit
<1> QED BY <1>1, <1>2, <1>3, <1>4, <1>5, <1>6, <1>7, <1>8, <1>9 DEF Handle

\* Whoever calls an instance that is connected, whatever it types: while it stays
\* connected its socket is the same, or closed (user_accept and user_begin_connect
\* write remote.node only where the state leaves it free).
THEOREM NobodyTakesOver == Spec => SessionsAreNotTakenOver
<1> DEFINE A == \A p \in Peers :
                   state[p] = "CONNECTED" /\ state'[p] = "CONNECTED"
                   => sock'[p] \in {sock[p], NoEnd}
<1>1. SessionInv /\ [Next]_vars => A
  <2> SUFFICES ASSUME SessionInv, [Next]_vars, NEW r \in Peers,
                      state[r] = "CONNECTED", state'[r] = "CONNECTED"
               PROVE  sock'[r] \in {sock[r], NoEnd}
    OBVIOUS
  <2>1. CASE Network \/ UNCHANGED vars
    <3>1. sock' = sock
      BY <2>1 DEF Network, Establish, Refuse, Cut, vars, program
    <3> QED BY <3>1
  <2>2. ASSUME NEW p \in Peers, Start(p) \/ SelectSome(p) \/ Handle(p) \/ Exit(p)
        PROVE  sock'[r] \in {sock[r], NoEnd}
    <3>1. state \in [Peers -> {"OFF", "NOT_CONNECTED", "CONNECTING", "CONNECTED"}]
          /\ sock \in [Peers -> Ends \cup {NoEnd, Stale}]
      BY DEF SessionInv, TypeOK
    <3> QED BY <2>2, <3>1, SocketChanges
  <2> QED BY <2>1, <2>2 DEF Next
<1>2. SessionInv /\ [Next]_vars => [A]_vars
  BY <1>1
<1>3. Spec => [][A]_vars
  <2> HIDE DEF A
  <2> QED BY <1>2, SessionInvariant, PTL DEF Spec
<1> QED BY <1>3 DEF SessionsAreNotTakenOver
=============================================================================
