----------------------------- MODULE PadProofs -----------------------------
(***************************************************************************)
(* What holds of Pad for every pad size, text length and number of runs:   *)
(* its type, that pad bytes are reused only after a kill, that a header    *)
(* locates the pad, that a saved head never rewinds, and that the local    *)
(* key can be opened again.                                                *)
(*                                                                         *)
(* The argument follows the local head.  While the program runs the stream *)
(* stands at local.head, which is at or beyond the head on disk            *)
(* (StreamAtHead, DiskBehind).  Every use by a run that was not killed     *)
(* lies behind the head that will serve the next use: the head on disk for *)
(* finished runs, local.head for the current one (UsedBehind).  A pad      *)
(* generated anew has an id of its own (FreshIds), so it starts with no    *)
(* use behind or beyond its head.  All of this rests on the head staying   *)
(* inside the pad (UsageInv), where the count does not wrap and fseek      *)
(* takes every place.                                                      *)
(***************************************************************************)
EXTENDS Pad, TLAPS

StreamAtHead == up => local.pos = local.head

DiskBehind ==
    up => /\ local.id = disk["local"].id
          /\ disk["local"].head <= local.head

FreshIds ==
    /\ disk["local"].id <= keys
    /\ \A i \in DOMAIN log : log[i].id <= keys

RunsNumbered == \A i \in DOMAIN log : log[i].run <= run

\* The head of a local key is inside its pad, and so is the head on disk, of which
\* a later run will go on; pad and file have the same size while one is open.
UsageInv ==
    /\ disk["local"].head <= disk["local"].size
    /\ up => local.size = disk["local"].size /\ local.head <= local.size

\* The end of a use of the pad now in the local file, by a run not killed.
UsedBehind ==
    \A i \in DOMAIN log :
        log[i].id = disk["local"].id =>
            /\ log[i].run \notin killed /\ (~up \/ log[i].run < run)
                  => log[i].from + log[i].len <= disk["local"].head
            /\ up /\ log[i].run = run
                  => log[i].from + log[i].len <= local.head

PadInv ==
    /\ TypeOK
    /\ StreamAtHead
    /\ DiskBehind
    /\ UsageInv
    /\ FreshIds
    /\ RunsNumbered
    /\ UsedBehind
    /\ HeaderLocatesPad
    /\ PadReuseNeedsKill

----------------------------------------------------------------------------
\* The remainder of what is within a head's range, and of anything else.
LEMMA Remainder ==
    ASSUME NEW n \in Nat
    PROVE  /\ n % HeadRange \in Heads
           /\ n < HeadRange => n % HeadRange = n
<1>1. HeadRange \in Nat /\ HeadRange > 0
  BY KeyAssumption
<1>2. QED BY <1>1 DEF Heads

\* What a key's operations return: key_open reads the file, key_close changes no
\* field of it but the head, and key_get_block moves stream and count together
\* as long as they are the same place of the pad.
LEMMA OffsetInPad ==
    ASSUME NEW h \in Heads
    PROVE  /\ Offset(h) \in Nat
           /\ \A size \in Sizes : h <= size => Seekable(h) /\ Offset(h) = h + DataOffset
<1>1. h + DataOffset \in Nat
  BY KeyAssumption DEF Heads
<1>2. Offset(h) \in Nat
  BY <1>1, Remainder, KeyAssumption DEF Offset, Heads
<1>3. ASSUME NEW size \in Sizes, h <= size
      PROVE  Seekable(h) /\ Offset(h) = h + DataOffset
  <2>1. h + DataOffset < SeekRange /\ h + DataOffset < HeadRange
    BY <1>3, KeyAssumption DEF Sizes, Heads
  <2>2. QED BY <1>1, <2>1, Remainder DEF Offset, Seekable
<1>4. QED BY <1>2, <1>3

LEMMA KeyOpenType ==
    ASSUME NEW f \in KeyFile
    PROVE  /\ KeyOpen(f) \in KeyType
           /\ KeyOpen(f).id = f.id
           /\ KeyOpen(f).head = f.head
           /\ KeyOpen(f).size = f.size
           /\ f.head <= f.size => KeyOpen(f).pos = f.head
<1>1. /\ f.id \in Nat /\ f.head \in Heads /\ f.size \in Sizes
      /\ DataOffset \in Nat
  BY KeyAssumption DEF KeyFile
<1>2. Offset(f.head) \in Nat /\ f.head \in Int
  BY <1>1, OffsetInPad DEF Heads
<1>3. f.head <= f.size => Offset(f.head) = f.head + DataOffset
  BY <1>1, OffsetInPad
<1>4. QED BY <1>1, <1>2, <1>3 DEF KeyOpen, KeyType

LEMMA KeyCloseType ==
    ASSUME NEW k \in KeyType, NEW f \in KeyFile
    PROVE  /\ KeyClose(k, f) \in KeyFile
           /\ KeyClose(k, f).id = f.id
           /\ KeyClose(k, f).ok = f.ok
           /\ KeyClose(k, f).size = f.size
           /\ KeyClose(k, f).head = k.head
BY DEF KeyClose, KeyFile, KeyType

LEMMA KeySeekType ==
    ASSUME NEW k \in KeyType, NEW h \in Heads
    PROVE  KeySeek(k, h) \in KeyType
<1>1. Offset(h) - DataOffset \in Int
  BY OffsetInPad, KeyAssumption
<1>2. QED BY <1>1 DEF KeySeek, KeyType

LEMMA KeyGetBlockMoves ==
    ASSUME NEW k \in KeyType, NEW n \in Nat
    PROVE  /\ KeyGetBlock(k, n) \in KeyType
           /\ KeyGetBlock(k, n).id = k.id
           /\ KeyGetBlock(k, n).size = k.size
           /\ KeyGetBlock(k, n).pos = k.pos + BytesRead(k, n)
           /\ BytesRead(k, n) \in Nat
           /\ k.pos = k.head /\ k.head <= k.size =>
                 /\ KeyGetBlock(k, n).head = k.head + BytesRead(k, n)
                 /\ KeyGetBlock(k, n).head <= k.size
<1>1. /\ k.id \in Nat /\ k.size \in Sizes /\ k.head \in Nat /\ k.pos \in Int
      /\ k.size \in Nat /\ k.size < HeadRange
  BY KeyAssumption DEF KeyType, Sizes, Heads
<1>2. BytesRead(k, n) \in Nat
  BY <1>1 DEF BytesRead, BytesLeft
<1>3. k.head + BytesRead(k, n) \in Nat
  BY <1>1, <1>2
<1>4. k.pos = k.head /\ k.head <= k.size => k.head + BytesRead(k, n) <= k.size
  BY <1>1 DEF BytesRead, BytesLeft
<1>5. /\ (k.head + BytesRead(k, n)) % HeadRange \in Heads
      /\ k.pos = k.head /\ k.head <= k.size =>
            (k.head + BytesRead(k, n)) % HeadRange = k.head + BytesRead(k, n)
  <2>1. HeadRange \in Nat
    BY KeyAssumption
  <2> HIDE DEF BytesRead
  <2>2. QED BY <1>1, <1>3, <1>4, <2>1, Remainder
<1>6. QED BY <1>1, <1>2, <1>4, <1>5 DEF KeyGetBlock, KeyType

\* The numbers that the arithmetic of the invariant is about.
LEMMA Numbers ==
    ASSUME TypeOK
    PROVE  /\ disk["local"] \in KeyFile /\ local \in KeyType
           /\ disk["local"].id \in Nat /\ disk["local"].head \in Nat
           /\ disk["local"].size \in Nat
           /\ local.head \in Nat /\ local.pos \in Int /\ local.size \in Nat
           /\ run \in Nat /\ keys \in Nat
           /\ \A i \in DOMAIN log :
                 /\ log[i].id \in Nat /\ log[i].run \in Nat
                 /\ log[i].from \in Int /\ log[i].len \in Nat
<1>1. disk["local"] \in KeyFile /\ local \in KeyType /\ run \in Nat /\ keys \in Nat
  BY DEF TypeOK, Files
<1>2. \A i \in DOMAIN log : log[i] \in Use
  BY DEF TypeOK
<1>3. QED BY <1>1, <1>2 DEF KeyFile, KeyType, Use, Heads, Sizes

\* TypeOK is inductive on its own.
LEMMA TypeStep == TypeOK /\ [Next]_vars => TypeOK'
<1> SUFFICES ASSUME TypeOK, [Next]_vars PROVE TypeOK'
  OBVIOUS
<1> USE SizesAssumption, OffsetsAssumption DEF TypeOK, Files
<1>1. ASSUME NEW f \in Files, NEW size \in PadSizes, Generate(f, size)
      PROVE  TypeOK'
  <2>1. PICK written \in 0 .. size :
           disk' = [disk EXCEPT ![f] = KeyCreate(keys + 1, written)]
    BY <1>1 DEF Generate
  <2>2. KeyCreate(keys + 1, written) \in KeyFile
    BY KeyAssumption DEF KeyCreate, KeyFile, Sizes, Heads
  <2>3. QED BY <1>1, <2>1, <2>2 DEF Generate
<1>2. CASE Start
  BY <1>2, KeyOpenType DEF Start
<1>3. CASE StartFails
  BY <1>3, KeyOpenType, KeyCloseType DEF StartFails
<1>4. ASSUME NEW size \in TextSizes, BeginSend(size)
      PROVE  TypeOK'
  <2>1. local' \in KeyType
    BY <1>4, KeyGetBlockMoves DEF BeginSend
  <2>2. log' \in Seq(Use)
    <3>1. [id |-> local.id, head |-> local.head, from |-> local.pos,
           len |-> size, run |-> run] \in Use
      BY DEF Use, KeyType
    <3>2. QED BY <1>4, <3>1 DEF BeginSend
  <2>3. QED BY <1>4, <2>1, <2>2 DEF BeginSend
<1>5. ASSUME NEW head \in Offsets, RecvHeader(head)
      PROVE  TypeOK'
  BY <1>5, KeySeekType DEF RecvHeader
<1>6. ASSUME NEW size \in TextSizes, RecvContent(size)
      PROVE  TypeOK'
  BY <1>6, KeyGetBlockMoves DEF RecvContent
<1>7. CASE Quit
  <2>1. disk' \in [Files -> KeyFile]
    BY <1>7, KeyCloseType DEF Quit
  <2>2. QED BY <1>7, <2>1 DEF Quit
<1>8. CASE Kill
  BY <1>8 DEF Kill
<1>9. CASE UNCHANGED vars
  BY <1>9 DEF vars
<1>10. QED
  BY <1>1, <1>2, <1>3, <1>4, <1>5, <1>6, <1>7, <1>8, <1>9 DEF Next

LEMMA PadInitType == Init => TypeOK
<1> SUFFICES ASSUME Init PROVE TypeOK
  OBVIOUS
<1>1. NoKeyFile \in KeyFile
  BY KeyAssumption DEF NoKeyFile, KeyFile, Sizes, Heads
<1>2. disk \in [Files -> KeyFile]
  BY <1>1 DEF Init
<1>3. local \in KeyType /\ remote \in KeyType
  BY <1>1, KeyOpenType DEF Init
<1>4. /\ up \in BOOLEAN /\ run \in Nat /\ killed \in SUBSET Nat
      /\ keys \in Nat
  BY DEF Init
<1>5. log \in Seq(Use)
  BY DEF Init
<1>6. QED BY <1>2, <1>3, <1>4, <1>5 DEF TypeOK

\* Type correctness of the keys, files and log, for every value of the constants.
THEOREM PadTypeCorrect == Spec => []TypeOK
BY PadInitType, TypeStep, PTL DEF Spec

----------------------------------------------------------------------------
\* The step of the invariant that adds a use: it starts where the stream
\* stands, at or beyond the end of every use by a run that was not killed.
LEMMA BeginSendStep ==
    ASSUME PadInv, TypeOK', UsageInv', NEW size \in TextSizes, BeginSend(size)
    PROVE  PadInv'
<1> DEFINE use == [id |-> local.id, head |-> local.head, from |-> local.pos,
                   len |-> size, run |-> run]
<1>n. /\ disk["local"].id \in Nat /\ disk["local"].head \in Nat
      /\ local.head \in Nat /\ local.pos \in Int
      /\ run \in Nat /\ keys \in Nat
      /\ \A i \in DOMAIN log :
            /\ log[i].id \in Nat /\ log[i].run \in Nat
            /\ log[i].from \in Int /\ log[i].len \in Nat
  BY Numbers DEF PadInv
<1>1. /\ up /\ up' /\ disk' = disk /\ run' = run /\ killed' = killed /\ keys' = keys
      /\ size \in Nat
  BY SizesAssumption DEF BeginSend, PadInv, TypeOK
<1>2. /\ local'.id = local.id
      /\ local'.head = local.head + BytesRead(local, size)
      /\ local'.pos = local.pos + BytesRead(local, size)
      /\ BytesRead(local, size) \in Nat
  BY <1>1, KeyGetBlockMoves DEF BeginSend, PadInv, TypeOK, StreamAtHead, UsageInv
<1>3. StreamAtHead' /\ DiskBehind'
  BY <1>n, <1>1, <1>2 DEF StreamAtHead, DiskBehind, PadInv
<1>4. CASE ~EncryptSucceeds(local, size)
  <2>1. log' = log
    BY <1>4 DEF BeginSend
  <2>2. UsedBehind'
    BY <1>n, <1>1, <1>2, <2>1 DEF UsedBehind, PadInv
  <2>3. QED
    BY <1>1, <1>3, <2>1, <2>2
    DEF PadInv, FreshIds, RunsNumbered, HeaderLocatesPad, PadReuseNeedsKill
<1>5. CASE EncryptSucceeds(local, size)
  <2>1. /\ log' = Append(log, use)
        /\ BytesRead(local, size) = size
    BY <1>5 DEF BeginSend, EncryptSucceeds
  <2>3. /\ DOMAIN log' = 1 .. Len(log) + 1
        /\ DOMAIN log = 1 .. Len(log)
        /\ Len(log) \in Nat
        /\ \A i \in 1 .. Len(log) : log'[i] = log[i]
        /\ log'[Len(log) + 1] = use
    BY <2>1 DEF PadInv, TypeOK
  <2>4. /\ use.from = local.head /\ use.len = size
        /\ use.from + use.len = local'.head
        /\ use.head = use.from
        /\ use.id = disk["local"].id
        /\ use.run = run
    BY <1>n, <1>1, <1>2, <2>1 DEF StreamAtHead, DiskBehind, PadInv
  <2> HIDE DEF use
  <2>5. FreshIds'
    BY <1>1, <2>3, <2>4 DEF FreshIds, PadInv
  <2>6. RunsNumbered'
    BY <1>n, <1>1, <2>3, <2>4 DEF RunsNumbered, PadInv
  <2>7. UsedBehind'
    <3> SUFFICES ASSUME NEW i \in DOMAIN log', log'[i].id = disk["local"].id
                 PROVE  /\ log'[i].run \notin killed /\ log'[i].run < run
                              => log'[i].from + log'[i].len <= disk["local"].head
                        /\ log'[i].run = run
                              => log'[i].from + log'[i].len <= local'.head
      BY <1>1 DEF UsedBehind
    <3>1. CASE i = Len(log) + 1
      BY <1>n, <1>1, <1>2, <2>3, <2>4, <3>1
    <3>2. CASE i \in DOMAIN log
      <4>1. log'[i] = log[i]
        BY <2>3, <3>2
      <4>2. QED BY <1>n, <1>1, <1>2, <3>2, <4>1 DEF UsedBehind, PadInv
    <3>3. QED BY <2>3, <3>1, <3>2
  <2>8. HeaderLocatesPad'
    BY <2>3, <2>4 DEF HeaderLocatesPad, PadInv
  <2>9. PadReuseNeedsKill'
    <3>1. ASSUME NEW i \in DOMAIN log, Overlap(log[i], use)
          PROVE  log[i].run \in killed
      <4>1. log[i].id = disk["local"].id /\ local.head < log[i].from + log[i].len
        BY <2>4, <3>1 DEF Overlap
      <4>2. log[i].run <= run
        BY DEF RunsNumbered, PadInv
      <4>3. log[i].run # run
        BY <1>n, <1>1, <4>1 DEF UsedBehind, PadInv
      <4>4. disk["local"].head <= local.head
        BY <1>1 DEF DiskBehind, PadInv
      <4>5. QED
        BY <1>n, <1>1, <4>1, <4>2, <4>3, <4>4 DEF UsedBehind, PadInv
    <3>2. QED BY <1>1, <2>3, <3>1 DEF PadReuseNeedsKill, PadInv
  <2>10. QED BY <1>3, <2>5, <2>6, <2>7, <2>8, <2>9 DEF PadInv
<1>6. QED BY <1>4, <1>5

\* A pad starts at its first byte, is opened at the head that was saved, and
\* key_get_block counts what it has read.
LEMMA UsageStep == PadInv /\ [Next]_vars => UsageInv'
<1> SUFFICES ASSUME PadInv, [Next]_vars PROVE UsageInv'
  OBVIOUS
<1>n. /\ disk["local"] \in KeyFile /\ local \in KeyType
      /\ disk["local"].head \in Nat /\ disk["local"].size \in Nat
      /\ local.head \in Nat /\ local.size \in Nat
      /\ UsageInv /\ StreamAtHead
  BY Numbers DEF PadInv
<1>1. ASSUME NEW f \in Files, NEW size \in PadSizes, Generate(f, size)
      PROVE  UsageInv'
  <2>1. PICK written \in 0 .. size :
           disk' = [disk EXCEPT ![f] = KeyCreate(keys + 1, written)]
    BY <1>1 DEF Generate
  <2>2. size \in Nat
    BY SizesAssumption DEF Sizes
  <2>3. disk'["local"] = disk["local"] \/ disk'["local"] = KeyCreate(keys + 1, written)
    BY <2>1 DEF PadInv, TypeOK, Files
  <2>4. disk'["local"].head <= disk'["local"].size
    BY <1>n, <2>2, <2>3 DEF UsageInv, KeyCreate
  <2>5. QED BY <1>1, <2>4 DEF Generate, UsageInv
<1>2. CASE Start
  BY <1>2, <1>n, KeyOpenType DEF Start, UsageInv
<1>3. CASE StartFails
  <2>1. disk'["local"] = KeyClose(KeyOpen(disk["local"]), disk["local"])
    BY <1>3 DEF StartFails, PadInv, TypeOK, Files
  <2>2. /\ disk'["local"].head = disk["local"].head
        /\ disk'["local"].size = disk["local"].size
    BY <1>n, <2>1, KeyOpenType, KeyCloseType
  <2>3. QED BY <1>n, <1>3, <2>2 DEF StartFails, UsageInv
<1>4. ASSUME NEW size \in TextSizes, BeginSend(size)
      PROVE  UsageInv'
  BY <1>n, <1>4, KeyGetBlockMoves, SizesAssumption DEF BeginSend, UsageInv, StreamAtHead
<1>5. CASE Quit
  <2>1. disk'["local"] = KeyClose(local, disk["local"])
    BY <1>5 DEF Quit, PadInv, TypeOK, Files
  <2>2. QED BY <1>5, <1>n, <2>1, KeyCloseType DEF Quit, UsageInv
<1>6. CASE UNCHANGED <<disk, local>> /\ (up' => up)
  BY <1>n, <1>6 DEF UsageInv
<1>7. QED
  BY <1>1, <1>2, <1>3, <1>4, <1>5, <1>6
  DEF Next, RecvHeader, RecvContent, Kill, vars

\* PadInv is inductive.
LEMMA PadInvStep == PadInv /\ [Next]_vars => PadInv'
<1> SUFFICES ASSUME PadInv, [Next]_vars PROVE PadInv'
  OBVIOUS
<1>0. TypeOK' /\ UsageInv'
  BY TypeStep, UsageStep DEF PadInv
<1>n. /\ disk["local"] \in KeyFile
      /\ disk["local"].id \in Nat /\ disk["local"].head \in Nat
      /\ local.head \in Nat /\ local.pos \in Int
      /\ run \in Nat /\ keys \in Nat
      /\ \A i \in DOMAIN log :
            /\ log[i].id \in Nat /\ log[i].run \in Nat
            /\ log[i].from \in Int /\ log[i].len \in Nat
  BY Numbers DEF PadInv
<1>1. ASSUME NEW f \in Files, NEW size \in PadSizes, Generate(f, size)
      PROVE  PadInv'
  <2>1. PICK written \in 0 .. size :
           disk' = [disk EXCEPT ![f] = KeyCreate(keys + 1, written)]
    BY <1>1 DEF Generate
  <2>2. ~up /\ ~up' /\ keys' = keys + 1 /\ UNCHANGED <<run, killed, log>>
    BY <1>1 DEF Generate
  <2>3. \/ disk'["local"] = disk["local"]
        \/ disk'["local"].id = keys + 1
    BY <2>1 DEF KeyCreate, PadInv, TypeOK, Files
  <2>4. FreshIds'
    BY <1>n, <2>2, <2>3 DEF FreshIds, PadInv
  <2>5. UsedBehind'
    <3>1. CASE disk'["local"] = disk["local"]
      BY <2>2, <3>1 DEF UsedBehind, PadInv
    <3>2. CASE disk'["local"].id = keys + 1
      BY <1>n, <2>2, <3>2 DEF UsedBehind, FreshIds, PadInv
    <3>3. QED BY <2>3, <3>1, <3>2
  <2>6. QED
    BY <1>0, <2>2, <2>4, <2>5
    DEF PadInv, StreamAtHead, DiskBehind, RunsNumbered, HeaderLocatesPad, PadReuseNeedsKill
<1>2. CASE Start
  <2>1. /\ ~up /\ up' /\ run' = run + 1
        /\ local' = KeyOpen(disk["local"])
        /\ UNCHANGED <<disk, killed, keys, log>>
    BY <1>2 DEF Start, PadInv, TypeOK
  <2>2. StreamAtHead' /\ DiskBehind'
    BY <1>n, <2>1, KeyOpenType DEF StreamAtHead, DiskBehind, UsageInv, PadInv
  <2>3. RunsNumbered'
    BY <1>n, <2>1 DEF RunsNumbered, PadInv
  <2>4. UsedBehind'
    BY <1>n, <2>1 DEF RunsNumbered, UsedBehind, PadInv
  <2>5. QED
    BY <1>0, <2>1, <2>2, <2>3, <2>4
    DEF PadInv, FreshIds, HeaderLocatesPad, PadReuseNeedsKill
<1>3. CASE StartFails
  <2>1. /\ ~up /\ ~up' /\ run' = run + 1
        /\ local' = KeyOpen(disk["local"])
        /\ disk'["local"] = KeyClose(local', disk["local"])
        /\ UNCHANGED <<killed, keys, log>>
    BY <1>3 DEF StartFails, PadInv, TypeOK, Files
  <2>2. /\ disk'["local"].id = disk["local"].id
        /\ disk'["local"].head = disk["local"].head
    BY <1>n, <2>1, KeyOpenType, KeyCloseType
  <2>3. RunsNumbered'
    BY <1>n, <2>1 DEF RunsNumbered, PadInv
  <2>4. UsedBehind'
    BY <1>n, <2>1, <2>2 DEF UsedBehind, PadInv
  <2>5. QED
    BY <1>0, <2>1, <2>2, <2>3, <2>4
    DEF PadInv, FreshIds, StreamAtHead, DiskBehind, HeaderLocatesPad, PadReuseNeedsKill
<1>4. ASSUME NEW size \in TextSizes, BeginSend(size)
      PROVE  PadInv'
  BY <1>0, <1>4, BeginSendStep
<1>5. CASE UNCHANGED <<disk, up, local, run, killed, keys, log>>
  BY <1>0, <1>5
  DEF PadInv, StreamAtHead, DiskBehind, FreshIds, RunsNumbered, UsedBehind,
      HeaderLocatesPad, PadReuseNeedsKill
<1>6. CASE Quit
  <2>1. /\ up /\ ~up'
        /\ disk'["local"] = KeyClose(local, disk["local"])
        /\ UNCHANGED <<local, run, killed, keys, log>>
    BY <1>6 DEF Quit, PadInv, TypeOK, Files
  <2>2. /\ disk'["local"].id = disk["local"].id
        /\ disk'["local"].head = local.head
        /\ disk["local"].head <= local.head
    BY <1>n, <2>1, KeyCloseType DEF DiskBehind, PadInv, TypeOK
  <2>3. UsedBehind'
    <3> SUFFICES ASSUME NEW i \in DOMAIN log, log[i].id = disk["local"].id,
                        log[i].run \notin killed
                 PROVE  log[i].from + log[i].len <= local.head
      BY <2>1, <2>2 DEF UsedBehind
    <3>1. log[i].run <= run
      BY DEF RunsNumbered, PadInv
    <3>2. CASE log[i].run = run
      BY <2>1, <3>2 DEF UsedBehind, PadInv
    <3>3. CASE log[i].run < run
      BY <1>n, <2>1, <2>2, <3>3 DEF UsedBehind, PadInv
    <3>4. QED BY <1>n, <3>1, <3>2, <3>3
  <2>4. QED
    BY <1>0, <2>1, <2>2, <2>3
    DEF PadInv, FreshIds, StreamAtHead, DiskBehind, RunsNumbered, HeaderLocatesPad,
        PadReuseNeedsKill
<1>7. CASE Kill
  <2>1. /\ up /\ ~up' /\ killed' = killed \cup {run}
        /\ UNCHANGED <<disk, local, run, keys, log>>
    BY <1>7 DEF Kill
  <2>2. \A i \in DOMAIN log : log[i].run <= run
    BY DEF RunsNumbered, PadInv
  <2>3. UsedBehind'
    BY <1>n, <2>1, <2>2 DEF UsedBehind, PadInv
  <2>4. QED
    BY <1>0, <2>1, <2>3
    DEF PadInv, FreshIds, StreamAtHead, DiskBehind, RunsNumbered, HeaderLocatesPad,
        PadReuseNeedsKill
<1>8. QED
  BY <1>1, <1>2, <1>3, <1>4, <1>5, <1>6, <1>7
  DEF Next, RecvHeader, RecvContent, vars

LEMMA PadInvariant == Spec => []PadInv
<1>1. ASSUME Init PROVE PadInv
  <2>1. TypeOK
    BY <1>1, PadInitType
  <2>2. /\ ~up /\ log = <<>> /\ keys = 0 /\ disk["local"] = NoKeyFile
    BY <1>1 DEF Init, Files
  <2>3. QED
    BY <2>1, <2>2
    DEF PadInv, NoKeyFile, UsageInv, StreamAtHead, DiskBehind, FreshIds, RunsNumbered, UsedBehind,
        HeaderLocatesPad, PadReuseNeedsKill
<1>2. QED BY <1>1, PadInvStep, PTL DEF Spec

----------------------------------------------------------------------------
\* A pad byte serves two texts only if the run that used it first was killed:
\* key_open and key_close (key.c:42-70, 111-123) keep the pad one-time over any
\* number of runs that end through chat_end.
THEOREM PadReusedOnlyAfterKill == Spec => []PadReuseNeedsKill
BY PadInvariant, PTL DEF PadInv

\* Every header names the pad byte its text starts at (chat.c:235, 246).
THEOREM HeadersLocatePad == Spec => []HeaderLocatesPad
BY PadInvariant, PTL DEF PadInv

\* The head saved for a pad only grows.
THEOREM SavedHeadGrows == Spec => SavedHeadNeverRewinds
<1> DEFINE Grows == disk'["local"].id = disk["local"].id
                       => disk'["local"].head >= disk["local"].head
<1>1. ASSUME PadInv, [Next]_vars PROVE [Grows]_vars
  <2>n. /\ disk["local"] \in KeyFile
        /\ disk["local"].id \in Nat /\ disk["local"].head \in Nat
        /\ local.head \in Nat /\ keys \in Nat
    BY <1>1, Numbers DEF PadInv
  <2>1. ASSUME NEW f \in Files, NEW size \in PadSizes, Generate(f, size)
        PROVE  Grows
    <3>1. PICK written \in 0 .. size :
             disk' = [disk EXCEPT ![f] = KeyCreate(keys + 1, written)]
      BY <2>1 DEF Generate
    <3>2. \/ disk'["local"] = disk["local"]
          \/ disk'["local"].id = keys + 1
      BY <1>1, <3>1 DEF KeyCreate, PadInv, TypeOK, Files
    <3>3. QED BY <1>1, <2>n, <3>2 DEF FreshIds, PadInv
  <2>2. CASE StartFails
    <3>1. disk'["local"] = KeyClose(KeyOpen(disk["local"]), disk["local"])
      BY <1>1, <2>2 DEF StartFails, PadInv, TypeOK, Files
    <3>2. disk'["local"].head = disk["local"].head
      BY <2>n, <3>1, KeyOpenType, KeyCloseType
    <3>3. QED BY <2>n, <3>2
  <2>3. CASE Quit
    <3>1. disk'["local"] = KeyClose(local, disk["local"])
      BY <1>1, <2>3 DEF Quit, PadInv, TypeOK, Files
    <3>2. disk'["local"].head = local.head
      BY <1>1, <2>n, <3>1, KeyCloseType DEF PadInv, TypeOK
    <3>3. QED BY <1>1, <2>n, <2>3, <3>2 DEF Quit, DiskBehind, PadInv
  <2>4. CASE UNCHANGED disk
    BY <2>n, <2>4
  <2>5. QED
    BY <1>1, <2>1, <2>2, <2>3, <2>4
    DEF Next, Start, BeginSend, RecvHeader, RecvContent, Kill
<1>2. QED
  BY <1>1, PadInvariant, PTL DEF Spec, SavedHeadNeverRewinds

----------------------------------------------------------------------------
\* The cells draw_key_usage draws for the local key never wrap around (ui.c:356-357):
\* key_get_block counts what it has read, and no run finds a head beyond the end.
\* The head a run leaves in the local key file is therefore one that key_open's
\* fseek takes (key.c:64), although key_seek sets the same field without a check.
THEOREM KeyUsageAlwaysFits == Spec => []KeyUsageFits
<1>1. ASSUME PadInv PROVE KeyUsageFits
  <2>1. disk["local"].head \in Heads /\ disk["local"].size \in Sizes
    BY <1>1 DEF PadInv, TypeOK, Files, KeyFile
  <2>2. Seekable(disk["local"].head)
    BY <1>1, <2>1, OffsetInPad DEF PadInv, UsageInv
  <2>3. QED BY <1>1, <2>2 DEF PadInv, UsageInv, KeyUsageFits, KeyOpens
<1>2. QED BY <1>1, PadInvariant, PTL
=============================================================================
