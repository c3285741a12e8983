-------------------------------- MODULE Pad --------------------------------
(***************************************************************************)
(* One user's key files over several runs of the program: otpchat          *)
(* --generate, the opening of both keys by chat_init, their use by         *)
(* chat_begin_send and chat_handle_recv, the saving of both heads by       *)
(* chat_end, and a process that is killed (SIGINT from the terminal,       *)
(* SIGPIPE from node_send's send(), power loss) and saves nothing.         *)
(*                                                                         *)
(* A head lives in memory while the program runs and reaches the disk only *)
(* in key_close: whether a pad byte is used once depends on how every      *)
(* earlier run ended.                                                      *)
(***************************************************************************)
EXTENDS Key, Sequences

CONSTANTS
    PadSizes,   \* sizes given to --generate
    TextSizes,  \* lengths of the texts sent and received
    Offsets,    \* heads that headers from the remote may announce
    MaxRuns,    \* bound: runs of the program, failed starts included
    MaxKeys     \* bound: keys generated

ASSUME SizesAssumption == PadSizes \subseteq Sizes /\ TextSizes \subseteq Nat \ {0}
ASSUME OffsetsAssumption == Offsets \subseteq Heads
ASSUME BoundsAssumption == MaxRuns \in Nat /\ MaxKeys \in Nat

VARIABLES
    disk,    \* the files at local_key_path and remote_key_path
    up,      \* the program is in chat()'s loop
    local,   \* store.local, meaningful while up
    remote,  \* store.remotes[0], meaningful while up
    run,     \* number of starts so far; the current run while up
    killed,  \* runs that ended without key_store_close
    keys,    \* number of keys generated, the source of fresh ids
    log      \* texts encrypted: pad, header's head, first byte, length, run

vars == <<disk, up, local, remote, run, killed, keys, log>>

Files == {"local", "remote"}
Use == [id : Nat, head : Heads, from : Int, len : Nat, run : Nat]

TypeOK ==
    /\ disk \in [Files -> KeyFile]
    /\ up \in BOOLEAN
    /\ local \in KeyType
    /\ remote \in KeyType
    /\ run \in Nat
    /\ killed \in SUBSET Nat
    /\ keys \in Nat
    /\ log \in Seq(Use)

Init ==
    /\ disk = [f \in Files |-> NoKeyFile]
    /\ up = FALSE
    /\ local = KeyOpen(NoKeyFile)
    /\ remote = KeyOpen(NoKeyFile)
    /\ run = 0
    /\ killed = {}
    /\ keys = 0
    /\ log = <<>>

----------------------------------------------------------------------------
\* otpchat --generate: generate() ignores what key_create returns, so a short
\* file is left behind without a word.
Generate(f, size) ==
    /\ ~up
    /\ keys < MaxKeys
    /\ \E written \in 0 .. size :
          disk' = [disk EXCEPT ![f] = KeyCreate(keys + 1, written)]
    /\ keys' = keys + 1
    /\ UNCHANGED <<up, local, remote, run, killed, log>>

\* chat_init with two key files that can be opened.
Start ==
    /\ ~up
    /\ run < MaxRuns
    /\ KeyOpens(disk["local"])
    /\ KeyOpens(disk["remote"])
    /\ up' = TRUE
    /\ local' = KeyOpen(disk["local"])
    /\ remote' = KeyOpen(disk["remote"])
    /\ run' = run + 1
    /\ UNCHANGED <<disk, killed, keys, log>>

\* chat_init without a usable remote key, which may be one whose saved head fseek
\* refuses: the local key, already open, is closed on the way out, which writes
\* its head back.
StartFails ==
    /\ ~up
    /\ run < MaxRuns
    /\ KeyOpens(disk["local"])
    /\ ~KeyOpens(disk["remote"])
    /\ local' = KeyOpen(disk["local"])
    /\ disk' = [disk EXCEPT !["local"] = KeyClose(local', @)]
    /\ run' = run + 1
    /\ UNCHANGED <<up, remote, killed, keys, log>>

\* chat_begin_send: the header carries local.head, encrypt reads the stream.
BeginSend(size) ==
    /\ up
    /\ local' = KeyGetBlock(local, size)
    /\ log' = IF EncryptSucceeds(local, size)
              THEN Append(log, [id |-> local.id, head |-> local.head,
                                from |-> local.pos, len |-> size, run |-> run])
              ELSE log
    /\ UNCHANGED <<disk, up, remote, run, killed, keys>>

\* chat_handle_recv when a header is complete.
RecvHeader(head) ==
    /\ up
    /\ remote' = KeySeek(remote, head)
    /\ UNCHANGED <<disk, up, local, run, killed, keys, log>>

\* chat_handle_recv when a message is complete: decrypt.
RecvContent(size) ==
    /\ up
    /\ remote' = KeyGetBlock(remote, size)
    /\ UNCHANGED <<disk, up, local, run, killed, keys, log>>

\* chat_end: key_store_close saves both heads.
Quit ==
    /\ up
    /\ up' = FALSE
    /\ disk' = [disk EXCEPT !["local"] = KeyClose(local, @),
                            !["remote"] = KeyClose(remote, @)]
    /\ UNCHANGED <<local, remote, run, killed, keys, log>>

\* The process dies in the loop; no handler saves anything.
Kill ==
    /\ up
    /\ up' = FALSE
    /\ killed' = killed \cup {run}
    /\ UNCHANGED <<disk, local, remote, run, keys, log>>

Next ==
    \/ \E f \in Files, size \in PadSizes : Generate(f, size)
    \/ Start
    \/ StartFails
    \/ \E size \in TextSizes : BeginSend(size)
    \/ \E head \in Offsets : RecvHeader(head)
    \/ \E size \in TextSizes : RecvContent(size)
    \/ Quit
    \/ Kill

Spec == Init /\ [][Next]_vars

----------------------------------------------------------------------------
Overlap(a, b) ==
    /\ a.id = b.id
    /\ a.from < b.from + b.len
    /\ b.from < a.from + a.len

\* No pad byte encrypts two texts: what makes the key of README.md:3 a
\* one-time pad.  A killed run breaks it.
PadUsedOnce ==
    \A i, j \in DOMAIN log : i < j => ~Overlap(log[i], log[j])

\* A pad byte is used again only when the run that used it first was killed:
\* every run that ended through chat_end, and the current one, left or has a
\* head beyond all it used, and no later run, killed or not, goes back behind it.
PadReuseNeedsKill ==
    \A i, j \in DOMAIN log :
        i < j /\ Overlap(log[i], log[j]) => log[i].run \in killed

\* The head announced in a frame's header is the offset of the pad byte that
\* encrypted its first byte, although one comes from struct key and the other
\* from the stream, over restarts and short reads.
HeaderLocatesPad ==
    \A i \in DOMAIN log : log[i].head = log[i].from

\* What is drawn as left of the local key is an unsigned difference (ui.c:356-357):
\* it would be 2^32 cells, were a head beyond the end of its pad ever counted, or
\* saved and read again in a later run.  The remote key's head is what the last
\* header said.  As fseek may have refused that one, which key_seek does not look
\* at, it can make key_open fail in every later run (key.c:64); the user's own key
\* file can always be opened again.
KeyUsageFits ==
    /\ up => local.head <= local.size
    /\ disk["local"].ok => KeyOpens(disk["local"])

\* The head saved for a local pad never goes back, whatever ends the run and
\* also when a start fails half way.
SavedHeadNeverRewinds ==
    [][disk'["local"].id = disk["local"].id
          => disk'["local"].head >= disk["local"].head]_vars
=============================================================================
