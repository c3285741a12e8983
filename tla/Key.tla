-------------------------------- MODULE Key --------------------------------
(***************************************************************************)
(* The key file and the in-memory key of src/src/key.c, as functions of    *)
(* their state.  The pad is the data part of a key file; its bytes are     *)
(* named by their offset, 0 .. size-1, and never by their value.           *)
(*                                                                         *)
(* A file is [ok, id, head, size]: ok says that fopen succeeds and the     *)
(* 32-byte header (magic, head, id) is complete and has the right magic.   *)
(* A key is [id, size, head, pos]: struct key, with pos for the position   *)
(* of its stdio stream relative to KEY_DATA_OFFSET, which is what fread    *)
(* uses; head is only the program's own count of it.  The two part when an *)
(* announced head is one that fseek does not take, as a file offset is     *)
(* signed and a head is not.                                               *)
(***************************************************************************)
EXTENDS Integers

CONSTANTS
    DataOffset,  \* KEY_DATA_OFFSET, where the pad begins in the file
    HeadRange,   \* what a head, a uint64_t, is counted modulo
    SeekRange    \* offsets below it are taken by fseek

ASSUME KeyAssumption ==
    /\ DataOffset \in Nat
    /\ SeekRange \in Nat
    /\ HeadRange \in Nat
    /\ DataOffset < SeekRange
    /\ SeekRange <= HeadRange

Heads == 0 .. HeadRange - 1

\* Sizes of the pads in key files, whose ends are file offsets too.
Sizes == { n \in Nat : n + DataOffset < SeekRange }

KeyFile == [ok : BOOLEAN, id : Nat, head : Heads, size : Sizes]
KeyType == [id : Nat, size : Sizes, head : Heads, pos : Int]

NoKeyFile == [ok |-> FALSE, id |-> 0, head |-> 0, size |-> 0]

\* key_create: a fresh random id, head 0; written may fall short of the size
\* asked for when a read or a write fails (key.c:98-103).
KeyCreate(newId, written) ==
    [ok |-> TRUE, id |-> newId, head |-> 0, size |-> written]

\* The place in the file that a head stands for: an unsigned sum, which for the
\* highest heads wraps to what is in front of the pad.
Offset(head) == (head + DataOffset) % HeadRange

Seekable(head) == Offset(head) < SeekRange

\* key_open succeeds: the header is good, and fseek takes the head saved in it.
KeyOpens(f) == f.ok /\ Seekable(f.head)

\* Mutant: the stream stays at the first byte of the pad.
KeyOpenAtStart(f) == [id |-> f.id, size |-> f.size, head |-> f.head, pos |-> 0]

\* Mutant: the count starts at zero.
KeyOpenForgetsHead(f) == [id |-> f.id, size |-> f.size, head |-> 0,
                       pos |-> Offset(f.head) - DataOffset]

\* key_open on a good file: the saved head is read and the stream seeks to it.
KeyOpen(f) == [id |-> f.id, size |-> f.size, head |-> f.head,
               pos |-> Offset(f.head) - DataOffset]

\* Mutant: the head is not written back.
KeyCloseKeepsOldHead(k, f) == f

\* key_close: the head, and nothing else, is written back to the file.
KeyClose(k, f) == [f EXCEPT !.head = k.head]

\* Mutant: the header's head is ignored.
KeySeekIgnored(k, newHead) == k

\* Mutant: the count is of the file and not of the pad.
KeySeekInFile(k, newHead) ==
    [k EXCEPT !.head = newHead + DataOffset,
              !.pos = IF Seekable(newHead) THEN Offset(newHead) - DataOffset ELSE @]

\* key_seek: the count moves to the announced head; the stream does unless fseek
\* refuses, which is not looked at.
KeySeek(k, newHead) ==
    [k EXCEPT !.head = newHead,
              !.pos = IF Seekable(newHead) THEN Offset(newHead) - DataOffset ELSE @]

----------------------------------------------------------------------------
\* What fread can return from here; a seek may have left the stream past the end.
BytesLeft(k) == IF k.pos < k.size THEN k.size - k.pos ELSE 0

BytesRead(k, bytes) == IF bytes <= BytesLeft(k) THEN bytes ELSE BytesLeft(k)

\* Mutant: the head advances by what was asked for.
KeyGetBlockAsked(k, bytes) ==
    [id |-> k.id, size |-> k.size,
     head |-> (k.head + bytes) % HeadRange, pos |-> k.pos + BytesRead(k, bytes)]

\* key_get_block: head and stream advance by what was read, also when it was
\* too little, so an attempt that fails uses up the rest of the pad.
KeyGetBlock(k, bytes) ==
    [id |-> k.id, size |-> k.size,
     head |-> (k.head + BytesRead(k, bytes)) % HeadRange,
     pos |-> k.pos + BytesRead(k, bytes)]

\* encrypt (and decrypt, which calls it) succeed only on a full block; on
\* failure the message is left as it was.
EncryptSucceeds(k, bytes) == BytesRead(k, bytes) = bytes
=============================================================================
