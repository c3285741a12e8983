# A verification project for otpchat

otpchat is a chat program for two people.  Each has a key, a file of random
bytes of which every text uses up as many as it has, and a copy of the other's.
One instance listens, the other connects; after a handshake in which they name
their keys, both send and receive texts over one TCP connection.  The program is
one thread around `select()`; what makes it hard is that two such loops, the
kernel between them and two key files on either side have to agree, over texts
cut anywhere by `send` and `recv`, connections that break, pads that end and
processes that are killed.

Paths below are those of the repository under `src/`; `chat.c` stands for
`src/src/chat.c`.

## Inventory

| Component | State | Operations | Interacts with |
| :-- | :-- | :-- | :-- |
| Key files, key store (`key.c`) | on disk: magic, head, id, pad; in memory: `stream`, `size`, `id`, `head` | `key_create`, `key_open`, `key_close`, `key_seek`, `encrypt`/`decrypt` (`key_get_block`), `key_store_find` | `chat_init`, `chat_end`, `chat_begin_send`, `chat_handle_recv`, the handshake, `--generate` |
| Chat loop (`chat.c`) | `sending`, `sent_size`, `receiving`, `received_size`, history, `running` | `chat_begin_send`, `chat_handle_send`, `chat_handle_recv`, `chat_begin_connect`, `chat_begin_listen`, `chat_end_listen`, `chat_disconnect`, the loop | everything else |
| Nodes (`node.c`) | `socket`, `info` | `node_connect`, `node_listen`, `node_accept`, `node_send`, `node_recv`, `node_exchange`, `node_error`, `node_close` | the kernel |
| Users (`user.c`) | `state`, `key`, `node` | `user_begin_connect`, `user_handshake`, `user_finish_connect`, `user_accept`, `user_disconnect`, `user_close` | nodes, key store |
| Line editor and history (`ui.c`) | `input`, `cursor_index`, `history_line`, width and height of the box | `ui_handle_input`, `ui_update` | commands, `chat_begin_send` |
| Commands (`command.c`) | none | `command_handle` and one function for each command | chat loop |
| Command line, addresses (`args.c`, `address.c`) | none | `parse_args`, `parse_address` | `main` |
| Blocks, messages (`block.c`, `message.c`) | memory | allocation, copying | all |

Hard behaviours, by where they come from:

* **Two loops and the kernel.**  Sends and receives are partial; the peers'
  handlers interleave; data, the end of the stream and resets arrive between a
  `select` and the handlers it called for; a handler may close the socket that
  the next one was to use.
* **What outlives a connection.**  The frame being sent and the frame being
  received are kept in `chat_state`, not with the connection.
* **What outlives a process.**  The head of a pad is written to its file by
  `key_close` only.
* **Limits.**  The end of a pad in the middle of a text; a full kernel buffer.
* **Time.**  The handshake shares one timeout between two exchanges, measured
  with a clock that may be set and around a `select` that signals interrupt.
* **Descriptors.**  They are small numbers that are used again: one kept too long
  means another socket.
* **Bytes and characters, lines and messages.**  The cursor counts bytes, the
  screen characters, the scroll position lines, whose number depends on the width
  of a box that messages, resizing and the text being typed all change.

What makes each component correct:

* pads: no byte is used for two texts; the head in a header is where the pad
  stood; a saved head never goes back;
* data plane: what one user types is what the other sees, complete, once, in
  order; both ends agree on the pad; the socket agrees with the state; a broken
  connection is noticed; two writers do not block each other;
* control plane: both sides of a handshake come to the same result, or one
  notices soon; every attempt ends, and in time; a node holds its own
  descriptors, and none is lost or closed twice;
* editor: a key acts on one whole character; the scroll position stays within
  what there is; the box shows the lines it should; a message that arrives does
  not move what is being read;
* parsers: what they take an address or a port for is what was written.

## Modules

| Module | Models | Lines |
| :-- | :-- | :-- |
| `Key` | `struct key`, a key file, and the functions of `key.c` as operators | `key.c` |
| `Pad` | one user's two key files over generations, starts, runs, clean ends and kills | `main.c`, `key.c`, `chat_init`, `chat_end`, the key calls of `chat.c` |
| `PadProofs` | theorems about `Pad` | |
| `Channel` | the abstract promise of a chat | |
| `Chat` | two peers: loop, framing, pads and the TCP connection | `chat.c`, parts of `node.c`, `user.c`, `ui.c` |
| `ChatProofs` | theorems about `Chat` alone | |
| `ChannelProofs` | the order of what `Chat` shows, and that it implements `Channel` | |
| `HeadsProofs` | that both ends agree on the pads, on top of `ChannelProofs` | |
| `Session` | any number of instances: listening, connecting, handshake, accepting, commands, the ends of connections | `user.c`, `command.c`, the rest of `chat.c` and `node.c` |
| `SessionProofs` | theorems about `Session` | |
| `Exchange` | the time of one handshake: two exchanges, a timeout, a clock, signals | `node_exchange`, `user_handshake` |
| `ExchangeProofs` | theorems about `Exchange` | |
| `Args` | the command line, addresses and commands, as functions of texts | `args.c`, `address.c`, `command.c` |
| `Nodes` | one program's loop, step by step, with the descriptors and `addrinfo` blocks it holds | `node.c`, `user.c`, `main`, the loop of `chat.c` |
| `NodesProofs` | theorems about `Nodes` and `Args` | |
| `Editor` | the abstract promise of the input box | |
| `Ui` | the input box, edited byte by byte, the history above it, and which rows show what | `ui.c`, `chat_push_message` |
| `UiProofs` | theorems about `Ui` | |
| `MCPad`, `MCChat`, `MCSession`, `MCNodes`, `MCUi` | small instances for TLC; `Exchange` is one with numbers alone | |

Definitions whose comment begins with *Mutant:* stand right before the one they
are a faulty version of; they are not part of any specification, and replacing
the definition by its mutant makes TLC find the property violated that
`PROJECT.json` names with it.

### Key and Pad

A pad byte is named by its offset.  A key is `[id, size, head, pos]`: `head` is
the program's field, `pos` the place of the stdio stream, which is where `fread`
really reads.  They are two counts of one thing, set by different statements
(`key_open`, `key_seek`, `key_get_block`), and that they agree is proved, not
assumed.  A short read moves both and encrypts nothing.  They part where `fseek`
refuses an announced head, which `key_seek` does not notice (`key.c:126`): a head
counts modulo 2^64 (`HeadRange`), a file offset is signed (`SeekRange`), and the pad
begins behind the header of the file (`DataOffset`).  `KeyOpens` is `key_open`'s
result: a good header, and a saved head that `fseek` takes.

`Pad` has the two files on disk (`disk`), the two keys in memory (`local`,
`remote`), whether the program runs (`up`), and as history variables the runs
that were killed and a `log` with one record for each text encrypted.  Actions:
`Generate` (with the short file that a failed `key_create` leaves, as
`generate()` ignores its result), `Start`, `StartFails` (the local key opened and
closed again because the remote one cannot be opened, by its header or by its saved
head), `BeginSend`, `RecvHeader`
(any announced head), `RecvContent`, `Quit` (both heads saved) and `Kill`.

Not in it: `key_close` on a stream that `fclose` has already been given, which
is what `generate()` does after a failed `key_create` and `chat_init` after a bad
magic number.  It is undefined behaviour; the default build leaves the file as it
is, which is what the model does.

### Channel and Chat

`Channel` is the promise: each user sees the other's texts, numbered in the
order they were typed, as `1, 2, 3, ...` and, under fairness, all of them.

`Chat` has for each peer the handlers left in the current iteration (`todo`, `{}`
at the `select`), `state` and `sock` (`remote.state`, `remote.node.socket # -1`),
the send side (`frames` made so far, `sending`, `sent`, the `local` key), the
receive side (`receiving`, `received`, the `remote` key, `shown`), and the kernel
between them (`wire`, `rst`).  A frame's bytes are units `<<m, i>>`, byte `i` of
frame `m`: a header or a text is recognised by the units it is made of, and a
buffer of units that are not one frame's reads as any of `BadHeaders`, or as a
text nobody typed.  Handlers run in the order of the code, `read`, `write`,
`stdin`, `check`; the other peer may do anything between them.

| Action | Code |
| :-- | :-- |
| `Select` (`SelectSome`, `SelectAll`) | the sets built before `select`, and what it reports |
| `ReadSome`, `ReadMore`, `ReadHeader`, `ReadContent`, `ReadFails` | `chat_handle_recv`, `node_recv`, `decrypt`, `chat_handle_message` |
| `WriteSome`, `WriteFails`, `WriteSkipped` | `chat_handle_send`, `node_send` |
| `Enter` | newline in `ui_handle_input`, `chat_begin_send`, `encrypt` |
| `Disconnect` | `/disconnect`: `chat_disconnect`, `user_disconnect`, `node_close` |
| `OtherKey` | every other key, and Enter while not connected |
| `CheckFails`, `CheckPasses` | the `node_error` test that ends an iteration |
| `Exit` | the end of the process, by `/quit`, SIGINT or SIGPIPE |
| `Establish` | a successful handshake at both ends, as one step |

The kernel is modelled from how `node.c` uses it: `close` with unread data, and
data sent to a closed socket, lead to a reset; after a plain close what was
written still arrives; a reset may be seen by `recv`, `send` or `node_error`, or
not yet.  `FD_ISSET` of -1, for a socket closed earlier in the iteration, is
undefined; with glibc's definition it reads a bit of the set that no descriptor
of this program has, and the handler is skipped (`WriteSkipped`).

### Session

`Chat` takes the way to a connection as one step, `Establish`; `Session` is that
way, and leaves the texts out.  It has the same loop (`todo`, handlers in order,
`SelectSome` and `SelectAll`) with the handlers for the listening socket and for
the end of a connection attempt, and the commands.  Each attempt is a *link* with
a `caller` and a `callee` end; `open` is the set of ends nobody has closed, `sock`
the one in `remote.node`, `queue` the backlog of the listening socket.  A link is
`OPENING`, `UP` or, when refused, reset, or left in a backlog that is closed,
`RESET`.  There may be more than two instances: `Friend[p]` is the one whose key
`p` was started with, and `Version[p]` its `PROTOCOL_ID`.

| Action | Code |
| :-- | :-- |
| `Start`, `Exit` | `chat_init`; `chat_end` or a signal, at any time |
| `Connect`, `Disconnect`, `Listen`, `EndListen`, `OtherKey` | the commands, `chat_begin_connect`, `user_begin_connect`, `chat_disconnect`, `chat_begin_listen`, `chat_end_listen` |
| `FinishConnect`, `Accept` | `user_finish_connect` and `user_accept` up to the handshake |
| `Say`, `Hear`, `GiveUp` | the parts of `node_exchange`, which blocks the whole program |
| `JudgeHello`, `JudgeAnswer` | `user_handshake` after either exchange |
| `Read`, `Check` | the end of the stream; the check that ends an iteration |
| `Establish`, `Refuse`, `Cut` | the kernels and the network |

A message of a handshake is one item: its 24 bytes or its one byte are asked for
exactly, so that parts of it change nothing.  The timeout is a choice, `GiveUp`,
at any moment of an exchange (for instances in `Hasty`); how long it is, and what
the arithmetic of `node_exchange` makes of it, is in `Exchange`.  After a failed
`bind` or `/endlisten` a waiting program passes -1 to `FD_SET`; with glibc's plain
definition that sets a bit `select` is not asked about, and nothing happens.  After
a `node_connect` that fails at once the number of the closed socket may stay in
`remote.node`: `Stale`.  No socket is open under it in `Session`, where numbers are
not used again; what comes of it when they are is in `Nodes`.

### Exchange

One handshake of one program, from the first `node_exchange` to its end.  `left`
is `timeout_tv` as the pair it is, `timeout_ms` the unsigned that carries the time
left to the second exchange and to the caller, with its width (`UnsignedMax`).
`send_size` and `recv_size` count down as the messages move in pieces.  Time is
counted in microseconds; `spent` and `lost` are what the selects that returned and
those that signals interrupted really took, and `ahead` is by how much the clock
was set while they waited, which is what separates the time taken from the time
`gettimeofday` measures.  `Budget` is what the two exchanges share: the timeout, or
`UnsignedMax` milliseconds more once the time handed on has wrapped.

| Action | Code |
| :-- | :-- |
| `Receive`, and `Return` without data | one iteration of the loop: `select`, `timersub`, `node_recv`, `node_send` |
| `Interrupt` | `EINTR`: the wait starts again with the same time |
| `TimeOut` | `select` refuses the negative time that a wait which took too long left |
| `Abort` | a socket that `node_recv` or `node_send` closed |
| `NextExchange`, `Accept`, `Refuse` | `user_handshake` after either exchange |

### Args and Nodes

`Args` is the parsing: a text is a sequence of colons, numbers (as `strtol` reads
them, of any size and sign) and names; what it is taken for is a request
(`ConnectTo`, `ListenOn`, `Disconnect`, `EndListen`, `Quit`, `Generate`) or
`Nothing`.  Numbers keep the width of what they are assigned to: the port of the
command line is a `uint16_t` (`PortRange`) and not checked, that of `/listen` an
`unsigned` (`UnsignedRange`) and checked, a key's size a `size_t`.  Splitting a
line at blanks is not in it: a command is a sequence of words.

`Nodes` carries the requests out.  Its state is that of one program: where the
loop is (`pc`, one step for each test of the loop), what `select` returned
(`ready`), `wait_for_remote`, `remote.state`, the two nodes, and in `os` the table
of descriptors and the table of `addrinfo` blocks, each with who holds it.  The
kernel hands out the lowest free descriptor; the allocator any free block.
`CloseFile` and `FreeInfo` do what the calls do, to whomever the descriptor or
block belongs by then, and note in `harm` when it was not the caller's.  After
memory was freed twice the program may go on or end (`Goto`).  `stale` remembers
that the remote node is what a failed `node_connect` left, `leftovers` counts
sockets found in error just after they were accepted.

| Action | Code |
| :-- | :-- |
| `Start` | `main`, `parse_args`, and what `chat_init` begins |
| `Select` | the sets, and `select`; it fails on a descriptor that is not open |
| `Receive` | `FD_ISSET(state.remote.node.socket)`, whatever `remote.state` is, and `node_recv` |
| `Write` | `user_finish_connect` with the cleaning up after it, or `chat_handle_send` |
| `Accept` | `user_accept`, `node_accept` |
| `Key`, `Command` | `ui_handle_input`, `command_handle` and the five commands |
| `Check` | the `node_error` test, and the test of `running` |
| `End` | `chat_end` |

What is sent over the connections is left out: a read or a write succeeds or
loses the socket, a handshake succeeds or not.

### Editor and Ui

`Editor` is what a user expects of the input box: characters before and after a
cursor, and keys that insert, erase or pass over one.  `Ui` is the code: `input` a
sequence of bytes, `cursor_index` an offset into it, and the loops over `mblen`
(`Starts`, `NextChar`, `PrevChar`, `CountChars`, `CountBytes`), which stop at a
byte that begins no whole character.  `Starts` says where such a loop comes to
without the loop: at the offsets with nothing but whole characters before them.
Likewise the lines of the history are a set, `LinesOf`, of pairs of a message and a
line of it, and `ui_history_lines` is its size.  Bytes of a character come one at a time
(`TypeFirst`, `TypeMore`, no key between them) and messages may arrive, or the
terminal be resized, in between: then `mblen` meets half a character.  `Bad` is a
byte of no character: of another encoding, a NUL, or the 255 that the ERR of
`getch` becomes.  A line with one is `garbled` until it is empty, and `Editor`
promises nothing of it.

A message in `history` is the number of its characters.  Every action ends in
`UiUpdate`, as every handler does in `ui_update`, which sets the width and height
of the box; `history_line` is the number of lines below it.  `FirstRow`, `Drawn`,
`DrawnRows`, `Written` and `Cells` are `draw_history`, `LineStarts` and `CursorRow`
the input box.  The history is drawn from the last message upwards, and every
message blanks its rows before it writes them, so that of what is written
(`Written`) there stays what no message above has blanked (`Cells`).

| Action | Code |
| :-- | :-- |
| `TypeFirst`, `TypeMore`, `Backspace`, `Move`, `Scroll`, `Enter` | the branches of `ui_handle_input` |
| `Arrive` | `chat_push_message` from `chat_handle_message` or `chat_push_status` |
| `Resize` | `ui_update` when a signal has interrupted `select` |

`narrowest` and `lowest` are history variables: the least width and height the box
has had.  Enter with a text for which the pad is too short pushes two messages
(`PushBoth`), and between them the box may have a width that it has neither before
nor after; `narrowest` counts that one too.  That it must came out of the proof of
`ScrolledWithin`, which is not inductive without it.

## Runs

| Run | Instance | Shows |
| :-- | :-- | :-- |
| `pad` | pads of 2 bytes, texts of 1 and 2, announced heads of 2 to 4, three runs, three keys | pad bytes are reused only after a kill; headers and pad agree; heads never go back; the local one never passes the end of the pad, and can be opened again |
| `pad_kill` | the same | **violation**: a killed run makes the next reuse the pad |
| `chat_both_ways` | two typists, two texts each, a kernel buffer smaller than a frame | `Chat` implements `Channel` with its liveness, without mutual blocking; both ends agree on the pads when idle |
| `chat_unruly` | impatient typist, both may disconnect, two connections, a pad of 3 | whole frames decrypt, texts keep their order, socket and state agree |
| `chat_last_words` | only the author leaves or is killed, two connections, a pad of 3 | the safety part of `Channel`; a frame fully written is shown, the rest of a half-sent one resumes in step; the other side notices |
| `session` | two friends and a stranger who has the key of one, a failing network, timeouts, commands, restarts, two links | only friends get connected; sockets match states; no session is taken over |
| `session_live` | two instances that listen and call each other, two links | attempts end, neither side stays connected alone, queued calls are answered |
| `session_meet` | one listener, a friend and a stranger of another version who call, no timeouts, two links | friends meet: no order of the exchanges blocks |
| `session_deaf` | nobody was started to wait | **violation**: after `/listen` calls are not answered |
| `exchange` | messages of 2 bytes and of 1, a timeout of 3 ms, one signal, a clock set by up to 1 us, an unsigned of 10 | the exchanges share the budget; a handshake is bounded by it, and ends; what time left it reports |
| `nodes` | three descriptors, three blocks, 34 command lines and 31 commands, well formed and not | nodes hold their own and lose nothing, except after a failed `node_connect` or a failed accept; the loop goes on; addresses and ports are taken for what was written |
| `ui` | a slash and a letter of two bytes, lines of up to 3 bytes, three messages, terminals of 2 by 5 and 3 by 4 | `Ui` implements `Editor`; the boxes show what they should; the scroll position is bounded |

**Bounds.**  `MaxRuns`, `MaxKeys`, `MaxTexts` and `MaxSessions` bound what the
users do.  Three runs are a kill, the run that reuses the pad and one after it.  A
pad of 2 lets two texts fit and refuses a third; of the heads announced 2 is its end,
`fseek` refuses 3 (`SeekRange` is 4, `DataOffset` 1), and 4 wraps to the byte in
front of the pad.
A header of two units can be cut; texts of one and two units make frames of
different lengths, so that a frame cut short followed by another is really out of
step.  A `Room` of 3 or 2 is less than the longest or than any frame, so that
frames meet a full buffer.  A second connection is all it takes for what
the first left behind to matter.  `BadHeaders` has size 0, the header that
leaves the buffer full, and a size that swallows a unit.  In `Session` two links
are two calls at once, or one that waits in the backlog behind another; in
`session_deaf` a third is for the call that is refused before anybody listens.

In `Exchange` a second has 2 milliseconds and a millisecond 2 microseconds, so that
every carry of `timersub` and both roundings occur, and an unsigned is just wide
enough that a wrapped time is longer than the timeout (`TimesAssumption`, which
holds by far of 2000 ms and 2^32).  In `Nodes` three descriptors are one for each
node and one that a lost or a stale one can be; ports have 2 bits and an unsigned
4, as TLC's integers have 32, and the numbers include ones below, at and above
either range.  `MaxLeftovers` bounds the accepted sockets that are lost: the loop
may lose one each time round.  In `Ui` three characters are more than a line of the
narrow terminal, so that the input box grows at the cost of the history, up to a
height of one; three messages of up to three characters, of which `chat_init`
pushes the first, are more lines than either box has, and appear with and without
a scroll bar.

**Deadlock** is checked in `ui` only.  `exchange` and `nodes` end.  In the others both loops may wait in `select` for users who do
nothing, and for good once the bounds are used up.  That they do not wait for
each other is the liveness of `chat_both_ways`.

**Fairness.**  `WF(Handle(p))`: a process runs the handlers of the iteration it
is in.  `SF(SelectAll(p))`: `SelectSome` lets data and hang-ups be late for any
`select`, but they are not late for ever; weak fairness would not do, as
`SelectAll` is disabled while handlers run.  Nothing is assumed of users, nor that
anybody connects: `Enter`, `Disconnect`, `OtherKey` and `Exit`
need never happen (`Handle` includes the key handlers because a pressed key is
handled; which key it was stays open).  `Session` assumes the same, and weak
fairness of the network's answer to a connection attempt (`Establish` or
`Refuse`).  For `Hasty` instances `GiveUp` is among the handlers, so that an
exchange that gets nowhere times out; without `Hasty` it need not, which is what
`session_meet` wants.  In `Exchange` weak fairness is of `Proceed`, the steps the
program and its clock take even if the other side keeps still; nothing is assumed
of data, signals or whoever sets the clock.

## What the code does differently from what it says

* **A killed run reuses its pad** (`pad_kill`).  `key_close` is the only place that
  saves a head, and `chat_end` the only place that calls it after a successful
  start.  Ctrl-C, SIGPIPE (no `MSG_NOSIGNAL` in `node_send`) and a power loss skip
  it.  `PadReuseNeedsKill` is the true part, and is proved.
* **`/listen` is deaf in a program started with an address** (`session_deaf`).  The
  loop watches the listening socket only if `wait_for_remote` is set, and only the
  command line sets it (`chat.c:372`).  In a program started to wait it works:
  `session_live`.

These are runs.  The others are what the passing runs are built around, in a constant
or as an exemption that a property names:

* **A second Enter drops the first text** (`chat.c:228`), although the user's own
  history shows it and `ui.c:127` says that newline sends the message; the
  receiver takes the next frame for the rest of the first.  With `Patient = FALSE`
  in `ChatLastWords.cfg` TLC finds `ImplementsChannel` violated.
* **A lost connection leaves half a frame behind** (`chat.c:437`): `receiving` and
  `sending` are kept, and the next connection's first bytes are taken for the rest.
  Noise is shown as a text.  With `Leavers <- MCPeers` in `ChatLastWords.cfg`
  `ImplementsChannel` is violated.  A frame that cannot be decrypted stays in the
  buffer as well, and makes every later connection end at its first byte.
* **A text for which the pad is too short is sent as it is** (`chat.c:246`): the
  caller ignores the result and the frame stays in `sending`.  `Enter` does that,
  and `Decrypts` is why the receiver never shows it.
* **The time left may wrap** (`node.c:327`) to about 2^32 ms, if the last byte of
  the first exchange comes in a select that returned late; the second then has
  49 days, where `node.h:76` promises the time left.
  `TimeLeftGrowsOnlyLate` says that this and a clock set back are the only ways it
  grows, `BudgetShared` and `HandshakeBounded` what it does to the rest of the
  handshake.  A signal makes the wait start again (`node.c:300`).
* **A failed `/connect` may end listening** (`node.c:126`, `node.c:138`).  A
  `node_connect` that fails at once leaves in the node what it freed.
  The next `node_close` frees the block again, and closes a descriptor that may be the
  listener's by then; and as `chat.c:396` tests the descriptor whatever the state, the
  listener's number left there makes the read handler close it when somebody calls,
  after which `select` fails and the program ends without a word.
  `FirstHarmByStale` says that the first harm of either kind comes from there,
  `ListenerSurvives` that a connection closes the listener in no other way, and
  `LoopGoesOn` that the loop ends on a closed descriptor only after such a harm.  What
  happens after the first harm is not traced further: a number that has come to
  two holders is closed by either.
* **An accepted socket already in error is not closed** (`user.c:112`):
  `SocketMatchesState` of `Session` says that this is the only way a socket is left
  over, `LostOnlyInAccept` that it is the only way one is lost.
* **An announced head is not checked** (`key.c:126`).  One that is no file offset
  moves the head and not the stream, and `key_close` saves it: the remote's key file
  cannot be opened by the next run (`StartFails`).  The local key is never sought
  while the program runs, and `KeyUsageFits` says that it stays usable.
* **A text that cannot be read hides what is below it** (`ui.c:278`).  At least one row
  is blanked for it, and as the history is drawn upwards (`ui.c:304`) that row is the
  header of the next message, already drawn.  `RowsShowHistory` says that this is all
  that is missing.
* **Ports are cut** to 16 bits on the command line (`args.c:89`), and to 32 before
  `/listen` checks its own (`command.c:113`).  An empty third argument is port 0.
* **The scroll position is not adjusted** when the box grows (`ui.c:404`), and may
  leave the box empty until it is scrolled down; `ScrolledWithin` bounds it.
* **The cursor stands below the box** when the last line of the input is full
  (`ui.c:451`), and Backspace behind a byte that is no character's erases back to
  the last whole character (`ui.c:60`).

## Proofs

`PadProofs` proves for all sizes, offsets and bounds, from the named assumptions of
`Key` (`KeyAssumption`: the pad begins at an offset that `fseek` takes, and the
offsets it takes are heads) and of `Pad` (sizes and announced heads are in these
ranges, texts are not empty):

* `PadTypeCorrect`: `TypeOK`.
* `PadReusedOnlyAfterKill`, `HeadersLocatePad`: from the inductive invariant
  `PadInv`.  Its parts say why: stream and head agree while the program runs
  (`StreamAtHead`); the head on disk is at most the one in memory (`DiskBehind`);
  ids in use were handed out before (`FreshIds`), so a new pad meets no old use;
  every use by a run that was not killed ends at or before the head in memory, or
  on disk when the program is down (`UsedBehind`), and therefore every new use
  starts behind it.
* `SavedHeadGrows`: the saved head of a pad never goes back, from `DiskBehind`.
* `KeyUsageAlwaysFits`: the head of the local pad stays within it, in memory and on
  disk (`UsageInv`), as a short read moves it by what was read only.  So the part
  drawn as left (`ui.c:357`) is never negative.  `UsageInv` is part of `PadInv`, as
  without it the sum of a head and a text might pass the range of heads, and the head
  on disk be ahead of the one in memory.  It makes the saved head of the local key one
  that `key_open` takes, which is the rest of `KeyUsageFits`.

`ChatProofs` proves three theorems of the two-peer loop for every size of header,
text, pad and kernel buffer, any two peers and any number of texts and sessions,
from `PeersAssumption`, `UsersAssumption`, `PatientAssumption`, `SizesAssumption`
and `BoundsAssumption`:

* `ChatTypeCorrect`: `TypeOK`, from `TypeInv`, which adds `Streams`: what is in
  `state->receiving` and on the wire are units of frames that exist.
* `SocketAlwaysMatchesState`: at every select a peer has a socket exactly when its
  state is CONNECTED.  It is not inductive: between a failed send or receive, which
  closes the socket, and the end of the iteration they disagree.  `SocketInv` says
  that a peer in that gap always still has the check for errors to run.
* `WholeFramesAlwaysDecrypt`: a frame that arrived whole is decrypted with the pad
  bytes it was encrypted with.  `DecryptInv` adds to the types what the handlers
  maintain together: the pads' sizes do not change and a stream stands at its head
  (`Pads`); a frame was sealed exactly when the pad still had its bytes
  (`Sealing`); while the rest of a frame is awaited its header was read and the
  remote pad stands at the head it names (`HeaderRead`); and what was shown as a
  frame was decrypted at that frame's place (`AllRight`).

`ExchangeProofs` proves the four properties of safety of `Exchange` for every
timeout, all units, message sizes and widths of an unsigned, any number of signals
and any clock, from `UnitsAssumption`, `TimesAssumption` (a late return and the
clock are small against an unsigned), `MessagesAssumption` and `SignalsAssumption`:

* `ExchangeTypeCorrect`, `BudgetAlwaysShared`, `HandshakeAlwaysBounded`,
  `TimeLeftOnlyGrowsLate`, from the inductive invariant `TimeInv`.  In the first
  exchange what was spent by the clock and what is left make up the timeout exactly
  (`FirstBudget`), to which the lemmas on `FromMs`, `TimerSub` and `ToMs` contribute
  that only the last of these loses anything; a wait is late by a bounded time
  (`LateBy`), so that a time that wraps is longer than any other that can be left
  (`ToMsOfNegative`), which is what `Wrapped` stands for.  `BudgetShared` and
  `HandshakeBounded` hold in either case, of the `Budget` of that case; that the
  budget is the timeout holds only until the time left has wrapped.

`SessionProofs` proves the safety of `Session` for any number of instances, links
and starts, from its four assumptions.  The inductive invariant `SessionInv` is
about what is on its way: an end has heard, or has in its mail, exactly what the
other end has said, the hello before the answer (`NothingIsLost`), and each of
these says what its sender stands by (`MailIsHonest`, `HeardIsHonest`).  Without
that nothing links the two programs: each judges the other by what it reads.  The
rest is what this needs: which socket goes with which state and phase
(`SocketMatchesPhase`), that handlers waiting for their turn still find the state
`select` reported them for (`TurnsMatchState`), and that a link in a backlog has
not been touched (`BacklogIsFresh`, `NothingBeforeUp`).

* `SessionTypeCorrect`, `OnlyFriendsConnect`, `SocketsMatchStates` and
  `NobodyTakesOver` follow.

`NodesProofs` proves the safety of `Nodes` and `Args` for any numbers of
descriptors and blocks, all texts and ranges, from `NodesAssumption`,
`LinesAssumption` (lines are sequences of texts) and `RangesAssumption`.
`NodesInv` joins the position of the loop (`LoopType`), what is held
(`HoldingInv`), what the `fd_sets` still say when they are tested (`RoundInv`) and
what was asked for (`AskInv`):

* `NodesTypeCorrect`, `NodesHold`, `NothingElseIsLost`, `LoopEndsWithQuit`,
  `FirstHarmIsStale`, `ListenerStays`.  After a failed `node_connect` the node's
  descriptor and its `addrinfo` are rubbish independently: one `node_close` may do
  harm with the first and be right about the second.  So descriptors and memory
  are judged apart, each until the first harm of its kind.  `LeftoversCounted`
  bounds what is lost by the accepts that found an error, as the sizes of two
  finite sets.
* `UserIsObeyed`: `AsWritten`, a case analysis of what `ParseArgs` and
  `CommandHandle` make of a line, which the induction only carries along.

`ChannelProofs` is about the order of texts.  What is on its way to a peer is its
*flow*: the units in its buffer, those on the wire, and the one sent next.  A step
of the loop befalls either flow in one of six ways (`Befalls`: it stays, gets
units or misses them, is lost, is taken out and shown, or a new frame begins), so
that each invariant is shown once for each of the six instead of once for each
action.

* `ShownInOrderAlways`: under no condition on the users.  `OrderInv`: the flow is
  in the order of sending, and all of it comes after what was shown.
* `OrderlyChatsImplementChannel`: the safety part of the refinement of `Channel`,
  assuming `Orderly`, that nobody types over a text (`Patient`) and that either there
  is one connection only or one of the users does nothing.  The code breaks the
  promise otherwise, at `chat.c:228` and `chat.c:437` (see above).  `ChannelInv`:
  the flow begins right after what was shown and has no gap, or nothing will be
  read any more (`Flowing`).

`HeadsProofs` proves `HeadsAgree` on top of it: with an unbroken flow, frames that
follow each other in the pad (`Written`) and a receiver whose copy stands where the
frame being received begins (`InStep`), the two heads are the same when nothing is on
its way.  It assumes `Calm`: nobody types over a text, leaves or quits, and the pads
are long enough.  A text that is lost or too long uses up the sender's pad alone,
and the heads differ until the next header arrives; `HeadersLocatePad` and
`WholeFramesAlwaysDecrypt` are what holds then.

The instances of `chat_both_ways` and `chat_last_words` satisfy `Orderly`, that of
`chat_both_ways` also `Calm`; `chat_unruly` neither.

`UiProofs` proves the safety of `Ui` for any characters and widths, terminals,
messages and bounds, from its four assumptions.  `UiInv` says that a character that
is begun has room for its rest (`LineInv`), and that the box is as `ui_update`
leaves it for this line and history, and has not been narrower or lower than
`narrowest` and `lowest` say (`BoxInv`).  It needs no more, but much about the
operators: numbers of lines are sizes of finite sets, a message has at least as
many lines in a narrower box (`MessageLinesNarrow`, from `Quotients`), and a
history with more messages more (`HistoryLinesAppend`).

* `UiTypeCorrect`, `ScrolledStaysWithin`; `ViewAlwaysStaysPut`, where the width
  between the two messages of `PushBoth` is caught between that before and that
  after.
* `RowsAlwaysShowHistory`: the rows are counted by the code from the last message
  upwards, by the property from the first line downwards; `LinesSplit` says that
  both counts make up the whole.  `RowsMeet` says that what a message blanks is no
  other's, but for the header right below a text without a line.
* `InputBoxAlwaysShowsLine`: holds of any bytes.  No character begins inside another
  (`NoOverlap`, `NotInside`), so that the loops stop at the same places wherever they
  begin, and the starts before the cursor are those of the text before it
  (`PrefixStarts`).  Every start has a *rank*, the number of starts before it, which
  is one to one (`RankGrows`) and onto (`RankOnto`); a line advances the rank by the
  width until there are no more starts, so that `InputLines` of them reach
  the end.
* `BoxImplementsEditor`: the steps of `Ui` are those of `Editor`.  The invariant it
  needs beside `LineInv` is `LineReads`: a line that is not garbled has nothing but
  whole characters (`Readable`) before and after the bytes of the one being typed.
  The starts of two readable texts joined are those of the parts, and so are their
  characters (`JoinStarts`, `JoinDecodes`), which makes of a cut at a start two
  readable texts (`CutReadable`); `PrevChar` and `NextChar` go over exactly one
  character (`PrevIs`, `NextIs`).  With these a key changes the two sides of the
  cursor in one of the ways of `EditsLine`.  Only the last byte of a character is
  an `Insert`, the bytes before it leave both sides as they are, and a line that
  becomes garbled is a `Clear`.

Only model-checked, as liveness under fairness is out of the provers' reach:
`ImplementsFairChannel`, `LastWordsArrive`, `DisconnectPropagates`,
`BothOrNeither`, `AttemptsEnd`, `ListenersAnswer`, `FriendsMeet`, `HandshakeEnds`.

Every invariant, action property and refinement that a passing run checks is
stated by a theorem, except these.

## Not modelled, and the plan

Of the plan, what is left is outside the provers' reach: the liveness above, which
stays with the runs.

Not modelled: colours, the words of headers and status lines, the scroll bar and
the usage bars (drawing, in floating point); time stamps and names; memory
management (`block.c`, `message.c`, the `free_` functions) apart from the
`addrinfo` blocks; splitting a command at blanks; the source of a key's random
bytes; `node_get_address`, which nothing calls.  In `Chat` a process that has ended
stays so: that half a frame left in a receiver meets the frames of an author who was
killed and started again is not covered, only that of one who disconnects and
connects again.
