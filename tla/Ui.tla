--------------------------------- MODULE Ui ---------------------------------
(***************************************************************************)
(* The screen of one program: the input box, edited byte by byte by        *)
(* ui_handle_input, and the history above it, scrolled by lines.           *)
(*                                                                         *)
(* A byte is <<c, i>>, the i-th of character c, or Bad, which is no part of*)
(* any character: a byte of another encoding, a NUL, or the 255 that the   *)
(* ERR of getch() becomes.  A message is the number of its characters.     *)
(***************************************************************************)
EXTENDS Sequences, FiniteSetsExt

CONSTANTS
    Chars,       \* Characters that may be typed.
    Width,       \* Bytes of each.
    Slash,       \* The character that begins a command.
    Terminals,   \* Sizes the terminal may have, as [width, height].
    Sizes,       \* Characters in what others send and in status lines.
    MaxBytes,    \* bound: bytes in the input box
    MaxMessages  \* bound: messages in the history

ASSUME CharsAssumption ==
    /\ Slash \in Chars /\ Width \in [Chars -> Nat \ {0}] /\ Width[Slash] = 1
    /\ "none" \notin Chars
ASSUME TerminalsAssumption ==
    /\ Terminals \subseteq [width : Nat, height : Nat]
    /\ \A t \in Terminals : t.width > 1
ASSUME SizesAssumption == Sizes \subseteq Nat
ASSUME BoundsAssumption == MaxBytes \in Nat /\ MaxMessages \in Nat \ {0}

VARIABLES
    input,          \* state->input
    cursor_index,   \* state->cursor_index
    partly,         \* The last byte typed, if its character wants more bytes.
    garbled,        \* History: a byte came that belongs to no character.
    history,        \* state->history
    history_line,   \* state->history_line: lines below the box
    history_width,  \* state->history_width
    history_height, \* state->history_height
    terminal,       \* LINES and COLS
    narrowest,      \* History: the least history_width there has been.
    lowest          \* History: the least history_height there has been.

line == <<input, cursor_index, partly, garbled>>
box == <<history_width, history_height, narrowest, lowest>>
vars == <<line, history, history_line, box, terminal>>

Bad == <<"none", 0>>
Whole == <<"none", 1>>  \* No character is partly typed.
Bytes == (UNION { {c} \X (1 .. Width[c]) : c \in Chars }) \cup {Bad}

TypeOK ==
    /\ input \in Seq(Bytes) /\ Len(input) <= MaxBytes
    /\ cursor_index \in 0 .. Len(input)
    /\ partly \in Bytes \cup {Whole}
    /\ garbled \in BOOLEAN
    /\ history \in Seq(Nat) /\ Len(history) <= MaxMessages
    /\ history_line \in Nat
    /\ history_width \in Nat \ {0} /\ narrowest \in Nat \ {0}
    /\ history_height \in Int /\ lowest \in Int
    /\ terminal \in Terminals

----------------------------------------------------------------------------
(* Characters: the loops over mblen(). *)

\* mblen() at an offset; 0 stands for 0 and -1, which both end the loops.
Mblen(text, at) ==
    LET c == text[at + 1][1] IN
    IF /\ text[at + 1][2] = 1
       /\ at + Width[c] <= Len(text)
       /\ \A i \in 2 .. Width[c] : text[at + i][2] > 1
    THEN Width[c] ELSE 0

\* The offsets the loops come to: those with nothing but whole characters before
\* them, as a loop ends at the first byte that does not begin one.
Starts(text) == { p \in 0 .. Len(text) :
    \A at \in 0 .. p - 1 : \E s \in 0 .. at : s + Mblen(text, s) \in at + 1 .. p }

\* Mutant: one byte to the right, and nothing stops it.
NextCharPast(text, at) == at + 1

\* next_char: where the cursor goes.  Before a byte that is no character's that
\* may be to the left.
NextChar(text, at) ==
    LET behind == { p \in Starts(text) : p > at } IN
    IF behind = {} THEN Max(Starts(text)) ELSE Min(behind)

\* Mutant: one byte to the left.
PrevCharByte(text, at) == IF at > 0 THEN at - 1 ELSE 0

\* prev_char: where the cursor goes, to the last character that was read whole.
PrevChar(text, at) ==
    LET ahead == { p \in Starts(text) : p < at /\ Mblen(text, p) > 0 } IN
    IF ahead = {} THEN 0 ELSE Max(ahead)

\* count_chars
CountChars(text) == Cardinality(Starts(text)) - 1

\* Mutant: one character more.
CountBytesMore(text, begin, chars) ==
    LET starts == Starts(text)
        in(p) == Cardinality({ q \in starts : begin <= q /\ q < p })
    IN  Max({ p \in starts : p >= begin /\ in(p) <= chars + 1 }) - begin

\* count_bytes: the bytes of at most chars characters from begin on.
CountBytes(text, begin, chars) ==
    LET starts == Starts(text)
        in(p) == Cardinality({ q \in starts : begin <= q /\ q < p })
    IN  Max({ p \in starts : p >= begin /\ in(p) <= chars }) - begin

----------------------------------------------------------------------------
(* Lines. *)

\* string_lines, of a number of characters.
StringLines(chars, width) == IF chars = 0 THEN 0 ELSE ((chars - 1) \div width) + 1

\* ui_message_lines, with the header.
MessageLines(message, width) == 1 + StringLines(message, width)

\* The lines of some of the messages; line 0 of a message is its header.
LinesOf(messages, which, width) ==
    UNION { {i} \X (0 .. MessageLines(messages[i], width) - 1) : i \in which }

\* ui_history_lines
HistoryLines(messages, width) == Cardinality(LinesOf(messages, DOMAIN messages, width))

InputLines(text, width) == Max({1, StringLines(CountChars(text), width)})

\* The width left by the scroll bar; a negative height is a large unsigned.
BoxWidth(lines, height, width) == IF height >= 0 /\ lines > height THEN width - 1 ELSE width

\* ui_update: what it leaves in the state, for what it is given; passing is a width
\* the box has had on the way there.
UiUpdates(text, messages, size, passing) ==
    LET height == size.height - InputLines(text, size.width) - 2 IN
    /\ history_height' = height
    /\ history_width' = BoxWidth(HistoryLines(messages, size.width), height, size.width)
    /\ narrowest' = Min({narrowest, passing, history_width'})
    /\ lowest' = Min({lowest, height})

UiUpdate(text, messages, size) == UiUpdates(text, messages, size, history_width)

----------------------------------------------------------------------------
(* ui_handle_input, one action for each kind of key. *)

\* The bytes of a character are read one by one, and no key comes between them.
Key == partly = Whole

Stays == UNCHANGED <<history, terminal>>

\* A line without bytes is as good as new.
Garbled(bad) == garbled' = (input' # <<>> /\ (garbled \/ bad))

Inserted(byte) ==
    SubSeq(input, 1, cursor_index) \o <<byte>> \o SubSeq(input, cursor_index + 1, Len(input))

Type(byte) ==
    /\ input' = Inserted(byte)
    /\ cursor_index' = cursor_index + 1
    /\ Garbled(byte = Bad)
    /\ UiUpdate(input', history, terminal)
    /\ Stays /\ UNCHANGED history_line

\* The first byte of a character, or a byte that is none.
TypeFirst(byte) ==
    /\ Key
    /\ byte = Bad \/ byte[2] = 1
    /\ Len(input) + (IF byte = Bad THEN 1 ELSE Width[byte[1]]) <= MaxBytes
    /\ Type(byte)
    /\ partly' = IF byte = Bad \/ Width[byte[1]] = 1 THEN Whole ELSE byte

\* The next byte of the character.
TypeMore ==
    LET byte == <<partly[1], partly[2] + 1>> IN
    /\ ~Key
    /\ Type(byte)
    /\ partly' = IF byte[2] = Width[byte[1]] THEN Whole ELSE byte

Backspace ==
    LET to == PrevChar(input, cursor_index) IN
    /\ Key
    /\ input' = SubSeq(input, 1, to) \o SubSeq(input, cursor_index + 1, Len(input))
    /\ cursor_index' = to
    /\ Garbled(FALSE)
    /\ UiUpdate(input', history, terminal)
    /\ Stays /\ UNCHANGED <<partly, history_line>>

\* KEY_LEFT, KEY_RIGHT, KEY_HOME, KEY_END
MoveTo(to) ==
    /\ Key
    /\ cursor_index' = to
    /\ UiUpdate(input, history, terminal)
    /\ Stays /\ UNCHANGED <<input, partly, garbled, history_line>>

Move == \E to \in {PrevChar(input, cursor_index), NextChar(input, cursor_index), 0, Len(input)} :
    MoveTo(to)

\* Mutant: one line further.
LinesAboveOneMore ==
    history_line + history_height \in 0 .. HistoryLines(history, history_width)

\* The sum of a size_t and a negative int is too large.
LinesAbove ==
    history_line + history_height \in 0 .. HistoryLines(history, history_width) - 1

\* KEY_UP, KEY_DOWN
Scroll ==
    /\ Key
    /\ \/ /\ LinesAbove
          /\ history_line' = history_line + 1
       \/ /\ history_line > 0
          /\ history_line' = history_line - 1
    /\ UiUpdate(input, history, terminal)
    /\ Stays /\ UNCHANGED line

\* Mutant: the header of the message is forgotten.
ScrolledByText(message) ==
    IF history_line = 0 THEN 0 ELSE history_line + StringLines(message, history_width)

\* chat_push_message: who has scrolled up goes on reading the same lines.
ScrolledBy(message) ==
    IF history_line = 0 THEN 0 ELSE history_line + MessageLines(message, history_width)

Push(message) ==
    /\ Len(history) < MaxMessages
    /\ history' = Append(history, message)
    /\ history_line' = ScrolledBy(message)

\* A text for which the pad is too short is followed by a status line at once,
\* which is counted in the box as the text left it.
PushBoth(text, status) ==
    LET pushed == Append(history, text)
        width == BoxWidth(HistoryLines(pushed, terminal.width), history_height, terminal.width)
    IN  /\ Len(pushed) < MaxMessages
        /\ history' = Append(pushed, status)
        /\ history_line' = IF history_line = 0 THEN 0
                           ELSE ScrolledBy(text) + MessageLines(status, width)

\* '\n': a command is carried out, which may push a status line; a text is pushed
\* and sent if there is a connection, which is not in this module.  Otherwise
\* nothing happens at all.
Enter ==
    /\ Key
    /\ input # <<>>
    /\ \/ /\ input[1][1] = Slash
          /\ \/ \E size \in Sizes : Push(size)
             \/ UNCHANGED <<history, history_line>>
       \/ /\ input[1][1] # Slash
          /\ \/ Push(CountChars(input))
             \/ \E size \in Sizes : PushBoth(CountChars(input), size)
    /\ input' = <<>> /\ cursor_index' = 0 /\ garbled' = FALSE
    /\ UiUpdates(<<>>, history', terminal,
                 BoxWidth(HistoryLines(history', terminal.width), history_height, terminal.width))
    /\ UNCHANGED <<partly, terminal>>

----------------------------------------------------------------------------
(* What is not typed. *)

\* A message arrives, or a status line is due: chat_push_message.
Arrive ==
    /\ \E size \in Sizes : Push(size)
    /\ UiUpdate(input, history', terminal)
    /\ UNCHANGED <<line, terminal>>

\* A signal interrupts select(), or getch() returns KEY_RESIZE: ui_update.
Resize ==
    /\ terminal' \in Terminals
    /\ UiUpdate(input, history, terminal')
    /\ UNCHANGED <<line, history, history_line>>

\* chat_init and ui_init: the first status line says whether the program listens
\* or connects.
Init ==
    /\ input = <<>> /\ cursor_index = 0 /\ partly = Whole /\ garbled = FALSE
    /\ history \in { <<size>> : size \in Sizes } /\ history_line = 0
    /\ terminal \in Terminals
    /\ history_height = terminal.height - 3
    /\ history_width = BoxWidth(HistoryLines(history, terminal.width),
                                history_height, terminal.width)
    /\ narrowest = history_width /\ lowest = history_height

Next ==
    \/ \E byte \in Bytes : TypeFirst(byte)
    \/ TypeMore \/ Backspace \/ Move \/ Scroll \/ Enter
    \/ Arrive \/ Resize

Spec == Init /\ [][Next]_vars

----------------------------------------------------------------------------
(* What is drawn. *)

\* Mutant: the history ends one row too low.
FirstRowLow(i) ==
    history_height + history_line + 1
    - Cardinality(LinesOf(history, i .. Len(history), history_width))

\* draw_history: the row of a message's header.
FirstRow(i) ==
    history_height + history_line
    - Cardinality(LinesOf(history, i .. Len(history), history_width))

\* The messages the loop draws: it begins with the last, passes over those below
\* the box and stops above it.
Drawn == { i \in DOMAIN history :
    /\ FirstRow(i) <= history_height
    /\ FirstRow(i) + MessageLines(history[i], history_width) >= 0 }

\* The rows that draw_message_header and draw_text_rect blank before they write:
\* that of the header, and at least one for the text, also when it has no line.
DrawnRows(i) ==
    FirstRow(i) .. FirstRow(i) + Max({1, StringLines(history[i], history_width)})

\* What they write; line 0 of a message is its header.
Written ==
    UNION { { [row |-> FirstRow(i) + l, message |-> i, line |-> l]
              : l \in 0 .. MessageLines(history[i], history_width) - 1 } : i \in Drawn }

\* What stays: the messages above are drawn later, and over it.
Cells == { cell \in Written :
    \A i \in Drawn : i < cell.message => cell.row \notin DrawnRows(i) }

\* draw_text_rect on the input box: where each line of it begins, in bytes.
LineStarts ==
    LET lines == InputLines(input, terminal.width)
        start[l \in 0 .. lines] == IF l = 0 THEN 0
            ELSE start[l - 1] + CountBytes(input, start[l - 1], terminal.width)
    IN  start

\* ui_update: the row of the cursor in the input box.
CursorRow == CountChars(SubSeq(input, 1, cursor_index)) \div terminal.width

----------------------------------------------------------------------------
(* Properties. *)

\* The characters of a text, and "none" behind them if not all of it can be read.
Begins(text, k) ==
    LET starts == Starts(text) IN
    CHOOSE p \in starts : Cardinality({ q \in starts : q < p }) = k - 1
Decode(text) ==
    [k \in 1 .. CountChars(text) |-> text[Begins(text, k) + 1][1]]
    \o (IF Max(Starts(text)) = Len(text) THEN <<>> ELSE <<Bad[1]>>)

\* The line without the bytes of a character that is not complete.
Typed == IF Key THEN 0 ELSE partly[2]
E == INSTANCE Editor WITH
        garbled <- garbled,
        before <- IF garbled THEN <<>>
                  ELSE Decode(SubSeq(input, 1, cursor_index - Typed)),
        after <- IF garbled THEN <<>>
                 ELSE Decode(SubSeq(input, cursor_index + 1, Len(input)))

\* On bytes, with characters of several bytes that arrive one at a time and
\* messages arriving between them, the box is an editor of characters: the cursor
\* never stands inside one, and no key erases half of one or more than one
\* (ui.c:37-68, ui.c:122-238).
ImplementsEditor == E!Spec

\* A message that arrives does not move what is read: the lines below the box
\* grow by its own, and who stands at the bottom stays there (chat.c:76-79).
\* Unless the scroll bar comes or goes with it, and the text is wrapped anew; a
\* line that is entered empties the box, and may wrap it anew in between.
Above == HistoryLines(history, history_width) - history_line
ViewStaysPut ==
    [][ history' # history /\ history_width' = history_width
        /\ (history_height' = history_height \/ Len(history') = Len(history) + 1) =>
        IF history_line = 0 THEN history_line' = 0 ELSE Above' = Above ]_vars

\* history_line is kept when the box grows, when the text is wrapped anew and when
\* the terminal is resized, and may then point beyond the first line (ui.c:213-220,
\* ui.c:404); never further, however, than the history reached in the narrowest and
\* lowest box so far.
ScrolledWithin ==
    history_line > 0 => history_line + lowest <= HistoryLines(history, narrowest)

\* Reference: the history is one column of lines, message after message, and above
\* a line are those of the messages before its own, and its own.
Column == LinesOf(history, DOMAIN history, history_width)
LinesAhead(b) == Cardinality(LinesOf(history, 1 .. b[1] - 1, history_width)) + b[2]

\* The header below a text without a line: the row drawn for the text is its row.
Blanked(b) ==
    b[2] = 0 /\ b[1] > 1 /\ StringLines(history[b[1] - 1], history_width) = 0

\* Every row of the box shows the line of the history that stands there when the
\* last one is history_line lines below the box, and shows nothing else; although
\* the loop runs from the bottom, and draws over the edges of the box.  Except that
\* a message with no readable character blanks the header of the one below it
\* (ui.c:278, ui.c:304), and nothing more.
RowsShowHistory ==
    LET rows == 0 .. history_height - 1
        top == Above - history_height
    IN  { cell \in Cells : cell.row \in rows } =
        { [row |-> LinesAhead(b) - top, message |-> b[1], line |-> b[2]]
          : b \in { b \in Column : LinesAhead(b) - top \in rows /\ ~Blanked(b) } }

\* The input box shows the whole line, as far as it can be read, cut between
\* characters into lines that fit (ui.c:83-102, ui.c:269-298), and the cursor is
\* in the box; except that it stands below it when the last line is full.
InputBoxShowsLine ==
    LET lines == InputLines(input, terminal.width) IN
    /\ LineStarts[lines] = Max(Starts(input))
    /\ \A l \in 1 .. lines :
          /\ LineStarts[l] \in Starts(input)
          /\ Cardinality({ p \in Starts(input) : LineStarts[l - 1] <= p /\ p < LineStarts[l] })
             <= terminal.width
    /\ CursorRow <= lines
    /\ CursorRow = lines => CountChars(input) = lines * terminal.width
=============================================================================
