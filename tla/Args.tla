-------------------------------- MODULE Args --------------------------------
(***************************************************************************)
(* What a user writes, on the command line and after a '/', and what the   *)
(* program makes of it: parse_args, parse_address and command_handle.      *)
(*                                                                         *)
(* A text is a sequence of pieces: colons, numbers as strtol() reads them, *)
(* and names, which are runs of anything else.  Two numbers never follow   *)
(* each other.  A command is a sequence of words, each of them a text.     *)
(***************************************************************************)
EXTENDS Integers, Sequences

CONSTANTS
    DefaultPort,  \* DEFAULT_PORT
    PortRange,    \* values of a uint16_t: 1<<16
    UnsignedRange, \* values of an unsigned: 2^32
    SizeRange     \* values of a size_t: 2^64

ASSUME RangesAssumption ==
    /\ PortRange \in Nat \ {0} /\ UnsignedRange \in Nat \ {0} /\ SizeRange \in Nat \ {0}
    /\ DefaultPort \in 1 .. PortRange - 1

Colon == [type |-> "colon"]
Name(n) == [type |-> "name", name |-> n]
Number(n) == [type |-> "number", value |-> n]
Piece == [type : {"colon"}] \cup [type : {"name"}, name : STRING]
         \cup [type : {"number"}, value : Int]
Text == Seq(Piece)

\* What is asked of the rest of the program.
Nothing == [do |-> "nothing"]
ConnectTo(node, port) == [do |-> "connect", node |-> node, port |-> port]
ListenOn(port) == [do |-> "listen", port |-> port]
Disconnect == [do |-> "disconnect"]
EndListen == [do |-> "endlisten"]
Quit == [do |-> "quit"]
Generate(size) == [do |-> "generate", size |-> size]

\* strtol(): without a number the value is 0 and nothing is consumed.
Strtol(text) ==
    IF text # <<>> /\ text[1].type = "number"
    THEN [value |-> text[1].value, rest |-> Tail(text)]
    ELSE [value |-> 0, rest |-> text]

Colons(text) == { i \in DOMAIN text : text[i] = Colon }
LastColon(text) == CHOOSE i \in Colons(text) : \A j \in Colons(text) : j <= i

IsPort(n) == n > 0 /\ n < PortRange

\* Mutant: the address is split at the first colon.
ParseAddressAtFirst(text) ==
    LET colon == CHOOSE i \in Colons(text) : \A j \in Colons(text) : i <= j
        port == Strtol(SubSeq(text, colon + 1, Len(text)))
    IN  IF Colons(text) = {} THEN ConnectTo(text, DefaultPort)
        ELSE IF colon > 1 /\ IsPort(port.value)
             THEN ConnectTo(SubSeq(text, 1, colon - 1), port.value)
             ELSE Nothing

\* parse_address: node:port, split at the last colon, or a node alone.
ParseAddress(text) ==
    LET colon == LastColon(text)
        port == Strtol(SubSeq(text, colon + 1, Len(text)))
    IN  IF Colons(text) = {} THEN ConnectTo(text, DefaultPort)
        ELSE IF colon > 1 /\ IsPort(port.value) /\ port.rest = <<>>
             THEN ConnectTo(SubSeq(text, 1, colon - 1), port.value)
             ELSE Nothing

\* parse_generate_args, with what follows --generate.
ParseGenerateArgs(argv) ==
    IF Len(argv) = 2 /\ Strtol(argv[1]).rest = <<>>
    THEN Generate(Strtol(argv[1]).value % SizeRange)
    ELSE Nothing

\* Mutant: the number is kept whole.
ParseChatArgsWhole(argv) ==
    CASE Len(argv) = 2 -> ListenOn(DefaultPort)
      [] Len(argv) = 3 /\ Strtol(argv[3]).rest = <<>> -> ListenOn(Strtol(argv[3]).value)
      [] Len(argv) = 3 /\ Strtol(argv[3]).rest # <<>> -> ParseAddress(argv[3])
      [] OTHER -> Nothing

\* parse_chat_args: with two key files alone, or with a number from beginning to
\* end, the program waits; the number is cut to a uint16_t.
ParseChatArgs(argv) ==
    CASE Len(argv) = 2 -> ListenOn(DefaultPort)
      [] Len(argv) = 3 /\ Strtol(argv[3]).rest = <<>> ->
            ListenOn(Strtol(argv[3]).value % PortRange)
      [] Len(argv) = 3 /\ Strtol(argv[3]).rest # <<>> -> ParseAddress(argv[3])
      [] OTHER -> Nothing

\* parse_args, with what follows the program's name.
ParseArgs(argv) ==
    IF argv # <<>> /\ argv[1] = <<Name("--generate")>>
    THEN ParseGenerateArgs(Tail(argv))
    ELSE ParseChatArgs(argv)

----------------------------------------------------------------------------
\* command_connect.
CommandConnect(args) == IF Len(args) = 1 THEN ParseAddress(args[1]) ELSE Nothing

\* command_listen: the long that strtol() gives is assigned to an unsigned.
CommandListen(args) ==
    LET port == Strtol(args[1]).value % UnsignedRange IN
    CASE Len(args) = 0 -> ListenOn(DefaultPort)
      [] Len(args) = 1 -> IF IsPort(port) /\ Strtol(args[1]).rest = <<>>
                          THEN ListenOn(port) ELSE Nothing
      [] OTHER -> Nothing

\* The commands without arguments.
Alone(args, request) == IF args = <<>> THEN request ELSE Nothing

\* command_handle, with what str_to_argv made of the line.  A command that is
\* malformed or unknown does nothing but say so.
CommandHandle(argv) ==
    LET args == Tail(argv) IN
    IF argv = <<>> THEN Nothing ELSE
    CASE argv[1] = <<Name("connect")>> -> CommandConnect(args)
      [] argv[1] = <<Name("disconnect")>> -> Alone(args, Disconnect)
      [] argv[1] = <<Name("listen")>> -> CommandListen(args)
      [] argv[1] = <<Name("endlisten")>> -> Alone(args, EndListen)
      [] argv[1] = <<Name("quit")>> -> Alone(args, Quit)
      [] OTHER -> Nothing
=============================================================================
