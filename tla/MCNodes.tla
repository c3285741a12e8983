------------------------------ MODULE MCNodes ------------------------------
(* Instances of Nodes: command lines and commands, well formed and not.    *)
EXTENDS Nodes

MCNumbers == {-1, 0, 1, 3, 4, 5, 17}
MCAddresses ==
    {<<Name("host")>>, <<Name("host"), Colon>>, <<Colon, Number(3)>>,
     <<Name("host"), Colon, Number(3), Name("x")>>,
     <<Name("fe"), Colon, Colon, Number(3)>>, <<Number(1), Colon, Number(2), Colon, Number(3)>>}
    \cup { <<Name("host"), Colon, Number(n)>> : n \in MCNumbers }
MCPorts == { <<Number(n)>> : n \in MCNumbers } \cup {<<Number(3), Name("x")>>}

MCKeys == << <<Name("local")>>, <<Name("remote")>> >>
MCArgLines ==
    {<<>>, MCKeys, MCKeys \o MCKeys}
    \cup { Append(MCKeys, text) : text \in MCAddresses \cup MCPorts \cup {<<>>} }
    \cup { << <<Name("--generate")>>, text, <<Name("new")>> >> : text \in MCPorts }
    \cup {<< <<Name("--generate")>>, <<Number(3)>> >>}
MCLines ==
    { <<<<Name(c)>>>> : c \in {"connect", "disconnect", "listen", "endlisten", "quit", "help"} }
    \cup { <<<<Name("connect")>>, text>> : text \in MCAddresses }
    \cup { <<<<Name("listen")>>, text>> : text \in MCPorts }
    \cup { <<<<Name(c)>>, <<Name("x")>>>> : c \in {"listen", "disconnect", "endlisten", "quit"} }
=============================================================================
