------------------------------- MODULE MCChat -------------------------------
(***************************************************************************)
(* Small instances of Chat.  Headers have 2 bytes, so that they can arrive *)
(* in parts; texts have 1 or 2, and 1 + 2 is not 2 + 2, so that frames cut *)
(* short or glued together come out of step.  Of the heads that noise may  *)
(* read as one is the first byte of the pad, one is refused by fseek, and  *)
(* one wraps to the byte in front of the pad.                              *)
(***************************************************************************)
EXTENDS Chat

CONSTANTS alice, bob

MCPeers == {alice, bob}
Alice == {alice}
Nobody == {}
MCTextSizes == {1, 2}
MCOneSize == {1}
MCBadHeaders == {[size |-> 0, head |-> 0],
                 [size |-> 1, head |-> SeekRange - DataOffset],
                 [size |-> 1, head |-> HeadRange - DataOffset]}
=============================================================================
