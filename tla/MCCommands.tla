----------------------------- MODULE MCCommands -----------------------------
(* Two clients, one of them careful. Both have serial commands: one waits  *)
(* while the lines of the other come in pieces, and the other may connect  *)
(* anew while its own waits. Masks of two digits, lines of up to seven     *)
(* characters; eight of a text are looked at, so that two lines may fit,   *)
(* or all but the end of the second.                                       *)
EXTENDS Commands

Cmd(name, key, val, end) == [name |-> name, key |-> key, val |-> val, end |-> end]

Low == <<"low">>

MCOrders ==
  "a" :> { Cmd("gSer", <<>>, <<>>, CR), Cmd("#", <<>>, <<Comma, "1">>, CR),
           Cmd("sMask", Low, <<"1">>, EOL), Cmd("reset", <<"sys">>, <<>>, EOL) }
  @@
  "b" :> { Cmd("sThr", Low, <<>>, EOL), Cmd("what", <<>>, <<>>, CR),
           Cmd("#", <<>>, <<"9">>, EOL) }
=============================================================================
