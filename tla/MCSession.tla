------------------------------ MODULE MCSession ------------------------------
(* One call of each kind, with operands and strings on both sides of a digit. *)
EXTENDS Session

MCBuiltinNames == <<"+", "print", "write", "none">>
MCModuleNames == <<"fs", "open", "write">>
MCCModules == {"fs"}
MCPlainOps == {"FUNC_CALL_INFIX"}
MCCounted == {<<"FUNC_CALL", 0>>, <<"ARRAY_LOOKUP", 16384>>}
MCNamedOps == {<<"STACK_FRAME_LOOKUP", "x">>}
MCParameters == {<<"x", 130>>}
MCReals == {<<0, 0, 0, 0, 0, 0, 240, 255>>}
Long == [n \in 1 .. 130 |-> 10]
MCMaxCalls == [file |-> 4, repl |-> 3]
MCStrings == {<<>>, Long}
=============================================================================
