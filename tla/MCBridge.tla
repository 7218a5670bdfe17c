----------------------------- MODULE MCBridge -----------------------------
(* Bridge on small instances: a frame for every branch of the loop, a name *)
(* that is listed twice and leads to a worker with a token, the tokens     *)
(* file has it too; the address of a worker without one; an unknown name.  *)
EXTENDS Bridge, TLC

CONSTANTS open, locked, unknown, vault, t1

ToolCall(h) ==
    [form |-> "line", json |-> TRUE, id |-> TRUE, method |-> "tools/call",
     params |-> TRUE, host |-> h, args |-> TRUE]

Plain(method) == [ToolCall(open) EXCEPT !.method = method]

AllFrames ==
    {ToolCall(open), ToolCall(locked), ToolCall(unknown),
     [ToolCall(open) EXCEPT !.form = "framed", !.id = FALSE],
     [ToolCall(open) EXCEPT !.params = FALSE],
     [ToolCall(open) EXCEPT !.args = FALSE],
     [ToolCall(open) EXCEPT !.json = FALSE],
     [ToolCall(open) EXCEPT !.form = "noLength"],
     [ToolCall(open) EXCEPT !.form = "badLength"],
     Plain("ping"), Plain("initialize"), Plain("initialized"), Plain("other")}

HostSet == {open, locked, unknown}
Addresses == {open, vault}
Book == <<[name |-> locked, value |-> open], [name |-> locked, value |-> vault]>>
TokenLines == <<[name |-> locked, value |-> t1]>>
Secrets == [w \in Addresses |-> IF w = vault THEN t1 ELSE NoToken]
===========================================================================
