------------------------------ MODULE Bridge ------------------------------
(***************************************************************************)
(* `sparkyctrl mcp`: an agent's JSON-RPC frames come in on stdin, one loop *)
(* reads, handles and answers them in turn on stdout (internal/mcp/mcp.go) *)
(* and a tool call becomes one HTTP request to a worker                    *)
(* (internal/client/client.go), which may be down, may refuse the token,   *)
(* may never answer, or may run the operation and have its answer lost.    *)
(*                                                                         *)
(* The worker here runs an operation in one step; Worker and FileOps have  *)
(* its steps.  A frame keeps what the loop looks at, in the order it does. *)
(***************************************************************************)
EXTENDS Integers, Sequences, FiniteSets, FiniteSetsExt

CONSTANTS
    Frames,       \* what an agent may send, see FrameTypes
    MaxFrames,    \* bound on how many it sends
    Hosts,        \* host arguments a call can name
    Workers,      \* the addresses (host:port) workers listen at
    HostsFile,    \* the lines of hosts.toml, see Lines
    Tokens,
    EnvToken,     \* SPARKYCTRL_TOKEN
    TokensFile,   \* the lines of the tokens file
    Secret,       \* the token each worker wants, NoToken for none
    MaxFaults     \* bound on refused and lost connections

NoToken == "none"

\* a `name = "value"` file: comments and blank lines are left out, and so
\* are lines without a name or a value
Lines(values) == Seq([name: Hosts, value: values])

Methods == {"initialize", "initialized", "ping", "tools/list", "tools/call",
            "other"}

FrameTypes ==
    [form: {"line", "framed",    \* a line with "{", a body with its length
            "noLength",          \* headers without a positive length
            "badLength"},        \* a length that is not a number
     json: BOOLEAN,
     id: BOOLEAN,
     method: Methods,
     params: BOOLEAN,            \* params decode
     host: Hosts,
     args: BOOLEAN]              \* the tool exists and its arguments fit

ASSUME BridgeAssumption ==
    /\ Frames \subseteq FrameTypes
    /\ HostsFile \in Lines(Workers)
    /\ TokensFile \in Lines(Tokens)
    /\ NoToken \notin Tokens
    /\ EnvToken \in Tokens \cup {NoToken}
    /\ Secret \in [Workers -> Tokens \cup {NoToken}]
    /\ MaxFrames \in Nat /\ MaxFaults \in Nat

VARIABLES
    input,     \* the frames the agent has sent so far
    next,      \* how many of them the loop has taken
    pc,        \* the loop: reading, calling a worker, or stopped
    wire,      \* the request it is waiting for
    effects,   \* the operations workers ran: [frame, worker]
    out,       \* the answers: [frame, kind]
    gone,      \* the agent does not read any more
    faults

vars == <<input, next, pc, wire, effects, out, gone, faults>>

Kinds == {"result", "parse error", "method not found", "invalid params",
          "bad call", "unauthorized", "no connection", "no answer"}

TypeOK ==
    /\ input \in Seq(Frames) /\ Len(input) <= MaxFrames
    /\ next \in 0 .. Len(input)
    /\ pc \in {"reading", "calling", "stopped"}
    /\ wire \in {"none", "sent", "executed"}
    /\ effects \in Seq([frame: 1 .. MaxFrames, worker: Workers])
    /\ out \in Seq([frame: 1 .. MaxFrames, kind: Kinds])
    /\ gone \in BOOLEAN
    /\ faults \in 0 .. MaxFaults

Init ==
    /\ input = <<>>
    /\ next = 0
    /\ pc = "reading"
    /\ wire = "none"
    /\ effects = <<>>
    /\ out = <<>>
    /\ gone = FALSE
    /\ faults = 0

---------------------------------------------------------------------------

(* loadPairs: the last line of a name counts.                              *)
LinesOf(lines, name) == {i \in DOMAIN lines : lines[i].name = name}

Value(lines, name) == lines[Max(LinesOf(lines, name))].value

(* Resolve: the address book, or a literal host:port it does not list.     *)
Resolves(h) == LinesOf(HostsFile, h) # {} \/ h \in Workers

Resolve(h) == IF LinesOf(HostsFile, h) # {} THEN Value(HostsFile, h) ELSE h

(* The token of a call: defaultFactory takes the environment's, the verbs  *)
(* of the command line fall back to the tokens file (resolveToken), by the *)
(* host argument and not by the address.                                   *)
BridgeToken(h) == EnvToken

VerbToken(h) ==
    IF EnvToken # NoToken THEN EnvToken
    ELSE IF LinesOf(TokensFile, h) # {} THEN Value(TokensFile, h)
    ELSE NoToken

Authorized(h, t) == Secret[Resolve(h)] \in {NoToken, t}

(* writeFrame, which fails and ends the loop once nobody reads.            *)
Answer(i, kind) ==
    \/ ~gone /\ out' = Append(out, [frame |-> i, kind |-> kind])
             /\ pc' = "reading"
    \/ gone /\ pc' = "stopped" /\ UNCHANGED out

(* The agent sends a frame, or goes away.                                  *)
Send ==
    /\ ~gone /\ Len(input) < MaxFrames
    /\ \E f \in Frames : input' = Append(input, f)
    /\ UNCHANGED <<next, pc, wire, effects, out, gone, faults>>

HangUp ==
    /\ ~gone
    /\ gone' = TRUE
    /\ UNCHANGED <<input, next, pc, wire, effects, out, faults>>

(* readFrame has the next frame f.                                         *)
Take(f) ==
    /\ pc = "reading" /\ next < Len(input)
    /\ f = input[next + 1]
    /\ next' = next + 1
    /\ UNCHANGED <<input, gone>>

(* No frame any more, a length that does not parse, or headers without a   *)
(* length, which readFrame takes for the end of the input: run returns.    *)
Stop ==
    \/ /\ pc = "reading" /\ next = Len(input) /\ gone
       /\ pc' = "stopped"
       /\ UNCHANGED <<input, next, wire, effects, out, gone, faults>>
    \/ \E f \in Frames :
          /\ Take(f) /\ f.form \in {"noLength", "badLength"}
          /\ pc' = "stopped"
          /\ UNCHANGED <<wire, effects, out, faults>>

Reads(f) == Take(f) /\ f.form \in {"line", "framed"}

(* Variant: it is answered with the id of the last request.                *)
ParseErrorLastId ==
    \E f \in Frames :
        /\ Reads(f) /\ ~f.json
        /\ Answer(next, "parse error")
        /\ UNCHANGED <<wire, effects, faults>>

(* A body that does not decode is answered with no id.                     *)
ParseError ==
    \E f \in Frames :
        /\ Reads(f) /\ ~f.json
        /\ Answer(next + 1, "parse error")
        /\ UNCHANGED <<wire, effects, faults>>

(* A notification is dropped whatever it asks for, and "initialized" is    *)
(* not answered even if it has an id.                                      *)
Skip ==
    \E f \in Frames :
        /\ Reads(f) /\ f.json
        /\ ~f.id \/ f.method = "initialized"
        /\ UNCHANGED <<pc, wire, effects, out, faults>>

(* What handle answers by itself.                                          *)
Local ==
    \E f \in Frames :
        /\ Reads(f) /\ f.json /\ f.id
        /\ \/ /\ f.method \in {"initialize", "ping", "tools/list"}
              /\ Answer(next + 1, "result")
           \/ f.method = "other" /\ Answer(next + 1, "method not found")
           \/ /\ f.method = "tools/call" /\ ~f.params
              /\ Answer(next + 1, "invalid params")
           \/ /\ f.method = "tools/call" /\ f.params
              /\ ~Resolves(f.host) \/ ~f.args
              /\ Answer(next + 1, "bad call")
        /\ UNCHANGED <<wire, effects, faults>>

(* Variant: calls without an id are made too.                              *)
CallAnyway ==
    \E f \in Frames :
        /\ Reads(f) /\ f.json /\ f.method = "tools/call" /\ f.params
        /\ Resolves(f.host) /\ f.args
        /\ pc' = "calling"
        /\ wire' = "sent"
        /\ UNCHANGED <<effects, out, faults>>

(* dispatch makes a client for the host and its one request.               *)
Call ==
    \E f \in Frames :
        /\ Reads(f) /\ f.json /\ f.id /\ f.method = "tools/call" /\ f.params
        /\ Resolves(f.host) /\ f.args
        /\ pc' = "calling"
        /\ wire' = "sent"
        /\ UNCHANGED <<effects, out, faults>>

(* The request reaches the worker, which refuses the token or runs it.     *)
Refused ==
    /\ wire = "sent"
    /\ ~Authorized(input[next].host, BridgeToken(input[next].host))
    /\ wire' = "none"
    /\ Answer(next, "unauthorized")
    /\ UNCHANGED <<input, next, effects, gone, faults>>

Execute ==
    /\ wire = "sent"
    /\ Authorized(input[next].host, BridgeToken(input[next].host))
    /\ effects' = Append(effects, [frame |-> next,
                                     worker |-> Resolve(input[next].host)])
    /\ wire' = "executed"
    /\ UNCHANGED <<input, next, pc, out, gone, faults>>

(* Its answer comes back: a result, or the worker's own account of why the *)
(* operation failed.                                                       *)
Returned ==
    /\ wire = "executed"
    /\ wire' = "none"
    /\ Answer(next, "result")
    /\ UNCHANGED <<input, next, effects, gone, faults>>

(* Variants: the client sends the request again; an answer that cannot be  *)
(* read is left out; nothing notices that the connection is gone.          *)
LostRetries ==
    /\ wire # "none" /\ faults < MaxFaults
    /\ faults' = faults + 1
    /\ wire' = "sent"
    /\ UNCHANGED <<input, next, pc, effects, out, gone>>

LostIgnored ==
    /\ wire # "none" /\ faults < MaxFaults
    /\ faults' = faults + 1
    /\ wire' = "none"
    /\ Answer(next, "result")
    /\ UNCHANGED <<input, next, effects, gone>>

LostUnnoticed ==
    /\ wire # "none" /\ faults < MaxFaults
    /\ faults' = faults + 1
    /\ wire' = "none"
    /\ UNCHANGED <<input, next, pc, effects, out, gone>>

(* There is no connection, or it breaks, before or after the operation.    *)
Lost ==
    /\ wire # "none" /\ faults < MaxFaults
    /\ faults' = faults + 1
    /\ wire' = "none"
    /\ Answer(next, IF wire = "sent" THEN "no connection" ELSE "no answer")
    /\ UNCHANGED <<input, next, effects, gone>>

Loop == Stop \/ ParseError \/ Skip \/ Local \/ Call

Remote == Refused \/ Execute \/ Returned

Next == Send \/ HangUp \/ Loop \/ Remote \/ Lost

Spec == Init /\ [][Next]_vars

(* The loop goes on while there is input; nothing bounds a call, since the *)
(* client has no timeout (client.go:25).                                   *)
FairSpec == Spec /\ WF_vars(Loop)

(* Besides, every worker answers in the end.                               *)
AnsweringSpec == FairSpec /\ WF_vars(Remote)

---------------------------------------------------------------------------
(* Properties.                                                             *)

AnswersTo(i) == {j \in DOMAIN out : out[j].frame = i}

EffectsOf(i) == {j \in DOMAIN effects : effects[j].frame = i}

WantsAnswer(f) == ~f.json \/ (f.id /\ f.method # "initialized")

(* The frames are answered in their order, each that wants an answer by    *)
(* one before the next is taken, and no other (mcp.go:109-135).            *)
AnsweredInOrder ==
    /\ \A j \in 2 .. Len(out) : out[j - 1].frame < out[j].frame
    /\ \A j \in DOMAIN out : WantsAnswer(input[out[j].frame])
    /\ pc = "reading" =>
          \A i \in 1 .. next : WantsAnswer(input[i]) => AnswersTo(i) # {}

(* A call is run at most once, by the worker it names, and never for a     *)
(* notification, whatever is lost and whoever hangs up: neither loop nor   *)
(* client repeats it (mcp.go:126-131, client.go:28-59).                    *)
RunsOnce ==
    \A i \in 1 .. next :
        /\ Cardinality(EffectsOf(i)) <= 1
        /\ \A j \in EffectsOf(i) :
              /\ input[i].json /\ input[i].id
              /\ effects[j].worker = Resolve(input[i].host)

(* What an answer says of the operation is true: a result means it was     *)
(* run, a protocol, argument or token error that it was not and will not   *)
(* be.  Only a broken connection leaves it open.  The two errors of one,   *)
(* "no connection" before and "no answer" after the operation, are told    *)
(* apart here and not in the code, which answers both with -32000: what is *)
(* said of "no connection" is what the name means, and an agent that is    *)
(* told of a broken connection knows nothing (mcp.go:168-184,              *)
(* client.go:28-59).                                                       *)
AnswersAreTrue ==
    \A j \in DOMAIN out :
        LET f == input[out[j].frame] IN
        /\ (out[j].kind = "result" /\ f.method = "tools/call") =>
               EffectsOf(out[j].frame) # {}
        /\ out[j].kind \notin {"result", "no answer"} =>
               EffectsOf(out[j].frame) = {}

(* If every worker answers in the end, each call does, or the loop ends    *)
(* because the agent is gone (mcp.go:109-135).  A worker that never        *)
(* answers blocks the loop, for the client has no timeout.                 *)
CallsReturn == pc = "calling" ~> (pc # "calling")

(* docs/mcp.md:5,21,40: the server uses the same configuration as the      *)
(* command line, tokens file included: it is refused by a worker only      *)
(* where a verb of the command line would be.                              *)
TokensFromFile ==
    \A j \in DOMAIN out :
        out[j].kind = "unauthorized" =>
            LET h == input[out[j].frame].host IN ~Authorized(h, VerbToken(h))
===========================================================================
