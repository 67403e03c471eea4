------------------------------- MODULE McpServer -------------------------------
(***************************************************************************)
(* The MCP server (crates/hom-mcp): a task that reads JSON-RPC lines from  *)
(* standard input, one at a time, asks the application through a queue for *)
(* what a tool needs, waits for the reply and writes it to standard        *)
(* output.  The application's side, execute_mcp_command, acts on the panes.*)
(*                                                                         *)
(* A line is its kind ("blank", "garbage": no JSON-RPC, "oversized": over  *)
(* the length limit or not UTF-8, "request") and, for a request, what of   *)
(* it is looked at.  The conversation is what the client will send.        *)
(***************************************************************************)
EXTENDS PaneOutput

CONSTANT WorkflowFiles      \* the workflow files that can be loaded (external)

VARIABLES
    conversation, \* the lines the client sends
    heard,        \* how many of them the server has read
    server,       \* where its task is: reading, waiting, writing, done
    queue,        \* mcp_rx: the command of the request that waits
    response,     \* the reply to it, then the line to write
    stdout,       \* what the client was answered
    held,         \* the blocking call a server that ended left on its thread
    launched      \* workflow_launch_rx: the workflows asked for

mcpVars == <<conversation, heard, server, queue, response, stdout, held, launched>>
paneVars == <<vars, outputVars>>

NoId == 0                   \* a notification
Nothing == [code |-> "none"]

ServerInit(lines) ==
    /\ conversation = lines /\ heard = 0
    /\ server = "reading" /\ held = "none"
    /\ queue = <<>> /\ response = Nothing /\ stdout = <<>> /\ launched = <<>>

Heard == conversation[heard]

-------------------------------------------------------------------------------
(* The tools and the arguments each asks for, as tools/list tells them ... *)
Advertised ==
    [spawn_pane |-> {"harness"}, send_to_pane |-> {"pane_id", "text"}, run_workflow |-> {"path"},
     list_panes |-> {}, get_pane_output |-> {"pane_id"}, kill_pane |-> {"pane_id"}]

(* ... and as parse_command takes them: the strings it cannot do without.  *)
Needs ==
    [spawn_pane |-> {"harness"}, send_to_pane |-> {"pane_id", "text"}, run_workflow |-> {"path"},
     list_panes |-> {}, get_pane_output |-> {"pane_id"}, kill_pane |-> {"pane_id"}]

Parses(line) == /\ line.tool \in DOMAIN Needs
                /\ Needs[line.tool] \subseteq DOMAIN line.args

(* The number of lines told: 20 unless given, 200 at most. *)
OutputLines(args) == IF "lines" \notin DOMAIN args THEN 20
                     ELSE IF args.lines > 200 THEN 200 ELSE args.lines

Answer(code) == /\ response' = [code |-> code] /\ server' = "writing"
                /\ UNCHANGED queue
NoAnswer == UNCHANGED <<queue, response, server>>

Dispatch_AnswersNotifications(line) ==                               \* mutant
    CASE line.method = "notifications" -> NoAnswer
      [] line.method = "tools/call" /\ Parses(line) ->
            /\ queue' = Append(queue, line)
            /\ server' = "waiting"
            /\ UNCHANGED response
      [] OTHER -> Answer("error")

IsCall(line) == line.method = "tools/call" /\ line.tool # "" /\ Parses(line)

Code(line) == IF line.method \in {"initialize", "tools/list"} THEN "ok"
              ELSE IF line.method # "tools/call" THEN "method not found"
              ELSE IF line.tool = "" THEN "name required" ELSE "bad arguments"

(* A tool call is handed to the application before anything is answered;   *)
(* notifications are carried out and never answered.                       *)
Dispatch(line) ==
    \/ /\ line.method = "notifications" \/ (line.id = NoId /\ ~IsCall(line))
       /\ NoAnswer
    \/ /\ IsCall(line)
       /\ queue' = Append(queue, line)
       /\ server' = "waiting"
       /\ UNCHANGED response
    \/ /\ line.method # "notifications" /\ line.id # NoId /\ ~IsCall(line)
       /\ Answer(Code(line))

StopsListening == server' = "done" /\ UNCHANGED <<queue, response>>

ReadLine ==
    /\ server = "reading" /\ heard < Len(conversation)
    /\ heard' = heard + 1
    /\ LET line == conversation[heard + 1]
       IN \/ line.kind = "blank" /\ NoAnswer
          \/ line.kind = "garbage" /\ Answer("parse error")
          \/ line.kind = "oversized" /\ StopsListening
          \/ line.kind = "request" /\ Dispatch(line)
    /\ UNCHANGED <<paneVars, conversation, stdout, held, launched>>

EndOfInput ==
    /\ server = "reading" /\ heard = Len(conversation)
    /\ StopsListening
    /\ UNCHANGED <<paneVars, conversation, heard, stdout, held, launched>>

(* The reply arrived. *)
Replied ==
    /\ server = "waiting" /\ response # Nothing
    /\ IF Heard.id = NoId THEN server' = "reading" /\ response' = Nothing
       ELSE server' = "writing" /\ UNCHANGED response
    /\ UNCHANGED <<paneVars, conversation, heard, queue, stdout, held, launched>>

(* The client has taken the line, or is gone. *)
WriteReply ==
    /\ server = "writing"
    /\ \/ /\ stdout' = Append(stdout, [line |-> heard, said |-> response])
          /\ server' = "reading"
       \/ server' = "done" /\ UNCHANGED stdout
    /\ response' = Nothing
    /\ UNCHANGED <<paneVars, conversation, heard, queue, held, launched>>

(* A task that ends in the middle of a call on standard input or output    *)
(* leaves the call behind, on a thread of its own.                         *)
LeftBehind == [reading |-> "read", waiting |-> "none", writing |-> "write"]
Ends == /\ server' = "done" /\ held' = LeftBehind[server]
        /\ UNCHANGED <<conversation, heard, queue, response, stdout, launched>>

(* The shutdown signal is looked at while reading and writing only.        *)
ShutdownSignal == server \in {"reading", "writing"} /\ Ends /\ UNCHANGED paneVars

(* The call returns when there is input, or room for the output: all of    *)
(* the line, or it had not come to its end.                                *)
HeldCallReturns ==
    /\ held # "none" /\ held' = "none"
    /\ \/ UNCHANGED stdout
       \/ held = "write" /\ stdout' = Append(stdout, [line |-> heard, said |-> response])
    /\ UNCHANGED <<paneVars, conversation, heard, server, queue, response, launched>>

ClientActs == ReadLine \/ EndOfInput \/ WriteReply

-------------------------------------------------------------------------------
(* The application's side.  One request is in the queue at most, since the *)
(* server waits for each reply; a tick would take sixteen.                 *)
Done(reply) == response' = reply /\ UNCHANGED launched
Fails == Done([code |-> "ok", failed |-> TRUE])     \* an error is a result too
Works(reply) == Done([code |-> "ok", failed |-> FALSE, is |-> reply])

NoConfig == [model |-> <<>>, extra_args |-> <<>>, working_dir |-> <<>>]
AskedFor(args) ==
    [harness |-> args.harness, kind |-> "local",
     config |-> IF "model" \in DOMAIN args THEN [NoConfig EXCEPT !.model = <<args.model>>] ELSE NoConfig]

ListPanes ==
    /\ Works([id \in panes |-> IF id \in exited THEN "exited" ELSE "running"])
    /\ UNCHANGED paneVars

SpawnAsked(args) ==
    \/ /\ args.harness \in DOMAIN BuiltIn /\ Open(AskedFor(args))
       /\ Works(next_local)
    \/ OpenFails(AskedFor(args)) /\ Fails

SendToPane(args) ==
    \/ args.pane_id \in panes /\ Write(args.pane_id, args.text) /\ Works("sent") /\ UNCHANGED step
    \/ /\ args.pane_id \notin panes \/ WriteFails(args.pane_id)
       /\ Fails /\ UNCHANGED paneVars

RunWorkflow(args) ==
    /\ IF args.path \in WorkflowFiles
       THEN /\ launched' = Append(launched, args.path)
            /\ response' = [code |-> "ok", failed |-> FALSE, is |-> "launched"]
       ELSE Fails
    /\ UNCHANGED paneVars

GetPaneOutput(args) ==
    /\ IF args.pane_id \in panes
       THEN Works(LastRows(ScreenSnapshot(args.pane_id), OutputLines(args)))
       ELSE Fails
    /\ UNCHANGED paneVars

KillAsked(args) ==
    \/ KillPane(args.pane_id) /\ Close({args.pane_id}) /\ Works("killed")
    \/ KillFails(args.pane_id) /\ UNCHANGED outputVars /\ Fails

Execute(line) ==
    \/ line.tool = "list_panes" /\ ListPanes
    \/ line.tool = "spawn_pane" /\ SpawnAsked(line.args)
    \/ line.tool = "send_to_pane" /\ SendToPane(line.args)
    \/ line.tool = "run_workflow" /\ RunWorkflow(line.args)
    \/ line.tool = "get_pane_output" /\ GetPaneOutput(line.args)
    \/ line.tool = "kill_pane" /\ KillAsked(line.args)

HandleMcpRequests ==
    \/ /\ queue # <<>> /\ queue' = Tail(queue)
       /\ Execute(Head(queue))
       /\ UNCHANGED <<conversation, heard, server, stdout, held>>
    \/ queue = <<>> /\ UNCHANGED <<paneVars, mcpVars>>

-------------------------------------------------------------------------------
(* What the client is owed: the lines heard that are to be answered.       *)
Owed(line) == \/ line.kind = "garbage"
              \/ line.kind = "request" /\ line.id # NoId /\ line.method # "notifications"
OwedLines == {i \in 1 .. heard : Owed(conversation[i])}
Answered == {stdout[i].line : i \in 1 .. Len(stdout)}

(* The effect of an answered call is there: the pane told is or was one,   *)
(* the pane killed is gone, the text reached the pane, the workflow was    *)
(* launched.                                                               *)
Succeeds(line, said) == line.method = "tools/call" /\ said.code = "ok" /\ ~said.failed

Truthful(line, said) ==
    Succeeds(line, said) =>
        /\ line.tool = "spawn_pane" => said.is < next_local /\ request[said.is].harness = line.args.harness
        /\ line.tool = "kill_pane" => line.args.pane_id \notin panes
        /\ line.tool = "send_to_pane" => line.args.text \in Range(inbox[line.args.pane_id])
        /\ line.tool = "run_workflow" => line.args.path \in Range(launched)

(* A client that sends what tools/list asks for. *)
AsAdvertised(line) == /\ line.method = "tools/call" /\ line.tool \in DOMAIN Advertised
                      /\ Advertised[line.tool] \subseteq DOMAIN line.args

(* Every request is answered once, in order, with its own reply, and no    *)
(* notification ever is (handler.rs, server.rs): of what the client is     *)
(* owed only the last answer may be missing, unless it stopped reading.  A *)
(* call that succeeded has taken effect, though the tick, the server and   *)
(* the processes move on between the two; and a client that sends what     *)
(* tools/list asks for is never told its arguments are wrong.              *)
RepliesMatch ==
    /\ Answered \subseteq OwedLines /\ OwedLines \ Answered \subseteq {heard}
    /\ \A i, j \in 1 .. Len(stdout) : i < j => stdout[i].line < stdout[j].line
    /\ \A i \in 1 .. Len(stdout) :
          LET line == conversation[stdout[i].line]
          IN line.kind = "request" => /\ Truthful(line, stdout[i].said)
                                      /\ AsAdvertised(line) => stdout[i].said.code = "ok"

(* The inductive invariant behind it.  A reply stays true because ids are  *)
(* not used again, requests stand, and inboxes only grow.                  *)
StaysTrue(line, said) ==
    Succeeds(line, said) =>
        /\ line.tool = "spawn_pane" => /\ said.is \in LocalIds /\ said.is < next_local
                                       /\ request[said.is].harness = line.args.harness
        /\ line.tool = "kill_pane" => /\ line.args.pane_id \in PaneIds /\ HandedOut(line.args.pane_id)
                                      /\ line.args.pane_id \notin panes \cup reserved
        /\ line.tool = "send_to_pane" => /\ line.args.pane_id \in PaneIds
                                         /\ line.args.text \in Range(inbox[line.args.pane_id])
        /\ line.tool = "run_workflow" => line.args.path \in Range(launched)

Fits(line, said) == line.kind = "request" => /\ StaysTrue(line, said)
                                             /\ AsAdvertised(line) => said.code = "ok"

ServerTypes ==
    /\ Len(conversation) \in Nat /\ heard \in 0 .. Len(conversation)
    /\ server \in {"reading", "waiting", "writing", "done"}
    /\ held \in {"none", "read", "write"} /\ (held # "none" => server = "done")
    /\ IsSeq(stdout) /\ IsSeq(launched) /\ IsSeq(queue)
    /\ DOMAIN inbox = PaneIds /\ \A id \in PaneIds : IsSeq(inbox[id])

RequestInHand ==
    /\ server = "reading" => queue = <<>> /\ response = Nothing
    /\ server = "waiting" =>
          /\ heard > 0 /\ Heard.kind = "request" /\ IsCall(Heard)
          /\ \/ queue = <<Heard>> /\ response = Nothing
             \/ queue = <<>> /\ response.code = "ok" /\ StaysTrue(Heard, response)
    /\ server = "writing" \/ held = "write" => queue = <<>> /\ heard > 0 /\ Owed(Heard) /\ Fits(Heard, response)

AnswersInOrder ==
    /\ \A l \in OwedLines \ Answered : l = heard /\ server # "reading"
    /\ \A i \in 1 .. Len(stdout) :
          /\ stdout[i].line \in OwedLines
          /\ stdout[i].line = heard => server \in {"reading", "done"} /\ held # "write"
          /\ Fits(conversation[stdout[i].line], stdout[i].said)
    /\ \A i, j \in 1 .. Len(stdout) : i < j => stdout[i].line < stdout[j].line

RepliesInv == ServerTypes /\ RequestInHand /\ AnswersInOrder
===============================================================================
