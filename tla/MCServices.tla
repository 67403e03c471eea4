------------------------------ MODULE MCServices ------------------------------
(* Launches of the program, each with the service it is about: what a user *)
(* types; workflow steps, a pipe and a remote pane; the MCP server, the    *)
(* web view and the database.                                              *)
EXTENDS Services

Says == [claude |-> <<"error:", "arrow">>, codex |-> <<"Running", "$">>, kimi |-> <<"text">>,
         copilot |-> <<>>, gemini |-> <<>>, opencode |-> <<>>, pi |-> <<>>, extra |-> <<>>, late |-> <<>>]
Hosts == [box |-> [accepts |-> {"id_rsa"}, fails |-> {}], shut |-> [accepts |-> {}, fails |-> {}]]
InConfig == [gemini |-> [command |-> <<"gem">>, default_model |-> <<"fast">>]]
Files == {[name |-> "extra", ext |-> "so", opens |-> TRUE, init |-> "table", abi_version |-> 1, missing |-> {}],
          [name |-> "old", ext |-> "so", opens |-> TRUE, init |-> "table", abi_version |-> 0, missing |-> {}],
          [name |-> "notes", ext |-> "txt", opens |-> FALSE, init |-> "null", abi_version |-> 1, missing |-> {}]}

Ask(harness, kind, config) == [do |-> "spawn", asked |-> [harness |-> harness, kind |-> kind, config |-> config]]
Plain(harness) == Ask(harness, "local", NoConfig)
KillNo(id) == [do |-> "kill", pane |-> id]

Off == [mcp |-> FALSE, web |-> FALSE, db |-> FALSE, workflow |-> FALSE, stored |-> {}, lines |-> <<>>, typing |-> <<>>]

Later == [name |-> "late", ext |-> "so", opens |-> TRUE, init |-> "table", abi_version |-> 1, missing |-> {}]
User == {[Off EXCEPT !.typing = <<[do |-> "load-plugin", library |-> Later], Plain("late"),
                                  [do |-> "send", to |-> 1, text |-> "hi"], [do |-> "broadcast", text |-> "all"]>>]}

Local == {[Off EXCEPT !.workflow = TRUE, !.typing = typing] : typing \in
    {<<Plain("claude"), [do |-> "pipe", from |-> 1, to |-> 1], KillNo(1)>>}}
Remote == {[Off EXCEPT !.workflow = TRUE, !.typing = typing] : typing \in
    {<<Ask("codex", "box", NoConfig), KillNo(RemoteBase)>>, <<Ask("codex", "shut", NoConfig)>>}}

Request(id, method) == [kind |-> "request", id |-> id, method |-> method, tool |-> "", args |-> << >>]
Call(id, tool, args) == [Request(id, "tools/call") EXCEPT !.tool = tool, !.args = args]
Conversations ==
    {<<Request(1, "initialize"), Request(NoId, "notifications"), [kind |-> "blank"], Request(2, "tools/list"),
       Call(3, "spawn_pane", [harness |-> "kimi", model |-> "k2"]), Call(4, "send_to_pane", [pane_id |-> 1, text |-> "hi"]),
       Call(NoId, "kill_pane", [pane_id |-> 1]), Call(5, "list_panes", << >>)>>,
     <<Call(1, "spawn_pane", [harness |-> "kimi"]), Call(2, "get_pane_output", [pane_id |-> 1, lines |-> 1]),
       Call(3, "get_pane_output", [pane_id |-> 2]), Call(4, "kill_pane", [pane_id |-> 1]),
       Call(5, "send_to_pane", [pane_id |-> 1, text |-> "hi"]), Call(6, "send_to_pane", [pane_id |-> 1])>>,
     <<[kind |-> "garbage"], Request(NoId, "resources/list"), Request(7, "resources/list"), Request(8, "tools/call"),
       Call(NoId, "unknown", << >>), Call(9, "unknown", << >>), Call(9, "run_workflow", [path |-> "good"]),
       Call(9, "run_workflow", [path |-> "missing"]), [kind |-> "oversized"], Request(10, "tools/list")>>}
Mcp == {[Off EXCEPT !.mcp = TRUE, !.lines = lines] : lines \in Conversations}

Web == {[Off EXCEPT !.web = TRUE, !.typing = typing] : typing \in {<<Plain("kimi")>>, <<Plain("gemini"), KillNo(1)>>}}

SaveIt == [do |-> "save", name |-> "s"]
Back == [do |-> "restore", name |-> "s"]
(* Rows of an earlier run, in another directory and with another entry. *)
Verbose == [NoConfig EXCEPT !.extra_args = <<"-v">>]
Then(harness) == [entry |-> IF harness = "gemini" THEN [command |-> <<>>, default_model |-> <<"slow">>] ELSE NoEntry,
                  directory |-> "home"]
Wish(harness, kind) == [harness |-> harness, kind |-> kind, config |-> Verbose]
Row(no, at, wishes) ==
    [no |-> no, name |-> "s", given |-> at, updated_at |-> at,
     panes |-> [i \in 1 .. Len(wishes) |-> Kept(wishes[i], Then(wishes[i].harness))],
     ran |-> [i \in 1 .. Len(wishes) |-> [asked |-> wishes[i], setting |-> Then(wishes[i].harness),
                                          command |-> Built(wishes[i], Then(wishes[i].harness))]]]
Earlier == {Row(-1, -1, <<Wish("pi", "local")>>), Row(0, 0, <<Wish("gemini", "local"), Wish("pi", "box")>>)}

Db == {[Off EXCEPT !.db = TRUE, !.typing = <<SaveIt, Plain("gemini"), SaveIt, Back>>],
       [Off EXCEPT !.db = TRUE, !.typing = <<Plain("extra"), [do |-> "pipe", from |-> 1, to |-> 1], SaveIt, Back>>],
       [Off EXCEPT !.db = TRUE, !.typing = <<Back>>, !.stored = Earlier]}

Loadable == {"good"}
Chosen == User \cup Local \cup Remote \cup Web \cup Db \cup Mcp
===============================================================================
