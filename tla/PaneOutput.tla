------------------------------- MODULE PaneOutput -------------------------------
(***************************************************************************)
(* What harnesses write, from the process to the screen, and what is made  *)
(* of it.  A process writes to its terminal; the thread of AsyncPtyReader  *)
(* reads it and sends chunks into a bounded channel; the event loop drains *)
(* the channels into the terminal emulators, looks for a prompt where a    *)
(* workflow step waits, and notices exits.  Remote panes connect on worker *)
(* threads (RemotePtyManager::connect) before they have a reader.          *)
(*                                                                         *)
(* Here are the operations on the panes of PaneManager; Services puts them *)
(* in the order of a tick.  Lines stand for bytes; what a harness echoes   *)
(* of its input is part of what it writes.                                 *)
(***************************************************************************)
EXTENDS PaneManager, Adapters

CONSTANTS Script,           \* what a harness writes, by its name (external)
          Host,             \* the hosts of remote panes, by name (external)
          ChannelCapacity,  \* of the channel of AsyncPtyReader (256 in the code)
          TtyRoom,          \* bound: lines a process can write ahead of the reader
          Configured,       \* the harnesses of this run's config.toml, by name (external)
          Libraries         \* the plugin files in the plugin directory (external)

VARIABLES
    request,      \* per pane: what it was opened with, as the pane keeps it
    started,      \* history, per pane: what was asked for, where, and the command run
    written,      \* how much of its script the harness has written
    tty,          \* written, not yet read
    hand,         \* the chunk the reader thread holds
    reader,       \* where the reader thread is
    lingering,    \* panes whose terminal or connection others hold open
    channel,      \* AsyncPtyReader.rx: chunks
    fed,          \* what the terminal emulator has processed
    inbox,        \* what was typed to the harness
    step,         \* the workflow step waiting on the pane, or how it ended
    connecting,   \* remote spawn tasks still running
    completions,  \* remote_spawn_rx
    plugins       \* AdapterRegistry.plugins

threadVars == <<written, tty, hand, reader, lingering>>
useVars == <<inbox, step>>
remoteOpenVars == <<connecting, completions>>
openedVars == <<request, started>>
outputVars == <<openedVars, threadVars, channel, fed, useVars, remoteOpenVars, plugins>>

NoRequest == [harness |-> "none"]
IsLocal(asked) == asked.kind = "local"
PerPane(value) == [id \in PaneIds |-> value]

OutputInit ==
    /\ Init
    /\ request = PerPane(NoRequest) /\ started = PerPane(NoRequest)
    /\ written = PerPane(0) /\ tty = PerPane(<<>>) /\ hand = PerPane(<<>>) /\ reader = PerPane("none")
    /\ lingering = {}
    /\ channel = PerPane(<<>>) /\ fed = PerPane(<<>>) /\ inbox = PerPane(<<>>) /\ step = PerPane("none")
    /\ connecting = {} /\ completions = <<>>
    /\ plugins = Registered({}, ScanDir(Libraries))

-------------------------------------------------------------------------------
(* Opening.  What a pane is asked for is its harness, its kind and the     *)
(* options given.  The setting is what else decides the command: the       *)
(* harness's entry in config.toml, which may replace the program and fill  *)
(* in a model, and the directory the program was started in.               *)
NoEntry == [command |-> <<>>, default_model |-> <<>>]
Setting(harness) ==
    [entry |-> IF harness \in DOMAIN Configured THEN Configured[harness] ELSE NoEntry, directory |-> "current"]

Effective(asked, setting) ==
    [binary |-> setting.entry.command,
     model |-> IF asked.config.model = <<>> THEN setting.entry.default_model ELSE asked.config.model,
     extra_args |-> asked.config.extra_args,
     working_dir |-> IF asked.config.working_dir = <<>> THEN setting.directory ELSE asked.config.working_dir[1]]

(* build_remote_command: the program and its arguments, no directory.      *)
RemoteCommand(command) == [command EXCEPT !.working_dir = "login"]

Built(asked, setting) ==
    LET command == BuildCommand(BuiltIn[asked.harness], Effective(asked, setting))
    IN IF IsLocal(asked) THEN command ELSE RemoteCommand(command)

Commands(asked, setting) ==
    IF asked.harness \in DOMAIN BuiltIn THEN {Built(asked, setting)}
    ELSE {PluginCommand(asked.harness, Effective(asked, setting), reply) : reply \in {Unusable, <<[args |-> <<"own">>]>>}}

Kept_EffectiveModel(asked, setting) ==                               \* mutant
    [harness |-> asked.harness, kind |-> asked.kind,
     config |-> [model |-> Effective(asked, setting).model, extra_args |-> asked.config.extra_args,
                 working_dir |-> <<Effective(asked, setting).working_dir>>]]

(* What the pane keeps: the directory resolved, the rest as it was asked.  *)
Kept(asked, setting) ==
    [harness |-> asked.harness, kind |-> asked.kind,
     config |-> [model |-> asked.config.model, extra_args |-> asked.config.extra_args,
                 working_dir |-> <<Effective(asked, setting).working_dir>>]]

Starts(id, asked) ==
    LET setting == Setting(asked.harness)
    IN /\ request' = [request EXCEPT ![id] = Kept(asked, setting)]
       /\ \E command \in Commands(asked, setting) :
             started' = [started EXCEPT ![id] = [asked |-> asked, setting |-> setting, command |-> command]]

Known(harness) == harness \in DOMAIN BuiltIn \cup plugins
Reads(id) == reader' = [reader EXCEPT ![id] = "reading"]

(* A local process is run, and its reader started at once ... *)
Runs(asked) ==
    /\ IsLocal(asked) /\ Known(asked.harness)
    /\ Starts(next_local, asked)
    /\ Reads(next_local)
    /\ UNCHANGED <<written, tty, hand, lingering, channel, fed, useVars, remoteOpenVars, plugins>>

Open(asked) == SpawnPane /\ Runs(asked)

(* ... also when no terminal can be created for it: nobody receives then.  *)
OpenFails(asked) ==
    /\ SpawnFails
    /\ \/ UNCHANGED <<localVars, outputVars>>
       \/ OpenPty /\ Runs(asked)

QueueRemote(asked) ==
    /\ ~IsLocal(asked) /\ asked.harness \in DOMAIN BuiltIn
    /\ PrepareRemote
    /\ Starts(next_remote, asked)
    /\ connecting' = connecting \cup {next_remote}
    /\ UNCHANGED <<threadVars, channel, fed, useVars, completions, plugins>>

(* The methods of SshAuthMethod::defaults are tried in turn; every other   *)
(* step of connect fails the whole.                                        *)
AuthMethods == <<"agent", "id_ed25519", "id_rsa">>
TryAuthenticate(host, methods) == \E i \in 1 .. Len(methods) : methods[i] \in Host[host].accepts
Connects(host) == Host[host].fails = {} /\ TryAuthenticate(host, AuthMethods)

ConnectEnds(id) ==
    /\ id \in connecting
    /\ connecting' = connecting \ {id}
    /\ completions' = Append(completions, [id |-> id, ok |-> Connects(request[id].kind)])
    /\ UNCHANGED <<vars, openedVars, threadVars, channel, fed, useVars, plugins>>

FinishRemote ==
    /\ completions # <<>>
    /\ LET done == Head(completions)
       IN \/ done.ok /\ CompleteRemote(done.id) /\ Reads(done.id)
          \/ RemoteSpawnFailed(done.id) /\ UNCHANGED reader
    /\ completions' = Tail(completions)
    /\ UNCHANGED <<openedVars, written, tty, hand, lingering, channel, fed, useVars, connecting, plugins>>

(* Killing drops the receivers, with what the channels still hold.  A      *)
(* local process is gone at once, but not the descendants it may leave     *)
(* with its terminal; a remote one is only sent an end of file, and the    *)
(* reader's handle keeps the connection open until the far end closes it.  *)
(* The abort of the reader task has no effect on a thread that runs.       *)
Close(closed) ==
    /\ channel' = [id \in PaneIds |-> IF id \in closed THEN <<>> ELSE channel[id]]
    /\ \E survived \in SUBSET ((closed \cap instances) \ ended) :
          lingering' = lingering \cup survived \cup ((closed \cap sessions) \ ended)
    /\ UNCHANGED <<openedVars, written, tty, hand, reader, fed, useVars, remoteOpenVars, plugins>>

Kill(id) == \/ KillPane(id) /\ Close({id})
            \/ KillFails(id) /\ UNCHANGED outputVars

KillAll == Shutdown /\ Close(panes \cup instances)

-------------------------------------------------------------------------------
(* The processes and the reader thread.  What was written can be read      *)
(* after its writer is gone.                                               *)
Alive == ((instances \cup sessions) \ ended) \cup lingering

WriteLine(id) ==
    /\ id \in Alive /\ reader[id] # "none" /\ Len(tty[id]) < TtyRoom
    /\ written[id] < Len(Script[request[id].harness])
    /\ written' = [written EXCEPT ![id] = @ + 1]
    /\ tty' = [tty EXCEPT ![id] = Append(@, Script[request[id].harness][written'[id]])]
    /\ UNCHANGED <<vars, openedVars, hand, reader, lingering, channel, fed, useVars, remoteOpenVars, plugins>>

(* A process ends by itself; a local one may leave descendants, too. *)
ProcessEnds(id) ==
    /\ ProcessExits(id)
    /\ lingering' \in {lingering, lingering \cup ({id} \cap instances)}
    /\ UNCHANGED <<openedVars, written, tty, hand, reader, channel, fed, useVars, remoteOpenVars, plugins>>

OthersClose(id) ==
    /\ id \in lingering
    /\ lingering' = lingering \ {id}
    /\ UNCHANGED <<vars, openedVars, written, tty, hand, reader, channel, fed, useVars, remoteOpenVars, plugins>>

ReaderReads(id) ==
    /\ reader[id] = "reading"
    /\ \E n \in 1 .. Len(tty[id]) :
          /\ hand' = [hand EXCEPT ![id] = SubSeq(tty[id], 1, n)]
          /\ tty' = [tty EXCEPT ![id] = SubSeq(@, n + 1, Len(@))]
    /\ reader' = [reader EXCEPT ![id] = "sending"]
    /\ UNCHANGED <<vars, openedVars, written, lingering, channel, fed, useVars, remoteOpenVars, plugins>>

Received(id) == id \in panes            \* the receiver of its channel exists

ReaderSends(id) ==
    /\ reader[id] = "sending"
    /\ \/ ~Received(id) /\ reader' = [reader EXCEPT ![id] = "done"] /\ UNCHANGED channel
       \/ /\ Received(id) /\ Len(channel[id]) < ChannelCapacity
          /\ channel' = [channel EXCEPT ![id] = Append(@, hand[id])]
          /\ reader' = [reader EXCEPT ![id] = "reading"]
    /\ hand' = [hand EXCEPT ![id] = <<>>]
    /\ UNCHANGED <<vars, openedVars, written, tty, lingering, fed, useVars, remoteOpenVars, plugins>>

(* End of file, once nobody holds the other end. *)
ReaderEnds(id) ==
    /\ reader[id] = "reading" /\ tty[id] = <<>> /\ id \notin Alive
    /\ reader' = [reader EXCEPT ![id] = "done"]
    /\ UNCHANGED <<vars, openedVars, written, tty, hand, lingering, channel, fed, useVars, remoteOpenVars, plugins>>

Threads(id) == ReaderReads(id) \/ ReaderSends(id) \/ ReaderEnds(id)
Outside(id) == WriteLine(id) \/ ProcessEnds(id) \/ OthersClose(id)

-------------------------------------------------------------------------------
Drained_Running == panes \ exited                                    \* mutant

Drained == panes                        \* exited panes are drained too

PollPtyOutput ==
    /\ fed' = [id \in PaneIds |-> IF id \in Drained THEN fed[id] \o FlattenSeq(channel[id]) ELSE fed[id]]
    /\ channel' = [id \in PaneIds |-> IF id \in Drained THEN <<>> ELSE channel[id]]
    /\ UNCHANGED <<vars, openedVars, threadVars, useVars, remoteOpenVars, plugins>>

(* The emulator (external): the last lines fed, and blank rows below.      *)
ScreenSnapshot(id) ==
    LET shown == LastRows(fed[id], Rows)
    IN shown \o [i \in 1 .. Rows - Len(shown) |-> Blank]

IsPlugin(id) == request[id].harness \notin DOMAIN BuiltIn

(* detect_completion: a plugin's answer is its own. *)
Detected(id) ==
    IF IsPlugin(id) THEN {PluginCompletion(reply) : reply \in {Unusable} \cup {<<status>> : status \in Statuses}}
    ELSE {DetectCompletion(BuiltIn[request[id].harness], ScreenSnapshot(id))}

Verdict(status) == IF status = "Running" THEN "waiting"
                   ELSE IF status = "Failed" THEN "failed" ELSE "completed"

(* A step may have timed out by now; that is looked at first. *)
Verdicts(id) == {"timeout"} \cup
                (IF id \in panes THEN {Verdict(status) : status \in Detected(id)} ELSE {"gone"})

Waiting == {id \in PaneIds : step[id] = "waiting"}

PollPendingCompletions ==
    /\ \E verdict \in [Waiting -> UNION {Verdicts(id) : id \in Waiting}] :
          /\ \A id \in Waiting : verdict[id] \in Verdicts(id)
          /\ step' = [id \in PaneIds |-> IF id \in Waiting THEN verdict[id] ELSE step[id]]
    /\ UNCHANGED <<vars, openedVars, threadVars, channel, fed, inbox, remoteOpenVars, plugins>>

(* handle_exited_panes, and the steps that wait on such a pane. *)
NoticeExits ==
    /\ HandleExited
    /\ step' = [id \in PaneIds |-> IF id \in Waiting \cap NewlyExited THEN "exited" ELSE step[id]]
    /\ UNCHANGED <<openedVars, threadVars, channel, fed, inbox, remoteOpenVars, plugins>>

-------------------------------------------------------------------------------
(* Typing: pty_write fails without a process, and may fail once it ended.  *)
Bytes(id, text) ==
    IF id \in panes /\ IsPlugin(id)
    THEN {PluginInput(reply) : reply \in {Unusable, <<TranslateInput("Prompt", text)>>}}
    ELSE {TranslateInput("Prompt", text)}

Writable(id) == id \in instances \cup sessions
Write(id, text) ==
    /\ Writable(id)
    /\ \E bytes \in Bytes(id, text) : inbox' = [inbox EXCEPT ![id] = @ \o bytes]
    /\ UNCHANGED <<vars, openedVars, threadVars, channel, fed, remoteOpenVars, plugins>>

WriteFails(id) == ~Writable(id) \/ id \in ended

(* SendAndWait of a workflow step, to a pane without a sideband. *)
SendAndWait(id) ==
    /\ step[id] = "none" /\ reader[id] # "none"
    /\ \/ id \in panes /\ Write(id, "prompt") /\ step' = [step EXCEPT ![id] = "waiting"]
       \/ /\ id \notin panes \/ WriteFails(id)
          /\ step' = [step EXCEPT ![id] = "refused"]
          /\ UNCHANGED <<vars, openedVars, threadVars, channel, fed, inbox, remoteOpenVars, plugins>>

(* What comes of typing to a pane when nobody looks at the result. *)
Arrives(id, text) ==
    IF id \in panes /\ Writable(id) THEN Bytes(id, text) \cup (IF id \in ended THEN {<<>>} ELSE {})
    ELSE {<<>>}

(* :send and :broadcast. *)
SendTo(targets, text) ==
    /\ \E bytes \in [targets -> UNION {Arrives(id, text) : id \in targets}] :
          /\ \A id \in targets : bytes[id] \in Arrives(id, text)
          /\ inbox' = [id \in PaneIds |-> IF id \in targets THEN inbox[id] \o bytes[id] ELSE inbox[id]]
    /\ UNCHANGED <<vars, openedVars, threadVars, channel, fed, step, remoteOpenVars, plugins>>

(* :pipe sends the events told on one screen, or else its last rows.       *)
Told(id) == IF IsPlugin(id) THEN {PluginEvents(reply) : reply \in {Unusable, <<<<"OutputChunk">>>>}}
            ELSE {ParseScreen(BuiltIn[request[id].harness], ScreenSnapshot(id))}

Pipe(source, target) ==
    /\ source \in panes /\ target \in panes
    /\ \E events \in Told(source) :
          SendTo({target}, IF events # <<>> THEN events ELSE LastRows(ScreenSnapshot(source), 20))

(* :load-plugin. *)
LoadPlugin(library) ==
    /\ plugins' = IF Loads(library) THEN Registered(plugins, {library}) ELSE plugins
    /\ UNCHANGED <<vars, openedVars, threadVars, channel, fed, useVars, remoteOpenVars>>

-------------------------------------------------------------------------------
(* An open pane shows a prefix of what its harness wrote: nothing is lost, *)
(* repeated or put out of order on the way (async_reader.rs:37).           *)
OutputInOrder ==
    \A id \in panes : fed[id] = SubSeq(Script[request[id].harness], 1, Len(fed[id]))

(* The inductive invariant behind it.  What was written is where it was    *)
(* fed, in the channel, in the reader's hand or in the terminal, in this   *)
(* order; nothing has come of a pane before it opens.                      *)
IsSeq(s) == Len(s) \in Nat /\ s = [i \in 1 .. Len(s) |-> s[i]]
Lines == UNION {Range(Script[name]) : name \in DOMAIN Script}

OutputTypes ==
    /\ written \in [PaneIds -> Nat]
    /\ {tty, hand, fed} \subseteq [PaneIds -> Seq(Lines)]
    /\ channel \in [PaneIds -> Seq(Seq(Lines))]
    /\ reader \in [PaneIds -> {"none", "reading", "sending", "done"}]
    /\ DOMAIN request = PaneIds /\ DOMAIN started = PaneIds
    /\ \A id \in PaneIds : reader[id] # "sending" => hand[id] = <<>>

HandedOut(id) == \/ id \in LocalIds /\ id < next_local
                 \/ id \in RemoteIds /\ id < next_remote

OpenedOnce ==
    /\ \A id \in PaneIds : reader[id] # "none" => HandedOut(id) /\ id \notin reserved
    /\ \A id \in PaneIds : reader[id] = "none" =>
          /\ id \notin panes /\ written[id] = 0
          /\ tty[id] = <<>> /\ channel[id] = <<>> /\ fed[id] = <<>>

AllHaveScripts ==
    /\ plugins \subseteq DOMAIN Script
    /\ \A id \in PaneIds : reader[id] # "none" \/ id \in reserved => request[id].harness \in DOMAIN Script

Conserved(shown, chunks, held, unread, script, n) ==
    n <= Len(script) /\ shown \o FlattenSeq(chunks) \o held \o unread = SubSeq(script, 1, n)

InTransit(id) ==
    Conserved(fed[id], channel[id], hand[id], tty[id], Script[request[id].harness], written[id])

OutputInv == OutputTypes /\ OpenedOnce /\ AllHaveScripts /\ \A id \in panes : InTransit(id)
===============================================================================
