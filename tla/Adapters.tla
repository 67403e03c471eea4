-------------------------------- MODULE Adapters --------------------------------
(***************************************************************************)
(* crates/hom-adapters: how the application starts a harness, types to it  *)
(* and reads its screen.  The seven adapters share their shape, so each is *)
(* a table (its flags, the lines by which it waits for input, the lines    *)
(* that tell an event) and the methods of HarnessAdapter are operators on  *)
(* tables.  A plugin (crates/hom-plugin) answers as it likes, in JSON.     *)
(*                                                                         *)
(* A row of the screen is the kind of its text:                            *)
(*   "arrow" a line after the arrow prompt, "angle" a line after ">",      *)
(*   "$" and "$ ls", "codex>" and so on: prompts; "error" the word alone,  *)
(*   "error:" a line that starts so; "{output}" a JSON object of that type;*)
(*   "Created", "Running" and so on: lines with that prefix; "text" any    *)
(*   other; Blank the padding below the last line.                         *)
(***************************************************************************)
EXTENDS Naturals, Sequences, SequencesExt

CONSTANT Rows             \* rows of a pane's screen

ASSUME RowsAssumption == Rows \in Nat \ {0}

Blank == ""

ClaudeCode == [program |-> "claude", flags |-> <<>>, waits |-> {"arrow", "angle"},
               tells |-> "Created" :> "FileCreated" @@ "Updated" :> "FileModified"]

Codex == [program |-> "codex", flags |-> <<>>, waits |-> {"$", "$ ls", "codex>"},
          tells |-> "{file_change}" :> "FileModified" @@ "{file_edit}" :> "FileModified"
                    @@ "{command}" :> "CommandExecuted"]

Copilot == [program |-> "copilot", flags |-> <<>>, waits |-> {"$", "$ ls", "copilot>"},
            tells |-> "Created" :> "FileCreated" @@ "Updated" :> "FileModified"
                      @@ "Running" :> "CommandExecuted"]

Gemini == [program |-> "gemini", flags |-> <<>>, waits |-> {"arrow", "angle"},
           tells |-> "Created file" :> "FileCreated" @@ "Updated file" :> "FileModified"
                     @@ "$ ls" :> "CommandExecuted"]

Kimi == [program |-> "kimi", flags |-> <<>>, waits |-> {"arrow", "kimi>"},
         tells |-> "{file_change}" :> "FileModified" @@ "{output}" :> "OutputChunk"]

OpenCode == [program |-> "opencode", flags |-> <<>>, waits |-> {"arrow", "angle"},
             tells |-> "Created" :> "FileCreated" @@ "Updated" :> "FileModified"]

PiMono == [program |-> "pi", flags |-> <<>>, waits |-> {"arrow", "pi>"},
           tells |-> "Created" :> "FileCreated" @@ "Modified" :> "FileModified"
                     @@ "error:" :> "Error"]

(* AdapterRegistry::new: the adapters by the name of their harness. *)
BuiltIn == [claude |-> ClaudeCode, codex |-> Codex, copilot |-> Copilot, gemini |-> Gemini,
            kimi |-> Kimi, opencode |-> OpenCode, pi |-> PiMono]

-------------------------------------------------------------------------------
(* build_command: the model's flag comes after the adapter's own, and the  *)
(* user's arguments last.  `binary` and `model` hold one value or none.    *)
BuildCommand(adapter, config) ==
    [program |-> IF config.binary = <<>> THEN adapter.program ELSE config.binary[1],
     args |-> adapter.flags \o (IF config.model = <<>> THEN <<>> ELSE <<"--model", config.model[1]>>)
              \o config.extra_args,
     working_dir |-> config.working_dir]

(* translate_input, the same in all seven. *)
TranslateInput(command, text) ==
    [Prompt |-> <<text, "newline">>, Cancel |-> <<"ctrl-c">>, Accept |-> <<"y", "newline">>,
     Reject |-> <<"n", "newline">>, Raw |-> <<text>>][command]

(* ScreenSnapshot::last_n_lines counts the blank rows below the text; only *)
(* last_non_empty_line passes over them.                                   *)
LastRows(screen, n) == SubSeq(screen, IF Len(screen) > n THEN Len(screen) - n + 1 ELSE 1, Len(screen))

LastNonEmptyLine_BottomRow(screen) == screen[Len(screen)]            \* mutant

LastNonEmptyLine(screen) ==
    LET lines == SelectSeq(screen, LAMBDA row : row # Blank)
    IN IF lines = <<>> THEN Blank ELSE Last(lines)

ScreenHasErrorLine(rows) == ToSet(rows) \cap {"error", "error:"} # {}

(* A prompt wins over an error above it. *)
DetectCompletion(adapter, screen) ==
    IF LastNonEmptyLine(screen) \in adapter.waits THEN "WaitingForInput"
    ELSE IF ScreenHasErrorLine(LastRows(screen, 5)) THEN "Failed"
    ELSE "Running"

ParseScreen(adapter, screen) ==
    LET telling == SelectSeq(screen, LAMBDA row : row \in DOMAIN adapter.tells)
    IN [i \in 1 .. Len(telling) |-> adapter.tells[telling[i]]]

-------------------------------------------------------------------------------
(* Plugins.  A call into the library returns an answer, <<answer>>, or     *)
(* nothing usable, <<>>: a null pointer, no text, or not the JSON that is  *)
(* expected.  That counts as still running, as no events, as no bytes      *)
(* (which are sent in hex) and as the bare command.                        *)
Statuses == {"Running", "WaitingForInput", "Completed", "Failed"}
Unusable == <<>>

PluginCompletion(reply) == IF reply = Unusable THEN "Running" ELSE reply[1]
PluginEvents(reply) == IF reply = Unusable THEN <<>> ELSE reply[1]
PluginInput(reply) == IF reply = Unusable THEN <<>> ELSE reply[1]
PluginCommand(name, config, reply) ==
    LET told == IF reply = Unusable THEN << >> ELSE reply[1]
    IN told @@ [program |-> name, args |-> <<>>, working_dir |-> config.working_dir]

(* PluginLoader: a library loads if it opens, has the entry point and      *)
(* returns a complete table of this ABI version.  A directory gives those  *)
(* of its libraries that load; a name loaded again replaces the adapter.   *)
Loads(library) == /\ library.opens /\ library.init = "table"
                  /\ library.abi_version = 1 /\ library.missing = {}

ScanDir(files) == {file \in files : file.ext \in {"dylib", "so", "dll"} /\ Loads(file)}

Registered(plugins, libraries) == plugins \cup {library.name : library \in libraries}
===============================================================================
