------------------------------- MODULE CommandBar -------------------------------
(***************************************************************************)
(* The command bar: crates/hom-tui/src/command_bar.rs.  One line that is   *)
(* edited key by key, a history, and the parser of the commands that Enter *)
(* submits.                                                                *)
(*                                                                         *)
(* A line is a sequence of glyphs.  A glyph is one character, or a word    *)
(* that is typed in one go and only edited as a whole; its name is its     *)
(* text, and "wide" stands for a character of two bytes.  The cursor is    *)
(* what the code keeps: a number that counts characters when text is       *)
(* typed, and bytes everywhere else.  An index into the line that is not   *)
(* at a character stops the program.                                       *)
(***************************************************************************)
EXTENDS Naturals, Sequences, FiniteSets, Functions, SequencesExt

VARIABLES input,          \* CommandBar.input
          cursor_pos,
          history,
          history_idx,    \* the entry recalled, 0 for None
          crashed         \* the program has panicked

barVars == <<input, cursor_pos, history, history_idx, crashed>>

-------------------------------------------------------------------------------
Chars(glyph) ==
    CASE glyph \in {"->", "--", "bc"} -> 2
      [] glyph = "u@h" -> 3
      [] glyph \in {"send", "kill", "pipe", "save", "help", "plug"} -> 4
      [] glyph \in {"spawn", "codex", "--dir", "--var"} -> 5
      [] glyph \in {"claude", "review", "layout"} -> 6
      [] glyph = "restore" -> 7
      [] glyph = "--remote" -> 8
      [] glyph = "broadcast" -> 9
      [] glyph = "load-plugin" -> 11
      [] OTHER -> 1

Bytes(glyph) == IF glyph = "wide" THEN 2 ELSE Chars(glyph)
ByteLength(line) == FoldLeft(LAMBDA n, glyph : n + Bytes(glyph), 0, line)

(* The glyphs before a byte position: a set of one number, or empty where  *)
(* the position is past the end or inside a glyph.                         *)
GlyphsBefore(line, position) ==
    {i \in 0 .. Len(line) : ByteLength(SubSeq(line, 1, i)) = position}

(* With a line typed already. *)
BarInit(line) == /\ input = line /\ cursor_pos = ByteLength(line)
                 /\ history = <<>> /\ history_idx = 0
                 /\ crashed = FALSE

Panic == crashed' = TRUE /\ UNCHANGED <<input, cursor_pos, history, history_idx>>

Edited(line, cursor) == /\ input' = line /\ cursor_pos' = cursor
                        /\ UNCHANGED <<history, history_idx, crashed>>

MoveTo(cursor) == Edited(input, cursor)

Insert(glyph) ==
    IF GlyphsBefore(input, cursor_pos) = {} THEN Panic
    ELSE \E i \in GlyphsBefore(input, cursor_pos) :
            Edited(InsertAt(input, i + 1, glyph), cursor_pos + Chars(glyph))

(* String::remove takes the character that starts at the position. *)
RemoveAtByte(position) ==
    IF GlyphsBefore(input, position) \ {Len(input)} = {} THEN Panic
    ELSE \E i \in GlyphsBefore(input, position) : Edited(RemoveAt(input, i + 1), position)

Backspace == IF cursor_pos > 0 THEN RemoveAtByte(cursor_pos - 1) ELSE MoveTo(cursor_pos)

Delete == IF cursor_pos < ByteLength(input) THEN RemoveAtByte(cursor_pos) ELSE MoveTo(cursor_pos)

Right == MoveTo(IF cursor_pos < ByteLength(input) THEN cursor_pos + 1 ELSE ByteLength(input))
Left == MoveTo(IF cursor_pos > 0 THEN cursor_pos - 1 ELSE 0)

Recall(i) == /\ history_idx' = i
             /\ input' = IF i = 0 THEN <<>> ELSE history[i]
             /\ cursor_pos' = ByteLength(input')
             /\ UNCHANGED <<history, crashed>>

Up == IF history = <<>> THEN UNCHANGED barVars
      ELSE Recall(IF history_idx = 0 THEN Len(history)
                  ELSE IF history_idx = 1 THEN 1 ELSE history_idx - 1)

Down_KeepsCursor ==                                                  \* mutant
    /\ history_idx # 0
    /\ history_idx' = IF history_idx < Len(history) THEN history_idx + 1 ELSE 0
    /\ input' = IF history_idx' = 0 THEN <<>> ELSE history[history_idx']
    /\ UNCHANGED <<cursor_pos, history, crashed>>

Down == IF history_idx = 0 THEN UNCHANGED barVars
        ELSE Recall(IF history_idx < Len(history) THEN history_idx + 1 ELSE 0)

IsText(glyph) == glyph # " "
Trim(line) == LET first == SelectInSeq(line, IsText)
                  last == SelectLastInSeq(line, IsText)
              IN IF first = 0 THEN <<>> ELSE SubSeq(line, first, last)

Submit == /\ history' = Append(history, Trim(input))
          /\ history_idx' = 0
          /\ input' = <<>> /\ cursor_pos' = 0

-------------------------------------------------------------------------------
(* shell_split: words at blanks, outside quotes; a backslash takes the     *)
(* next character literally except in single quotes.                       *)
Escapes_OutsideQuotes(quote) == quote = "none"                       \* mutant

Escapes(quote) == quote # "'"

SplitStep(s, c) ==
    CASE s.escape -> [s EXCEPT !.word = Append(@, c), !.escape = FALSE]
      [] ~s.escape /\ c = "\\" /\ Escapes(s.quote) -> [s EXCEPT !.escape = TRUE]
      [] ~s.escape /\ c \in {"'", "\""} /\ s.quote \in {"none", c} ->
            [s EXCEPT !.quote = IF @ = c THEN "none" ELSE c]
      [] ~s.escape /\ c = " " /\ s.quote = "none" ->
            IF s.word = <<>> THEN s ELSE [s EXCEPT !.words = Append(@, s.word), !.word = <<>>]
      [] OTHER -> [s EXCEPT !.word = Append(@, c)]

Split(line) ==
    LET end == FoldLeft(SplitStep, [words |-> <<>>, word |-> <<>>, quote |-> "none", escape |-> FALSE], line)
    IN [ok |-> ~end.escape /\ end.quote = "none",
        words |-> IF end.word = <<>> THEN end.words ELSE Append(end.words, end.word)]

(* splitn(n, ' '): cut at a blank, once or twice; two blanks in a row make *)
(* an empty part.                                                          *)
CutOnce(line) == LET i == SelectInSeq(line, LAMBDA glyph : glyph = " ")
                 IN IF i = 0 THEN <<line>>
                    ELSE <<SubSeq(line, 1, i - 1), SubSeq(line, i + 1, Len(line))>>
Parts(line) == IF Len(CutOnce(line)) = 1 THEN <<line>>
               ELSE <<CutOnce(line)[1]>> \o CutOnce(CutOnce(line)[2])

Digits == [d \in {"1", "2", "3"} |-> CASE d = "1" -> 1 [] d = "2" -> 2 [] d = "3" -> 3]

(* A number, or else a name. *)
Selector(word) ==
    IF word # <<>> /\ Range(word) \subseteq DOMAIN Digits
    THEN [by |-> "id", id |-> FoldLeft(LAMBDA n, d : 10 * n + Digits[d], 0, word)]
    ELSE [by |-> "name", name |-> word]

Error == [name |-> "error"]
Plain(name) == [name |-> name]
OnPane(name, parts) == IF Len(parts) < 2 THEN Error
                       ELSE [name |-> name, on |-> Selector(parts[2])]

(* The options of :spawn, word by word; expects is the option whose value  *)
(* comes next.                                                             *)
Targets == {<<"u@h">>}
SpawnOption(s, word) ==
    CASE s.expects = "extra" ->
            IF word = <<"--">> THEN s ELSE [s EXCEPT !.extra = Append(@, word)]
      [] s.expects = "--dir" -> [s EXCEPT !.dir = word, !.expects = "any"]
      [] s.expects = "--remote" -> [s EXCEPT !.remote = word, !.expects = IF word \in Targets THEN "any" ELSE "error"]
      [] s.expects = "error" -> s
      [] s.expects = "any" ->
            CASE word = <<"--">> -> [s EXCEPT !.expects = "extra"]
              [] word \in {<<"--dir">>, <<"--remote">>} -> [s EXCEPT !.expects = word[1]]
              [] word \notin {<<"--">>, <<"--dir">>, <<"--remote">>} ->
                    IF s.model = <<>> THEN [s EXCEPT !.model = word]
                    ELSE [s EXCEPT !.extra = Append(@, word)]

ParseSpawn(parts) ==
    LET rest == IF Len(parts) = 3 THEN Split(parts[3]) ELSE [ok |-> TRUE, words |-> <<>>]
        spawn == FoldLeft(SpawnOption, [name |-> "spawn", harness |-> parts[2], model |-> <<>>, dir |-> <<>>,
                                        remote |-> <<>>, extra |-> <<>>, expects |-> "any"], rest.words)
    IN IF Len(parts) < 2 \/ ~rest.ok \/ spawn.expects \notin {"any", "extra"} THEN Error ELSE spawn

(* The variables of :run, the last value of each; "error" once a word is   *)
(* not key=value.                                                          *)
Assign(s, word) ==
    LET i == SelectInSeq(word, LAMBDA glyph : glyph = "=")
    IN IF i = 0 THEN [s EXCEPT !.expects = "error"]
       ELSE [s EXCEPT !.variables = (SubSeq(word, 1, i - 1) :> SubSeq(word, i + 1, Len(word))) @@ @,
                      !.expects = "any"]

RunOption(s, word) ==
    CASE s.expects = "error" -> s
      [] s.expects = "value" -> Assign(s, word)
      [] s.expects = "any" ->
            IF word = <<"--var">> THEN [s EXCEPT !.expects = "value"]
            ELSE IF IsPrefix(<<"--var", "=">>, word) THEN Assign(s, SubSeq(word, 3, Len(word)))
            ELSE s

ParseRun(parts) ==
    LET rest == IF Len(parts) = 3 THEN Split(parts[3]) ELSE [ok |-> TRUE, words |-> <<>>]
        run == FoldLeft(RunOption, [name |-> "run", workflow |-> parts[2], variables |-> <<>>,
                                    expects |-> "any"], rest.words)
    IN IF Len(parts) < 2 \/ ~rest.ok \/ run.expects # "any" THEN Error ELSE run

ParseLoadPlugin(line) ==
    LET rest == Split(Trim(Tail(line)))
    IN IF rest.ok /\ Len(rest.words) = 1 THEN [name |-> "load-plugin", path |-> rest.words[1]] ELSE Error

(* Text that begins and ends with the same quote loses both; a single      *)
(* quote is both its beginning and its end, and cannot be cut.             *)
Quoted(text) == text[1] = Last(text) /\ text[1] \in {"'", "\""}
ParseSend(parts) ==
    IF Len(parts) < 3 THEN Error
    ELSE IF parts[3] = <<>> \/ ~Quoted(parts[3])
         THEN [name |-> "send", on |-> Selector(parts[2]), text |-> parts[3]]
    ELSE IF Len(parts[3]) = 1 THEN Plain("panic")
    ELSE [name |-> "send", on |-> Selector(parts[2]), text |-> SubSeq(parts[3], 2, Len(parts[3]) - 1)]

(* split("->"): the text before, between and after the arrows. *)
SplitAtArrows(text) ==
    FoldLeft(LAMBDA ends, glyph : IF glyph = "->" THEN Append(ends, <<>>)
                                  ELSE [ends EXCEPT ![Len(ends)] = Append(@, glyph)], <<<<>>>>, text)

ParsePipe(parts, line) ==
    LET ends == SplitAtArrows(CutOnce(line)[2])
    IN IF Len(parts) < 2 \/ Len(ends) # 2 THEN Error
       ELSE [name |-> "pipe", from |-> Selector(Trim(ends[1])), to |-> Selector(Trim(ends[2]))]

Kinds == [grid |-> "grid", g |-> "grid", hsplit |-> "hsplit", h |-> "hsplit", vsplit |-> "vsplit",
          v |-> "vsplit", tabs |-> "tabbed", t |-> "tabbed", single |-> "single", s |-> "single"]
ParseLayout(parts) ==
    IF Len(parts) < 2 \/ Len(parts[2]) # 1 THEN Error
    ELSE IF parts[2][1] \notin DOMAIN Kinds THEN Error
    ELSE [name |-> "layout", kind |-> Kinds[parts[2][1]]]

(* The first word, and the abbreviations of it. *)
Commands == [s |-> "spawn", spawn |-> "spawn", f |-> "focus", focus |-> "focus", send |-> "send",
             pipe |-> "pipe", broadcast |-> "broadcast", bc |-> "broadcast", r |-> "run", run |-> "run",
             k |-> "kill", kill |-> "kill", l |-> "layout", layout |-> "layout", save |-> "save",
             restore |-> "restore", load |-> "restore", help |-> "help", h |-> "help", q |-> "quit",
             quit |-> "quit"] @@ ("load-plugin" :> "load-plugin") @@ ("?" :> "help")

ParseCommand(typed) ==
    LET line == IF typed[1] = ":" THEN Tail(typed) ELSE typed
        parts == Parts(line)
        name == IF Len(parts[1]) = 1 /\ parts[1][1] \in DOMAIN Commands THEN Commands[parts[1][1]] ELSE "none"
    IN CASE name = "spawn" -> ParseSpawn(parts)
         [] name = "run" -> ParseRun(parts)
         [] name = "load-plugin" -> ParseLoadPlugin(line)
         [] name \in {"focus", "kill"} -> OnPane(name, parts)
         [] name = "send" -> ParseSend(parts)
         [] name = "pipe" -> ParsePipe(parts, line)
         [] name = "layout" -> ParseLayout(parts)
         [] name = "broadcast" -> [name |-> name, text |-> IF Len(parts) = 1 THEN <<>> ELSE CutOnce(line)[2]]
         [] name \in {"save", "restore"} ->
                [name |-> name, session |-> IF Len(parts) = 1 THEN <<"default">> ELSE parts[2]]
         [] name \in {"help", "quit"} -> Plain(name)
         [] name = "none" -> Error

-------------------------------------------------------------------------------
Enter == IF Trim(input) = <<>> THEN UNCHANGED barVars
         ELSE Submit /\ crashed' = (ParseCommand(Trim(input)) = Plain("panic"))

EditKeys == {"Backspace", "Delete", "Left", "Right", "Home", "End", "Up", "Down", "Enter", "Tab", "F1"}

(* handle_key: keys that edit, and any other glyph is inserted.            *)
HandleKey(code) ==
    \/ code = "Backspace" /\ Backspace
    \/ code = "Delete" /\ Delete
    \/ code = "Left" /\ Left
    \/ code = "Right" /\ Right
    \/ code = "Home" /\ MoveTo(0)
    \/ code = "End" /\ MoveTo(ByteLength(input))
    \/ code = "Up" /\ Up
    \/ code = "Down" /\ Down
    \/ code = "Enter" /\ Enter
    \/ code \in {"Tab", "F1"} /\ UNCHANGED barVars
    \/ code \notin EditKeys /\ Insert(code)

-------------------------------------------------------------------------------
(* Editing stops the program only in a line with a character of more than  *)
(* one byte, and submitting only for :send of a lone quote: in any other   *)
(* line the cursor stays at a character, whatever is inserted, deleted and *)
(* recalled from the history (command_bar.rs:90).                          *)
EditsAreSafe ==
    crashed => \/ "wide" \in Range(input)
               \/ history # <<>> /\ ParseCommand(Last(history)) = Plain("panic")

(* What is quoted arrives unchanged: any line, put in double quotes with   *)
(* its quotes and backslashes escaped, is one argument equal to it, blanks *)
(* and quotes of the other kind included (command_bar.rs:182).             *)
Quote(line) ==
    <<"\"">> \o FlattenSeq([i \in 1 .. Len(line) |->
                IF line[i] \in {"\"", "\\"} THEN <<"\\", line[i]>> ELSE <<line[i]>>]) \o <<"\"">>

QuotedArgumentsSurvive ==
    Split(Quote(input)) = [ok |-> TRUE, words |-> IF input = <<>> THEN <<>> ELSE <<input>>]
===============================================================================
