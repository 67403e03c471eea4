------------------------------- MODULE MCCommands -------------------------------
(***************************************************************************)
(* What is typed, in sessions of one kind each: editing a line, the keys   *)
(* and the mouse that move between panes, commands on panes, prompts, and  *)
(* the options of :spawn and :run.                                         *)
(***************************************************************************)
EXTENDS Commands

SmallScreen == [x |-> 0, y |-> 1, width |-> 6, height |-> 5]
ReviewWorkflow == {<<"review">>}

Section(toggle, next, prev, kill) == [toggle |-> toggle, next |-> next, prev |-> prev, kill |-> kill]
DefaultSection == Section(<<"ctrl", "grave">>, <<"ctrl", "tab">>, <<"ctrl", "shift", "tab">>, <<"ctrl", "w">>)
OwnSection == Section(<<"f1">>, <<"alt", "right">>, <<"alt", "left">>, <<"ctrl", "", "w">>)

Plainly(codes) == {Key(code, {}) : code \in codes}
Chords == {Key("q", {"ctrl"}), Key("grave", {"ctrl"}), Key("Esc", {}), Key("F1", {}),
           Key("Tab", {"ctrl"}), Key("Tab", {"ctrl", "shift"}), Key("w", {"ctrl"}),
           Key("Right", {"alt"}), Key("Left", {"alt"})}

Keyboard(typed, glyphs, more, commands) ==
    [config |-> DefaultSection, typed |-> typed, glyphs |-> glyphs, keys |-> Plainly({"Enter"}),
     clicks |-> {}, line |-> Len(typed) + more, commands |-> commands, open |-> 2, exits |-> {}]

Moving(config, n) ==
    [Keyboard(<<"l", " ">>, {"l", " ", "g"}, 1, 1)
        EXCEPT !.config = config, !.keys = @ \cup Chords, !.clicks = [column : {0, 3, 5}, row : {1, 3, 5}],
               !.open = n, !.exits = {1}]

SomeKeyboards == <<
    [Keyboard(<<>>, {"x", "wide"}, 3, 2) EXCEPT !.keys = Plainly(EditKeys)],
    [Keyboard(<<>>, {"x", " "}, 3, 2) EXCEPT !.keys = Plainly(EditKeys)],
    Moving(DefaultSection, 5),
    Moving(OwnSection, 3),
    [Keyboard(<<"k">>, {" ", "1", "claude", "k"}, 2, 2)
        EXCEPT !.keys = @ \cup {Key("grave", {"ctrl"}), Key("Esc", {})}, !.open = 3, !.exits = {1}],
    Keyboard(<<"f">>, {" ", "1", "c", "f"}, 2, 2),
    Keyboard(<<>>, {"l", "q", " ", "t", "v"}, 3, 2),
    Keyboard(<<"send", " ">>, {"1", " ", "\"", "x"}, 4, 1),
    Keyboard(<<>>, {"bc", " ", "x", "?"}, 3, 2),
    Keyboard(<<"pipe", " ">>, {"1", " ", "->", "claude"}, 5, 1),
    [Keyboard(<<":">>, {"s", " ", "plug", "load-plugin"}, 3, 2) EXCEPT !.open = 0],
    [Keyboard(<<"s", " ", "claude", " ">>, {"x", " ", "--remote", "u@h", "--dir", "--"}, 4, 1)
        EXCEPT !.exits = {10}],
    Keyboard(<<"r", " ", "review", " ", "--var", " ">>, {"x", "=", " ", "--var", "\\", "'"}, 4, 1) >>
===============================================================================
