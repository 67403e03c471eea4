-------------------------------- MODULE Storage --------------------------------
(***************************************************************************)
(* Sessions in the database (crates/hom-db, with :save and :restore of     *)
(* main.rs).  :save hands a snapshot of the panes to a task of its own,    *)
(* which reads the clock and inserts a row later; :restore loads the row   *)
(* of that name last written and opens its panes one by one.  A row's id   *)
(* is fresh, so every save adds one.                                       *)
(***************************************************************************)
EXTENDS PaneOutput

CONSTANT MaxClock   \* bound: seconds

VARIABLES
    stored,     \* the rows of table sessions
    saving,     \* the save tasks that have not finished
    saves,      \* how many were started
    clock,      \* the time in seconds
    todo,       \* the panes :restore still has to open
    restored    \* history: the row restored, what was stored then, and the panes opened

storeVars == <<stored, saving, saves, clock, todo, restored>>

NotRestored == [opened |-> <<>>]

StoreInit(rows) == /\ stored = rows /\ saving = {} /\ saves = 0
                   /\ clock = 1
                   /\ todo = <<>> /\ restored = NotRestored

-------------------------------------------------------------------------------
(* session_snapshot, in the order of pane_order.                           *)
SessionSnapshot == [i \in 1 .. Len(pane_order) |-> request[pane_order[i]]]

(* `ran` is a history variable: how those panes were started.              *)
Save(name) ==
    /\ saves' = saves + 1
    /\ saving' = saving \cup {[no |-> saves + 1, name |-> name, panes |-> SessionSnapshot, given |-> clock,
                               ran |-> [i \in 1 .. Len(pane_order) |-> started[pane_order[i]]]]}
    /\ UNCHANGED <<vars, outputVars, stored, clock, todo, restored>>

StoredRow(save, now) == [no |-> save.no, name |-> save.name, panes |-> save.panes, given |-> save.given,
                         ran |-> save.ran, updated_at |-> now]

(* save_session: the clock is read when the task starts, the row is there  *)
(* when it ends.  A failure is only logged.                                *)
SaveEnds(save) ==
    /\ saving' = saving \ {save}
    /\ \/ \E now \in save.given .. clock : stored' = stored \cup {StoredRow(save, now)}
       \/ UNCHANGED stored
    /\ UNCHANGED <<vars, outputVars, saves, clock, todo, restored>>

ClockTicks == /\ clock < MaxClock /\ clock' = clock + 1
              /\ UNCHANGED <<vars, outputVars, stored, saving, saves, todo, restored>>

-------------------------------------------------------------------------------
Named(name) == {row \in stored : row.name = name}

(* ORDER BY updated_at DESC LIMIT 1: rows of one second tie.               *)
LoadSession(name) ==
    {row \in Named(name) : \A other \in Named(name) : other.updated_at <= row.updated_at}

Restore(name) ==
    /\ \/ \E row \in LoadSession(name) :
             /\ todo' = row.panes
             /\ restored' = [row |-> row, known |-> stored, opened |-> <<>>]
       \/ UNCHANGED <<todo, restored>>          \* not found, or the query failed
    /\ UNCHANGED <<vars, outputVars, stored, saving, saves, clock>>

(* A pane that cannot be opened is skipped.  There are no remote panes of  *)
(* plugins.                                                                *)
RestorePane ==
    /\ todo # <<>> /\ todo' = Tail(todo)
    /\ LET asked == Head(todo)
           Opened(id) == restored' = [restored EXCEPT !.opened = Append(@, id)]
       IN \/ Open(asked) /\ Opened(next_local)
          \/ QueueRemote(asked) /\ Opened(next_remote)
          \/ OpenFails(asked) /\ Opened(NoPane)
    /\ UNCHANGED <<stored, saving, saves, clock>>

-------------------------------------------------------------------------------
(* A pane opened again runs what was asked for then, with the program and  *)
(* the default model that config.toml names now and in the directory of    *)
(* then: the same command, unless its entry has changed.                   *)
OpenedAgain(command, ran) ==
    LET entry == Setting(ran.asked.harness).entry
    IN /\ command = Built(ran.asked, [entry |-> entry, directory |-> ran.setting.directory])
       /\ entry = ran.setting.entry => command = ran.command

(* :restore opens what was saved under that name (main.rs:1007): never     *)
(* what an older save held when one given in a later second was stored, in *)
(* whatever order the save tasks ran; and each pane of a built-in harness, *)
(* in order, as it was first asked for, though the program was meanwhile   *)
(* started in another directory and with another config.toml: what that    *)
(* filled in then is not kept for what the user asked (app.rs:347).        *)
RestoresAreFaithful ==
    restored # NotRestored =>
        /\ \A other \in restored.known :
              other.name = restored.row.name => other.given <= restored.row.updated_at
        /\ \A i \in 1 .. Len(restored.opened) :
              LET id == restored.opened[i]
              IN id # NoPane /\ ~IsPlugin(id) => OpenedAgain(started[id].command, restored.row.ran[i])

(* The inductive invariant behind it: a pane keeps what it was asked for,  *)
(* and so does a row.                                                      *)
Tells(kept, ran) ==
    /\ kept = Kept(ran.asked, ran.setting)
    /\ kept.harness \in DOMAIN BuiltIn => ran.command = Built(ran.asked, ran.setting)

RequestsTell == \A id \in PaneIds : HandedOut(id) => Tells(request[id], started[id])

RowTells(row) == /\ IsSeq(row.panes) /\ Len(row.ran) = Len(row.panes)
                 /\ \A i \in 1 .. Len(row.panes) : Tells(row.panes[i], row.ran[i])

RowsTell ==
    /\ clock \in Int
    /\ \A row \in stored : RowTells(row) /\ {row.given, row.updated_at} \subseteq Int /\ row.given <= row.updated_at
    /\ \A save \in saving : RowTells(save) /\ save.given \in Int

RestoreTells ==
    IF restored = NotRestored THEN todo = <<>>
    ELSE LET row == restored.row
             done == Len(restored.opened)
         IN /\ restored = [row |-> row, known |-> restored.known, opened |-> restored.opened]
            /\ RowTells(row)
            /\ \A other \in restored.known : other.name = row.name => other.given <= row.updated_at
            /\ restored.opened \in Seq(PaneIds \cup {NoPane}) /\ done <= Len(row.panes)
            /\ todo = SubSeq(row.panes, done + 1, Len(row.panes))
            /\ \A i \in 1 .. done :
                  LET id == restored.opened[i]
                  IN id # NoPane => /\ HandedOut(id) /\ request[id].harness = row.panes[i].harness
                                    /\ ~IsPlugin(id) => OpenedAgain(started[id].command, row.ran[i])

RestoreInv == RequestsTell /\ RowsTell /\ RestoreTells
===============================================================================
