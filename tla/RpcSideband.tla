------------------------------ MODULE RpcSideband ------------------------------
(***************************************************************************)
(* The RPC sideband (crates/hom-adapters/src/sideband/rpc.rs): callers     *)
(* share one child process, write requests to its stdin one at a time, and *)
(* wait for the responses that a reader task routes back by id.  The child *)
(* is started by the first call that finds none it can use.                *)
(*                                                                         *)
(* A step is the code between two awaits.  A call is a future under a      *)
(* timeout (main.rs:640, 1143): dropped at any await, it leaves behind     *)
(* what it has done so far.  Events and the contents of frames are left    *)
(* out; a notification changes nothing here.                               *)
(***************************************************************************)
EXTENDS FiniteSets

CONSTANTS Callers,    \* prompts and health checks that may overlap
          Checkers,   \* the health checks among them: repeated, with a timeout
          Processes,  \* bound: child processes somebody still knows of
          Ids,        \* bound: request ids in use at a time
          None        \* no process, no id

ASSUME CheckersAssumption == Checkers \subseteq Callers
ASSUME NoneAssumption == None \notin Processes \cup Ids

VARIABLES
    current,   \* RpcSideband.process
    process,   \* the children, their pipes, readers and pending maps
    caller     \* the calls: where each is, its RpcHandles, its request

vars == <<current, process, caller>>

Idle == [at |-> "idle", on |-> None, id |-> None]

(* `hears`, `open`: the child's ends of stdin and stdout; `todo`: requests *)
(* in its stdin or its hands; `replies`: frames the reader has not;        *)
(* `torn`: stdin ends in part of a line.                                   *)
Spawned == [up |-> TRUE, hears |-> TRUE, open |-> TRUE, reading |-> TRUE, pending |-> {},
            todo |-> {}, replies |-> {}, torn |-> FALSE]
Unused == [Spawned EXCEPT !.up = FALSE, !.hears = FALSE, !.open = FALSE, !.reading = FALSE]

Init == /\ current = None
        /\ process = [p \in Processes |-> Unused]
        /\ caller = [c \in Callers |-> Idle]

-------------------------------------------------------------------------------
At(c, places) == caller[c].at \in places
InCall(c) == caller[c].at # "idle"

(* The callers whose task holds an Arc of the process's pending map. *)
Dispatching(c) == At(c, {"inserting", "queued", "writing", "blocked", "resetting"})

(* Nobody can answer any more: the map is dropped, and with it the senders. *)
Orphaned(p) == /\ p # current
               /\ ~process[p].reading
               /\ \A c \in Callers : ~(Dispatching(c) /\ caller[c].on = p)

Forgotten(p) == ~process[p].up /\ p # current /\ \A c \in Callers : caller[c].on # p

(* fetch_add never repeats an id; one may stand for another that has left  *)
(* no trace.                                                               *)
InUse == {caller[c].id : c \in {d \in Callers : caller[d].id # None}}
         \cup (UNION {process[p].todo \cup process[p].replies : p \in Processes})

FreshId == CHOOSE id \in Ids \ InUse : TRUE

Dropped_Runs(r) == [r EXCEPT !.reading = FALSE]                      \* mutant

(* Dropping an RpcProcess: the reader is aborted, the child killed         *)
(* (kill_on_drop, or kill in reset_process).  Only the map may live on;    *)
(* its entries of calls given up, which nobody looks for, are left out.    *)
Dropped(r) == [Unused EXCEPT !.pending = r.pending \cap {caller[c].id : c \in Callers}]

DropCurrent ==
    /\ process' = [p \in Processes |-> IF p = current THEN Dropped(process[p]) ELSE process[p]]
    /\ current' = None

Call(c) == /\ ~InCall(c)
           /\ caller' = [caller EXCEPT ![c].at = "starting"]
           /\ UNCHANGED <<current, process>>

Usable_ExitOnly(p) == process[p].up                                  \* mutant

Usable(p) == process[p].up /\ process[p].reading

(* ensure_child, under the lock of `process`: use the child, or drop it    *)
(* and start another, which may fail.                                      *)
Use(c) ==
    /\ current # None /\ Usable(current)
    /\ caller' = [caller EXCEPT ![c].at = "inserting", ![c].on = current]
    /\ UNCHANGED <<current, process>>

Start(c) ==
    /\ current # None => ~Usable(current)
    /\ \E p \in Processes : Forgotten(p)
    /\ current' = CHOOSE p \in Processes : Forgotten(p)
    /\ process' = [p \in Processes |-> IF p = current' THEN Spawned
                      ELSE IF p = current THEN Dropped(process[p])
                      ELSE process[p]]
    /\ caller' = [caller EXCEPT ![c].at = "inserting", ![c].on = current']

StartFails(c) ==
    /\ current # None => ~Usable(current)
    /\ DropCurrent
    /\ caller' = [caller EXCEPT ![c] = Idle]

EnsureChild(c) == At(c, {"starting"}) /\ (Use(c) \/ Start(c) \/ StartFails(c))

Insert_OneSlot(c) ==                                                 \* mutant
    /\ At(c, {"inserting"})
    /\ Ids # InUse
    /\ caller' = [caller EXCEPT ![c].at = "queued", ![c].id = FreshId]
    /\ process' = [process EXCEPT ![caller[c].on].pending = {FreshId}]
    /\ UNCHANGED current

(* dispatch_request: take an id and register it in the handles' map, which *)
(* may by now belong to a process already failed or replaced.              *)
Insert(c) ==
    /\ At(c, {"inserting"})
    /\ Ids # InUse
    /\ caller' = [caller EXCEPT ![c].at = "queued", ![c].id = FreshId]
    /\ process' = [process EXCEPT ![caller[c].on].pending = @ \cup {FreshId}]
    /\ UNCHANGED current

Locked(p) == \E d \in Callers : caller[d].on = p /\ At(d, {"writing", "blocked", "resetting"})

(* The lock of stdin is kept until the write, or the reset after a failed  *)
(* write, is over.                                                         *)
LockStdin(c) ==
    /\ At(c, {"queued"})
    /\ ~Locked(caller[c].on)
    /\ caller' = [caller EXCEPT ![c].at = "writing"]
    /\ UNCHANGED <<current, process>>

(* The pipe is full in the middle of the line. *)
Blocks(c) == /\ At(c, {"writing"}) /\ process[caller[c].on].hears
             /\ caller' = [caller EXCEPT ![c].at = "blocked"]
             /\ UNCHANGED <<current, process>>

(* After a torn line the child reads both as one and makes nothing of it.  *)
(* A pipe nobody reads from any more, be the child there or not, refuses.  *)
Write(c) ==
    /\ At(c, {"writing", "blocked"})
    /\ LET p == caller[c].on
           r == process[p]
       IN  \/ /\ r.hears
              /\ process' = [process EXCEPT ![p].torn = FALSE,
                               ![p].todo = IF r.torn \/ ~r.open THEN @ ELSE @ \cup {caller[c].id}]
              /\ caller' = [caller EXCEPT ![c].at = "waiting"]
           \/ /\ ~r.hears
              /\ process' = [process EXCEPT ![p].pending = @ \ {caller[c].id}]
              /\ caller' = [caller EXCEPT ![c].at = "resetting"]
    /\ UNCHANGED current

(* reset_process takes whatever process is current by now. *)
Reset(c) ==
    /\ At(c, {"resetting"})
    /\ DropCurrent
    /\ caller' = [caller EXCEPT ![c] = Idle]

(* The sender of the caller's request is gone: failed, or dropped. *)
Disconnected(c) ==
    /\ At(c, {"waiting"})
    /\ \/ caller[c].id \notin process[caller[c].on].pending
       \/ Orphaned(caller[c].on)
    /\ caller' = [caller EXCEPT ![c] = Idle]
    /\ UNCHANGED <<current, process>>

(* The timeout around the call fires.  Its entry, and the part of the line *)
(* it may have written, stay.                                              *)
GiveUp(c) ==
    /\ InCall(c)
    /\ caller' = [caller EXCEPT ![c] = Idle]
    /\ process' = IF At(c, {"blocked"}) /\ process[caller[c].on].hears
                  THEN [process EXCEPT ![caller[c].on].torn = TRUE]
                  ELSE process
    /\ UNCHANGED current

-------------------------------------------------------------------------------
(* The reader task. *)

(* The callers that wait for a response to one of the requests. *)
Answered(p, requests) ==
    [c \in Callers |-> IF At(c, {"waiting"}) /\ caller[c].on = p /\ caller[c].id \in requests
                       THEN Idle ELSE caller[c]]

Route(p, id) ==
    /\ process[p].reading /\ id \in process[p].replies
    /\ process' = [process EXCEPT ![p].replies = @ \ {id}, ![p].pending = @ \ {id}]
    /\ caller' = Answered(p, {id} \cap process[p].pending)
    /\ UNCHANGED current

(* End of file, or a read error: fail_pending, and the task ends. *)
EndOfFile(p) ==
    /\ process[p].reading /\ ~process[p].open /\ process[p].replies = {}
    /\ process' = [process EXCEPT ![p].reading = FALSE, ![p].pending = {}]
    /\ caller' = Answered(p, process[p].pending)
    /\ UNCHANGED current

(* The child. *)
Reply(p, id) ==
    /\ id \in process[p].todo
    /\ process' = [process EXCEPT ![p].todo = @ \ {id}, ![p].replies = @ \cup {id}]
    /\ UNCHANGED <<current, caller>>

Exit(p) == /\ process[p].up
           /\ process' = [process EXCEPT ![p].up = FALSE, ![p].hears = FALSE, ![p].open = FALSE,
                                           ![p].todo = {}, ![p].torn = FALSE]
           /\ UNCHANGED <<current, caller>>

(* It closes its stdin and runs on: what it has not read is lost. *)
CloseStdin(p) == /\ process[p].hears
                 /\ \E read \in SUBSET process[p].todo :
                       process' = [process EXCEPT ![p].hears = FALSE, ![p].todo = read, ![p].torn = FALSE]
                 /\ UNCHANGED <<current, caller>>

(* It closes its stdout and runs on. *)
CloseStdout(p) == /\ process[p].open
                  /\ process' = [process EXCEPT ![p].open = FALSE, ![p].todo = {}]
                  /\ UNCHANGED <<current, caller>>

Dispatch(c) == EnsureChild(c) \/ Insert(c) \/ LockStdin(c) \/ Write(c) \/ Reset(c)

Next == \/ \E c \in Callers : \/ Call(c) \/ Dispatch(c) \/ Blocks(c)
                              \/ Disconnected(c) \/ GiveUp(c)
        \/ \E p \in Processes : \/ EndOfFile(p) \/ Exit(p) \/ CloseStdin(p) \/ CloseStdout(p)
                                \/ \E id \in Ids : Route(p, id) \/ Reply(p, id)

WaitsForOthers(c) == \/ At(c, {"blocked", "waiting"})
                     \/ At(c, {"queued"}) /\ Locked(caller[c].on)

(* Tokio's locks are queues and its tasks are polled, so a call makes its  *)
(* way whatever others do; a child reads its stdin and answers what it has *)
(* read while its ends of the pipes are open; health checks come again and *)
(* again and end by their timeout.  Its three seconds are over between two *)
(* steps that wait for nobody a few times at most.  Nothing is assumed of  *)
(* a prompt's timeout.                                                     *)
Fairness ==
    /\ \A c \in Callers : SF_vars(Dispatch(c)) /\ WF_vars(Disconnected(c))
    /\ \A c \in Checkers : /\ WF_vars(Call(c)) /\ WF_vars(GiveUp(c))
                           /\ <>[][GiveUp(c) => WaitsForOthers(c)]_vars
    /\ \A p \in Processes : /\ WF_vars(EndOfFile(p))
                            /\ \A id \in Ids : WF_vars(Route(p, id)) /\ WF_vars(Reply(p, id))

Spec == Init /\ [][Next]_vars
FairSpec == Spec /\ Fairness

-------------------------------------------------------------------------------
Places == {"idle", "starting", "inserting", "queued", "writing", "blocked", "resetting", "waiting"}
ProcessType == [up : BOOLEAN, hears : BOOLEAN, open : BOOLEAN, reading : BOOLEAN, pending : SUBSET Ids,
                todo : SUBSET Ids, replies : SUBSET Ids, torn : BOOLEAN]

(* Every variable has its type, and a call knows its process and request   *)
(* exactly while it needs them.                                            *)
TypeOK ==
    /\ current \in Processes \cup {None}
    /\ process \in [Processes -> ProcessType]
    /\ caller \in [Callers -> [at : Places, on : Processes \cup {None}, id : Ids \cup {None}]]
    /\ \A c \in Callers : /\ caller[c].on = None <=> At(c, {"idle", "starting"})
                          /\ caller[c].id = None <=> At(c, {"idle", "starting", "inserting"})

(* At most one child runs, the current one: no restart, reset or abandoned *)
(* call leaves an orphan.                                                  *)
OneChild == \A p \in Processes : process[p].up => p = current

(* Calls that wait at the same time wait for different requests, and what  *)
(* the child still owes to one of them finds the entry when it comes.      *)
AnswersFindCallers ==
    \A c \in Callers : At(c, {"waiting"}) =>
        /\ \A d \in Callers \ {c} : caller[d].id # caller[c].id
        /\ LET r == process[caller[c].on]
           IN  r.reading /\ caller[c].id \in r.todo \cup r.replies => caller[c].id \in r.pending

(* The inductive invariant behind them: a request not yet written is in    *)
(* the map of its process, as long as that is read, and nowhere else.      *)
IdsDistinct ==
    \A c, d \in Callers : caller[c].id = caller[d].id /\ caller[c].id # None => c = d

UnsentAreKnown ==
    \A c \in Callers : At(c, {"queued", "writing", "blocked"}) =>
        /\ process[caller[c].on].reading => caller[c].id \in process[caller[c].on].pending
        /\ \A p \in Processes : caller[c].id \notin process[p].todo \cup process[p].replies

IInv == TypeOK /\ OneChild /\ IdsDistinct /\ UnsentAreKnown /\ AnswersFindCallers

(* The line was read together with what an abandoned call had left.        *)
Garbled(c) == /\ At(c, {"waiting"})
              /\ LET r == process[caller[c].on]
                 IN  r.hears /\ r.reading /\ caller[c].id \in r.pending \ (r.todo \cup r.replies)

(* Without help of its own timeout every call ends: by its answer, by the  *)
(* child's end, or by a restart, also when the child lost its request by   *)
(* closing its stdin (rpc.rs:193); unless its line was garbled.            *)
EveryCallEnds == \A c \in Callers : InCall(c) ~> (~InCall(c) \/ Garbled(c))
===============================================================================
