------------------------------ MODULE RuntimeCalls ------------------------------
(***************************************************************************)
(* What the workflow engine relies on when it calls its runtime: a call is *)
(* answered once, nothing else than an answer ends it, and every call is   *)
(* answered eventually, unless the application stops.  EventLoop           *)
(* implements this specification.                                          *)
(***************************************************************************)
CONSTANT Clients

VARIABLES call,     \* the outstanding call of each client, or "none"
          stopped   \* whether the application has shut down

vars == <<call, stopped>>

Init == /\ call = [c \in Clients |-> "none"]
        /\ stopped = FALSE

Call(c) == /\ call[c] = "none"
           /\ \E kind \in {"spawn", "send", "kill"} : call' = [call EXCEPT ![c] = kind]
           /\ UNCHANGED stopped

Answered(S) == [c \in Clients |-> IF c \in S THEN "none" ELSE call[c]]

(* Several calls may be answered at once. *)
Answer == /\ \E S \in SUBSET Clients : call' = Answered(S)
          /\ UNCHANGED stopped

Stop == /\ stopped' = TRUE
        /\ \E S \in SUBSET Clients : call' = Answered(S)

Next == Answer \/ Stop \/ \E c \in Clients : Call(c)

(* What never goes wrong ... *)
Safety == Init /\ [][Next]_vars

(* ... and the promise to each client. *)
Promise(c) == call[c] # "none" ~> (call[c] = "none" \/ stopped)

Spec == Safety /\ \A c \in Clients : Promise(c)
===============================================================================
