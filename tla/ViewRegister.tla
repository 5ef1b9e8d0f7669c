---------------------------- MODULE ViewRegister ----------------------------
(***************************************************************************)
(* What GET and PUT /api/resource-views promise: one register.  A call     *)
(* takes effect at one moment between its invocation and its answer: a PUT *)
(* replaces the whole list and answers with what the register now holds, a *)
(* GET answers with what it holds, and a call that answers with an error   *)
(* changed nothing.  When the server stops, the open calls are lost and a  *)
(* durable register keeps its value.                                       *)
(***************************************************************************)
CONSTANTS
    Calls,      \* identifiers of calls
    Values,     \* what the register can hold
    Empty,      \* what it holds when nothing was ever saved
    Unreadable, \* a value that a GET cannot make sense of
    Errors,     \* the error answers
    NoAnswer    \* while there is none

VARIABLES
    durable,    \* does it survive a restart?
    value,      \* the register
    status,     \* status[c] \in {"new", "open", "effective", "answered", "lost"}
    answer      \* answer[c], NoAnswer before the effect

vars == <<durable, value, status, answer>>

Init ==
    /\ durable \in BOOLEAN
    /\ value \in Values \cup {Empty, Unreadable}
    /\ status = [c \in Calls |-> "new"]
    /\ answer = [c \in Calls |-> NoAnswer]

Invoke(c) ==
    /\ status[c] = "new"
    /\ status' = [status EXCEPT ![c] = "open"]
    /\ UNCHANGED <<durable, value, answer>>

\* A call may be refused the moment it arrives.
TakeEffect(c, from, result) ==
    /\ status[c] \in from
    /\ status' = [status EXCEPT ![c] = "effective"]
    /\ answer' = [answer EXCEPT ![c] = result]

Read(c) == TakeEffect(c, {"open"}, value) /\ value # Unreadable /\ UNCHANGED <<durable, value>>

Write(c) == value' \in Values /\ TakeEffect(c, {"open"}, value') /\ UNCHANGED durable

Fail(c) == \E e \in Errors : TakeEffect(c, {"new", "open"}, e) /\ UNCHANGED <<durable, value>>

Answer(c) ==
    /\ status[c] = "effective"
    /\ status' = [status EXCEPT ![c] = "answered"]
    /\ UNCHANGED <<durable, value, answer>>

Restart ==
    LET Lost(c) == status[c] \in {"open", "effective"}
    IN /\ status' = [c \in Calls |-> IF Lost(c) THEN "lost" ELSE status[c]]
       /\ answer' = [c \in Calls |-> IF Lost(c) THEN NoAnswer ELSE answer[c]]
       /\ value' = IF durable THEN value ELSE Empty
       /\ UNCHANGED durable

Next ==
    \/ \E c \in Calls : Invoke(c) \/ Read(c) \/ Write(c) \/ Fail(c) \/ Answer(c)
    \/ Restart

Spec == Init /\ [][Next]_vars
=============================================================================
