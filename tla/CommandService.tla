---------------------------- MODULE CommandService ----------------------------
(***************************************************************************)
(* What the AT channel promises the callers of at_send_command*, with no   *)
(* threads, mutex, condition variable or kinds of lines in it: one command *)
(* is outstanding at a time; the lines of the modem are read one by one    *)
(* and in order; the final response that is read while a command is        *)
(* outstanding is that command's answer, and no other is ever given to a   *)
(* caller, nor any twice; a command ends with its answer, with the loss of *)
(* the channel, or without an answer.                                      *)
(***************************************************************************)
EXTENDS Sequences, SequencesExt

CONSTANTS
    Clients, \* the callers
    Answers, \* the lines that are final responses
    None     \* no answer

VARIABLES
    outstanding, \* per client: is its command outstanding?
    wire,        \* the lines on their way from the modem
    answer,      \* the answer of the outstanding command
    lost,        \* the channel is lost
    told         \* per client: what its last command returned
vars == <<outstanding, wire, answer, lost, told>>

Outcome(err, final) == [err |-> err, final |-> final]
NoOutcome == Outcome("none", None)

Init ==
    /\ outstanding = [c \in Clients |-> FALSE] /\ told = [c \in Clients |-> NoOutcome]
    /\ wire = <<>> /\ answer = None /\ lost = FALSE

\* A caller comes; and its command is issued, when no other is outstanding
Ask(c) ==
    /\ ~outstanding[c]
    /\ told' = [told EXCEPT ![c] = NoOutcome]
    /\ UNCHANGED <<outstanding, wire, answer, lost>>
Issue(c) ==
    /\ \A d \in Clients : ~outstanding[d]
    /\ answer = None
    /\ outstanding' = [outstanding EXCEPT ![c] = TRUE]
    /\ UNCHANGED <<wire, answer, lost, told>>

\* The next line is read
Read ==
    /\ wire # <<>>
    /\ wire' = Tail(wire)
    /\ answer' = IF Head(wire) \in Answers /\ (\E c \in Clients : outstanding[c])
                 THEN Head(wire) ELSE answer
    /\ UNCHANGED <<outstanding, lost, told>>

Return(c, outcome) ==
    /\ outstanding[c]
    /\ outstanding' = [outstanding EXCEPT ![c] = FALSE]
    /\ told' = [told EXCEPT ![c] = outcome]
    /\ answer' = None
    /\ UNCHANGED <<wire, lost>>

\* The command ends with its answer; with the loss of the channel, and
\* whatever answer there is; or without either
Finish(c) ==
    /\ ~lost /\ answer # None
    /\ \E err \in {"OK", "INVALID"} : Return(c, Outcome(err, answer))
Fail(c) == lost /\ \E final \in {answer, None} : Return(c, Outcome("CLOSED", final))
GiveUp(c) == \E err \in {"TIMEOUT", "GENERIC"} : Return(c, Outcome(err, None))

\* The modem writes; it is gone, and what it wrote; the reader notices
Say ==
    /\ IsPrefix(wire, wire')
    /\ UNCHANGED <<outstanding, answer, lost, told>>
Cut ==
    /\ wire' = <<>>
    /\ UNCHANGED <<outstanding, answer, lost, told>>
Lose ==
    /\ lost' = TRUE
    /\ UNCHANGED <<outstanding, wire, answer, told>>

Next ==
    \/ \E c \in Clients : Ask(c) \/ Issue(c) \/ Finish(c) \/ Fail(c) \/ GiveUp(c)
    \/ Read \/ Say \/ Cut \/ Lose

Spec == Init /\ [][Next]_vars
=============================================================================
