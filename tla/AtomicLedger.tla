---------------------------- MODULE AtomicLedger ----------------------------
(***************************************************************************)
(* What the workflow ledger promises of a repair: it happens in one step,  *)
(* when its event lands.  state.json and tasks.md are then as the event    *)
(* has them, and no crash, failing write, recovery or refused command is   *)
(* ever seen in between.  The promise ends where a command or a person     *)
(* writes one of the two files beside the ledger, until the next repair.   *)
(* Workflow's files implement it.                                          *)
(***************************************************************************)
EXTENDS Integers, Sequences

CONSTANTS State,   \* contents of state.json
          Doc      \* contents of tasks.md

VARIABLES events,  \* the events in the ledger
          state,   \* state.json and
          doc,     \*   tasks.md, as the next command finds them
          beside   \* one of them was written beside the ledger

vars == <<events, state, doc, beside>>

Last(s) == s[Len(s)]

\* What an event makes of state.json.
Outcome(e) ==
    [rev |-> e.res, last |-> e.res, status |-> e.status, records |-> e.records]

Init ==
    /\ events = <<>>
    /\ state \in State /\ state.last = 0
    /\ doc \in Doc
    /\ beside = FALSE

\* A repair builds its event on the files as they are, at the revision the
\* event before it ended at, and both files are as the event has them at once.
Repair(e) ==
    /\ e.exp = state.rev /\ e.res = state.rev + 1
    /\ e.before = doc /\ e.records = state.records
    /\ events # <<>> => Last(events).res = state.rev
    /\ events' = Append(events, e)
    /\ state' = Outcome(e)
    /\ doc' = e.after
    /\ beside' = FALSE

\* The other writers: they append nothing and drop no record, but may save a
\* state.json that an event is not in.
Beside ==
    /\ state' \in State /\ state'.records >= state.records
    /\ doc' \in Doc
    /\ beside' = TRUE
    /\ UNCHANGED events

\* The event of a repair is the one its step adds.
Next == Beside \/ \E i \in DOMAIN events' \ DOMAIN events : Repair(events'[i])

Spec == Init /\ [][Next]_vars

=============================================================================
