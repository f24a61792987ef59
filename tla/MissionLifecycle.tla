-------------------------- MODULE MissionLifecycle --------------------------
(***************************************************************************)
(* What the brain promises about missions, whatever invocations interleave *)
(* or crash: a mission is offered, granted to one worker at most once in   *)
(* its life, and only while no other grant is live.  BrainSession's        *)
(* session.json implements it.                                             *)
(***************************************************************************)
CONSTANTS Missions,  \* mission ids
          Nobody     \* no live grant

VARIABLES offered,   \* missions a worker may claim
          granted,   \* missions granted so far
          holder     \* the mission whose grant is live, or Nobody

vars == <<offered, granted, holder>>

Init == offered = {} /\ granted = {} /\ holder = Nobody

\* The controller offers missions, never one already granted, and may end the
\* live grant: time-out, report, release, cancellation and re-issue look alike.
Turn ==
    /\ offered' \in SUBSET (Missions \ granted) /\ offered \subseteq offered'
    /\ holder' \in {holder, Nobody}
    /\ UNCHANGED granted

\* A worker claims an offered mission, now the only live grant.
Grant(m) ==
    /\ m \in offered /\ holder = Nobody
    /\ offered' = offered \ {m}
    /\ granted' = granted \cup {m}
    /\ holder' = m

Next == Turn \/ \E m \in offered : Grant(m)

Spec == Init /\ [][Next]_vars

=============================================================================
