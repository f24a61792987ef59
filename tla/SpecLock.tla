------------------------------ MODULE SpecLock ------------------------------
(***************************************************************************)
(* WithSpecLock: the lock file specd.lock that serialises the invocations  *)
(* of one root, re-entered by the goroutine that holds it and taken over   *)
(* from a holder that died.  The authority lock of the delegation ledger   *)
(* is the same algorithm on another file.                                  *)
(*                                                                         *)
(* An action is the code between two system calls, so goroutines of one or *)
(* several processes interleave at each of them.  Time is relative: every  *)
(* timestamp is kept as its age, and Tick lets everything grow older.      *)
(***************************************************************************)
EXTENDS Integers, FiniteSets

CONSTANTS
    Threads,     \* goroutines that call WithSpecLock
    Process,     \* Process[t]: the process t runs in
    None,        \* no file, no owner
    Timeout,     \* lockTimeout
    Stale,       \* lockStale
    MaxDepth,    \* bound: nested WithSpecLock calls
    MaxPause,    \* bound: ticks an attempt takes until it has looked at the file
    MaxHold,     \* bound: ticks from the winning attempt to the last unlock
    MaxFaults    \* bound: processes that die, lock files that cannot be written

ASSUME LockAssumption ==
    /\ {Timeout, Stale, MaxDepth, MaxPause, MaxHold, MaxFaults} \subseteq Nat
    /\ MaxPause <= MaxHold

\* The environment: no critical section, and no pause of its goroutine, lasts
\* longer than lockStale.
ASSUME HoldAssumption == MaxHold <= Stale

VARIABLES
    file,        \* specd.lock: who created it, whether it is stamped, its age
    pc,          \* where each goroutine is
    age,         \* ticks since the attempt read its clock
    waited,      \* ticks since WithSpecLock began to wait
    frames,      \* calls of WithSpecLock on the stack that have the lock
    owner,       \* lockState.owner of each process
    depth,       \* lockState.depth of each process
    faults

vars == <<file, pc, age, waited, frames, owner, depth, faults>>

\* Ages beyond these are all alike.
MaxAge == Stale + MaxPause + MaxHold + 1
Oldest(n, cap) == IF n < cap THEN n + 1 ELSE cap

File == [by: Threads, stamped: BOOLEAN, age: 0 .. MaxAge]
Processes == {Process[t] : t \in Threads}

ASSUME NoneAssumption == None \notin Threads \cup File

TypeOK ==
    /\ file \in File \cup {None}
    /\ pc \in [Threads -> {"run", "create", "stamp", "own", "inspect", "remove", "wait"}]
    /\ age \in [Threads -> 0 .. MaxAge]
    /\ waited \in [Threads -> 0 .. Timeout + 1]
    /\ frames \in [Threads -> 0 .. MaxDepth]
    /\ owner \in [Processes -> Threads \cup {None}]
    /\ depth \in [Processes -> Int]
    /\ faults \in 0 .. MaxFaults

Goto(t, l) == pc' = [pc EXCEPT ![t] = l]

\* The clock is read before the file is opened.
Attempt(t) == Goto(t, "create") /\ age' = [age EXCEPT ![t] = 0]

\* WithSpecLock: the goroutine that owns the lock goes straight in.
Enter(t) ==
    /\ pc[t] = "run" /\ frames[t] < MaxDepth
    /\ \/ /\ owner[Process[t]] = t
          /\ depth' = [depth EXCEPT ![Process[t]] = @ + 1]
          /\ frames' = [frames EXCEPT ![t] = @ + 1]
          /\ UNCHANGED <<pc, age, waited>>
       \/ /\ owner[Process[t]] # t
          /\ Attempt(t)
          /\ waited' = [waited EXCEPT ![t] = 0]
          /\ UNCHANGED <<frames, depth>>
    /\ UNCHANGED <<file, owner, faults>>

\* O_CREATE|O_EXCL: the winner has an empty file.
Create(t) ==
    /\ pc[t] = "create"
    /\ IF file = None
       THEN file' = [by |-> t, stamped |-> FALSE, age |-> 0] /\ Goto(t, "stamp")
       ELSE Goto(t, "inspect") /\ UNCHANGED file
    /\ UNCHANGED <<age, waited, frames, owner, depth, faults>>

\* Pid and timestamp go into the file it created, wherever that is by now.
Stamp(t) ==
    /\ pc[t] = "stamp"
    /\ file' = IF file # None /\ file.by = t
               THEN [file EXCEPT !.stamped = TRUE, !.age = age[t]]
               ELSE file
    /\ Goto(t, "own")
    /\ UNCHANGED <<age, waited, frames, owner, depth, faults>>

\* A failed write returns the error and leaves the empty file behind.
StampFails(t) ==
    /\ pc[t] = "stamp" /\ faults < MaxFaults
    /\ faults' = faults + 1
    /\ Goto(t, "run")
    /\ UNCHANGED <<file, age, waited, frames, owner, depth>>

Own(t) ==
    /\ pc[t] = "own"
    /\ owner' = [owner EXCEPT ![Process[t]] = t]
    /\ depth' = [depth EXCEPT ![Process[t]] = 1]
    /\ frames' = [frames EXCEPT ![t] = @ + 1]
    /\ Goto(t, "run")
    /\ UNCHANGED <<file, age, waited, faults>>

\* By its timestamp, or by its modification time while it has none, the file is
\* older than any holder should be at the clock the attempt has read.
LockIsStale_Unstamped(t) == file # None /\ (file.stamped => file.age - age[t] > Stale)
LockIsStale_Stamped(t) == file # None /\ file.stamped /\ file.age - age[t] > Stale
LockIsStale(t) == file # None /\ file.age - age[t] > Stale

Inspect(t) ==
    /\ pc[t] = "inspect"
    /\ Goto(t, IF LockIsStale(t) THEN "remove" ELSE "wait")
    /\ UNCHANGED <<file, age, waited, frames, owner, depth, faults>>

\* os.Remove of the path, whatever file it names by now.
Remove(t) ==
    /\ pc[t] = "remove"
    /\ file' = None
    /\ Goto(t, "wait")
    /\ UNCHANGED <<age, waited, frames, owner, depth, faults>>

Expired_Never(t) == FALSE
Expired(t) == waited[t] > Timeout

\* "spec lock timeout", or 25 ms later another attempt.
Retry(t) ==
    /\ pc[t] = "wait"
    /\ IF Expired(t) THEN Goto(t, "run") /\ UNCHANGED age ELSE Attempt(t)
    /\ UNCHANGED <<file, waited, frames, owner, depth, faults>>

\* The outermost unlock clears the owner and removes the path.
Unlock(t) ==
    /\ pc[t] = "run" /\ frames[t] > 0
    /\ frames' = [frames EXCEPT ![t] = @ - 1]
    /\ depth' = [depth EXCEPT ![Process[t]] = @ - 1]
    /\ IF depth[Process[t]] > 1
       THEN UNCHANGED <<owner, file>>
       ELSE owner' = [owner EXCEPT ![Process[t]] = None] /\ file' = None
    /\ UNCHANGED <<pc, age, waited, faults>>

\* A process dies: its goroutines and their memory are gone, the file is not.
Die(q) ==
    /\ faults < MaxFaults
    /\ \E t \in Threads : Process[t] = q /\ (pc[t] # "run" \/ frames[t] > 0)
    /\ faults' = faults + 1
    /\ pc' = [t \in Threads |-> IF Process[t] = q THEN "run" ELSE pc[t]]
    /\ frames' = [t \in Threads |-> IF Process[t] = q THEN 0 ELSE frames[t]]
    /\ owner' = [owner EXCEPT ![q] = None]
    /\ depth' = [depth EXCEPT ![q] = 0]
    /\ UNCHANGED <<file, age, waited>>

\* How long t may stay where it is.
Patient(t) ==
    /\ pc[t] \in {"create", "inspect"} => age[t] < MaxPause
    /\ pc[t] \in {"stamp", "own"} \/ frames[t] > 0 => age[t] < MaxHold

Tick ==
    /\ \A t \in Threads : Patient(t)
    /\ file' = IF file = None THEN None ELSE [file EXCEPT !.age = Oldest(@, MaxAge)]
    /\ age' = [t \in Threads |->
                  IF pc[t] \in {"create", "inspect", "stamp", "own"} \/ frames[t] > 0
                  THEN age[t] + 1 ELSE age[t]]
    /\ waited' = [t \in Threads |->
                     IF pc[t] = "run" THEN waited[t] ELSE Oldest(waited[t], Timeout + 1)]
    /\ UNCHANGED <<pc, frames, owner, depth, faults>>

Init ==
    /\ file = None
    /\ pc = [t \in Threads |-> "run"]
    /\ age = [t \in Threads |-> 0] /\ waited = age
    /\ frames = [t \in Threads |-> 0]
    /\ owner = [q \in Processes |-> None]
    /\ depth = [q \in Processes |-> 0]
    /\ faults = 0

Work(t) ==
    \/ Create(t) \/ Stamp(t) \/ Own(t) \/ Inspect(t) \/ Remove(t) \/ Retry(t) \/ Unlock(t)

Next ==
    \/ \E t \in Threads : Enter(t) \/ Work(t) \/ StampFails(t)
    \/ \E q \in Processes : Die(q)
    \/ Tick

Spec == Init /\ [][Next]_vars

\* Goroutines go on, time passes (a pause only ever ends by the goroutine's own
\* step), every critical section ends, and every goroutine calls WithSpecLock
\* again and again.
Fairness ==
    /\ SF_vars(Tick)
    /\ \A t \in Threads :
          /\ WF_vars(Work(t)) /\ SF_vars(frames[t] = 1 /\ Unlock(t))
          /\ WF_vars(frames[t] = 0 /\ Enter(t))

FairSpec == Spec /\ Fairness

-----------------------------------------------------------------------------
(* The inductive invariant: while nothing has failed, a goroutine that won the *)
(* file has it until the outermost unlock, and nobody finds it stale.          *)

Inside(t) == frames[t] > 0
Has(t) == pc[t] \in {"stamp", "own"} \/ Inside(t)

FileSound ==
    /\ file # None => \E t \in Threads : Has(t)
    /\ \A t \in Threads : Has(t) =>
          /\ file # None /\ file.by = t
          /\ file.age <= age[t] /\ age[t] <= MaxHold

MemorySound ==
    /\ \A t \in Threads : Inside(t) =>
          owner[Process[t]] = t /\ depth[Process[t]] = frames[t]
    /\ \A t \in Threads : owner[Process[t]] = t => Inside(t)

CallsSound ==
    \A t \in Threads :
        /\ pc[t] # "remove"
        /\ pc[t] # "run" => ~Inside(t)
        /\ pc[t] = "create" => age[t] <= MaxPause

IInv ==
    /\ TypeOK
    /\ \A t \in Threads : pc[t] # "run" => frames[t] < MaxDepth
    /\ faults = 0 => FileSound /\ MemorySound /\ CallsSound

-----------------------------------------------------------------------------
(* Properties *)

\* WithSpecLock serialises harness work: no two goroutines, of one process or of
\* two, are inside at the same time.
MutualExclusion ==
    \A s, t \in Threads : Inside(s) /\ Inside(t) => s = t

\* As long as no process has died and every lock file could be written, the lock
\* excludes, although the file is empty between its creation and its stamp.
ExclusiveWithoutFaults == faults = 0 => MutualExclusion

\* ... and a holder's lock stays its own until the outermost unlock: file, owner
\* and depth agree with the calls on its stack.
HolderKeepsLock ==
    faults = 0 =>
        \A t \in Threads : Inside(t) =>
            /\ file # None /\ file.by = t
            /\ owner[Process[t]] = t
            /\ depth[Process[t]] = frames[t]

\* Every call comes back, with the lock or with the time-out.
CallReturns == \A t \in Threads : pc[t] = "create" ~> pc[t] = "run"

\* A file whose creator died or failed, stamped or not, does not lock the root
\* for ever.
Orphan ==
    /\ file # None
    /\ pc[file.by] \notin {"stamp", "own"} /\ ~Inside(file.by)
OrphanReclaimed == Orphan ~> ~Orphan

=============================================================================
