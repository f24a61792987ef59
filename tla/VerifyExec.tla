----------------------------- MODULE VerifyExec -----------------------------
(***************************************************************************)
(* One run of a task's verify command (core/verify/exec.go) and the work   *)
(* tree it may put back (withRevertOnFail in cmd/verify.go).               *)
(*                                                                         *)
(* The shell and the helpers it starts write to two pipes; one goroutine   *)
(* for each pipe copies them into buffers that share an output budget; the *)
(* deadline and the budget both cancel the context the shell runs under;   *)
(* cmd.Run returns when the shell is gone and both pipes are at their end. *)
(* While the command runs, a neighbour (another specd process, an editor)  *)
(* may write the same files: verify holds no lock.                         *)
(*                                                                         *)
(* A file is the set of those who changed it since it was last staged, and *)
(* a git patch is what it says of each file.  Contents of the output,      *)
(* redaction and the environment are left out.                             *)
(* The specification's own names begin with VX: Commands_proofs extends    *)
(* this module beside others.                                              *)
(***************************************************************************)
EXTENDS Naturals

CONSTANTS Files,       \* tracked files
          Limit,       \* output budget, in chunks; 0: unlimited
          PipeSize,    \* bound: chunks a pipe holds
          MaxWritten,  \* bound: chunks the command writes
          MaxTreeEdits     \* bound: edits of the work tree during the run

ASSUME BoundsAssumption == {Limit, PipeSize, MaxWritten, MaxTreeEdits} \subseteq Nat

VARIABLES opts,      \* the options of the run
          pc,        \* where runVerify is
          shell,     \* the process cmd.Run started, and how it ended
          helper,    \* a process the shell started still holds the pipes
          pipe, got, \* chunks in each pipe, and in each buffer
          left,      \* the budget that remains
          exceeded,  \* outputBudget.exceeded
          late,      \* the deadline has passed
          exit,      \* Result.ExitCode
          worktree,  \* who changed each file since it was staged
          before, after,   \* the two patches
          written, treeEdits, alone, start  \* history: chunks written, edits, no
                                            \* neighbour wrote, first tree

exec == <<shell, helper, pipe, got, left, exceeded, written>>
work == <<worktree, treeEdits, alone>>
patches == <<before, after>>
vxvars == <<opts, pc, exec, late, exit, work, patches, start>>

Streams == {"out", "err"}
Editors == {"operator", "command", "neighbour"}

TimeoutExitCode == 124
LimitExitCode == 125
NoTestsExitCode == 126

\* empty: a go test selector whose output says that no test ran.
ShellStates == {"none", "running", "passed", "empty", "failed", "killed"}

\* gitDiff: the files that differ from what is staged.
GitDiff == [f \in {g \in Files : worktree[g] # {}} |-> worktree[f]]

\* git apply changes every file of a patch, or none when one does not fit.
Patched(t, patch, reverse) ==
    LET fits == \A f \in DOMAIN patch : t[f] = IF reverse THEN patch[f] ELSE {}
    IN [f \in Files |-> IF fits /\ f \in DOMAIN patch
                        THEN (IF reverse THEN {} ELSE patch[f]) ELSE t[f]]

NoPatch == [f \in {} |-> {}]

VXInit == /\ opts \in [sandbox : BOOLEAN, timed : BOOLEAN, revert : BOOLEAN]
          /\ pc = "before" /\ shell = "none" /\ helper = FALSE
          /\ pipe = [s \in Streams |-> 0] /\ got = [s \in Streams |-> 0]
          /\ left = Limit /\ exceeded = FALSE /\ late = FALSE /\ exit = 0
          /\ worktree \in [Files -> {{}, {"operator"}}] /\ start = worktree
          /\ before = NoPatch /\ after = NoPatch
          /\ written = 0 /\ treeEdits = 0 /\ alone = TRUE

Alive == shell = "running" \/ helper

Cancelled == late \/ exceeded

------------------------------------------------------------------------------
(* The command *)

\* cmd.Start, after the patch of what the operator had not staged.
Begin == /\ pc = "before" /\ pc' = "run"
         /\ before' = IF opts.revert THEN GitDiff ELSE NoPatch
         /\ shell' = "running"
         /\ UNCHANGED <<opts, helper, pipe, got, left, exceeded, written, late, exit, work,
                        after, start>>

\* A chunk goes into a pipe that has room; a full pipe blocks the writer.
Write(s) == /\ Alive /\ written < MaxWritten /\ pipe[s] < PipeSize
            /\ pipe' = [pipe EXCEPT ![s] = @ + 1]
            /\ written' = written + 1
            /\ UNCHANGED <<opts, pc, shell, helper, got, left, exceeded, late, exit, work,
                           patches, start>>

Fork == /\ shell = "running" /\ ~helper /\ helper' = TRUE
        /\ UNCHANGED <<opts, pc, shell, pipe, got, left, exceeded, written, late, exit, work,
                       patches, start>>

HelperEnds == /\ helper /\ helper' = FALSE
              /\ UNCHANGED <<opts, pc, shell, pipe, got, left, exceeded, written, late, exit,
                             work, patches, start>>

ShellEnds(how) == /\ shell = "running" /\ shell' = how
                  /\ UNCHANGED <<opts, pc, helper, pipe, got, left, exceeded, written, late,
                                 exit, work, patches, start>>

EditFile(who, f, content) ==
    /\ treeEdits < MaxTreeEdits /\ treeEdits' = treeEdits + 1
    /\ worktree' = [worktree EXCEPT ![f] = content]
    /\ alone' = (alone /\ who = "command")
    /\ UNCHANGED <<opts, pc, exec, late, exit, patches, start>>

\* The command changes a file, or checks it out again.
CommandEdits(f) == /\ Alive
                   /\ \E c \in {worktree[f] \cup {"command"}, {}} : EditFile("command", f, c)

NeighbourEdits(f) == /\ pc \notin {"before", "done"}
                     /\ EditFile("neighbour", f, worktree[f] \cup {"neighbour"})

------------------------------------------------------------------------------
(* core/verify/exec.go *)

\* Mutant: nothing is read once the budget is exceeded.
Copy_Stops(s) ==
    ~exceeded /\
    \E n \in 1..pipe[s] :
       LET kept == IF Limit > 0 /\ n > left THEN left ELSE n
       IN /\ pipe' = [pipe EXCEPT ![s] = @ - n]
          /\ got' = [got EXCEPT ![s] = @ + kept]
          /\ left' = IF Limit > 0 THEN left - kept ELSE left
          /\ exceeded' = (exceeded \/ kept < n)
          /\ UNCHANGED <<opts, pc, shell, helper, written, late, exit, work, patches, start>>

\* budgetWriter.Write of what the copier read, under the mutex; it reports all
\* of it as written, so the copier goes on and the pipe never stays full.
Copy(s) ==
    \E n \in 1..pipe[s] :
       LET kept == IF Limit > 0 /\ n > left THEN left ELSE n
       IN /\ pipe' = [pipe EXCEPT ![s] = @ - n]
          /\ got' = [got EXCEPT ![s] = @ + kept]
          /\ left' = IF Limit > 0 THEN left - kept ELSE left
          /\ exceeded' = (exceeded \/ kept < n)
          /\ UNCHANGED <<opts, pc, shell, helper, written, late, exit, work, patches, start>>

Deadline == /\ opts.timed /\ pc = "run" /\ ~late /\ late' = TRUE
            /\ UNCHANGED <<opts, pc, exec, exit, work, patches, start>>

\* exec.CommandContext kills the process it started; a shell leaves its
\* children behind.
Kill == /\ Cancelled /\ pc = "run" /\ shell = "running" /\ shell' = "killed"
        /\ UNCHANGED <<opts, pc, helper, pipe, got, left, exceeded, written, late, exit, work,
                       patches, start>>

\* bwrap takes with it all it jails.
Reap == /\ opts.sandbox /\ shell # "running" /\ helper /\ helper' = FALSE
        /\ UNCHANGED <<opts, pc, shell, pipe, got, left, exceeded, written, late, exit, work,
                       patches, start>>

\* Mutant: how the shell ended comes first.
Classified_ExitFirst ==
    CASE shell = "passed" -> 0
      [] shell = "empty" -> NoTestsExitCode
      [] shell = "failed" -> 1
      [] exceeded -> LimitExitCode
      [] late -> TimeoutExitCode
      [] OTHER -> 1

\* What Run makes of it: the budget first, the deadline next.
Classified ==
    CASE exceeded -> LimitExitCode
      [] ~exceeded /\ late -> TimeoutExitCode
      [] ~Cancelled /\ shell = "passed" -> 0
      [] ~Cancelled /\ shell = "empty" -> NoTestsExitCode
      [] OTHER -> 1

\* The pipes are at their end when nobody is left to write them.
Drained == ~Alive /\ \A s \in Streams : pipe[s] = 0

Return == /\ pc = "run" /\ Drained
          /\ exit' = Classified
          /\ pc' = IF opts.revert /\ exit' # 0 THEN "after" ELSE "done"
          /\ UNCHANGED <<opts, exec, late, work, patches, start>>

------------------------------------------------------------------------------
(* withRevertOnFail *)

TakeAfter == /\ pc = "after" /\ pc' = "unapply"
             /\ after' = GitDiff
             /\ UNCHANGED <<opts, exec, late, exit, work, before, start>>

\* Mutant: the changes of the run stay.
Unapply_Skip == /\ pc = "unapply" /\ pc' = "reapply"
                /\ UNCHANGED <<opts, exec, late, exit, work, patches, start>>

\* A patch that does not apply is ignored.
Unapply == /\ pc = "unapply" /\ pc' = "reapply"
           /\ worktree' = Patched(worktree, after, TRUE)
           /\ UNCHANGED <<opts, exec, late, exit, treeEdits, alone, patches, start>>

Reapply == /\ pc = "reapply" /\ pc' = "done"
           /\ worktree' = Patched(worktree, before, FALSE)
           /\ UNCHANGED <<opts, exec, late, exit, treeEdits, alone, patches, start>>

------------------------------------------------------------------------------
Command == \/ \E s \in Streams : Write(s)
           \/ Fork \/ HelperEnds
           \/ \E how \in {"passed", "empty", "failed"} : ShellEnds(how)
           \/ \E f \in Files : CommandEdits(f)

Run == Begin \/ (\E s \in Streams : Copy(s)) \/ Kill \/ Reap \/ Return
       \/ TakeAfter \/ Unapply \/ Reapply

VXNext == Command \/ Run \/ Deadline \/ (\E f \in Files : NeighbourEdits(f))

\* specd and the kernel go on; the command need not end, nor the deadline come.
VXSpec == /\ VXInit /\ [][VXNext]_vxvars
          /\ WF_vxvars(Run) /\ WF_vxvars(Kill) /\ WF_vxvars(Reap)

------------------------------------------------------------------------------
Patch == UNION {[S -> SUBSET Editors] : S \in SUBSET Files}

VXTypeOK == /\ opts \in [sandbox : BOOLEAN, timed : BOOLEAN, revert : BOOLEAN]
            /\ pc \in {"before", "run", "after", "unapply", "reapply", "done"}
            /\ shell \in ShellStates /\ helper \in BOOLEAN
            /\ pipe \in [Streams -> 0..PipeSize] /\ got \in [Streams -> Nat]
            /\ left \in 0..Limit /\ exceeded \in BOOLEAN /\ late \in BOOLEAN
            /\ exit \in {0, 1, TimeoutExitCode, LimitExitCode, NoTestsExitCode}
            /\ worktree \in [Files -> SUBSET Editors] /\ start \in [Files -> SUBSET Editors]
            /\ before \in Patch /\ after \in Patch
            /\ written \in 0..MaxWritten /\ treeEdits \in 0..MaxTreeEdits /\ alone \in BOOLEAN

(***************************************************************************)
(* Exit 0 is earned: a run is recorded as passing only if the shell ended  *)
(* by itself with success and ran some test, every helper it left behind   *)
(* ended before the deadline, and all they wrote is in the buffers.        *)
(***************************************************************************)
PassIsEarned ==
    pc # "before" /\ pc # "run" /\ exit = 0 =>
        shell = "passed" /\ ~late /\ ~helper /\ got["out"] + got["err"] = written

(***************************************************************************)
(* With --revert-on-fail a verify that does not pass puts the tracked      *)
(* files back to what they were before it, unstaged work of the operator   *)
(* included, and one that passes keeps what it did; if nobody else wrote.  *)
(***************************************************************************)
RevertRestores == pc = "done" /\ opts.revert /\ alone /\ exit # 0 => worktree = start

\* A sandboxed run over its deadline or its budget returns.
SandboxReturns == opts.sandbox /\ Cancelled ~> pc = "done"

(***************************************************************************)
(* core/config_loader.go:84-87 says a run over its deadline is recorded as *)
(* failing, "never a crash or a silent hang".  The code does not keep this *)
(* without the sandbox: Run waits for whoever holds the pipes.             *)
(***************************************************************************)
TimeoutReturns == late ~> pc = "done"

=============================================================================
