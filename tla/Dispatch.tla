------------------------------ MODULE Dispatch ------------------------------
(* The dispatcher (cmd/dispatch.go), the MCP server in front of it and the
   workspace they read: the phase of a spec, its approvals, project.yml, the
   rows of tasks.md, session.json and the git worktree.  The brain mints a
   mission for a row and a worker claims it from the command line and is given a
   packet, the only thing it can work with through the MCP server, while the
   operator amends, edits rows and the profile and other people edit files.
   What verify and complete-task then do is in VerifyExec and Completion; the
   end of a lease, which heartbeats move and the dispatcher never reads, is in
   BrainSession.  A packet stands for its digest.                            *)
EXTENDS Palette

CONSTANTS
    Tasks, Paths,
    LeaseTTL,                        \* brainLeaseTTL, also a mission's lifetime
    MaxTime, MaxHead, MaxMissions,   \* bounds: the clock, commits, missions
    MaxEdits                         \* bound: edits of rows, profile and phase

ASSUME DispatchAssumption ==
    {LeaseTTL, MaxTime, MaxMissions, MaxEdits} \subseteq Nat /\ MaxHead \in Nat \ {0}

VARIABLES
    phase,        \* the phase of the spec's status
    stale,        \* some approval is older than an amendment
    production,   \* project.yml names the production profile
    rows,         \* task -> its role and declared files in tasks.md
    missions,     \* session.Missions, pending or claimed
    leases,       \* session.Leases: of which mission, and its packet
    tree, snaps,  \* the worktree, and the tree of every commit: file -> version
    now, edits

vars == <<phase, stale, production, rows, missions, leases, tree, snaps, now, edits>>
workspace == <<phase, stale, production, rows, edits>>
session == <<missions, leases>>
files == <<tree, snaps>>

Slug == "slug"
Row == [role : WriteRoles, files : {{p} : p \in Paths} \cup {Paths}]
         \cup {[role |-> "validator", files |-> {}]}
\* What a claim can hand out; an invocation from a shell brings none of them.
Packets == [task : Tasks, role : {r.role : r \in Row}, phase : Phases,
            baseline : 1..MaxHead, issued : 0..MaxTime, expires : 0..MaxTime,
            tools : SUBSET {c.name : c \in Commands}, write : SUBSET Paths]
ASSUME NoneAssumption == None \notin Packets

Tip == Len(snaps)
Diff(base) == {p \in Paths : tree[p] # snaps[base][p]}

TypeOK ==
    /\ phase \in Phases /\ stale \in BOOLEAN /\ production \in BOOLEAN
    /\ rows \in [Tasks -> Row]
    /\ missions \in Seq([task : Tasks, row : Row, head : 1..Tip, expires : 0..MaxTime])
    /\ \A l \in leases : l.mission \in DOMAIN missions /\ l.packet \in Packets
    /\ tree \in [Paths -> 0..1] /\ snaps \in Seq([Paths -> 0..1]) /\ Tip \in 1..MaxHead
    /\ now \in 0..MaxTime /\ edits \in 0..MaxEdits

Init ==
    /\ phase = "execute" /\ stale = FALSE /\ production = FALSE
    /\ rows \in [Tasks -> {r \in Row : Cardinality(r.files) = 1}]
    /\ missions = <<>> /\ leases = {}
    /\ tree = [p \in Paths |-> 0] /\ snaps = <<tree>>
    /\ now = 0 /\ edits = 0

----------------------------------------------------------------------------
(* Dispatch: the checks of runDispatch in their order.  `packet` is None for
   every invocation from a shell.                                            *)

SlugAt(op, words) ==
    LET i == CommandByName[op.command].slug
    IN i # 0 /\ i <= Len(words)

CheckPhase(op, words) ==
    SlugAt(op, words) /\ words[CommandByName[op.command].slug] = Slug
      => phase \in AllowedPhases(op)

\* Only next and brain pause while an approval is older than an amendment.
CheckFreshDispatch(op) == op.command \in {"next", "brain"} => ~stale

ProductionTask(op) == production /\ op.task

\* Mutant: the mission's files are not compared with the row's.
ProductionMissionScope_OfMission(op, words, packet) ==
    /\ Len(words) >= 2 /\ words[1] = Slug /\ packet.task = words[2]
    /\ packet.role = rows[words[2]].role
    /\ \E l \in leases :
         LET mission == missions[l.mission]
         IN /\ l.packet = packet /\ mission.task = words[2]
            /\ mission.row.role = rows[words[2]].role
            /\ mission.head = packet.baseline
            /\ packet.write = mission.row.files

\* The slug and the task are words one and two, whatever the verb: of the
\* commands of a task only complete-task and verify are used that way.  The
\* lease is the last of its task and packet; it need not be a live one.
ProductionMissionScope(op, words, packet) ==
    /\ Len(words) >= IF op.command = "task" THEN 3 ELSE 2
    /\ LET at == IF op.command = "task" THEN 2 ELSE 1
           task == words[at + 1]
       IN /\ words[at] = Slug
          /\ packet.task = task
          /\ task \in Tasks
          /\ packet.role = rows[task].role
          /\ \E l \in leases :
               LET mission == missions[l.mission]
               IN /\ l.packet = packet /\ mission.task = task
                  /\ mission.row.role = rows[task].role
                  /\ mission.head = packet.baseline
                  /\ mission.row.files = rows[task].files
                  /\ packet.write = mission.row.files

AuthorityDispatch(op, words, packet) ==
    /\ ProductionTask(op) => ProductionMissionScope(op, words, packet)
    /\ AuthorizeTool(packet, op.command,
                     IF ProductionTask(op) THEN Diff(packet.baseline) ELSE {}, now,
                     IF SlugAt(op, words) THEN phase ELSE packet.phase, Mutable(op))
    /\ SlugAt(op, words) => words[CommandByName[op.command].slug] = Slug
    /\ LET taskArg == IF op.command = "task" THEN 3 ELSE 2
       IN op.task /\ taskArg <= Len(words) => words[taskArg] = packet.task

\* AuthorizeActorOperation refuses nothing here: no caller is governed.
RunDispatch(op, words, packet) ==
    /\ CheckPhase(op, words)
    /\ CheckFreshDispatch(op)
    /\ IF packet = None THEN ~ProductionTask(op) ELSE AuthorityDispatch(op, words, packet)

\* Mutant: the executor asks for a route as if no packet came.
RouteAuthorized_Never(packet) == ~production

\* What the server and its executor ask before that.
RouteAuthorized(packet) == packet # None \/ ~production
MCPDispatch(op, words, packet) ==
    /\ op \in CoreTools
    /\ packet # None =>
         AuthorizeTool(packet, op.command, {}, now, packet.phase, Mutable(op))
    /\ Executable(op, "mcp", IF packet = None THEN phase ELSE packet.phase,
                  RouteAuthorized(packet))
    /\ RunDispatch(op, words, packet)

----------------------------------------------------------------------------
(* The brain and the worker, from a shell. *)

Shell(id, task) ==
    LET op == OperationByID[id] IN RunDispatch(op, Usage(op, Slug, task), None)

\* brain step: a mission for a row, pinned to its role, files and the head.
DispatchMission(task) ==
    /\ Shell(<<"brain", "step">>, task)
    /\ Len(missions) < MaxMissions /\ now + LeaseTTL <= MaxTime
    /\ missions' = Append(missions, [task |-> task, row |-> rows[task], head |-> Tip,
                                     expires |-> now + LeaseTTL])
    /\ UNCHANGED <<workspace, leases, files, now>>

\* brain claim: the packet is built for the phase "execute", whatever the phase.
ClaimMission(i) ==
    LET mission == missions[i] IN
    /\ Shell(<<"brain", "claim">>, mission.task)
    /\ \A l \in leases : l.mission # i
    /\ now < mission.expires
    /\ LET expires == IF now + LeaseTTL < mission.expires THEN now + LeaseTTL
                      ELSE mission.expires
       IN leases' = leases \cup
            {[mission |-> i,
              packet |-> BuildAuthority(mission.task, mission.row, "execute",
                                        mission.head, now, expires)]}
    /\ UNCHANGED <<workspace, missions, files, now>>

----------------------------------------------------------------------------
(* Everybody else. *)

Edited == edits < MaxEdits /\ edits' = edits + 1

EditRow(task, row) ==
    /\ Edited /\ rows[task] # row
    /\ rows' = [rows EXCEPT ![task] = row]
    /\ UNCHANGED <<phase, stale, production, session, files, now>>

EditProfile ==
    /\ Edited
    /\ production' = ~production
    /\ UNCHANGED <<phase, stale, rows, session, files, now>>

\* An amendment makes the approvals stale until they are made again.
Amend ==
    /\ Edited
    /\ stale' = ~stale
    /\ UNCHANGED <<phase, production, rows, session, files, now>>

\* An approval advances one phase; a reopened artifact goes back to an earlier.
MovePhase ==
    /\ Edited
    /\ \E i, j \in DOMAIN PhaseOrder :
         /\ PhaseOrder[i] = phase /\ j <= i + 1 /\ j # i
         /\ phase' = PhaseOrder[j]
    /\ UNCHANGED <<stale, production, rows, session, files, now>>

\* Anybody writes a file, or puts it back.
Touch(p) ==
    /\ tree' = [tree EXCEPT ![p] = 1 - @]
    /\ UNCHANGED <<workspace, session, snaps, now>>

Commit ==
    /\ Tip < MaxHead /\ tree # snaps[Tip]
    /\ snaps' = Append(snaps, tree)
    /\ UNCHANGED <<workspace, session, tree, now>>

Tick ==
    /\ now < MaxTime
    /\ now' = now + 1
    /\ UNCHANGED <<workspace, session, files>>

Next ==
    \/ \E t \in Tasks : DispatchMission(t)
    \/ \E i \in DOMAIN missions : ClaimMission(i)
    \/ \E t \in Tasks, r \in Row : EditRow(t, r)
    \/ EditProfile \/ Amend \/ MovePhase
    \/ \E p \in Paths : Touch(p)
    \/ Commit \/ Tick

Spec == Init /\ [][Next]_vars

----------------------------------------------------------------------------
(* Properties.  The commands of a task that the server offers: *)
WorkOperations == {op \in CoreTools : op.task /\ op.actor = "agent"}

\* Whatever the guidance shows an agent as executable, from a shell or as a
\* tool without a packet, the dispatcher runs: nobody is told to run a command
\* that is then refused.  The one exception is next, which guidance goes on
\* offering while an amendment waits for its approval.
AdvertisedAccepted ==
    \A op \in Operations, transport \in {"cli", "mcp"}, t \in Tasks :
        /\ Executable(op, transport, phase, RouteAuthorized(None))
        /\ op.command = "next" => ~stale
        => RunDispatch(op, Usage(op, Slug, t), None)

\* Under the production profile a command of a task runs only for the worker of
\* a mission that is still of this very row, before the packet's end and, when
\* the worker may write, on a tree whose changes since the mission was cut are
\* the row's files: whoever edited rows, files, history, profile or phase in
\* between.  A reader completes nothing.
WorkStaysInScope ==
    production =>
      \A op \in WorkOperations, t \in Tasks, l \in leases :
        LET mission == missions[l.mission]
        IN MCPDispatch(op, Usage(op, Slug, t), l.packet) =>
             /\ mission.task = t
             /\ mission.row = rows[t]
             /\ now < mission.expires /\ phase = "execute"
             /\ rows[t].role = "craftsman" => Diff(mission.head) \subseteq rows[t].files
             /\ op.command = "complete-task" => rows[t].role = "craftsman"

\* The fences stop nobody else: a worker whose row has not changed and whose
\* packet has not ended can verify and complete the task from the tool its
\* packet names, as long as the tree has only its own changes.
ClaimantCanWork ==
    \A l \in leases, op \in WorkOperations :
        LET mission == missions[l.mission]
        IN /\ mission.row = rows[mission.task] /\ mission.row.role = "craftsman"
           /\ now < l.packet.expires /\ phase = "execute"
           /\ Diff(mission.head) \subseteq mission.row.files
           => MCPDispatch(op, Usage(op, Slug, mission.task), l.packet)
=============================================================================
