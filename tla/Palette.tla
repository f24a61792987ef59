------------------------------ MODULE Palette ------------------------------
(* The command table of specd (core/commands.go) and what is derived from it:
   the operations, the operation an invocation resolves to, the routes an
   operation has for an agent, the packets a worker is given and the tools a
   packet opens.  Nothing here changes; module Dispatch adds the workspace the
   dispatcher reads and the actors that change it.                           *)
EXTENDS Naturals, FiniteSets, Sequences

CONSTANT None

----------------------------------------------------------------------------
(* The table.  A verb has the phases it is legal in, the position of the spec
   slug among its arguments (0: the dispatcher does not know it) and the two
   marks the dispatcher and the guidance read.                               *)

Phases == {"perceive", "analyze", "plan", "execute", "verify", "reflect"}
PhaseOrder == <<"perceive", "analyze", "plan", "execute", "verify", "reflect">>
PostRequirements == Phases \ {"perceive"}
PostExecution == {"execute", "verify", "reflect"}

Verb(name, phases, slug, human, task) ==
    [name |-> name, phases |-> phases, slug |-> slug, human |-> human, task |-> task]
Plain(names, phases, slug) == {Verb(n, phases, slug, FALSE, FALSE) : n \in names}

SetupVerbs ==
    Plain({"help", "version", "init", "config", "agents", "adapters", "eval", "new",
           "incident", "archive"}, Phases, 0)
RepairVerbs ==
    Plain({"undo", "reopen"}, Phases, 1)
      \cup {Verb(n, Phases, 1, TRUE, FALSE) : n \in {"approve", "mode", "midreq", "decision"}}
      \cup {Verb("exception", Phases, 0, TRUE, FALSE)}
      \cup Plain({"delegate", "request-decision", "clarification"}, Phases, 0)
WorkVerbs ==
    Plain({"drift", "recurring", "spike", "task"}, Phases, 0)
      \cup Plain({"status", "check"}, Phases, 1)
      \cup Plain({"next", "context"}, PostRequirements, 1)
      \cup {Verb(n, PostRequirements, 1, FALSE, TRUE) : n \in {"complete-task", "verify"}}
HostVerbs ==
    Plain({"memory", "report"}, Phases, 1)
      \cup Plain({"mcp", "handshake"}, Phases, 0)
      \cup Plain({"drive"}, PostRequirements, 1)
      \cup Plain({"session", "brain"}, PostRequirements, 2)
CloseVerbs ==
    Plain({"link", "unlink", "deploy"}, Phases, 1)
      \cup Plain({"review", "submit"}, PostExecution, 1)
      \cup Plain({"release"}, Phases, 2)
Commands == SetupVerbs \cup RepairVerbs \cup WorkVerbs \cup HostVerbs \cup CloseVerbs
CommandByName == [n \in {c.name : c \in Commands} |-> CHOOSE c \in Commands : c.name = n]

----------------------------------------------------------------------------
(* The operations: the public identities of the verbs that have several, and
   one built from the verb for each of the others.                           *)

Def(command, sub, id, actor, effect, authority, task) ==
    [command |-> command, sub |-> sub, id |-> id, actor |-> actor, effect |-> effect,
     authority |-> authority, task |-> task]
\* Operations of one actor named <command>.<sub>, that write and need authority.
Reserved(command, subs, actor, task) ==
    {Def(command, s, <<command, s>>, actor, "write", TRUE, task) : s \in subs}
Open(command, subs, effect) ==
    {Def(command, s, <<command, s>>, "agent", effect, FALSE, FALSE) : s \in subs}

NamedOperations ==
    {Def("complete-task", "", <<"complete-task">>, "agent", "write", TRUE, TRUE),
     Def("mode", "", <<"mode", "read">>, "agent", "read", FALSE, FALSE),
     Def("mode", "", <<"mode", "set">>, "human", "write", TRUE, FALSE),
     Def("agents", "", <<"agents", "inspect">>, "agent", "read", FALSE, FALSE),
     Def("undo", "", <<"undo">>, "operator", "write", TRUE, FALSE),
     Def("report", "", <<"report", "render">>, "agent", "read", FALSE, FALSE),
     Def("task", "", <<"task", "show">>, "agent", "read", FALSE, FALSE),
     Def("task", "", <<"task", "override">>, "human", "write", TRUE, TRUE),
     Def("verify", "", <<"verify", "task">>, "agent", "write", TRUE, TRUE),
     Def("verify", "", <<"verify", "criterion">>, "agent", "write", TRUE, FALSE),
     Def("brain", "status", <<"brain", "status">>, "operator", "read", FALSE, FALSE)}

OperationDefinitions ==
    NamedOperations
      \cup Open("config", {"show", "validate"}, "read")
      \cup Open("config", {"migrate"}, "write")
      \cup Open("agents", {"doctor", "guide"}, "read")
      \cup Open("eval", {"import"}, "write") \cup Open("eval", {"status"}, "read")
      \cup Open("clarification", {"open"}, "write")
      \cup Reserved("clarification", {"answer", "withdraw", "expire"}, "human", FALSE)
      \cup Reserved("exception", {"approve", "revoke"}, "human", FALSE)
      \cup Reserved("delegate", {"issue", "revoke", "approve"}, "operator", FALSE)
      \cup Reserved("incident", {"seed"}, "operator", FALSE)
      \cup Reserved("recurring", {"record"}, "operator", FALSE)
      \cup Reserved("reopen", {"task", "artifact", "spec", "descendant"}, "operator", FALSE)
      \cup Reserved("reopen", {"scope"}, "operator", TRUE)
      \cup Reserved("brain", {"start", "step", "run", "cancel", "resume", "release"},
                    "operator", FALSE)
      \cup Reserved("brain", {"claim", "heartbeat", "report"}, "operator", TRUE)

DefaultOperationActor(c) ==
    IF c.human THEN "human"
    ELSE IF c.name \in {"deploy", "recurring", "release", "submit"} THEN "operator"
    ELSE "agent"
DefaultOperationEffect(name) ==
    IF name \in {"help", "version", "agents", "adapters", "drift", "next", "status",
                 "context", "handshake", "report", "mcp"} THEN "read" ELSE "write"
DefaultAuthorityRequired(name) ==
    name \in {"approve", "mode", "midreq", "decision", "deploy", "release", "recurring",
              "submit"}

BuildOperations ==
    OperationDefinitions \cup
    {Def(c.name, "", <<c.name>>, DefaultOperationActor(c), DefaultOperationEffect(c.name),
         DefaultAuthorityRequired(c.name), c.task)
       : c \in {v \in Commands : \A d \in OperationDefinitions : d.command # v.name}}
Operations == BuildOperations
OperationByID == [i \in {o.id : o \in Operations} |-> CHOOSE o \in Operations : o.id = i]
AllowedPhases(op) == CommandByName[op.command].phases

\* The operations whose conditions an invocation meets: its verb, its words and
\* the flags it carries.  The dispatcher refuses an invocation that has none.
ResolveOperation(command, args, flags) ==
    LET first == IF args = <<>> THEN "" ELSE args[1]
        Matches(o) ==
          CASE command = "agents" -> o.sub = first \/ (o.sub = "" /\ first = "inspect")
            [] command \in {"eval", "exception", "brain", "config", "clarification",
                            "delegate", "incident", "recurring"} -> o.sub = first
            [] command = "task" ->
                 first # "complete" /\ ("override" \in flags <=> o.id = <<"task", "override">>)
            [] command = "verify" ->
                 "criterion" \in flags <=> o.id = <<"verify", "criterion">>
            [] command = "mode" -> Len(args) = 1 <=> o.id = <<"mode", "read">>
            [] command = "reopen" ->
                 /\ Len(args) >= 2 /\ args[2] = o.sub
                 /\ CASE o.sub \in {"scope", "descendant"} -> Len(args) = 4
                      [] o.sub = "artifact" -> Len(args) = 3
                      [] o.sub = "spec" -> Len(args) = 2
                      [] OTHER -> TRUE
            [] OTHER -> TRUE
    IN {o \in Operations : o.command = command /\ Matches(o)}

\* The words of an operation of one task, as its handler reads them.
Usage(op, slug, task) ==
    CASE op.command \in {"complete-task", "verify"} -> <<slug, task>>
      [] op.command = "task" -> <<task>>
      [] op.command = "reopen" -> <<slug, op.sub, task, "path">>
      [] op.command = "brain" -> <<op.sub, slug, "mission">>
      [] OTHER -> <<slug>>
Flags(op) == IF op.id = <<"task", "override">> THEN {"override"} ELSE {}

----------------------------------------------------------------------------
(* Routes: what the guidance offers an agent, and what the server lets past. *)

ForbiddenTool(command) ==
    command \in {"approve", "brain", "decision", "deploy", "incident", "init", "mcp",
                 "memory", "release", "report", "task"}
\* The operations listed to a host as tools, and those the server offers; a verb
\* that is human-only is listed but handed off when it is called.
CoreTools == {o \in Operations : ~ForbiddenTool(o.command)}
Capability(op) ==
    CASE op.actor = "human" -> "human" [] op.effect # "read" -> "write" [] OTHER -> "read"
\* What a skill may ask for: the capabilities of the tools of a phase.
SupportedToolCapabilities(phase) ==
    {Capability(op) : op \in {o \in CoreTools : phase \in AllowedPhases(o)}} \ {"human"}
RouteDispatches(op, transport) == transport = "mcp" => ~ForbiddenTool(op.command)

\* Mutant: the route forgets that the operation needs a packet.
Executable_Unauthorized(op, transport, phase, authorized) ==
    /\ RouteDispatches(op, transport)
    /\ phase \in AllowedPhases(op)
    /\ op.actor = "agent"

\* ProjectRoute, for an agent: executable at this phase with this authority.
Executable(op, transport, phase, authorized) ==
    /\ RouteDispatches(op, transport)
    /\ phase \in AllowedPhases(op)
    /\ op.actor = "agent"
    /\ op.authority => authorized

----------------------------------------------------------------------------
(* Packets. *)

WriteRoles == {"craftsman"}
Mutable(op) == op.effect # "read"

BuildAuthority(task, row, phase, baseline, issued, expires) ==
    [task |-> task, role |-> row.role, phase |-> phase, baseline |-> baseline,
     issued |-> issued, expires |-> expires,
     tools |-> {"status", "context", "check"} \cup
               (CASE row.role \in WriteRoles -> {"verify", "complete-task"}
                  [] row.role = "validator" -> {"verify"}
                  [] row.role = "auditor" -> {"report"}
                  [] OTHER -> {}),
     write |-> IF row.role \in WriteRoles THEN row.files ELSE {}]

ValidateAuthority(a, now, phase) ==
    phase = a.phase /\ a.issued <= now /\ now < a.expires

AuthorizeTool(a, tool, paths, now, phase, mutable) ==
    LET writes == mutable /\ ~(a.role = "validator" /\ tool = "verify")
                          /\ ~(a.role = "auditor" /\ tool = "report")
    IN /\ ValidateAuthority(a, now, phase)
       /\ tool \in a.tools
       /\ writes => a.role \in WriteRoles /\ paths \subseteq a.write

----------------------------------------------------------------------------
\* An id names one operation, the words of a task operation name it alone, and
\* no phase takes a capability from a skill.
ASSUME PaletteAssumption ==
    /\ \A o, p \in Operations : o.id = p.id => o = p
    /\ \A phase \in Phases : SupportedToolCapabilities(phase) = {"read", "write"}
    /\ \A o \in Operations :
         o.task => ResolveOperation(o.command, Usage(o, "s", "t"), Flags(o)) = {o}
=============================================================================
