--------------------------- MODULE ContextPackage ---------------------------
(* The context a task is worked on with (internal/context).  Two builders put a
   package together from the same repository: BuildMachineManifest, whose
   packages `next --dispatch`, `context --json` and `session ack` use, and
   BuildManifest, whose packages `context`, `drive` and the budget gate of
   `check` use.  Both read files and write none, so that this module has
   operators and no state; module MCContextPackage compares them with what they
   promise, on every input of a small instance.

   A file is what its path leads to; a size stands for the tokens estimated
   from it.                                                                  *)
EXTENDS Naturals, Sequences, FiniteSets, FiniteSetsExt

\* What a path leads to.  A locked file is there and cannot be read.
Sizes == [small |-> 1, large |-> 3]
Regular(entry) == entry \in DOMAIN Sizes

\* `order` is the place of an item by kind and then by source.
Item(kind, source, lane, required, priority, order, tokens) ==
    [kind |-> kind, source |-> source, lane |-> lane, required |-> required,
     priority |-> priority, order |-> order, tokens |-> tokens]
LoadedItem(path, lane, entry) == Item("source", path, lane, TRUE, 0, 50, Sizes[entry])
ProspectiveItem(path) == Item("source", path, "prospective_output", FALSE, 0, 50, 0)
Cost(items) == MapThenSumSet(LAMBDA it : it.tokens, items)

\* No package: the builder returns an error.
Refused == {Item("refused", "", "", TRUE, 0, 0, 0)}

----------------------------------------------------------------------------
(* Lanes: what the row of the task asks for.                                *)

\* ResolveSource, for a path inside the repository.
Resolves(entry) == entry # "absent"

\* A declared file is authority first: without content it is kept as a path
\* that may be written, and a file has one lane.
AddOutput(picked, path, tree) ==
    IF path \in picked.seen THEN picked
    ELSE [picked EXCEPT !.seen = @ \cup {path},
            !.items = @ \cup
              {IF Regular(tree[path])
               THEN LoadedItem(path, "optional_existing_output", tree[path])
               ELSE ProspectiveItem(path)}]

\* selectContextEntry.  A path that has a lane is not read again; a directory
\* and an absent file are refused even then.
AddInput(picked, path, tree) ==
    IF \/ ~Resolves(tree[path]) \/ tree[path] = "directory"
       \/ tree[path] = "locked" /\ path \notin picked.seen
    THEN [picked EXCEPT !.refused = TRUE]
    ELSE IF path \in picked.seen THEN picked
    ELSE [picked EXCEPT !.seen = @ \cup {path},
            !.items = @ \cup {LoadedItem(path, "required_input", tree[path])}]

\* matchSelector: the files a selector matches, directories left out.
Matches(paths, tree) == {p \in paths : Resolves(tree[p]) /\ tree[p] # "directory"}

\* selectDirectoryQuery.  Its limits count every match, with a lane or not.
AddQuery(picked, paths, tree, limits) ==
    LET matches == Matches(paths, tree)
        unseen == matches \ picked.seen
    IN IF \/ matches = {} \/ Cardinality(matches) > limits.files
          \/ \E p \in matches : tree[p] = "locked"
          \/ MapThenSumSet(LAMBDA p : Sizes[tree[p]], matches) > limits.tokens
       THEN [picked EXCEPT !.refused = TRUE]
       ELSE [picked EXCEPT !.seen = @ \cup unseen,
               !.items = @ \cup {LoadedItem(p, "directory_query", tree[p]) : p \in unseen}]

AddEntry(picked, entry, tree, limits) ==
    IF picked.refused THEN picked
    ELSE IF entry.query THEN AddQuery(picked, entry.paths, tree, limits)
    ELSE AddInput(picked, CHOOSE p \in entry.paths : TRUE, tree)

\* The record of the task, requirements.md, design.md and the role file.
CoreItems ==
    {Item(<<"task", "requirements", "design", "role">>[i], "core",
          IF i \in {1, 4} THEN "managed_policy" ELSE "required_input", TRUE, 0, i - 1, 1)
       : i \in 1..4}

\* SelectRequiredLanes: `row` has the declared files and the context column.
SelectRequiredLanes(row, tree, limits) ==
    LET outputs == FoldSet(LAMBDA p, picked : AddOutput(picked, p, tree),
                           [items |-> CoreItems, seen |-> {}, refused |-> FALSE], row.files)
        RECURSIVE Column(_, _)
        Column(picked, i) ==
            IF i > Len(row.context) THEN picked
            ELSE Column(AddEntry(picked, row.context[i], tree, limits), i + 1)
        picked == Column(outputs, 1)
    IN IF picked.refused THEN Refused ELSE picked.items

\* DriverItems: the policy of the driver and one item for each tool.
DriverItems(tools) ==
    {Item("guardrails", "policy", "", TRUE, 0, 0, 1)}
      \cup {Item("tools", tool, "", TRUE, 1, 90, 1) : tool \in tools}

----------------------------------------------------------------------------
(* Guidance: what the repository offers on top.  `asks` maps each field of the
   metadata to the values it is for; no value is every value.                *)

Applicable(asks, selection) ==
    \A f \in DOMAIN asks : asks[f] = {} \/ asks[f] \cap selection[f] # {}

\* The priority metadata gives, or the one a kind has of its own.
GuidancePriority(g) ==
    CASE g.kind = "skill" -> 50
      [] g.kind = "memory" -> IF g.critical THEN 10 ELSE 30
      [] g.kind = "examples" /\ g.priority = 50 -> 60
      [] OTHER -> g.priority
GuidanceItem(g) ==
    Item(g.kind, g.source, IF g.kind = "skill" THEN "managed_policy" ELSE "",
         g.kind = "skill" /\ g.required, GuidancePriority(g),
         g.file + (CASE g.kind = "examples" -> 10 [] g.kind = "instructions" -> 20
                     [] g.kind = "memory" -> 30 [] OTHER -> 40), g.tokens)

\* LoadSkills, SelectSkills: its phases and roles are met and the tools of the
\* phase have its capabilities.
SkillFits(g, selection, capabilities) ==
    Applicable(g.asks, selection) /\ g.needs \subseteq capabilities

\* What is left out, with a note unless it is a heading of the memory.  A
\* required skill is never left out; it, an example or a skill without metadata
\* and a memory of no known status stop the build.
LeftOut(g, selection, capabilities) ==
    CASE g.kind = "instructions" -> ~g.metadata \/ ~Applicable(g.asks, selection)
      [] g.kind = "memory" ->
           \/ ~g.metadata \/ ~g.trusted \/ g.status \in {"expired", "superseded"}
           \/ ~Applicable(g.asks, selection)
      [] g.kind = "examples" -> ~Applicable(g.asks, selection)
      [] OTHER -> ~g.required /\ ~SkillFits(g, selection, capabilities)
StopsBuild(g, selection, capabilities) ==
    CASE g.kind = "examples" -> ~g.metadata
      [] g.kind = "skill" ->
           ~g.metadata \/ (g.required /\ ~SkillFits(g, selection, capabilities))
      [] g.kind = "memory" -> g.metadata /\ g.trusted /\ g.status = "unknown"
      [] OTHER -> FALSE

\* The warning of `check`: no steering file can ever be selected.
SteeringTotalOmission(guidance) ==
    LET steering == {g \in guidance : g.kind = "instructions"}
    IN steering # {} /\ \A g \in steering : ~g.metadata

----------------------------------------------------------------------------
(* The budget of a machine package.                                         *)

CountsAgainstBudget(it) == it.lane # "prospective_output"
Sheddable(items) == {it \in items : ~it.required /\ CountsAgainstBudget(it)}
LessImportant(a, b) ==
    a.priority > b.priority \/ (a.priority = b.priority /\ a.order > b.order)
LeastImportantOptional(items) ==
    CHOOSE it \in Sheddable(items) : \A other \in Sheddable(items) : ~LessImportant(other, it)

RECURSIVE Shed(_, _)
Shed(items, budget) ==
    IF Cost(items) <= budget \/ Sheddable(items) = {} THEN items
    ELSE Shed(items \ {LeastImportantOptional(items)}, budget)

\* EnforceMachineBudget: 0 is no budget.
EnforceMachineBudget(items, budget) ==
    IF budget = 0 THEN items
    ELSE IF Cost({it \in items : it.required}) > budget THEN Refused
    ELSE Shed(items, budget)

----------------------------------------------------------------------------
(* The builders.                                                            *)

\* SupportedToolCapabilities comes with the world: the tools of the phase.
BuildMachineManifest(row, world, selection, budget) ==
    LET lanes == SelectRequiredLanes(row, world.tree, world.limits)
        Stops(g) == StopsBuild(g, selection, world.capabilities)
        selected == {g \in world.guidance : ~LeftOut(g, selection, world.capabilities)}
    IN IF lanes = Refused \/ \E g \in world.guidance : Stops(g) THEN Refused
       ELSE EnforceMachineBudget(lanes \cup DriverItems(world.tools)
                                   \cup {GuidanceItem(g) : g \in selected}, budget)

\* The other builder: five core files and every declared file, then all the
\* steering and memory there is, whatever it is for, and the decisions in force.
PlainRequired(row, tree) ==
    5 + MapThenSumSet(LAMBDA p : IF Regular(tree[p]) THEN Sizes[tree[p]] ELSE 0, row.files)
PlainOptional(world) == {g \in world.guidance : g.kind \in {"instructions", "memory"}}

\* lastDroppable, enforceBudget: a memory, and steering when none is left; the
\* code takes the last one in the order of the package.
LastDroppable(optional) ==
    LET memory == {g \in optional : g.kind = "memory"}
    IN CHOOSE g \in IF memory # {} THEN memory ELSE optional : TRUE
RECURSIVE PlainShed(_, _, _)
PlainShed(required, optional, budget) ==
    IF optional = {} \/ required + Cost(optional) <= budget THEN optional
    ELSE PlainShed(required, optional \ {LastDroppable(optional)}, budget)

\* BuildManifest, as far as what guidance it keeps; it refuses a budget that
\* the required files alone exceed.
PlainRefuses(row, world, budget) == budget > 0 /\ PlainRequired(row, world.tree) > budget
BuildManifest(row, world, budget) ==
    IF budget = 0 THEN PlainOptional(world)
    ELSE PlainShed(PlainRequired(row, world.tree), PlainOptional(world), budget)

\* The gate of `check` asks for the context of every task that is not done.
SelectableForContext(status) == status # "complete"
ContextBudgetGate(row, status, world, budget) ==
    budget > 0 /\ SelectableForContext(status) => ~PlainRefuses(row, world, budget)

=============================================================================
