-------------------------- MODULE MCContextPackage --------------------------
(* What the builders of ContextPackage promise, on every input of a small
   instance: two paths, a column of two entries, six pieces of guidance.     *)
EXTENDS ContextPackage

SampleTrees == [{"a", "b"} -> {"absent", "directory", "locked", "small", "large"}]
SampleEntries ==
    [query : {FALSE}, paths : {{"a"}, {"b"}}] \cup [query : {TRUE}, paths : {{"a"}, {"a", "b"}}]
SampleRows ==
    [files : SUBSET {"a", "b"},
     context : {<<>>} \cup {<<e>> : e \in SampleEntries} \cup (SampleEntries \X SampleEntries)]
SampleLimits == {[files |-> 1, tokens |-> 4], [files |-> 2, tokens |-> 3]}

\* A path has one lane; every declared file has its own, without content when
\* there is none; every input named in the column is there with its content,
\* but for a locked one that is declared as well, whose refusal is lost.
LanesAreExact(row, tree, limits) ==
    LET items == SelectRequiredLanes(row, tree, limits)
        Lane(p) == {it \in items : it.source = p}
    IN items # Refused =>
         /\ \A p \in DOMAIN tree : Cardinality(Lane(p)) <= 1
         /\ \A p \in row.files :
              \E it \in Lane(p) : it.lane = "prospective_output" <=> ~Regular(tree[p])
         /\ \A i \in DOMAIN row.context : \A p \in row.context[i].paths :
              ~row.context[i].query =>
                \/ Regular(tree[p]) /\ \E it \in Lane(p) : it.required
                \/ tree[p] = "locked" /\ p \in row.files
         /\ CoreItems \subseteq items

\* The budget refuses when the required items alone exceed it and else keeps
\* them and every prospective output, gives up the least important of the rest
\* and no more of it than it has to.
BudgetIsTruthful(items, budget) ==
    LET kept == EnforceMachineBudget(items, budget)
        shed == items \ kept
        required == Cost({it \in items : it.required})
    IN IF budget > 0 /\ required > budget THEN kept = Refused
       ELSE /\ kept \subseteq items /\ (budget > 0 => Cost(kept) <= budget)
            /\ \A it \in shed : ~it.required /\ it.lane # "prospective_output"
            /\ \A it \in shed, other \in Sheddable(kept) : LessImportant(it, other)
            /\ \A it \in shed :
                 (\A other \in shed \ {it} : LessImportant(other, it))
                   => Cost(kept \cup {it}) > budget

SampleGuidance(kind, file, priority, tokens) ==
    [kind |-> kind, source |-> kind, file |-> file, tokens |-> tokens, priority |-> priority,
     metadata |-> TRUE, asks |-> [phases |-> {}], trusted |-> TRUE, status |-> "active",
     critical |-> priority = 10, required |-> FALSE, needs |-> {"write"}]
SampleOptional ==
    {SampleGuidance("instructions", 1, 50, 2), SampleGuidance("instructions", 2, 0, 1),
     SampleGuidance("memory", 1, 10, 1), SampleGuidance("memory", 2, 30, 2),
     SampleGuidance("examples", 1, 50, 1), SampleGuidance("skill", 1, 50, 3)}
SampleWorld(tree, limits, guidance) ==
    [tree |-> tree, limits |-> limits, guidance |-> guidance, tools |-> {"verify"},
     capabilities |-> {"read", "write"}]
SampleSelection == [phases |-> {"execute"}]
Samples ==
    {GuidanceItem(g) : g \in SampleOptional} \cup DriverItems({"verify"})
      \cup {ProspectiveItem("a"), LoadedItem("b", "required_input", "large")}

\* What is offered on top never stops a task: with any of it the package is
\* refused when it would be refused without.
GuidanceNeverRefuses(row, tree, budget) ==
    \A limits \in SampleLimits, guidance \in SUBSET SampleOptional :
        LET Built(offered) == BuildMachineManifest(row, SampleWorld(tree, limits, offered),
                                                   SampleSelection, budget)
        IN Built(guidance) = Refused <=> Built({}) = Refused

\* The other builder fits its package as well, and gives up steering only when
\* no memory is left.
PlainIsTruthful(row, world, budget) ==
    LET kept == BuildManifest(row, world, budget)
        shed == PlainOptional(world) \ kept
    IN budget > 0 /\ ~PlainRefuses(row, world, budget) =>
         /\ PlainRequired(row, world.tree) + Cost(kept) <= budget
         /\ (\E g \in shed : g.kind = "instructions") => \A g \in kept : g.kind # "memory"

ASSUME ContextAssumption ==
    /\ \A row \in SampleRows, tree \in SampleTrees, limits \in SampleLimits :
         LanesAreExact(row, tree, limits)
    /\ \A items \in SUBSET Samples, budget \in 0..12 : BudgetIsTruthful(items, budget)
    /\ \A files \in SUBSET {"a", "b"}, tree \in SampleTrees, budget \in {0, 4, 7, 9} :
         LET row == [files |-> files, context |-> <<>>]
         IN /\ GuidanceNeverRefuses(row, tree, budget)
            /\ \A limits \in SampleLimits :
                 PlainIsTruthful(row, SampleWorld(tree, limits, SampleOptional), budget)

\* The two builders answer one question differently: a task the budget gate
\* passes may have no package, and its ack is then refused.
ASSUME BuildersDisagree ==
    \E row \in SampleRows, tree \in SampleTrees, limits \in SampleLimits :
        /\ ContextBudgetGate(row, "pending", SampleWorld(tree, limits, {}), 8)
        /\ SelectRequiredLanes(row, tree, limits) # Refused
        /\ BuildMachineManifest(row, SampleWorld(tree, limits, {}), SampleSelection, 8) = Refused
=============================================================================
