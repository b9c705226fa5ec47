---------------------------- MODULE MCExtensions ----------------------------
(***************************************************************************)
(* Instance of ExtensionRuntime: six directories with what goes wrong in   *)
(* one (a cycle, a missing dependency, two files of one id, a file that is *)
(* no manifest, ranges the core is outside of), and packs that fail half-  *)
(* way, offer taken ids, null pointers and blank ids.  Two calls of        *)
(* loadFromDirectory are enough for a pack to meet what an earlier one     *)
(* left behind.                                                            *)
(***************************************************************************)
EXTENDS ExtensionRuntime
LOCAL INSTANCE TLC

MCRuleFiles == {"rules.json"}
MCCoreApi == << 1, 2, 0 >>
MCMaxLoads == 2

ManifestOf(id, dependencies) ==
    [extensionId |-> id, displayName |-> "name", extensionVersion |-> "1",
     minCoreApi |-> << 1, 0, 0 >>, maxCoreApi |-> << 1, 9, 0 >>,
     capabilities |-> << "executionSemantics", "actions" >>, dependencies |-> dependencies,
     contractVersions |-> [contract \in {"executionSemantics"} |-> 1]]

ForCore(id, oldest, newest) ==
    [ManifestOf(id, << >>) EXCEPT !.minCoreApi = oldest, !.maxCoreApi = newest]

MCDirectories ==
    {"first.json" :> ManifestOf("base", << >>) @@ "second.json" :> ManifestOf("more", << "base", "base" >>)
        @@ "third.json" :> ManifestOf("half", << "base" >>) @@ "rules.json" :> Broken,
     "first.json" :> ManifestOf("more", << "loop" >>) @@ "second.json" :> ManifestOf("loop", << "more" >>)
        @@ "third.json" :> ManifestOf("null", << "loop" >>) @@ "fourth.json" :> ManifestOf("base", << >>),
     "first.json" :> ManifestOf("more", << "base", "lost" >>) @@ "second.json" :> ManifestOf("base", << >>)
        @@ "third.json" :> ManifestOf("null", << "more" >>),
     "first.json" :> ManifestOf("base", << >>) @@ "second.json" :> ManifestOf("base", << "base" >>)
        @@ "third.json" :> [ManifestOf("base", << >>) EXCEPT !.displayName = "other"],
     "first.json" :> ForCore("base", << 1, 3, 0 >>, << 2, 0, 0 >>) @@ "second.json" :> ForCore("more", << 0, 1, 0 >>, << 0, 9, 0 >>)
        @@ "third.json" :> ForCore("half", << 1, 0, 0 >>, << 1, 2, 0 >>) @@ "fourth.json" :> ForCore("void", << 1, 0, 0 >>, << 1, 1, 9 >>),
     "first.json" :> ManifestOf("void", << >>) @@ "second.json" :> ManifestOf("blank", << >>)
        @@ "third.json" :> ManifestOf("pointer", << "null" >>) @@ "fourth.json" :> ManifestOf("null", << >>)
        @@ "fifth.json" :> [ManifestOf("more", << >>) EXCEPT !.minCoreApi = << 1, 0 >>]}

Task == [kind |-> "component", type |-> "task"]
Flow == [kind |-> "connection", type |-> "flow"]
MCTargets == {Task, Flow}

Row(key, widget, section, order) ==
    [key |-> key, title |-> NoText, type |-> "int", editor |-> widget, widget |-> NoText,
     section |-> section, order |-> order]

MCAppProviders ==
    << [kind |-> "connectionPolicy", id |-> "compiled", gives |-> << >>],
       [kind |-> "validation", id |-> "compiled", gives |-> << >>] >>

MCFactories ==
    "base" :> << [kind |-> "componentType", id |-> "base.types", gives |-> << "task", Blank, "task" >>],
                 [kind |-> "connectionPolicy", id |-> "base.policy", gives |-> << >>],
                 [kind |-> "propertySchema", id |-> "base.schema",
                  gives |-> << [target |-> Task, rows |-> << Row("b", "spinbox", "Behavior", 2),
                                                            Row("a", "textfield", NoText, 1),
                                                            Row("c", NoText, "Behavior", 1) >>] >>],
                 [kind |-> "executionV0", id |-> "base.run", gives |-> << "task" >>],
                 [kind |-> "action", id |-> "base.actions", gives |-> << "prioritise" >>] >>
    @@ "more" :> << [kind |-> "componentType", id |-> "more.types", gives |-> << "task" >>],
                    [kind |-> "propertySchema", id |-> "more.schema",
                     gives |-> << [target |-> Task, rows |-> << Row("b", "textarea", Spaces, 1),
                                                               Row(NoText, "dropdown", "Behavior", 0) >>],
                                  [target |-> Task, rows |-> << >>] >>],
                    [kind |-> "execution", id |-> "more.run", gives |-> << "task", "timer" >>],
                    [kind |-> "action", id |-> "more.actions", gives |-> << "prioritise" >>] >>
    @@ "half" :> << [kind |-> "componentType", id |-> "half.types", gives |-> << "timer", "task" >>],
                    [kind |-> "validation", id |-> "compiled", gives |-> << >>],
                    [kind |-> "action", id |-> "half.actions", gives |-> << "delay" >>] >>
    @@ "blank" :> << [kind |-> "action", id |-> Blank, gives |-> << >>] >>
    @@ "pointer" :> << [kind |-> "connectionPolicy", id |-> "pointer.policy", gives |-> << >>], NullProvider >>
    @@ "null" :> NullPack
    @@ "loop" :> << >>

=============================================================================
