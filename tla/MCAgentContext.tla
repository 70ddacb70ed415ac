--------------------------- MODULE MCAgentContext ---------------------------
(* What one agent puts into its prompts: what it knows of the files, and the  *)
(* text of the sections; and the cache that agents may share.  They have no   *)
(* state in common here, so a behaviour moves one of them only.               *)
EXTENDS AgentMemory, ContextManager, ContextCache, TLC

MCEdits == {[by |-> "others", olds |-> n] : n \in {0, 2}} \cup {Start, Absent}
Symmetry == Permutations(Files)

-----------------------------------------------------------------------------
(* Inputs of build: short and long texts on both sides of the budgets *)

Item(isTool, path, first, rest, short, entry) ==
    [tool |-> isTool, reads |-> path, call |-> first, content |-> rest,
     brief |-> short, reusable |-> entry]
Said(n) == Item(FALSE, "", 7, n, 0, 0)
Read(path, entry) == Item(TRUE, path, 32, 4000, 32, entry)
Wrote(n) == Item(TRUE, "", 60 + n, 30, 60 + n, 0)
Shell == Item(TRUE, "", 40, 300, 120, 0)
Newest == {Said(10), Said(3000), Read("a", 0), Wrote(5200), Shell}

\* With six items that are recent, these are older: reads of one file with a
\* summary and without, and what cannot be shortened.
Older == {<<Read("a", 0), Read("b", 0), Read("a", 0), Said(3000)>>,
          <<Read("a", 60), Shell, Read("a", 60)>>,
          <<Wrote(5200), Said(10), Wrote(5200)>>}
Histories ==
    {<<>>} \cup {<<i>> : i \in Newest} \cup {<<i, j>> : i, j \in Newest} \cup
    {older \o <<Shell, Said(3000), Read("b", 60), Said(10)>> \o <<i, j>> :
        older \in Older, i, j \in Newest}

Setting(h, m, p, r, overrides, total, reduce) ==
    [budgets |-> [history |-> h, memory |-> m, prefix |-> p, relevant_memory |-> r],
     overrides |-> overrides, total |-> total, reduce |-> reduce]
NoOverrides == [s \in {} |-> 0]
\* The defaults, with reduction and without; two smaller budgets, one with a floor
\* of zero; the budgets of the unit test.
Settings == {Setting(5200, 1600, 3600, 1200, NoOverrides, 12000, reduce) : reduce \in BOOLEAN} \cup
            {Setting(5200, 1600, 3600, 1200, NoOverrides, 5000, TRUE),
             Setting(5200, 1600, 3600, 1200, [s \in {"relevant_memory"} |-> 0], 3500, TRUE),
             Setting(200, 100, 100, 100, NoOverrides, 180, TRUE)}

MCInputs ==
    {[history |-> h, notes |-> n, text |-> [prefix |-> p, memory |-> m, request |-> r]] @@ s :
        h \in Histories, n \in {<<>>, <<500, 500, 500>>, <<2000, 10, 2000>>},
        p \in {1500, 9000}, m \in {200, 3000}, r \in {50, 13000}, s \in Settings}

-----------------------------------------------------------------------------
VARIABLE scene

OneInput == CHOOSE i \in MCInputs : TRUE
OneOption == CHOOSE o \in Options : TRUE
MCInit == /\ Init /\ ContextInit /\ CacheInit
          /\ \/ scene = "memory" /\ input = OneInput
             \/ scene = "prompt" /\ prefix[2] = OneOption
             \/ scene = "cache" /\ prefix[2] = OneOption /\ input = OneInput
MCNext == /\ UNCHANGED scene
          /\ \/ scene = "memory" /\ Next /\ UNCHANGED <<contextVars, cacheVars>>
             \/ scene = "prompt" /\ ContextNext /\ UNCHANGED <<vars, cacheVars>>
             \/ scene = "cache" /\ CacheNext /\ UNCHANGED <<vars, contextVars>>
MCSpec == MCInit /\ [][MCNext]_<<vars, contextVars, cacheVars, scene>>
=============================================================================
