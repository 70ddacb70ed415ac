--------------------------- MODULE ContextManager ---------------------------
(***************************************************************************)
(* ContextManager::build (src/src/context/context_manager.cpp): the prompt *)
(* from five sections, each within a budget of characters, and the loop    *)
(* that lowers the budgets until the prompt is within its own.  A text is  *)
(* its length: tail_clip(text, limit) has the smaller of both.             *)
(***************************************************************************)
EXTENDS Integers, Sequences, FiniteSets, SequencesExt, FiniteSetsExt

CONSTANT Inputs   \* what build is called with

ReductionOrder == <<"relevant_memory", "history", "memory", "prefix">>
Sections == ToSet(ReductionOrder)

\* A line is the length of one.  The first line of an item is "[tool:name] args"
\* or "[role] "; brief is what summarize_old_tool_item makes of it, and reusable
\* the length of its entry when the summary of its file can be reused, or 0.
Items == [tool : BOOLEAN, reads : STRING, call : Nat, content : Nat, brief : Nat, reusable : Nat]

ASSUME InputAssumption ==
    \A i \in Inputs :
        /\ i.text \in [{"prefix", "memory", "request"} -> Nat]
        /\ i.notes \in Seq(Nat) /\ i.history \in Seq(Items)
        /\ i.budgets \in [Sections -> Nat]
        /\ \A s \in DOMAIN i.overrides : s \in Sections /\ i.overrides[s] \in Nat
        /\ i.total \in Nat /\ i.reduce \in BOOLEAN

VARIABLES
    input,    \* the arguments and the options of the call
    budgets,  \* the budgets of the sections
    phase     \* "rendered" or "built"

contextVars == <<input, budgets, phase>>

Larger(a, b) == Max({a, b})
Clip(length, limit) == Min({length, limit})
Total(lines) ==
    LET sum[n \in 0..Len(lines)] == IF n = 0 THEN 0 ELSE sum[n - 1] + lines[n]
    IN  sum[Len(lines)]
\* Lines below a header line: each comes with a line break.
Below(header, lines) == header + Len(lines) + Total(lines)

-----------------------------------------------------------------------------
(* Relevant memory *)

\* Each note gets the same share; with too many notes the section is clipped.
RelevantMemory(notes, budget) ==
    LET n == Len(notes)
        header == 16
        share == Larger(1, (budget - header - 3 * n) \div n)
        With(k) == Below(header, [i \in 1..n |-> 2 + Clip(notes[i], k)])
        raw == Below(header, [i \in 1..n |-> 2 + notes[i]])
    IN  IF n = 0 THEN header + 7
        ELSE IF With(share) > budget /\ budget > 0 THEN Clip(raw, budget) ELSE With(share)

-----------------------------------------------------------------------------
(* History *)

TranscriptHeader == 11
RecentWindow == 6

\* render_history_item.
ItemLines(item, limit) ==
    IF item.tool THEN <<item.call, Clip(item.content, Larger(20, limit))>>
    ELSE <<item.call + Clip(item.content, limit)>>

Recent(history, i) == i > Len(history) - RecentWindow

\* An older item that read a file is not shown if another had read it before.
Collapsed(history, i) ==
    /\ ~Recent(history, i) /\ history[i].reads # ""
    /\ \E j \in 1..(i - 1) : history[j].reads = history[i].reads

\* The entry of an item, of an older one in a short form.
Entry(history, i) ==
    [item |-> i, recent |-> Recent(history, i), lines |->
        IF Recent(history, i) THEN ItemLines(history[i], 900)
        ELSE IF history[i].reusable > 0 THEN <<history[i].reusable>>
        ELSE IF history[i].tool THEN <<history[i].brief>>
        ELSE ItemLines(history[i], 60)]

NothingYet == [items |-> {}, lines |-> <<>>]
Fits(lines, budget) == Below(TranscriptHeader, lines) <= budget

\* One entry is put before those that are rendered, as it is or clipped; one that
\* does not fit is left out, and the next is tried.
Put(rendered, entry, budget) ==
    LET room == Larger(20, budget - Below(TranscriptHeader, rendered.lines) - 1)
        limit == IF entry.recent THEN room ELSE 20
        clipped == [i \in DOMAIN entry.lines |-> Clip(entry.lines[i], limit)]
        With(lines) == [items |-> rendered.items \cup {entry.item},
                        lines |-> lines \o rendered.lines]
    IN  IF Fits(With(entry.lines).lines, budget) THEN With(entry.lines)
        ELSE IF Fits(With(clipped).lines, budget) THEN With(clipped)
        ELSE rendered

\* Bug: the oldest entries come first.
OldestFirst(history) == [n \in DOMAIN history |-> n]
NewestFirst(history) == [n \in DOMAIN history |-> Len(history) + 1 - n]

RenderedEntries(history, budget) ==
    LET order == NewestFirst(history)
        rendered[n \in 0..Len(history)] ==
            IF n = 0 THEN NothingYet
            ELSE IF Collapsed(history, order[n]) THEN rendered[n - 1]
            ELSE Put(rendered[n - 1], Entry(history, order[n]), budget)
    IN  rendered[Len(history)]

\* raw_history_text: two lines for a tool's item, one for others.
RawHistory(history) ==
    IF history = <<>> THEN TranscriptHeader + 8
    ELSE TranscriptHeader +
         Total([i \in DOMAIN history |->
                   history[i].call + history[i].content + (IF history[i].tool THEN 2 ELSE 1)])

History(history, budget) ==
    LET length == Below(TranscriptHeader, RenderedEntries(history, budget).lines)
    IN  IF history = <<>> THEN RawHistory(history)
        ELSE IF length > budget /\ budget > 0 THEN Clip(RawHistory(history), budget)
        ELSE length

-----------------------------------------------------------------------------
(* The prompt *)

\* render_sections and assemble: five sections with an empty line between.
Rendered(section, budget) ==
    CASE section = "relevant_memory" -> RelevantMemory(input.notes, budget)
      [] section = "history" -> History(input.history, budget)
      [] OTHER -> Clip(input.text[section], budget)

Separators == 8
PromptLength ==
    input.text["request"] + Separators +
        Total([i \in 1..4 |-> Rendered(ReductionOrder[i], budgets[ReductionOrder[i]])])

\* compute_section_floors.
Floor(section) ==
    IF section \in DOMAIN input.overrides THEN input.overrides[section]
    ELSE Larger(20, input.budgets[section] \div 4)

ContextInit == input \in Inputs /\ budgets = input.budgets /\ phase = "rendered"

Reducible(i) == budgets[ReductionOrder[i]] > Floor(ReductionOrder[i])

\* Bug: the last section is left as it is.
SomeSections == 1..3
AllSections == 1..4

\* One turn of the loop: the first section above its floor gives up what is too
\* much, and the sections are rendered again.
Reduce ==
    /\ phase = "rendered" /\ input.reduce /\ PromptLength > input.total
    /\ \E i \in AllSections :
          /\ Reducible(i) /\ \A j \in 1..(i - 1) : ~Reducible(j)
          /\ budgets' = [budgets EXCEPT ![ReductionOrder[i]] =
                Larger(Floor(ReductionOrder[i]), @ - (PromptLength - input.total))]
    /\ UNCHANGED <<input, phase>>

\* The prompt fits, or nothing can be reduced; without context_reduction all
\* sections are shown in full.
Built ==
    /\ phase = "rendered"
    /\ input.reduce => PromptLength <= input.total \/ \A i \in AllSections : ~Reducible(i)
    /\ phase' = "built"
    /\ UNCHANGED <<input, budgets>>

ContextNext == Reduce \/ Built

ContextSpec == ContextInit /\ [][ContextNext]_contextVars

-----------------------------------------------------------------------------
(* Properties *)

\* What a section takes at least: its floor, or the header it has when empty; a
\* budget of zero is not kept.
Least(section) ==
    IF 0 \in {Floor(section), input.budgets[section]} THEN Rendered(section, 0)
    ELSE Larger(23, Floor(section))

\* The prompt is over its budget only if the request leaves no room for every
\* section at its least: each section keeps to the budget it is given, and all
\* of them give way.
FitsUnlessAtFloors ==
    phase = "built" /\ input.reduce /\ PromptLength > input.total =>
        input.text["request"] + Separators +
            Total([i \in 1..4 |-> Least(ReductionOrder[i])]) > input.total

\* What was said last is in the transcript however small its budget becomes; the
\* tool that was called last is if its call and the first 900 characters of its
\* result fit, and is otherwise left out, not clipped, for items that are older.
NewestIsShown ==
    LET newest == Len(input.history)
        item == input.history[newest]
        budget == budgets["history"]
        shown == newest \in RenderedEntries(input.history, budget).items
    IN  phase = "built" /\ input.reduce /\ newest > 0 =>
            IF item.tool THEN shown <=> Fits(ItemLines(item, 900), budget)
            ELSE budget >= 32 => shown
=============================================================================
