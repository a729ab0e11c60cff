-------------------------- MODULE ClickUpMatching --------------------------
(***************************************************************************)
(* The suggestions of the ClickUp pages.                                   *)
(*   - clickup_suggestions: each facility's ranked lists                   *)
(*     (clickup/matching.rs) turned into one suggestion per facility       *)
(*     (clickup/assignment.rs);                                            *)
(*   - copy_pairs and bulk_pairs: the tasks of two lists paired one to one *)
(*     (clickup/copy_pairing.rs);                                          *)
(*   - the task candidates of a tool run (clickup/task_matching.rs).       *)
(* Each is a loop over choices sorted by a score, so each is a small state *)
(* machine here: the input is chosen in the initial state and one step is  *)
(* one turn of the loop.  List scores are free percentages (the weights of *)
(* rare words are logarithms); task scores are computed exactly.           *)
(***************************************************************************)
EXTENDS Naturals, FiniteSets, Sequences, SequencesExt

CONSTANTS Places,        \* facilities of the company: 1 .. n, in name order
          Lists,         \* lists of the onboarding space: 1 .. m
          ListScores,    \* scores a list may have, in percent
          CANDIDATES_PER_FACILITY,
          SourceTasks, TargetTasks, \* the task lists that may be paired
          Steps, CheckTasks,        \* onboarding steps and task lists for them
          Nothing        \* an absent value (None)

ASSUME MatchingConstants ==
    /\ Places = 1 .. Cardinality(Places)
    /\ Lists = 1 .. Cardinality(Lists)
    /\ ListScores \subseteq 0 .. 125
    /\ CANDIDATES_PER_FACILITY \in Nat \ {0}

VARIABLES scores,   \* [Places -> [Lists -> ListScores]]
          served,   \* the facilities assign_unique went through
          picked,   \* [Places -> match or Nothing]
          copying,  \* the two task lists, the pairs left and those chosen
          wanted     \* a step and the tasks it is looked for among
matchingVars == <<scores, served, picked, copying, wanted>>

-----------------------------------------------------------------------------
(* matching.rs and assignment.rs                                           *)

MIN_SUGGESTION_SCORE == 45

\* second: the runner-up's score, Nothing when there is none to compare.
confidence_for(score, second) ==
    LET margin == IF second = Nothing THEN 100 ELSE score - second
    IN  IF score >= 90 /\ margin >= 15 THEN "high"
        ELSE IF score >= 60 /\ margin >= 5 THEN "medium" ELSE "low"

\* What the index may give a list for a facility: the weighted overlap of their
\* words and bigrams and the folder's bonus come to any score.
MatchIndex == [Places -> [Lists -> ListScores]]

\* The best candidates, best first; equal scores keep the lists' order.  Only
\* the first one is compared with the one after it.
rank(f) ==
    LET worth == {l \in Lists : scores[f][l] >= MIN_SUGGESTION_SCORE}
        Before(a, b) == scores[f][a] > scores[f][b] \/ (scores[f][a] = scores[f][b] /\ a < b)
        sorted == SetToSortSeq(worth, Before)
        kept == SubSeq(sorted, 1, IF Len(sorted) < CANDIDATES_PER_FACILITY
                                  THEN Len(sorted) ELSE CANDIDATES_PER_FACILITY)
        Second == IF Len(kept) > 1 THEN scores[f][kept[2]] ELSE Nothing
    IN  [i \in 1 .. Len(kept) |->
            [list |-> kept[i], score |-> scores[f][kept[i]],
             confidence |-> confidence_for(scores[f][kept[i]],
                                           IF i = 1 THEN Second ELSE Nothing)]]

Top(f) == IF rank(f) = <<>> THEN 0 ELSE rank(f)[1].score

\* Mutant: facilities are served in the order they come.
ServedBeforeByName(f, g) == f < g

\* The order of service: strongest first candidate, then order of appearance.
ServedBefore(f, g) == Top(f) > Top(g) \/ (Top(f) = Top(g) /\ f < g)

claimed == {picked[f].list : f \in {x \in served : picked[x] # Nothing}}

\* The facility's best candidate that nobody took before it.
BestUnclaimed(f) ==
    LET free == {i \in DOMAIN rank(f) : rank(f)[i].list \notin claimed}
    IN  IF free = {} THEN Nothing
        ELSE rank(f)[CHOOSE i \in free : \A j \in free : i <= j]

\* One turn of the loop of assign_unique.
assign_unique(f) ==
    /\ f \in Places \ served
    /\ \A g \in Places \ (served \cup {f}) : ServedBefore(f, g)
    /\ picked' = [picked EXCEPT ![f] = BestUnclaimed(f)]
    /\ served' = served \cup {f}
    /\ UNCHANGED <<scores, copying, wanted>>

-----------------------------------------------------------------------------
(* task_matching.rs.  A task's name is a set of lower-case words.          *)

FILLER == {"perform", "complete", "run", "the"}
Numbering == {"1", "2"}
OrdinalWords == [first |-> "1st", second |-> "2nd", third |-> "3rd"]
ordinal_value == [t \in {"1st", "2nd", "3rd"} |-> CASE t = "1st" -> 1 [] t = "2nd" -> 2 [] OTHER -> 3]
Singular == [corrections |-> "correction", duplicates |-> "duplicate",
             fees |-> "fee", users |-> "user"]

\* Ordinal words are unified, filler and numbering dropped, plurals trimmed.
tokens(name) ==
    {IF w \in DOMAIN OrdinalWords THEN OrdinalWords[w]
     ELSE IF w \in DOMAIN Singular THEN Singular[w] ELSE w :
        w \in name \ (FILLER \cup Numbering)}

\* The overlap of two token sets, as a part of Whole: a multiple of every
\* number of words up to ten, so the division is exact.
Whole == 2520
dice(a, b) ==
    IF a = {} \/ b = {} THEN 0
    ELSE (2 * Whole * Cardinality(a \cap b)) \div (Cardinality(a) + Cardinality(b))

Smaller(a, b) == IF a < b THEN a ELSE b

\* In parts of 10 * Whole: a task that names another check counts for 0.4 (a
\* name holds at most one ordinal here).
task_score(step, name) ==
    LET overlaps == {dice(tokens(name), tokens(p)) : p \in step.phrases} \cup {0}
        best == CHOOSE d \in overlaps : \A e \in overlaps : e <= d
        ordinals == tokens(name) \cap DOMAIN ordinal_value
        other == \E t \in ordinals :
                     Smaller(ordinal_value[t], 2) # Smaller(step.ordinal, 2)
    IN  IF other THEN 4 * best ELSE 10 * best

\* The tasks worth offering: a score of 0.4 or more.
task_rank(step, tasks) == {t \in tasks : task_score(step, t.name) >= 4 * Whole}

-----------------------------------------------------------------------------
(* copy_pairing.rs                                                         *)

copy_phase(task) == task.phase

\* The tasks of a list that take part, in the list's order.
eligible(tasks, only) ==
    SelectSeq(tasks, LAMBDA t : /\ copy_phase(t) # Nothing
                                /\ only = Nothing \/ t.scope = only)

same_phase(a, b) == a.phase = b.phase

\* In parts of 10 * Whole: 0.7 of the names and 0.3 of the parents' names.
pair_score(s, t) ==
    LET name == dice(tokens(s.name), tokens(t.name))
    IN  IF s.parent # Nothing /\ t.parent # Nothing
        THEN 7 * name + 3 * dice(tokens(s.parent), tokens(t.parent))
        ELSE 10 * name

\* Every plausible pairing <<source, target>>, as positions.
plausible(from, into) ==
    {p \in (1 .. Len(from)) \X (1 .. Len(into)) :
        /\ same_phase(from[p[1]], into[p[2]])
        /\ pair_score(from[p[1]], into[p[2]]) >= 5 * Whole}

\* Best score first, then by the names, then as found.
ComesFirst(p, q, from, into) ==
    LET key(x) == <<10 * Whole - pair_score(from[x[1]], into[x[2]]),
                    from[x[1]].order, into[x[2]].order, x[1], x[2]>>
    IN  \E i \in 1 .. 5 : /\ \A j \in 1 .. i - 1 : key(p)[j] = key(q)[j]
                          /\ key(p)[i] < key(q)[i]

Unclaimed(p, chosen) == \A c \in chosen : c[1] # p[1] /\ c[2] # p[2]

\* One turn of the loop of pair: the best pairing left is taken, unless its
\* source or its target was claimed.
pair(p) ==
    /\ p \in copying.left
    /\ \A q \in copying.left \ {p} : ComesFirst(p, q, copying.from, copying.into)
    /\ copying' = [copying EXCEPT
           !.left = @ \ {p},
           !.chosen = IF Unclaimed(p, @) THEN @ \cup {p} ELSE @]
    /\ UNCHANGED <<scores, served, picked, wanted>>

-----------------------------------------------------------------------------
NoCopying == [from |-> <<>>, into |-> <<>>, left |-> {}, chosen |-> {}]
NoAsk == [step |-> Nothing, tasks |-> {}]

\* Every facility is ranked against the same index, then served.
clickup_suggestions ==
    /\ scores \in MatchIndex
    /\ served = {} /\ picked = [f \in Places |-> Nothing]
    /\ copying = NoCopying /\ wanted = NoAsk

copy_pairs ==
    /\ \E source \in SourceTasks, target \in TargetTasks, only \in {Nothing, "facility"} :
          LET from == eligible(source, only)
              into == eligible(target, only)
          IN  copying = [from |-> from, into |-> into,
                         left |-> plausible(from, into), chosen |-> {}]
    /\ scores = [f \in Places |-> [l \in Lists |-> 0]]
    /\ served = Places /\ picked = [f \in Places |-> Nothing]
    /\ wanted = NoAsk

run_candidates ==
    /\ \E step \in Steps, tasks \in CheckTasks : wanted = [step |-> step, tasks |-> tasks]
    /\ scores = [f \in Places |-> [l \in Lists |-> 0]]
    /\ served = Places /\ picked = [f \in Places |-> Nothing]
    /\ copying = NoCopying

MatchingInit == clickup_suggestions \/ copy_pairs \/ run_candidates

MatchingStep ==
    \/ \E f \in Places : assign_unique(f)
    \/ \E p \in copying.left : pair(p)

-----------------------------------------------------------------------------
(* Properties                                                              *)

\* Of two facilities whose first choice is the same list, assign_unique never
\* gives it to the one with the weaker claim.
FirstChoiceGoesToTheStronger ==
    \A f, g \in served :
        /\ rank(f) # <<>> /\ rank(g) # <<>>
        /\ rank(f)[1].list = rank(g)[1].list /\ Top(f) > Top(g)
        => picked[g] = Nothing \/ picked[g].list # rank(g)[1].list

=============================================================================
