---------------------------- MODULE NameMatching ----------------------------
(***************************************************************************)
(* How alike two tenant names are (dedup similarity.rs): the matcher that  *)
(* ports difflib's, its work queue as the state, and the cheap bound that  *)
(* rules pairs out before it runs.  A name is a sequence of letters,       *)
(* numbers in the alphabet's order with 0 for a space; a ratio is kept as  *)
(* its matched letters and its length, and compared in hundredths.         *)
(* Positions count from 0, as in the code.                                 *)
(***************************************************************************)
EXTENDS Naturals, FiniteSets, Sequences, SequencesExt

CONSTANT VARIANT_SURFACE_THRESHOLD   \* in hundredths

ASSUME ThresholdAssumption == VARIANT_SURFACE_THRESHOLD \in 1 .. 100

VARIABLES names,     \* the pair of display names
          form,      \* the form being compared: as written, then with sorted words
          queue,     \* the regions still to match, the last one next
          total,     \* letters matched so far
          ratios     \* the matched letters of the forms that are done

nameVars == <<names, form, queue, total, ratios>>

Space == 0

(***************************************************************************)
(* The words of a name, and the name with its words sorted.                *)
(***************************************************************************)
\* The letters after a space begin a word; a run of spaces is one.
split_whitespace(s) ==
  LET words == FoldLeft(LAMBDA w, c : IF c = Space THEN Append(w, <<>>)
                                      ELSE Append(Front(w), Append(Last(w), c)), << <<>> >>, s)
  IN  SelectSeq(words, LAMBDA w : w # <<>>)

\* The order of strings: the first difference decides, a prefix comes first.
WordBefore(v, w) ==
  \E n \in 0 .. Len(v) :
    /\ n <= Len(w) /\ SubSeq(v, 1, n) = SubSeq(w, 1, n)
    /\ \/ n = Len(v) /\ n < Len(w)
       \/ n < Len(v) /\ n < Len(w) /\ v[n + 1] < w[n + 1]

sort_words(s) ==
  LET words == SortSeq(split_whitespace(s), WordBefore)
  IN  FlattenSeq([n \in DOMAIN words |-> IF n = 1 THEN words[n] ELSE <<Space>> \o words[n]])

Compared(f) == IF f = "straight" THEN names ELSE <<sort_words(names[1]), sort_words(names[2])>>

(***************************************************************************)
(* The matcher                                                             *)
(***************************************************************************)
Region(alo, ahi, blo, bhi) == [alo |-> alo, ahi |-> ahi, blo |-> blo, bhi |-> bhi]

Nothing(r) == [i |-> r.alo, j |-> r.blo, k |-> 0]

\* A run is better only when longer, so the earliest of the longest stays.
extend(best, i, j, k) ==
  IF k > best.k THEN [i |-> i + 1 - k, j |-> j + 1 - k, k |-> k] ELSE best

\* The sweep: len[j] is the length of the run that ends at the letter of a
\* looked at and at j.
longest_match(a, b, r) ==
  LET Letter(s, i) ==
        LET k(j) == (IF j > 0 /\ j - 1 \in DOMAIN s.len THEN s.len[j - 1] ELSE 0) + 1
            js   == SelectSeq([n \in 1 .. r.bhi - r.blo |-> r.blo + n - 1], LAMBDA j : b[j + 1] = a[i + 1])
        IN  [best |-> FoldLeft(LAMBDA best, j : extend(best, i, j, k(j)), s.best, js),
             len  |-> [j \in Range(js) |-> k(j)]]
  IN  FoldLeft(Letter, [best |-> Nothing(r), len |-> <<>>],
               [n \in 1 .. r.ahi - r.alo |-> r.alo + n - 1]).best

Before(r, m) == IF r.alo < m.i /\ r.blo < m.j THEN <<Region(r.alo, m.i, r.blo, m.j)>> ELSE <<>>
Behind(r, m) ==
  IF m.i + m.k < r.ahi /\ m.j + m.k < r.bhi THEN <<Region(m.i + m.k, r.ahi, m.j + m.k, r.bhi)>> ELSE <<>>

Whole(pair) == Region(0, Len(pair[1]), 0, Len(pair[2]))

\* One turn of total_matched's loop.
total_matched ==
  /\ queue # <<>>
  /\ LET pair == Compared(form)
         r    == Last(queue)
         m    == longest_match(pair[1], pair[2], r)
     IN  /\ total' = total + m.k
         /\ queue' = IF m.k = 0 THEN Front(queue) ELSE Front(queue) \o Before(r, m) \o Behind(r, m)
  /\ UNCHANGED <<names, form, ratios>>

\* name_similarity compares the names as written, then with sorted words.
NextForm ==
  /\ queue = <<>> /\ form # "done"
  /\ ratios' = [ratios EXCEPT ![form] = total]
  /\ total' = 0
  /\ IF form = "straight"
     THEN form' = "sorted" /\ queue' = <<Whole(Compared("sorted"))>>
     ELSE form' = "done" /\ queue' = <<>>
  /\ UNCHANGED names

NameInit(pairs) ==
  /\ names \in pairs
  /\ form = "straight" /\ total = 0 /\ ratios = [straight |-> 0, sorted |-> 0]
  /\ queue = <<Whole(names)>>

NameStep == total_matched \/ NextForm

(***************************************************************************)
(* The bound                                                               *)
(***************************************************************************)
SortedLetters(s) == SortSeq(s, <)

RECURSIVE CommonFrom(_, _, _, _)
CommonFrom(a, b, i, j) ==
  IF i > Len(a) \/ j > Len(b) THEN 0
  ELSE IF a[i] < b[j] THEN CommonFrom(a, b, i + 1, j)
  ELSE IF a[i] > b[j] THEN CommonFrom(a, b, i, j + 1)
  ELSE 1 + CommonFrom(a, b, i + 1, j + 1)

multiset_intersection(a, b) == CommonFrom(SortedLetters(a), SortedLetters(b), 1, 1)

\* 2 * matched / length reaches the threshold; two empty names are alike.
Reaches(matched, pair) ==
  LET length == Len(pair[1]) + Len(pair[2])
  IN  length = 0 \/ 200 * matched >= VARIANT_SURFACE_THRESHOLD * length

\* Mutant: the names as written alone.
could_reach_as_written ==
  Reaches(multiset_intersection(names[1], names[2]), names)

could_reach_threshold ==
  \E f \in {"straight", "sorted"} :
    Reaches(multiset_intersection(Compared(f)[1], Compared(f)[2]), Compared(f))

\* The pair is surfaced: similarity.rs runs the matcher only past the bound.
Surfaced == \E f \in {"straight", "sorted"} : Reaches(ratios[f], Compared(f))

-----------------------------------------------------------------------------
\* The common runs of a region, by definition.
Runs(a, b, r) ==
  {m \in [i : r.alo .. r.ahi, j : r.blo .. r.bhi, k : 1 .. r.ahi - r.alo] :
     /\ m.i + m.k <= r.ahi /\ m.j + m.k <= r.bhi
     /\ \A n \in 1 .. m.k : a[m.i + n] = b[m.j + n]}

\* The bound never rules out a pair that the matcher would surface
\* (could_reach_threshold: "skipped with no change to the result").
BoundDropsNothing == (form = "done" /\ Surfaced) => could_reach_threshold

=============================================================================
