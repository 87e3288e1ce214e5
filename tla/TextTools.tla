----------------------------- MODULE TextTools ------------------------------
(***************************************************************************)
(* The text commands, which exist twice: as applets of MakoBox             *)
(* (src/makobox.c) on whole files, and in shared/shell_commands.c for      *)
(* xterm, on the first FILE_CAPACITY bytes of a file and the first         *)
(* LINE_CAPACITY - 1 of a line (module SharedShell).                       *)
(*                                                                         *)
(* A behaviour is one command: Init chooses the inputs, a step computes    *)
(* the output.  out.rows are the lines printed, out.nums the numbers, and  *)
(* out.ok says that the command did not stop with a message.               *)
(***************************************************************************)
EXTENDS Integers, Sequences, SequencesExt, FiniteSets

CONSTANTS Shared,         \* TRUE: shell_commands.c
          NL, SP,         \* the two separators
          Files, Patterns, Counts, Ranges, Expressions,   \* inputs
          FILE_CAPACITY, LINE_CAPACITY, SORT_MAX_LINES, STRING_MIN

VARIABLE s

Min2(a, b) == IF a < b THEN a ELSE b
Upto(i) == [k \in 1..i |-> k]
Read(f) == IF Shared THEN SubSeq(f, 1, Min2(Len(f), FILE_CAPACITY)) ELSE f
print_line_view(l) == IF Shared THEN SubSeq(l, 1, Min2(Len(l), LINE_CAPACITY - 1)) ELSE l

Rows(r) == [ok |-> TRUE, rows |-> r, nums |-> <<>>]
Nums(n) == [ok |-> TRUE, rows |-> <<>>, nums |-> n]
Message == [ok |-> FALSE, rows |-> <<>>, nums |-> <<>>]
Printed(l) == Rows([i \in 1..Len(l) |-> print_line_view(l[i])])

(***************************************************************************)
(* Lines.  A last line without a newline is a line; nothing follows a last *)
(* newline.                                                                *)
(***************************************************************************)
next_line(d, o) ==
  LET ends == {e \in o..Len(d) - 1 : d[e + 1] = NL}
      end == IF ends = {} THEN Len(d) ELSE CHOOSE e \in ends : \A x \in ends : e <= x
  IN  [line |-> SubSeq(d, o + 1, end), next |-> IF end < Len(d) THEN end + 1 ELSE end]
RECURSIVE LinesFrom(_, _)
LinesFrom(d, o) ==
  IF o >= Len(d) THEN <<>> ELSE LET v == next_line(d, o) IN <<v.line>> \o LinesFrom(d, v.next)
Lines(d) == LinesFrom(d, 0)

compare_line_views(a, b) ==
  LET n == Min2(Len(a), Len(b))
      D == {i \in 1..n : a[i] # b[i]}
      i == CHOOSE x \in D : \A y \in D : x <= y
  IN  IF D = {} THEN Len(a) - Len(b) ELSE a[i] - b[i]

contains(l, p) ==
  p = <<>> \/ \E o \in 0..Len(l) - Len(p) : \A i \in 1..Len(p) : l[o + i] = p[i]

(***************************************************************************)
(* The commands.                                                           *)
(***************************************************************************)
applet_cat(d) == Printed(Lines(d))

applet_head(d, n) == Printed(SubSeq(Lines(d), 1, Min2(n, Len(Lines(d)))))

Bug_applet_tail(d, n) ==
  LET total == Len(Lines(d)) IN Printed(SubSeq(Lines(d), (IF total >= n THEN total - n ELSE 1) + 1, total))
(* Two passes: the lines are counted, then all but the last n skipped.     *)
applet_tail(d, n) ==
  LET total == Len(Lines(d))
      skip == IF total > n THEN total - n ELSE 0
  IN  Printed(SubSeq(Lines(d), skip + 1, total))

(* The offset of every line is kept, then they are walked backwards.       *)
RECURSIVE Offsets(_, _)
Offsets(d, o) == IF o >= Len(d) THEN <<>> ELSE <<o>> \o Offsets(d, next_line(d, o).next)
applet_tac(d) ==
  LET at == Offsets(d, 0)
      n == Len(at)
  IN  IF n > SORT_MAX_LINES THEN Message ELSE Printed([i \in 1..n |-> next_line(d, at[n + 1 - i]).line])

applet_rev(d) == Printed([i \in 1..Len(Lines(d)) |-> Reverse(Lines(d)[i])])

(* Selection sort: the first smallest of the rest is swapped to the front. *)
Best(l, i) ==
  CHOOSE b \in i..Len(l) : \A j \in i..Len(l) :
    LET c == compare_line_views(l[b], l[j]) IN c < 0 \/ (c = 0 /\ b <= j)
Swap(l, i) == [l EXCEPT ![i] = l[Best(l, i)], ![Best(l, i)] = l[i]]
applet_sort(d) ==
  IF Len(Lines(d)) > SORT_MAX_LINES THEN Message
  ELSE Printed(FoldLeft(Swap, Lines(d), Upto(Len(Lines(d)))))

applet_uniq(d) ==
  Printed(FoldLeft(LAMBDA a, l : IF a # <<>> /\ compare_line_views(a[Len(a)], l) = 0 THEN a ELSE Append(a, l),
                   <<>>, Lines(d)))

(* MakoBox's has its own loop: a line ends at a newline or the last byte.  *)
GrepByte(d, p, a, i) ==
  IF d[i] # NL /\ i # Len(d) THEN a
  ELSE LET l == SubSeq(d, a.start, IF d[i] = NL THEN i - 1 ELSE i)
       IN  [start |-> i + 1, found |-> IF contains(l, p) THEN Append(a.found, l) ELSE a.found]
applet_grep(d, p) ==
  LET found == IF Shared THEN SelectSeq(Lines(d), LAMBDA l : contains(l, p))
               ELSE FoldLeft(LAMBDA a, i : GrepByte(d, p, a, i), [start |-> 1, found |-> <<>>], Upto(Len(d))).found
  IN  IF found = <<>> THEN Message ELSE Printed(found)

WcByte(a, c) ==
  [lines |-> a.lines + (IF c = NL THEN 1 ELSE 0),
   words |-> a.words + (IF c \notin {NL, SP} /\ ~a.in_word THEN 1 ELSE 0), in_word |-> c \notin {NL, SP}]
applet_wc(d) ==
  LET a == FoldLeft(WcByte, [lines |-> 0, words |-> 0, in_word |-> FALSE], d)
  IN  Nums(<<a.lines + (IF d # <<>> /\ d[Len(d)] # NL THEN 1 ELSE 0), a.words, Len(d)>>)

(* Runs of printable bytes; here NL is the only other byte.                *)
StringsByte(d, a, i) ==
  IF i <= Len(d) /\ d[i] # NL THEN a
  ELSE [start |-> i + 1, found |-> IF i - a.start >= STRING_MIN THEN Append(a.found, SubSeq(d, a.start, i - 1)) ELSE a.found]
applet_strings(d) ==
  Rows(FoldLeft(LAMBDA a, i : StringsByte(d, a, i), [start |-> 1, found |-> <<>>], Upto(Len(d) + 1)).found)

(* The index of the first different byte, or both lengths, or nothing.     *)
applet_cmp(d, e) ==
  LET D == {i \in 1..Min2(Len(d), Len(e)) : d[i] # e[i]}
  IN  Nums(IF D # {} THEN <<(CHOOSE i \in D : \A j \in D : i <= j) - 1>>
           ELSE IF Len(d) # Len(e) THEN <<Len(d), Len(e)>> ELSE <<>>)

(* Line n of one file with line n of the other: the numbers that differ.   *)
applet_diff(d, e) ==
  LET a == Lines(d)
      b == Lines(e)
      n == IF Len(a) > Len(b) THEN Len(a) ELSE Len(b)
  IN  Nums(SelectSeq(Upto(n), LAMBDA i : ~(i <= Len(a) /\ i <= Len(b) /\ compare_line_views(a[i], b[i]) = 0)))

(* The first value is printed before the bound is looked at.               *)
RECURSIVE SeqFrom(_, _, _)
SeqFrom(value, step, last) ==
  <<value>> \o (IF (step > 0 /\ value > last - step) \/ (step < 0 /\ value < last - step) THEN <<>>
                ELSE SeqFrom(value + step, step, last))
applet_seq(r) == IF r[2] = 0 THEN Message ELSE Nums(SeqFrom(r[1], r[2], r[3]))

(***************************************************************************)
(* calc: recursive descent.  A parser is [at, v, error]; t is the text.    *)
(* Division truncates towards zero.                                        *)
(***************************************************************************)
Digits == [d \in {"0", "2", "3"} |-> CASE d = "0" -> 0 [] d = "2" -> 2 [] OTHER -> 3]
Abs(x) == IF x < 0 THEN -x ELSE x
Quot(a, b) == (IF (a < 0) # (b < 0) THEN -1 ELSE 1) * (Abs(a) \div Abs(b))
Rest(a, b) == a - b * Quot(a, b)
Is(t, p, ops) == p.at <= Len(t) /\ t[p.at] \in ops
Skip(p) == [p EXCEPT !.at = @ + 1]
Error(p) == [p EXCEPT !.error = TRUE, !.v = 0]
RECURSIVE calc_factor(_, _), TermRest(_, _), calc_expression(_, _), SumRest(_, _), Number(_, _)
Number(t, p) == IF Is(t, p, DOMAIN Digits) THEN Number(t, [p EXCEPT !.at = @ + 1, !.v = @ * 10 + Digits[t[p.at]]]) ELSE p
calc_factor(t, p) ==
  CASE p.error -> Error(p)
    [] Is(t, p, {"-"}) -> LET q == calc_factor(t, Skip(p)) IN [q EXCEPT !.v = -@]
    [] Is(t, p, {"+"}) -> calc_factor(t, Skip(p))
    [] Is(t, p, {"("}) -> LET q == calc_expression(t, Skip(p))
                          IN  IF Is(t, q, {")"}) THEN Skip(q) ELSE Error(q)
    [] OTHER -> IF Is(t, p, DOMAIN Digits) THEN Number(t, [p EXCEPT !.v = 0]) ELSE Error(p)
(* The loops: l is the left operand so far, r the next one.                *)
Times(op, l, r) == [r EXCEPT !.v = CASE op = "*" -> l.v * r.v [] op = "/" -> Quot(l.v, r.v) [] OTHER -> Rest(l.v, r.v)]
TimesRest(t, l, r) == IF t[l.at] # "*" /\ r.v = 0 THEN Error(r) ELSE TermRest(t, Times(t[l.at], l, r))
TermRest(t, l) == IF Is(t, l, {"*", "/", "%"}) THEN TimesRest(t, l, calc_factor(t, Skip(l))) ELSE l
calc_term(t, p) == TermRest(t, calc_factor(t, p))
Plus(op, l, r) == [r EXCEPT !.v = IF op = "+" THEN l.v + r.v ELSE l.v - r.v]
SumRest(t, l) == IF Is(t, l, {"+", "-"}) THEN SumRest(t, Plus(t[l.at], l, calc_term(t, Skip(l)))) ELSE l
calc_expression(t, p) == SumRest(t, calc_term(t, p))
Result(t, p) == IF p.error \/ p.at <= Len(t) THEN Message ELSE Nums(<<p.v>>)
applet_calc(t) == Result(t, calc_expression(t, [at |-> 1, v |-> 0, error |-> FALSE]))

(***************************************************************************)
(* One command.                                                            *)
(***************************************************************************)
Plain == {"cat", "tac", "rev", "sort", "uniq", "wc"} \cup (IF Shared THEN {} ELSE {"strings"})
In(tool, F, G, N, P) == {[tool |-> tool, file |-> f, other |-> g, n |-> n, p |-> p, text |-> <<>>, range |-> <<>>,
                          out |-> Message, done |-> FALSE] : f \in F, g \in G, n \in N, p \in P}
Init ==
  \/ \E tool \in Plain : s \in In(tool, Files, {<<>>}, {0}, {<<>>})
  \/ \E tool \in {"head", "tail"} : s \in In(tool, Files, {<<>>}, Counts, {<<>>})
  \/ s \in In("grep", Files, {<<>>}, {0}, Patterns)
  \/ ~Shared /\ \E tool \in {"cmp", "diff"} : s \in In(tool, {f \in Files : Len(f) <= 3}, {f \in Files : Len(f) <= 2}, {0}, {<<>>})
  \/ \E t \in Expressions : s \in {[k EXCEPT !.text = t] : k \in In("calc", {<<>>}, {<<>>}, {0}, {<<>>})}
  \/ \E r \in Ranges : s \in {[k EXCEPT !.range = r] : k \in In("seq", {<<>>}, {<<>>}, {0}, {<<>>})}

shell_dispatch(k) ==
  LET d == Read(k.file)
  IN  CASE k.tool = "cat" -> applet_cat(d) [] k.tool = "tac" -> applet_tac(d) [] k.tool = "rev" -> applet_rev(d)
        [] k.tool = "sort" -> applet_sort(d) [] k.tool = "uniq" -> applet_uniq(d) [] k.tool = "wc" -> applet_wc(d)
        [] k.tool = "strings" -> applet_strings(d) [] k.tool = "head" -> applet_head(d, k.n)
        [] k.tool = "tail" -> applet_tail(d, k.n) [] k.tool = "grep" -> applet_grep(d, k.p)
        [] k.tool = "cmp" -> applet_cmp(d, k.other) [] k.tool = "diff" -> applet_diff(d, k.other)
        [] k.tool = "calc" -> applet_calc(k.text) [] OTHER -> applet_seq(k.range)
Next == ~s.done /\ s' = [s EXCEPT !.done = TRUE, !.out = shell_dispatch(s)]

(***************************************************************************)
(* What the commands mean.                                                 *)
(***************************************************************************)
(* The lines of a text: cut at every newline, the empty rest left out.     *)
IsSplit(l, d) ==
  LET ends == [i \in 1..Len(l) |-> Append(l[i], NL)]
      all == FlattenSeq(ends)
  IN  (all = d \/ all = Append(d, NL)) /\ \A i \in 1..Len(l) : NL \notin {l[i][j] : j \in 1..Len(l[i])}
Count(l, x) == Cardinality({i \in 1..Len(l) : l[i] = x})
Runs(d, minimum) ==
  {<<i, j>> \in (1..Len(d)) \X (1..Len(d)) :
     /\ i <= j /\ j - i + 1 >= minimum /\ \A k \in i..j : d[k] # NL
     /\ (i = 1 \/ d[i - 1] = NL) /\ (j = Len(d) \/ d[j + 1] = NL)}
(* The values the grammar gives to t[i..j]: none, or one.                  *)
RECURSIVE Expr(_, _, _), Term(_, _, _), Factor(_, _, _)
Factor(t, i, j) ==
  IF i > j THEN {}
  ELSE IF \A k \in i..j : t[k] \in DOMAIN Digits
       THEN {FoldLeft(LAMBDA v, k : v * 10 + Digits[k], 0, SubSeq(t, i, j))}
  ELSE CASE t[i] = "-" -> {-v : v \in Factor(t, i + 1, j)} [] t[i] = "+" -> Factor(t, i + 1, j)
         [] t[i] = "(" /\ t[j] = ")" -> Expr(t, i + 1, j - 1) [] OTHER -> {}
Term(t, i, j) ==
  Factor(t, i, j) \cup
  UNION {{CASE t[k] = "*" -> x[1] * x[2] [] t[k] = "/" -> Quot(x[1], x[2]) [] OTHER -> Rest(x[1], x[2]) :
            x \in {y \in Term(t, i, k - 1) \X Factor(t, k + 1, j) : t[k] = "*" \/ y[2] # 0}} :
         k \in {k \in i..j : t[k] \in {"*", "/", "%"}}}
Expr(t, i, j) ==
  Term(t, i, j) \cup
  UNION {{IF t[k] = "+" THEN x[1] + x[2] ELSE x[1] - x[2] : x \in Expr(t, i, k - 1) \X Term(t, k + 1, j)} :
         k \in {k \in i..j : t[k] \in {"+", "-"}}}

(* Every command prints what it says, also for files that are empty, end   *)
(* without a newline, or are cut by a capacity: head and tail the first    *)
(* and last lines, tac and rev a reversal, sort an ordered permutation,    *)
(* uniq no two equal neighbours, grep exactly the lines with the pattern,  *)
(* wc the counts, diff and cmp the differences, calc the value the usual   *)
(* grammar gives (and a message exactly when there is none), seq the       *)
(* arithmetic progression (which has at least its first element).          *)
ToolsPrintWhatTheyMean ==
  s.done =>
    LET d == Read(s.file)
        r == s.out.rows
        l == applet_cat(d).rows
        n == Len(l)
    IN  CASE s.tool = "cat" -> Shared \/ IsSplit(r, d)
          [] s.tool = "head" -> IsPrefix(r, l) /\ Len(r) = Min2(s.n, n)
          [] s.tool = "tail" -> IsSuffix(r, l) /\ Len(r) = Min2(s.n, n)
          [] s.tool = "tac" -> IF s.out.ok THEN Reverse(r) = l ELSE n > SORT_MAX_LINES
          [] s.tool = "rev" -> Shared \/ [i \in 1..n |-> Reverse(r[i])] = l
          [] s.tool = "sort" ->
               IF ~s.out.ok THEN n > SORT_MAX_LINES
               ELSE /\ \A i \in 1..n - 1 : IsPrefix(r[i], r[i + 1]) \/ compare_line_views(r[i], r[i + 1]) < 0
                    /\ Len(r) = n /\ \A i \in 1..n : Count(r, r[i]) = Count(l, r[i])
          [] s.tool = "uniq" ->
               /\ Shared \/ \A i \in 1..Len(r) - 1 : r[i] # r[i + 1]
               /\ Shared \/ r = [i \in 1..Len(r) |->
                    l[CHOOSE j \in 1..n : (j = 1 \/ l[j] # l[j - 1]) /\
                       Cardinality({k \in 1..j : k = 1 \/ l[k] # l[k - 1]}) = i]]
          [] s.tool = "grep" -> IF s.out.ok THEN Shared \/ r = SelectSeq(l, LAMBDA x : contains(x, s.p))
                                ELSE \A i \in 1..n : ~contains(l[i], s.p)
          [] s.tool = "wc" -> s.out.nums = <<n, Cardinality({i \in 1..Len(d) : d[i] \notin {NL, SP} /\
                                                    (i = 1 \/ d[i - 1] \in {NL, SP})}), Len(d)>>
          [] s.tool = "strings" -> {r[i] : i \in 1..Len(r)} = {SubSeq(d, x[1], x[2]) : x \in Runs(d, STRING_MIN)}
          [] s.tool = "cmp" -> (s.out.nums = <<>>) = (d = s.other)
          [] s.tool = "diff" -> (s.out.nums = <<>>) = (Lines(d) = Lines(s.other))
          [] s.tool = "calc" -> {s.out.nums[i] : i \in 1..Len(s.out.nums)} = Expr(s.text, 1, Len(s.text))
          [] s.tool = "seq" ->
               LET R == s.range
                   size == IF (R[3] - R[1] > 0) # (R[2] > 0) THEN 1 ELSE Quot(R[3] - R[1], R[2]) + 1
               IN  s.out.ok => s.out.nums = [i \in 1..size |-> R[1] + (i - 1) * R[2]]
=============================================================================
