------------------------------ MODULE CLibrary ------------------------------
(***************************************************************************)
(* The C library of the ports: apps/doom/libc.c, which the Doom and Quake  *)
(* engines link, the string helpers of ports/quake/platform/               *)
(* com_demonos.c, and the fscanf of stdio_demonos.c.                       *)
(*                                                                         *)
(* A string is a sequence of character codes, the terminating NUL is what  *)
(* At returns behind its end.  A behaviour is one call, except strtok's:   *)
(* s.call names it, s.in are its arguments, s.out is what it computes.     *)
(***************************************************************************)
EXTENDS Integers, Sequences, SequencesExt, FiniteSets

CONSTANTS Chars, LENGTH,      \* strings: characters and longest length
          Counts,             \* the n of the strn... functions and capacities
          Values, Widths,     \* numbers that are printed, field widths
          Keys, ITEMS         \* qsort: keys and number of items

VARIABLE s

Strings == UNION {[1..n -> Chars] : n \in 0..LENGTH}
At(t, i) == IF i <= Len(t) THEN t[i] ELSE 0
Upto(n) == [i \in 1..n |-> i]
Lesser(a, b) == IF a < b THEN a ELSE b
Greater(a, b) == IF a > b THEN a ELSE b

(***************************************************************************)
(* Memory and strings.                                                     *)
(***************************************************************************)
CopyInOrder(m, d, o, order) ==
  FoldLeft(LAMBDA r, i : [r EXCEPT ![d + i] = r[o + i]], m, order)
memcpy(m, d, o, n) == CopyInOrder(m, d, o, [i \in 1..n |-> i - 1])
memmove(m, d, o, n) ==
  IF d < o THEN memcpy(m, d, o, n) ELSE CopyInOrder(m, d, o, [i \in 1..n |-> n - i])
memcmp(a, b, n) ==
  LET D == {i \in 1..n : a[i] # b[i]}
      i == CHOOSE x \in D : \A y \in D : x <= y
  IN  IF D = {} THEN 0 ELSE IF a[i] < b[i] THEN -1 ELSE 1

ascii_lower(c) == IF c \in 65..90 THEN c + 32 ELSE c
(* How far the comparison loops run.                                       *)
RECURSIVE Scan(_, _, _, _)
Scan(a, b, i, n) == IF i <= n /\ At(a, i) # 0 /\ At(a, i) = At(b, i) THEN Scan(a, b, i + 1, n) ELSE i
strncmp(a, b, n) == LET i == Scan(a, b, 1, n) IN IF i > n THEN 0 ELSE At(a, i) - At(b, i)
strcmp(a, b) == strncmp(a, b, LENGTH + 1)
Lowered(t) == [i \in DOMAIN t |-> ascii_lower(t[i])]
strncasecmp(a, b, n) == strncmp(Lowered(a), Lowered(b), n)
strcasecmp(a, b) == strncasecmp(a, b, LENGTH + 1)

upper(c) == IF c \in 97..122 THEN c - 32 ELSE c
RECURSIVE Q_strncasecmp(_, _, _)
(* 0 for equal and -1 for different strings, as the other Q_ comparisons.  *)
Q_strncasecmp(a, b, n) ==
  CASE n = 0 -> 0
    [] upper(At(a, 1)) # upper(At(b, 1)) -> -1
    [] At(a, 1) = 0 -> 0
    [] OTHER -> Q_strncasecmp(Tail(a), Tail(b), n - 1)
RECURSIVE Q_strncmp(_, _, _)
Q_strncmp(a, b, n) ==
  CASE n = 0 -> 0
    [] At(a, 1) # At(b, 1) -> -1
    [] At(a, 1) = 0 -> 0
    [] OTHER -> Q_strncmp(Tail(a), Tail(b), n - 1)
Q_strcmp(a, b) == Q_strncmp(a, b, LENGTH + 1)

(* What the copying functions store, the NULs they append included.        *)
strncpy(t, n) == [i \in 1..n |-> At(t, i)]
strncat(t, u, n) == t \o SubSeq(u, 1, Lesser(n, Len(u))) \o <<0>>
(* When the source is longer than count, the last `count--' makes it -1,   *)
(* and the NUL goes behind the count bytes.                                *)
Q_strncpy(t, n) ==
  CASE Len(t) < n -> t \o <<0>>
    [] Len(t) = n -> t
    [] Len(t) > n -> SubSeq(t, 1, n) \o <<0>>

RECURSIVE strchr(_, _, _)
strchr(t, c, i) == IF At(t, i) = c THEN i ELSE IF At(t, i) = 0 THEN 0 ELSE strchr(t, c, i + 1)
RECURSIVE strrchr(_, _, _)
strrchr(t, c, i) == IF i = 0 THEN 0 ELSE IF t[i] = c THEN i ELSE strrchr(t, c, i - 1)
RECURSIVE MatchAt(_, _, _, _)
MatchAt(t, u, i, j) == At(u, j) = 0 \/ (At(t, i) = At(u, j) /\ MatchAt(t, u, i + 1, j + 1))
RECURSIVE strstr(_, _, _)
strstr(t, u, i) ==
  IF u = <<>> THEN 1 ELSE IF At(t, i) = 0 THEN 0 ELSE IF MatchAt(t, u, i, 1) THEN i ELSE strstr(t, u, i + 1)
RECURSIVE strspn(_, _, _)
strspn(t, u, i) == IF At(t, i) # 0 /\ strchr(u, At(t, i), 1) # 0 THEN strspn(t, u, i + 1) ELSE i - 1
RECURSIVE strcspn(_, _, _)
strcspn(t, u, i) == IF At(t, i) # 0 /\ strchr(u, At(t, i), 1) = 0 THEN strcspn(t, u, i + 1) ELSE i - 1

(* One call on the text behind strtok_next, o characters into it: the      *)
(* token and the new offset.                                               *)
strtok(t, u, o) ==
  LET b == o + strspn(SubSeq(t, o + 1, Len(t)), u, 1)
      e == b + strcspn(SubSeq(t, b + 1, Len(t)), u, 1)
  IN  [token |-> SubSeq(t, b + 1, e), next |-> IF e < Len(t) THEN e + 1 ELSE e]

(***************************************************************************)
(* Numbers.                                                                *)
(***************************************************************************)
isspace(c) == c \in 9..13 \cup {32}
isdigit(c) == c \in 48..57
Digit(c) == CASE isdigit(c) -> c - 48 [] c \in 97..122 -> c - 87 [] c \in 65..90 -> c - 55 [] OTHER -> 99
RECURSIVE Number(_, _, _, _)
(* The digits of t from i in the base, and where they end.                 *)
Number(t, i, base, v) ==
  IF At(t, i) # 0 /\ Digit(At(t, i)) < base THEN Number(t, i + 1, base, v * base + Digit(At(t, i)))
  ELSE [value |-> v, next |-> i]
RECURSIVE Blank(_, _)
Blank(t, i) == IF isspace(At(t, i)) THEN Blank(t, i + 1) ELSE i
HexAt(t, i) == At(t, i) = 48 /\ At(t, i + 1) \in {120, 88}
strtol(t, base) ==
  LET i == Blank(t, 1)
      j == IF At(t, i) \in {45, 43} THEN i + 1 ELSE i
      b == IF base # 0 THEN base ELSE IF HexAt(t, j) THEN 16 ELSE IF At(t, j) = 48 THEN 8 ELSE 10
      v == Number(t, IF b = 16 /\ HexAt(t, j) THEN j + 2 ELSE j, b, 0).value
  IN  IF At(t, i) = 45 THEN -v ELSE v
Q_atoi(t) ==
  LET j == IF At(t, 1) = 45 THEN 2 ELSE 1
      v == CASE HexAt(t, j) -> Number(t, j + 2, 16, 0).value
             [] At(t, j) = 39 -> At(t, j + 1)
             [] OTHER -> Number(t, j, 10, 0).value
  IN  IF At(t, 1) = 45 THEN -v ELSE v
(* Digits with a decimal point: the number without the point, and how many *)
(* digits followed the last one.                                           *)
RECURSIVE Decimal(_, _, _, _)
Decimal(t, i, v, places) ==
  CASE At(t, i) = 46 -> Decimal(t, i + 1, v, 0)
    [] isdigit(At(t, i)) -> Decimal(t, i + 1, v * 10 + Digit(At(t, i)), IF places < 0 THEN -1 ELSE places + 1)
    [] OTHER -> [value |-> v, places |-> Greater(places, 0)]
Q_atof(t) == LET d == Decimal(t, IF At(t, 1) = 45 THEN 2 ELSE 1, 0, -1)
             IN  [d EXCEPT !.value = IF At(t, 1) = 45 THEN -@ ELSE @]

(***************************************************************************)
(* qsort: the median of three is moved to the end and partitions the rest. *)
(***************************************************************************)
Swap(a, i, j) == [a EXCEPT ![i] = a[j], ![j] = a[i]]
OrderSwap(a, i, j) == IF a[i] > a[j] THEN Swap(a, i, j) ELSE a
Partition(a, lo, hi) ==
  FoldLeft(LAMBDA r, i : IF r.a[i] < r.a[hi] THEN [a |-> Swap(r.a, r.store, i), store |-> r.store + 1] ELSE r,
           [a |-> a, store |-> lo], [k \in 1..hi - lo |-> lo + k - 1])
RECURSIVE quicksort(_, _, _)
quicksort(a, lo, hi) ==
  IF lo >= hi THEN a
  ELSE LET mid == lo + (hi - lo) \div 2
           b == Swap(OrderSwap(OrderSwap(OrderSwap(a, lo, hi), mid, hi), lo, mid), mid, hi)
           p == Partition(b, lo, hi)
           c == Swap(p.a, p.store, hi)
       IN  CASE p.store = lo -> quicksort(c, lo + 1, hi)
             [] p.store > lo /\ p.store - lo < hi - p.store ->
                  quicksort(quicksort(c, lo, p.store - 1), p.store + 1, hi)
             [] OTHER -> quicksort(quicksort(c, p.store + 1, hi), lo, p.store - 1)
qsort(a) == quicksort(a, 1, Len(a))

(***************************************************************************)
(* vsnprintf.  A directive is a record: its flags, width, precision        *)
(* (-1: none), conversion and argument.  The sink counts every character   *)
(* and stores those that leave room for the NUL.                           *)
(***************************************************************************)
Repeated(c, n) == [i \in 1..n |-> c]
Padded(body, width, left) ==
  LET pad == Repeated(32, Greater(0, width - Len(body))) IN IF left THEN body \o pad ELSE pad \o body
RECURSIVE Digits(_, _)
Digits(v, base) ==
  (IF v < base THEN <<>> ELSE Digits(v \div base, base)) \o <<(v % base) + (IF v % base < 10 THEN 48 ELSE 87)>>
Signed(v, plus) == IF v < 0 THEN <<45>> ELSE IF plus THEN <<43>> ELSE <<>>
ZeroPadded(sign, body, width, zpad, left) ==
  IF left \/ ~zpad THEN Padded(sign \o body, width, left)
  ELSE sign \o Repeated(48, Greater(0, width - Len(sign) - Len(body))) \o body
fmt_unsigned(v, base, width, zpad, left) == ZeroPadded(<<>>, Digits(v, base), width, zpad, left)
fmt_signed(v, width, zpad, left, plus) ==
  ZeroPadded(Signed(v, plus), Digits(IF v < 0 THEN -v ELSE v, 10), width, zpad, left)
(* The value is v eighths; prec digits follow the point.                   *)
fmt_float(v, width, precision, zpad, left, plus) ==
  LET prec == IF precision < 0 THEN 6 ELSE Lesser(precision, 16)
      a == IF v < 0 THEN -v ELSE v
      f == ((a % 8) * 10^prec * 2 + 8) \div 16
      carry == IF prec = 0 THEN f # 0 ELSE f >= 10^prec
      fpart == IF carry THEN 0 ELSE f
      point == IF prec = 0 THEN <<>> ELSE
                 <<46>> \o LET d == Digits(fpart, 10) IN Repeated(48, prec - Len(d)) \o d
  IN  ZeroPadded(Signed(v, plus), Digits((a \div 8) + (IF carry THEN 1 ELSE 0), 10) \o point, width, zpad, left)
Directive(d) ==
  LET zpad == (d.zero /\ ~d.left) \/ d.precision >= 0
      width == Greater(d.precision, d.width)
  IN  CASE d.spec = "d" -> fmt_signed(d.value, width, zpad, d.left, d.plus)
        [] d.spec = "x" -> fmt_unsigned(d.value, 16, width, zpad, d.left)
        [] d.spec = "u" -> fmt_unsigned(d.value, 10, width, zpad, d.left)
        [] d.spec = "s" -> Padded(SubSeq(d.text, 1, IF d.precision < 0 THEN Len(d.text)
                                                    ELSE Lesser(d.precision, Len(d.text))), d.width, d.left)
        [] d.spec = "c" -> Padded(SubSeq(d.text, 1, 1), d.width, d.left)
        [] d.spec = "p" -> <<48, 120>> \o fmt_unsigned(d.value, 16, Greater(0, d.width - 2), FALSE, d.left)
        [] d.spec = "f" -> fmt_float(d.value, d.width, d.precision, zpad, d.left, d.plus)
vsnprintf(capacity, body) ==
  [length |-> Len(body),
   buf |-> IF capacity = 0 THEN <<>> ELSE SubSeq(body, 1, Lesser(Len(body), capacity - 1)) \o <<0>>]

(***************************************************************************)
(* fscanf of the Quake port on a stream's text: pos counts the characters  *)
(* taken, and at the end of the text fgetc leaves it alone.                *)
(***************************************************************************)
f_skip_ws(t, p) == Blank(t, p + 1) - 1
RECURSIVE Run(_, _, _)
Run(t, p, Takes) == IF At(t, p + 1) \in Takes THEN Run(t, p + 1, Takes) ELSE p
(* The sign is looked at, pushed back, and then read into the buffer: the  *)
(* conversion of %i stops there.                                           *)
ScanInt(t, p) ==
  LET q == f_skip_ws(t, p)
      signed == At(t, q + 1) \in {45, 43}
      r == Run(t, IF signed THEN q + 1 ELSE q, 48..57)
      v == Number(SubSeq(t, q + 1, r), 1, 10, 0).value
  IN  [value |-> IF At(t, q + 1) = 45 THEN -v ELSE v, pos |-> r]
(* `seen' is set before any digit is converted, so with a point every      *)
(* digit counts as a decimal: value * 10^-places.                          *)
ScanFloat(t, p) ==
  LET q == f_skip_ws(t, p)
      signed == At(t, q + 1) \in {45, 43}
      r == Run(t, IF signed THEN q + 1 ELSE q, {46} \cup 48..57)
      ds == SelectSeq(SubSeq(t, q + 1, r), isdigit)
      v == Number(ds, 1, 10, 0).value
  IN  [value |-> IF At(t, q + 1) = 45 THEN -v ELSE v, pos |-> r,
       places |-> IF \E i \in q + 1..r : t[i] = 46 THEN Len(ds) ELSE 0]
ScanString(t, p, width) ==
  LET q == f_skip_ws(t, p)
      ends == {i \in q..Len(t) : i = Len(t) \/ isspace(t[i + 1])}
      e == CHOOSE i \in ends : \A j \in ends : i <= j
      r == Lesser(e, q + (IF width <= 0 THEN 512 ELSE width) - 1)
  IN  [value |-> SubSeq(t, q + 1, r), pos |-> r]

(***************************************************************************)
(* One call.                                                               *)
(***************************************************************************)
Called(call, in, out) == s' = [call |-> call, in |-> in, out |-> out]

Memory == \E d \in 1..3, o \in 1..3, n \in 0..2 :
  LET m == <<1, 2, 3, 4, 5>> IN Called("memmove", <<m, d, o, n>>, memmove(m, d, o, n))
Comparison == \E a \in Strings, b \in Strings, n \in Counts :
  Called("compare", <<a, b, n>>,
         <<strcmp(a, b), strncmp(a, b, n), strcasecmp(a, b), strncasecmp(a, b, n),
           Q_strcmp(a, b), Q_strncmp(a, b, n), Q_strncasecmp(a, b, n),
           IF Len(a) >= n /\ Len(b) >= n THEN memcmp(a, b, n) ELSE strncmp(a, b, n)>>)
Copies == \E a \in Strings, b \in Strings, n \in Counts :
  Called("copy", <<a, b, n>>, <<strncpy(a, n), strncat(b, a, n), Q_strncpy(a, n)>>)
Searches == \E a \in Strings, b \in Strings, c \in Chars :
  Called("search", <<a, b, c>>,
         <<strchr(a, c, 1), strrchr(a, c, Len(a)), strstr(a, b, 1), strspn(a, b, 1), strcspn(a, b, 1)>>)
Tokens == \E a \in Strings, b \in Strings : Called("strtok", <<a, b, 0, <<>>>>, <<>>)
NextToken ==
  /\ s.call = "strtok"
  /\ LET r == strtok(s.in[1], s.in[2], s.in[3])
     IN  s' = IF r.token = <<>> THEN [s EXCEPT !.call = "tokens"]
              ELSE [s EXCEPT !.in[3] = r.next, !.in[4] = Append(@, r.token)]
Sorting == \E n \in 0..ITEMS : \E a \in [1..n -> Keys] : Called("qsort", <<a>>, qsort(a))
Flags == [left : BOOLEAN, plus : BOOLEAN, zero : BOOLEAN]
Printing ==
  \/ \E v \in Values, f \in Flags, w \in Widths, p \in {-1, 0, 3}, spec \in {"d", "x", "u", "p", "f"}, c \in Counts :
       LET d == [left |-> f.left, plus |-> f.plus, zero |-> f.zero, width |-> w, precision |-> p, spec |-> spec,
                 value |-> IF spec \in {"x", "u", "p"} /\ v < 0 THEN -v ELSE v]
       IN  Called("printf", <<d, c>>, <<vsnprintf(c, Directive(d)), Directive(d)>>)
  \/ \E t \in Strings, w \in Widths, l \in BOOLEAN, p \in {-1, 0, 1}, spec \in {"s", "c"}, c \in Counts :
       LET d == [left |-> l, plus |-> FALSE, zero |-> FALSE, width |-> w, precision |-> p, spec |-> spec,
                 text |-> t]
       IN  (spec = "c" => t # <<>>) /\ Called("printf", <<d, c>>, <<vsnprintf(c, Directive(d)), Directive(d)>>)
Reading == \E v \in Values, base \in {0, 10, 16}, lead \in {<<>>, <<32>>, <<43>>} :
  LET b == IF base = 16 THEN 16 ELSE 10
      ds == (IF v < 0 THEN <<45>> ELSE lead) \o (IF b = 16 THEN <<48, 120>> ELSE <<>>) \o Digits(IF v < 0 THEN -v ELSE v, b)
  IN  Called("strtol", <<v, base, lead>>, <<strtol(ds, base), Q_atoi(IF lead = <<>> \/ v < 0 THEN ds ELSE Tail(ds))>>)
(* What fprintf wrote with "%i\n" or "%f\n", between two other fields.     *)
Rescan == \E v \in Values, spec \in {"d", "f"} :
  LET d == [left |-> FALSE, plus |-> FALSE, zero |-> FALSE, width |-> 0, precision |-> -1, spec |-> spec, value |-> v]
      t == <<55, 10>> \o Directive(d) \o <<10, 97, 98, 10>>
      r == IF spec = "d" THEN [places |-> 0] @@ ScanInt(t, 1) ELSE ScanFloat(t, 1)
  IN  Called("fscanf", <<v, spec, Q_atof(Directive(d))>>, <<r, ScanString(t, r.pos, 0).value>>)

Init == s = [call |-> "", in |-> <<>>, out |-> <<>>]
Next == \/ /\ s.call = ""
           /\ Memory \/ Comparison \/ Copies \/ Searches \/ Tokens \/ Sorting \/ Printing \/ Reading \/ Rescan
        \/ NextToken

(***************************************************************************)
(* What C says of the functions.                                           *)
(***************************************************************************)
Sign(v) == IF v < 0 THEN -1 ELSE IF v > 0 THEN 1 ELSE 0
Cut(t, n) == SubSeq(t, 1, Lesser(n, Len(t)))
Order(a, b) ==
  IF a = b THEN 0
  ELSE IF IsPrefix(a, b) \/ \E i \in 1..Lesser(Len(a), Len(b)) : a[i] < b[i] /\ Cut(a, i - 1) = Cut(b, i - 1) THEN -1
  ELSE 1
Folded(t) == [i \in DOMAIN t |-> ascii_lower(t[i])]
Places(t, P(_)) == {i \in 0..Len(t) : i > 0 /\ P(i)}
Least(S) == IF S = {} THEN 0 ELSE CHOOSE i \in S : \A j \in S : i <= j
Most(S) == IF S = {} THEN 0 ELSE CHOOSE i \in S : \A j \in S : i >= j
Number10(t) == FoldLeft(LAMBDA v, c : v * 10 + c - 48, 0, t)

ComparesRight(a, b, n, out) ==
  /\ Sign(out[1]) = Order(a, b) /\ Sign(out[2]) = Order(Cut(a, n), Cut(b, n))
  /\ Sign(out[3]) = Order(Folded(a), Folded(b)) /\ Sign(out[4]) = Order(Folded(Cut(a, n)), Folded(Cut(b, n)))
  /\ (out[5] = 0) = (a = b) /\ (out[6] = 0) = (Cut(a, n) = Cut(b, n))
  /\ (out[7] = 0) = (Folded(Cut(a, n)) = Folded(Cut(b, n))) /\ Sign(out[8]) = Order(Cut(a, n), Cut(b, n))
CopiesRight(a, b, n, out) ==
  /\ Len(out[1]) = n /\ \A i \in 1..n : out[1][i] = At(a, i)
  /\ out[2] = b \o Cut(a, n) \o <<0>>
  /\ Len(out[3]) <= n + 1 /\ Cut(out[3], n) = (IF Len(a) < n THEN a \o <<0>> ELSE Cut(a, n))
SearchesRight(a, b, c, out) ==
  /\ out[1] = Least(Places(a, LAMBDA i : a[i] = c)) /\ out[2] = Most(Places(a, LAMBDA i : a[i] = c))
  /\ out[3] = (IF b = <<>> THEN 1 ELSE Least(Places(a, LAMBDA i : SubSeq(a, i, Lesser(Len(a), i + Len(b) - 1)) = b)))
  /\ \A i \in 1..out[4] : a[i] \in ToSet(b)
  /\ out[4] < Len(a) => a[out[4] + 1] \notin ToSet(b)
  /\ \A i \in 1..out[5] : a[i] \notin ToSet(b)
  /\ out[5] < Len(a) => a[out[5] + 1] \in ToSet(b)
TokensRight(a, b, tokens) ==
  /\ FlattenSeq(tokens) = SelectSeq(a, LAMBDA c : c \notin ToSet(b))
  /\ Len(tokens) = Cardinality({i \in DOMAIN a : a[i] \notin ToSet(b) /\ (i = 1 \/ a[i - 1] \in ToSet(b))})
(* In any capacity the buffer holds a terminated prefix and the length is  *)
(* the whole text's; a number reads back as what was printed; the field is *)
(* as wide as asked and no wider than needed.                              *)
PrintsRight(d, c, r, body) ==
  /\ r.length = Len(body) /\ Len(r.buf) <= c
  /\ c > 0 => r.buf = Cut(body, c - 1) \o <<0>>
  /\ d.spec = "d" => strtol(body, 10) = d.value
  /\ d.spec = "u" => strtol(body, 10) = d.value
  /\ d.spec = "x" => strtol(body, 16) = d.value
  /\ d.spec = "f" /\ d.precision # -1 =>
       LET a == IF d.value < 0 THEN -d.value ELSE d.value
           ds == SelectSeq(body, isdigit)
       IN  Number10(ds) = (a * 10^d.precision * 2 + 8) \div 16
  /\ Len(body) >= d.width
  /\ d.precision = -1 /\ d.spec = "d" =>
       Len(body) = Greater(d.width, Len(Digits(IF d.value < 0 THEN -d.value ELSE d.value, 10)) +
                                    (IF d.value < 0 \/ d.plus THEN 1 ELSE 0))

(* Every function of the ports' C library computes what C defines: the     *)
(* comparisons order strings, also up to n characters and without case;    *)
(* memmove copies overlapping ranges; strtok cuts a text into its tokens   *)
(* over several calls; qsort returns its input in order; vsnprintf never   *)
(* writes past its capacity, reports the untruncated length, and prints    *)
(* numbers that strtol and Q_atoi read back; the fscanf of the savegames   *)
(* reads back a number that is not negative, and finds the field behind it.*)
LibraryIsC ==
  LET in == s.in out == s.out IN
  CASE s.call = "memmove" -> \A i \in 1..5 : out[i] = IF i - in[2] \in 0..in[4] - 1 THEN in[1][in[3] + i - in[2]] ELSE in[1][i]
    [] s.call = "compare" -> ComparesRight(in[1], in[2], in[3], out)
    [] s.call = "copy" -> CopiesRight(in[1], in[2], in[3], out)
    [] s.call = "search" -> SearchesRight(in[1], in[2], in[3], out)
    [] s.call = "tokens" -> TokensRight(in[1], in[2], in[4])
    [] s.call = "qsort" -> /\ \A i \in 1..Len(out) - 1 : out[i] <= out[i + 1]
                           /\ \A k \in Keys : Cardinality({i \in DOMAIN out : out[i] = k}) =
                                              Cardinality({i \in DOMAIN in[1] : in[1][i] = k})
    [] s.call = "printf" -> PrintsRight(in[1], in[2], out[1], out[2])
    [] s.call = "strtol" -> out[1] = in[1] /\ out[2] = in[1]
    [] s.call = "fscanf" -> out[2] = <<97, 98>> /\ (in[2] = "d" /\ in[1] >= 0 => out[1].value = in[1])
    [] OTHER -> TRUE
=============================================================================
