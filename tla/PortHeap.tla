------------------------------ MODULE PortHeap ------------------------------
(***************************************************************************)
(* The heap of the ports (user/portkit.c): a list of blocks in one arena,  *)
(* each with a header, first fit, split on allocation and joined with its  *)
(* free neighbours when it is freed.                                       *)
(*                                                                         *)
(* s.blocks is the list, in list order: `at' is the address behind the     *)
(* header, and word is what the program keeps in an allocated block.       *)
(* Sizes are in units of the alignment, 16 bytes.                          *)
(***************************************************************************)
EXTENDS Integers, Sequences, SequencesExt, FiniteSets

CONSTANTS ARENA, HEADER, Sizes, Words

VARIABLE s

Sum(t) == FoldLeft(LAMBDA a, b : a + b, 0, t)
Free(b) == b.word = 0
Block(at, size, word) == [at |-> at, size |-> size, word |-> word]
Spliced(t, i, n, u) == SubSeq(t, 1, i - 1) \o u \o SubSeq(t, i + n, Len(t))

demon_port_init == [blocks |-> <<Block(HEADER, ARENA - HEADER, 0)>>, used |-> 0, peak |-> 0]

(* The first free block that is large enough, split if the rest can hold a *)
(* header and one unit; its index, or 0.                                   *)
Fit(h, n) ==
  LET F == {i \in DOMAIN h.blocks : Free(h.blocks[i]) /\ h.blocks[i].size >= n}
  IN  IF n = 0 \/ F = {} THEN 0 ELSE CHOOSE i \in F : \A j \in F : i <= j
demon_port_malloc(h, i, n, w) ==
  LET b == h.blocks[i]
      split == b.size >= n + HEADER + 1
      size == IF split THEN n ELSE b.size
      rest == IF split THEN <<Block(b.at + n + HEADER, b.size - n - HEADER, 0)>> ELSE <<>>
      used == h.used + size
  IN  [h EXCEPT !.blocks = Spliced(@, i, 1, <<Block(b.at, size, w)>> \o rest), !.used = used,
                !.peak = IF used > @ THEN used ELSE @]

Joined(t, i) ==
  IF i < 1 \/ i >= Len(t) \/ ~Free(t[i]) \/ ~Free(t[i + 1]) THEN t
  ELSE Spliced(t, i, 2, <<[t[i] EXCEPT !.size = @ + HEADER + t[i + 1].size]>>)
demon_port_free(h, i) ==
  LET t == [h.blocks EXCEPT ![i].word = 0]
  IN  [h EXCEPT !.blocks = Joined(Joined(t, i), i - 1), !.used = @ - h.blocks[i].size]

(* A block that is large enough is kept; otherwise the content moves.      *)
demon_port_realloc(h, i, n) ==
  LET j == Fit(h, n)
      g == demon_port_malloc(h, j, n, h.blocks[i].word)
      old == CHOOSE x \in DOMAIN g.blocks : g.blocks[x].at = h.blocks[i].at
  IN  IF h.blocks[i].size >= n \/ j = 0 THEN h ELSE demon_port_free(g, old)

Init == s = demon_port_init
Next ==
  \/ \E n \in Sizes, w \in Words :
       /\ Fit(s, n) # 0
       /\ s' = demon_port_malloc(s, Fit(s, n), n, w)
  \/ \E i \in DOMAIN s.blocks : ~Free(s.blocks[i]) /\ s' = demon_port_free(s, i)
  \/ \E i \in DOMAIN s.blocks, n \in Sizes :
       ~Free(s.blocks[i]) /\ s' = demon_port_realloc(s, i, n)

(* The blocks tile the arena: each header follows the block before it and  *)
(* the last block ends where the arena ends, so no allocation overlaps     *)
(* another or a header; no two neighbours are free, so memory that was     *)
(* freed can be allocated in one piece; and heap_used is the sum of the    *)
(* allocated sizes.                                                        *)
BlocksTileTheArena ==
  /\ s.blocks[1].at = HEADER
  /\ \A i \in 1..Len(s.blocks) - 1 : /\ s.blocks[i + 1].at = s.blocks[i].at + s.blocks[i].size + HEADER
                                     /\ ~(Free(s.blocks[i]) /\ Free(s.blocks[i + 1]))
  /\ Last(s.blocks).at + Last(s.blocks).size = ARENA
  /\ s.used = Sum([i \in DOMAIN s.blocks |-> IF Free(s.blocks[i]) THEN 0 ELSE s.blocks[i].size])
  /\ s.used <= s.peak
=============================================================================
