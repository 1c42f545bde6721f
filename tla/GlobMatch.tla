------------------------------ MODULE GlobMatch ------------------------------
(* The file name patterns of agent/agent_tools.cpp: glob_match with its single *)
(* saved star, glob_bracket for classes, and what a pattern means.             *)
(*                                                                             *)
(* Patterns and names are sequences of one-character strings; Rank is the      *)
(* order of the characters that classes may span.                              *)
EXTENDS Integers, Sequences, FiniteSetsExt

CONSTANTS Letters,  \* the characters of names and patterns, wildcards included
          Rank,     \* Rank[c]: the code of character c
          Patterns, \* the patterns that are looked for
          Names     \* the file names

ASSUME GlobAssumption ==
  /\ Rank \in [Letters -> Int] /\ Patterns \subseteq Seq(Letters) /\ Names \subseteq Seq(Letters)

Unclosed == 0

(* ------------------------------- glob_bracket ----------------------------- *)
\* Slip: a range may end with the bracket that closes the class.
IsRangeToTheEnd(pat, q) == q + 2 <= Len(pat) /\ pat[q + 1] = "-"

IsRange(pat, q) ==
  q + 2 <= Len(pat) /\ pat[q + 1] = "-" /\ pat[q + 2] # "]"

Negated(pat, p) == p < Len(pat) /\ pat[p + 1] \in {"!", "^"}

\* The first position of the class that opens at p.
ClassFrom(pat, p) == IF Negated(pat, p) THEN p + 2 ELSE p + 1

Within(pat, q, c) ==
  IF IsRange(pat, q) THEN Rank[c] \in Rank[pat[q]] .. Rank[pat[q + 2]] ELSE pat[q] = c

\* The class that opens at p, looked up for c: where it ends (past the closing
\* bracket) and whether c is in it.
glob_bracket(pat, p, c) ==
  LET scan[q \in 1 .. (Len(pat) + 3)] ==
        IF q > Len(pat) \/ pat[q] = "]" THEN [q |-> q, any |-> FALSE]
        ELSE LET rest == scan[IF IsRange(pat, q) THEN q + 3 ELSE q + 1]
             IN  [q |-> rest.q, any |-> rest.any \/ Within(pat, q, c)]
      r == scan[ClassFrom(pat, p)]
  IN  IF r.q > Len(pat) THEN [end |-> Unclosed, hit |-> FALSE]
      ELSE [end |-> r.q + 1, hit |-> r.any # Negated(pat, p)]

(* -------------------------------- glob_match ------------------------------ *)
\* The local variables: the positions in the pattern and the name, the last star
\* (0: none) and what it has taken up to.
States(pat, s) ==
  {x \in [p : 1 .. (Len(pat) + 1), i : 1 .. (Len(s) + 1),
          star_p : 0 .. Len(pat), star_i : 0 .. (Len(s) + 1)] : x.star_i <= x.i}

Start == [p |-> 1, i |-> 1, star_p |-> 0, star_i |-> 0]

\* fail(): go on behind the last star, which takes one character more; not when
\* there is none or the name is used up.
CanRestart(x, s) == x.star_p # 0 /\ x.star_i <= Len(s)
Restart(x) == [x EXCEPT !.p = x.star_p + 1, !.i = x.star_i + 1, !.star_i = x.star_i + 1]

OnlyStars(pat, p) == \A k \in p .. Len(pat) : pat[k] = "*"

\* How far the pattern moves when pat[p] takes the character c; 0: it does not.
Taken(pat, p, c) ==
  LET class == glob_bracket(pat, p, c)
  IN  IF pat[p] = "?" THEN p + 1
      ELSE IF pat[p] = "[" /\ class.end # Unclosed THEN IF class.hit THEN class.end ELSE 0
      ELSE IF pat[p] = c THEN p + 1 ELSE 0

\* The same for the state x of the loop; 0 at the end of the pattern or the name.
Moves(pat, s, x) ==
  IF x.p <= Len(pat) /\ x.i <= Len(s) THEN Taken(pat, x.p, s[x.i]) ELSE 0

AtStar(pat, x) == x.p <= Len(pat) /\ pat[x.p] = "*"

Accepts(pat, s, x) == x.i > Len(s) /\ OnlyStars(pat, x.p)

\* The state in which the loop goes on, if it does.
Onward(pat, s, x) ==
  LET at == Moves(pat, s, x)
  IN  IF AtStar(pat, x) THEN [x EXCEPT !.p = x.p + 1, !.star_p = x.p, !.star_i = x.i]
      ELSE IF at # 0 THEN [x EXCEPT !.p = at, !.i = x.i + 1]
      ELSE Restart(x)

Decided(pat, s, x) ==
  ~AtStar(pat, x) /\ (Accepts(pat, s, x) \/ (Moves(pat, s, x) = 0 /\ ~CanRestart(x, s)))

glob_match(pat, s) ==
  LET loop[x \in States(pat, s)] ==
        IF Decided(pat, s, x) THEN Accepts(pat, s, x) ELSE loop[Onward(pat, s, x)]
  IN  loop[Start]

(* --------------------------- what a pattern means ------------------------- *)
\* The brackets that may close the class at p; the first of them does.
Closing(pat, p) ==
  IF pat[p] = "[" THEN {k \in ClassFrom(pat, p) .. Len(pat) : pat[k] = "]"} ELSE {}

\* The characters between the brackets: ranges from the left, single ones else.
Members(pat, p) ==
  LET last == Min(Closing(pat, p))
      of[k \in 1 .. (Len(pat) + 3)] ==
        IF k >= last THEN {}
        ELSE IF k + 2 < last /\ pat[k + 1] = "-"
             THEN {c \in Letters : Rank[c] \in Rank[pat[k]] .. Rank[pat[k + 2]]} \cup of[k + 3]
             ELSE {pat[k]} \cup of[k + 1]
  IN  of[ClassFrom(pat, p)]

\* What the part of the pattern at p, which is no star, takes, and where it ends.
Matched(pat, p) ==
  IF pat[p] = "?" THEN Letters
  ELSE IF Closing(pat, p) = {} THEN {pat[p]}
  ELSE {c \in Letters : (c \in Members(pat, p)) # Negated(pat, p)}

Behind(pat, p) == IF Closing(pat, p) = {} THEN p + 1 ELSE Min(Closing(pat, p)) + 1

\* Whether the pattern fits the whole name; from[p] are the positions from which
\* the rest of the name fits the pattern from p on.
Fits(pat, s) ==
  LET from[p \in 1 .. (Len(pat) + 1)] ==
        IF p > Len(pat) THEN {Len(s) + 1}
        ELSE LET rest == from[IF pat[p] = "*" THEN p + 1 ELSE Behind(pat, p)]
             IN  IF pat[p] = "*" THEN {i \in 1 .. (Len(s) + 1) : \E k \in rest : i <= k}
                 ELSE {i \in 1 .. Len(s) : s[i] \in Matched(pat, p) /\ i + 1 \in rest}
  IN  1 \in from[1]
===============================================================================
