----------------------------- MODULE Pretokenize ----------------------------
(***************************************************************************)
(* How tokenizer.c cuts a text into words, for the three kinds of models,  *)
(* and the regular expressions the hand-written scanners stand for.        *)
(* A text is a sequence of code points; a scanner gives for the position   *)
(* where a word begins the position behind it.                             *)
(***************************************************************************)
EXTENDS Utf8

IsLetter(cp) == UnicodeCat(cp) = "letter"
IsNumber(cp) == UnicodeCat(cp) = "number"
IsSpace(cp)  == UnicodeCat(cp) = "space"
IsMark(cp)   == UnicodeCat(cp) = "mark"
IsBreak(cp)  == cp \in {10, 13}
IsOther(cp)  == ~IsSpace(cp) /\ ~IsLetter(cp) /\ ~IsNumber(cp)

Blank == 32
\* ascii_tolower
Lower(cp) == IF cp \in 65 .. 90 THEN cp + 32 ELSE cp
Same(cp)  == cp

\* The end of the run of code points with P that begins at pos.
RunEnd(cs, pos, P(_)) ==
  Min({j \in pos .. Len(cs) + 1 : j = Len(cs) + 1 \/ ~P(cs[j])})

\* 's 't 'm 'd 're 've 'll, with the case folded by Fold: its length, 0 if none.
Contraction(cs, pos, Fold(_)) ==
  LET c(k) == IF pos + k <= Len(cs) THEN Fold(cs[pos + k]) ELSE 0
  IN CASE cs[pos] # 39 -> 0
       [] cs[pos] = 39 /\ c(1) \in {115, 116, 109, 100} -> 2
       [] cs[pos] = 39 /\ <<c(1), c(2)>> \in {<<114, 101>>, <<118, 101>>, <<108, 108>>} -> 3
       [] OTHER -> 0

\* Mutant: all blanks of a run are one word.
SpacesEndAll(cs, pos) == RunEnd(cs, pos, IsSpace)

\* A run of blanks leaves its last one to the word behind it.
SpacesEnd(cs, pos) ==
  LET e == RunEnd(cs, pos, IsSpace)
  IN IF e - pos > 1 /\ e <= Len(cs) THEN e - 1 ELSE Max({e, pos + 1})

\* gpt2_split
Gpt2End(cs, pos) ==
  LET look == IF cs[pos] = Blank /\ pos < Len(cs) THEN pos + 1 ELSE pos
      k == Contraction(cs, pos, Same)
  IN CASE k > 0              -> pos + k
       [] k = 0 /\ IsLetter(cs[look]) -> RunEnd(cs, look, IsLetter)
       [] k = 0 /\ IsNumber(cs[look]) -> RunEnd(cs, look, IsNumber)
       [] k = 0 /\ IsOther(cs[look])  -> RunEnd(cs, look, IsOther)
       [] OTHER              -> SpacesEnd(cs, pos)

\* pretokenize_qwen; marks says whether they belong to words.
QwenEnd(cs, pos, marks) ==
  LET c == cs[pos]
      n == Len(cs)
      inWord(cp) == IsLetter(cp) \/ (marks /\ IsMark(cp))
      punct(cp) == IsOther(cp) /\ ~(marks /\ IsMark(cp))
      look == IF c = Blank /\ pos < n THEN pos + 1 ELSE pos
      word == /\ ~IsBreak(c) /\ ~IsNumber(c)
              /\ inWord(c) \/ (pos < n /\ inWord(cs[pos + 1]))
      breaks == {j \in pos .. RunEnd(cs, pos, IsSpace) - 1 : IsBreak(cs[j])}
      k == Contraction(cs, pos, Lower)
  IN IF k > 0 THEN pos + k
     ELSE IF word THEN RunEnd(cs, pos + 1, inWord)
     ELSE IF IsNumber(c) THEN pos + 1
     ELSE IF punct(cs[look]) THEN RunEnd(cs, RunEnd(cs, look, punct), IsBreak)
     ELSE IF breaks # {} THEN Max(breaks) + 1
     ELSE SpacesEnd(cs, pos)

\* All words, with a scanner.
Words(cs, End(_, _)) ==
  LET from[pos \in Nat] ==
        IF pos > Len(cs) THEN <<>>
        ELSE LET e == End(cs, pos) IN <<SubSeq(cs, pos, e - 1)>> \o from[e]
  IN from[1]

\* Each number is a piece of its own, and so is the text between two.
AtNumbers(cs) ==
  LET edge(i) == i = 1 \/ IsNumber(cs[i]) \/ IsNumber(cs[i - 1])
      starts == SetToSortSeq({i \in DOMAIN cs : edge(i)}, <)
  IN [k \in DOMAIN starts |->
        SubSeq(cs, starts[k], IF k < Len(starts) THEN starts[k + 1] - 1 ELSE Len(cs))]

\* pretokenize_smollm
Smollm(cs) ==
  FlattenSeq([k \in DOMAIN AtNumbers(cs) |->
    LET p == AtNumbers(cs)[k] IN IF IsNumber(p[1]) THEN <<p>> ELSE Words(p, Gpt2End)])

Qwen(cs, marks) == Words(cs, LAMBDA s, pos : QwenEnd(s, pos, marks))

-----------------------------------------------------------------------------
(* The regular expressions.  An alternative is the set of ends its words   *)
(* may have; the first that matches is taken, as far as it reaches.        *)

All(cs, from, to, P(_)) == \A j \in from .. to - 1 : P(cs[j])
Ends(cs, pos) == pos + 1 .. Len(cs) + 1

FirstMatch(alternatives) ==
  LET k == Min({i \in DOMAIN alternatives : alternatives[i] # {}})
  IN Max(alternatives[k])

\* '(s|t|re|ve|m|ll|d)
ReShort(cs, pos, Fold(_)) ==
  {e \in Ends(cs, pos) :
     /\ cs[pos] = 39
     /\ [j \in 1 .. e - pos - 1 |-> Fold(cs[pos + j])] \in
          {<<115>>, <<116>>, <<114, 101>>, <<118, 101>>, <<109>>, <<108, 108>>, <<100>>}}

\* " ?P+Q*" for predicates P and Q that exclude each other.
ReBlankThen(cs, pos, P(_), Q(_)) ==
  {e \in Ends(cs, pos) :
     \E s \in {pos} \cup (IF cs[pos] = Blank THEN {pos + 1} ELSE {}), m \in pos + 1 .. e :
       s < m /\ All(cs, s, m, P) /\ All(cs, m, e, Q)}

\* "\s+(?!\S)", "\s+" and "\s*[\r\n]+"
ReSpacesBefore(cs, pos) ==
  {e \in Ends(cs, pos) : All(cs, pos, e, IsSpace) /\ (e = Len(cs) + 1 \/ IsSpace(cs[e]))}
ReSpaces(cs, pos) == {e \in Ends(cs, pos) : All(cs, pos, e, IsSpace)}
ReBreaks(cs, pos) == {e \in ReSpaces(cs, pos) : IsBreak(cs[e - 1])}

Nothing(cp) == FALSE

\* 's|'t|'re|'ve|'m|'ll|'d| ?\p{L}+| ?\p{N}+| ?[^\s\p{L}\p{N}]+|\s+(?!\S)|\s+
RegexGpt2(cs, pos) ==
  FirstMatch(<<ReShort(cs, pos, Same),
               ReBlankThen(cs, pos, IsLetter, Nothing),
               ReBlankThen(cs, pos, IsNumber, Nothing),
               ReBlankThen(cs, pos, IsOther, Nothing),
               ReSpacesBefore(cs, pos), ReSpaces(cs, pos)>>)

\* The same with (?i) in front, "[^\r\n\p{L}\p{N}]?W+" for words, single
\* numbers, line breaks behind punctuation and runs that end in line breaks;
\* W is [\p{L}\p{M}] where marks are part of words, and [\p{L}] elsewhere.
RegexQwen(cs, pos, marks) ==
  LET w(cp) == IsLetter(cp) \/ (marks /\ IsMark(cp))
      punct(cp) == IsOther(cp) /\ ~(marks /\ IsMark(cp))
      before == ~IsBreak(cs[pos]) /\ ~IsLetter(cs[pos]) /\ ~IsNumber(cs[pos])
      words == {e \in Ends(cs, pos) :
                  \E s \in {pos} \cup (IF before THEN {pos + 1} ELSE {}) :
                    s < e /\ All(cs, s, e, w)}
  IN FirstMatch(<<ReShort(cs, pos, Lower),
                  words,
                  {e \in {pos + 1} : IsNumber(cs[pos])},
                  ReBlankThen(cs, pos, punct, IsBreak),
                  ReBreaks(cs, pos), ReSpacesBefore(cs, pos), ReSpaces(cs, pos)>>)

\* The words a text should have.
RegexWords(cs, pre) ==
  CASE pre = "qwen2"  -> Words(cs, LAMBDA s, pos : RegexQwen(s, pos, FALSE))
    [] pre = "qwen35" -> Words(cs, LAMBDA s, pos : RegexQwen(s, pos, TRUE))
    [] OTHER -> FlattenSeq([k \in DOMAIN AtNumbers(cs) |-> Words(AtNumbers(cs)[k], RegexGpt2)])
=============================================================================
