-------------------------------- MODULE Utf8 --------------------------------
(***************************************************************************)
(* unicode.c and the UTF-8 check of tokenizer.c.  A C string is a sequence *)
(* of bytes 0 .. 255, code points are numbers, positions start at 1.       *)
(***************************************************************************)
EXTENDS Integers, Sequences, SequencesExt, FiniteSetsExt

CONSTANT Ranges   \* UNICODE_RANGES: a sequence of [lo, hi, cat], in order

ASSUME RangesAssumption ==
  \A i \in 1 .. Len(Ranges) - 1 : Ranges[i].hi < Ranges[i + 1].lo

\* unicode_cat: binary search.
UnicodeCat(cp) ==
  LET find[r \in Int \X Int] ==
        LET lo == r[1]  hi == r[2]
            mid == lo + ((hi - lo) \div 2)
        IN CASE lo > hi              -> "other"
             [] cp < Ranges[mid].lo  -> find[<<lo, mid - 1>>]
             [] cp > Ranges[mid].hi  -> find[<<mid + 1, hi>>]
             [] OTHER                -> Ranges[mid].cat
  IN find[<<1, Len(Ranges)>>]

\* How long a character is that begins with byte c; 0 if none does.
Need(c) == CASE c < 128       -> 1
             [] c \div 32 = 6  -> 2
             [] c \div 16 = 14 -> 3
             [] c \div 8 = 30  -> 4
             [] OTHER          -> 0

\* The bits of a lead byte and six of each byte that follows.
Point(s, i, n) ==
  FoldLeft(LAMBDA cp, b : cp * 64 + (b % 64),
           IF n = 1 THEN s[i] ELSE s[i] % (2 ^ (7 - n)), SubSeq(s, i + 1, i + n - 1))

\* utf8_decode at i: the code point and how far it reaches.  The bytes that
\* follow a lead byte are not looked at.
Decode(s, i) ==
  LET n == Need(s[i])
  IN IF n > 0 /\ i + n - 1 <= Len(s) THEN [cp |-> Point(s, i, n), adv |-> n]
     ELSE [cp |-> 65533, adv |-> 1]

\* utf8_encode
EncodePoint(cp) ==
  LET n == CASE cp < 128 -> 1 [] cp < 2048 -> 2 [] cp < 65536 -> 3 [] OTHER -> 4
      lead == <<0, 192, 224, 240>>
      tail == [k \in 1 .. n - 1 |-> 128 + ((cp \div 64 ^ (n - 1 - k)) % 64)]
  IN <<lead[n] + (cp \div 64 ^ (n - 1))>> \o tail

EncodeAll(cps) == FlattenSeq([i \in DOMAIN cps |-> EncodePoint(cps[i])])

\* utf8_codepoints
Codepoints(s) ==
  LET from[i \in Nat] == IF i > Len(s) THEN <<>>
                         ELSE LET d == Decode(s, i) IN <<d.cp>> \o from[i + d.adv]
  IN from[1]

\* The n - 1 bytes behind a lead byte continue it.
Continues(s, i, n) == \A k \in 1 .. n - 1 : s[i + k] \div 64 = 2

\* utf8_valid_prefix: 1 when s is whole characters, -1 when it ends within one,
\* 0 when it is not UTF-8.  Overlong forms are invalid, surrogates are not.
ValidPrefix(s) ==
  LET least == <<0, 128, 2048, 65536>>
      ok[i \in Nat] ==
        IF i > Len(s) THEN 1
        ELSE LET n == Need(s[i])
             IN CASE n = 0                -> 0
                  [] i + n - 1 > Len(s)   -> -1
                  [] ~Continues(s, i, n)  -> 0
                  [] Point(s, i, n) < least[n] \/ Point(s, i, n) > 1114111 -> 0
                  [] OTHER                -> ok[i + n]
  IN ok[1]
=============================================================================
