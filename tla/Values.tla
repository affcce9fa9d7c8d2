------------------------------- MODULE Values -------------------------------
(***************************************************************************)
(* What a matched text becomes (packages/scraper/src/values.ts).  A text   *)
(* is a sequence of one-character strings; a number is counted in          *)
(* thousandths, so a text has at most three decimals here.                 *)
(***************************************************************************)
EXTENDS Integers, Sequences, SequencesExt

Digits == <<"0", "1", "2", "3", "4", "5", "6", "7", "8", "9">>
IsDigit(c) == Contains(Digits, c)
Spaces == {" ", "nbsp", "newline"}

NullValue == <<"null">>
Num(n)    == <<"number", n>>
Bool(b)   == <<"boolean", b>>
Txt(t)    == <<"text", t>>
List(s)   == <<"list", s>>

(* Runs of white space become one space, none at the ends. *)
NormalizeWhitespace(t) ==
  FoldLeft(LAMBDA done, i :
             CASE t[i] \notin Spaces -> Append(done, t[i])
               [] t[i] \in Spaces /\ i > 1 /\ t[i - 1] \notin Spaces
                    /\ \E j \in i..Len(t) : t[j] \notin Spaces -> Append(done, " ")
               [] OTHER -> done,
           <<>>, [i \in 1..Len(t) |-> i])

Count(t, c) == Len(SelectSeq(t, LAMBDA d : d = c))
Without(t, c) == SelectSeq(t, LAMBDA d : d # c)
LastIndex(t, c) == SelectLastInSeq(t, LAMBDA d : d = c)

(* Number of JavaScript on what is left: a sign, digits, one point. *)
Whole(ds) == FoldLeft(LAMBDA n, d : 10 * n + (CHOOSE k \in 0..9 : Digits[k + 1] = d), 0, ds)
IsNumeral(t) == \E s \in {<<>>, <<"-">>} :
  /\ IsPrefix(s, t) /\ Count(t, "-") = Len(s) /\ Count(t, ",") = 0 /\ Count(t, ".") <= 1
  /\ \E i \in 1..Len(t) : IsDigit(t[i])

Numeral(t) ==
  LET bare == Without(t, "-")
      point == LastIndex(bare, ".")
      fraction == IF point = 0 THEN <<>> ELSE SubSeq(bare, point + 1, Len(bare))
      whole == IF point = 0 THEN bare ELSE SubSeq(bare, 1, point - 1)
      n == 1000 * Whole(whole) + Whole(SubSeq(fraction \o <<"0", "0", "0">>, 1, 3))
  IN IF t[1] = "-" THEN -n ELSE n

NeverGroups(t, sep) == ReplaceAt(t, LastIndex(t, sep), ".")

(* One kind of separator: repeated, or before three digits, it groups. *)
OneSeparator(t, sep) ==
  IF Count(t, sep) > 1 \/ Len(t) - LastIndex(t, sep) = 3
    THEN Without(t, sep)
    ELSE ReplaceAt(t, LastIndex(t, sep), ".")

(* Both: the later one is the decimal separator, its first occurrence the point. *)
BothSeparators(t) ==
  LET decimal == IF LastIndex(t, ",") > LastIndex(t, ".") THEN "," ELSE "."
      bare == Without(t, IF decimal = "," THEN "." ELSE ",")
  IN ReplaceAt(bare, SelectInSeq(bare, LAMBDA d : d = decimal), ".")

ParseNumericValue(text) ==
  LET t == SelectSeq(text, LAMBDA c : IsDigit(c) \/ c \in {",", ".", "-"})
      value == CASE Contains(t, ",") /\ Contains(t, ".") -> BothSeparators(t)
                 [] Contains(t, ",") /\ ~Contains(t, ".") -> OneSeparator(t, ",")
                 [] ~Contains(t, ",") /\ Contains(t, ".") -> OneSeparator(t, ".")
                 [] OTHER -> t
  IN IF (\E i \in 1..Len(t) : IsDigit(t[i])) /\ IsNumeral(value) THEN Num(Numeral(value)) ELSE NullValue

(* A word is a text of one symbol, in lower case; dates and URLs, which are  *)
(* rewritten into a standard form where they can be, are left out.           *)
TrueWords  == {"true", "yes", "available", "in stock", "si", "1"}
FalseWords == {"false", "no", "unavailable", "out of stock", "agotado", "0"}

CoerceExtractedValue(raw, type) ==
  LET value == NormalizeWhitespace(raw) IN
  CASE value = <<>> -> NullValue
    [] value # <<>> /\ type \in {"number", "currency"} -> ParseNumericValue(value)
    [] value # <<>> /\ type = "boolean" ->
         CASE Len(value) = 1 /\ value[1] \in TrueWords -> Bool(TRUE)
           [] Len(value) = 1 /\ value[1] \in FalseWords -> Bool(FALSE)
           [] OTHER -> NullValue
    [] OTHER -> Txt(value)
=============================================================================
