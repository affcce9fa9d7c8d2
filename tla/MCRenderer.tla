----------------------------- MODULE MCRenderer -----------------------------
EXTENDS Renderer

(* Numbers in hundredths. *)
Samples == {0, 100, 1205, 99950, 100000, 123450, 123456789, -50, -123450}

(* The notations a page may use: group separator and decimal separator.     *)
Conventions == {<<",", ".">>, <<".", ",">>, <<"nbsp", ",">>, <<"none", ".">>, <<"none", ",">>}

DigitsOf[n \in Nat] == IF n < 10 THEN <<Digits[n + 1]>> ELSE DigitsOf[n \div 10] \o <<Digits[(n % 10) + 1]>>

Grouped[ds \in Seq({Digits[i] : i \in DOMAIN Digits}), sep \in {",", ".", "nbsp", "none"}] ==
  IF Len(ds) <= 3 \/ sep = "none" THEN ds
  ELSE Grouped[SubSeq(ds, 1, Len(ds) - 3), sep] \o <<sep>> \o SubSeq(ds, Len(ds) - 2, Len(ds))

(* A number of hundredths with two, one or no decimals, as far as it has none *)
(* it would lose, with a sign and a currency.                                 *)
Shown(h, c, decimals) ==
  (IF h < 0 THEN <<"-">> ELSE <<"$", " ">>)
    \o Grouped[DigitsOf[(IF h < 0 THEN -h ELSE h) \div 100], c[1]]
    \o (IF decimals = 0 THEN <<>>
        ELSE <<c[2]>> \o SubSeq(<<Digits[(((IF h < 0 THEN -h ELSE h) % 100) \div 10) + 1],
                                  Digits[((IF h < 0 THEN -h ELSE h) % 10) + 1]>>, 1, decimals))

Decimals(h) == CASE h % 100 = 0 -> {0, 1, 2} [] h % 100 # 0 /\ h % 10 = 0 -> {1, 2} [] OTHER -> {2}

PriceTexts == UNION {{[text |-> Shown(h, c, d), value |-> Num(10 * h)] : c \in Conventions, d \in Decimals(h)} :
                     h \in Samples}

SomeTags == {<<>>, << <<"a">>, <<"b", " ", " ">>, <<" ">> >>, << <<" ">>, <<"a">> >>, << <<"b">>, <<"a">>, <<"c">> >>}

(* Every price in one page, and every list of tags in another. *)
APrice == CHOOSE p \in PriceTexts : p.value = Num(1234500)
SomePages == {[price |-> p, tags |-> <<>>, stock |-> <<>>, needsScript |-> FALSE] : p \in PriceTexts}
               \cup {[price |-> APrice, tags |-> t, stock |-> << <<w>> >>, needsScript |-> js] :
                       t \in SomeTags, w \in {"in stock", "agotado", "ask us"}, js \in BOOLEAN}
               \cup {[price |-> [text |-> <<"-", " ">>, value |-> NullValue], tags |-> <<>>, stock |-> <<>>, needsScript |-> FALSE]}

OldPrice == [field |-> Price, value |-> Num(1234500)]
OldTags  == [field |-> Tags, value |-> List(<<Txt(<<"a">>), Txt(<<"b">>)>>)]
OldStock == [field |-> Stock, value |-> Bool(TRUE)]
OldOutputs == {<<>>, <<OldStock, OldTags, OldPrice>>, <<[field |-> "colour", value |-> NullValue], OldPrice>>}

(* A shop, another host, and a port that the policy refuses. *)
Shop == [valid |-> TRUE, scheme |-> "https", credentials |-> FALSE, port |-> 0, host |-> "shop", suffix |-> "none"]
SomeUrls == {Shop, [Shop EXCEPT !.host = "images"], [Shop EXCEPT !.port = 8080]}

(* A public address, no answer, and a private address among the answers. *)
PublicAddress == <<[family |-> "ipv4", range |-> "unicast"]>>
SomeAnswers == {PublicAddress, <<>>, PublicAddress \o <<[family |-> "mapped", range |-> "private"]>>}
=============================================================================
