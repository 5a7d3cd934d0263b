------------------------------- MODULE MCXmlReader -------------------------------
(* Files for TLC.  A writer that knows nothing of the reader's phases turns a  *)
(* tree into text, in several styles; the trees have up to four nodes, the    *)
(* names and values are chosen to be confused: a name that begins like another *)
(* one, values with the other quote, '=', blanks, '/' and '>'.  The damaged    *)
(* files have an end tag, a character or a quote too few or a wrong one.       *)
EXTENDS XmlWriter

MCLetters == {"a", "b"}
MCDigits == {"1"}
MCOthers == {"~"}

a == <<"a">>
ab == <<"a", "b">>
At(n, v) == [name |-> n, value |-> v]
Nd(t, as, x, p) == [tag |-> t, attrs |-> as, text |-> x, parent |-> p]

AttrLists == {<<>>, <<At(a, <<>>)>>,
              <<At(ab, <<Apostrophe, " ">>), At(a, <<"/">>)>>,
              <<At(a, <<"=", Quote, " ">>), At(ab, <<"=", Apostrophe, ">">>)>>,
              <<At(a, <<Quote, "=">>), At(<<"b", "1">>, <<" ", "~">>)>>}

Trees ==
  {<<Nd(a, as, x, 0)>> : as \in AttrLists, x \in {<<>>, <<"a">>, <<">", " ">>}}
    \union {<<Nd(a, <<>>, x, 0), Nd(t, as, <<>>, 1)>> :
              as \in AttrLists, x \in {<<>>, <<" ", "b">>}, t \in {a, ab}}
    \union {<<Nd(ab, <<>>, <<>>, 0), Nd(a, <<>>, x, 1), Nd(t, <<>>, y, p)>> :
              x \in {<<>>, a}, y \in {<<>>, <<"~">>}, p \in {1, 2}, t \in {a, ab}}
    \union {<<Nd(a, <<>>, <<>>, 0), Nd(ab, as, <<>>, 1), Nd(a, <<>>, <<>>, 2),
              Nd(ab, <<>>, <<"b">>, p)>> : as \in AttrLists, p \in 1..3}

(* Comments and the like, which may stand before a tag. *)
Skipped == {<<>>, <<"<", "!", "-", "-", "a", "-", "a", "-", "-", ">", " ">>,
            <<"<", "?", "a", "?", ">">>, <<"<", "!", "a", ">", "tab">>, <<"<", "!", ">">>,
            <<"<", "!", "-", ">">>, <<"<", "!", "-", "a", ">">>,
            <<"<", "!", "[", "a", "[", "a", "]", "]", "~", ">">>}

Styles == [skipped : Skipped, blank : {<<>>, <<"tab">>}, self : BOOLEAN,
           quote : {Quote, Apostrophe}]
PlainStyle == [skipped |-> <<>>, blank |-> <<>>, self |-> TRUE, quote |-> Quote]

Has(v, c) == \E i \in 1..Len(v) : v[i] = c
QuoteFor(v, s) == IF Has(v, Quote) THEN Apostrophe
                  ELSE IF Has(v, Apostrophe) THEN Quote ELSE s.quote

RECURSIVE WriteAttrs(_, _)
WriteAttrs(as, s) ==
  IF as = <<>> THEN <<>>
  ELSE LET q == QuoteFor(as[1].value, s) IN
       <<" ">> \o s.blank \o as[1].name \o s.blank \o <<"=">> \o s.blank
         \o <<q>> \o as[1].value \o <<q>> \o WriteAttrs(Tail(as), s)

KidsOf(t, k) == SelectSeq([i \in 1..Len(t) |-> i], LAMBDA i : t[i].parent = k)

(* The text of a node stands before its children, or, in the styles that write *)
(* empty elements in full and skip nothing, after them.                        *)
TextLast(s) == ~s.self /\ s.skipped = <<>>

RECURSIVE WriteNode(_, _, _), WriteAll(_, _, _)
WriteNode(t, k, s) ==
  LET n == t[k]
      kids == KidsOf(t, k)
      start == <<"<">> \o n.tag \o WriteAttrs(n.attrs, s) \o s.blank
  IN s.skipped
       \o IF kids = <<>> /\ n.text = <<>> /\ s.self THEN start \o <<"/", ">">>
          ELSE start \o <<">">>
                 \o (IF TextLast(s) THEN <<>> ELSE n.text)
                 \o WriteAll(t, kids, s)
                 \o (IF TextLast(s) THEN n.text ELSE s.skipped)
                 \o <<"<", "/">> \o n.tag \o s.blank \o <<">">>
WriteAll(t, ks, s) ==
  IF ks = <<>> THEN <<>> ELSE WriteNode(t, ks[1], s) \o WriteAll(t, Tail(ks), s)

Good(t, s) == [text |-> <<" ">> \o WriteNode(t, 1, s) \o <<"~">>, nodes |-> t,
               good |-> TRUE]
Bad(text) == [text |-> text, nodes |-> <<>>, good |-> FALSE]

Damaged == {
  <<"<", "a", ">", "<", "/", "a", "b", ">">>,         \* another element's end tag
  <<"<", "a", "b", ">", "<", "/", "a", ">">>,
  <<"<", "a", ">", "<", "b", ">", "<", "/", "a", ">", "<", "/", "b", ">">>,
  <<"<", "a", ">", "<", "b", "/", ">", "b">>,         \* an end tag is missing
  <<"<", "/", "a", ">">>,                             \* nothing but an end tag
  <<"a", "<", "a", "/", ">">>,                        \* text before the root
  <<"<", "1", "/", ">">>, <<"<", "a", "~", ">">>,     \* what is no name
  <<"<", "a", " ", "=", Quote, Quote, "/", ">">>,
  <<"<", "a", " ", "b", "/", ">">>, <<"<", "a", " ", "b", " ", ">">>,
  <<"<", "a", " ", "b", "=", "b", "/", ">">>,         \* no quotes
  <<"<", "a", " ", "b", "=", Quote, "<", Quote, "/", ">">>,
  <<"<", "a", " ", "b", "=", Apostrophe, "<", Apostrophe, ">">>,
  <<"<", "a", " ", "b", "=", Quote, Quote, "b", "/", ">">>,
  <<"<", "a", ">", "<", "/", "1", ">">>, <<"<", "a", ">", "<", "/", "a", "/", ">">>,
  <<"<", "a", ">", "<", "/", "a", " ", "a", ">">>,
  <<"<", "a", "/", " ", ">">>,
  <<"<", "!", "-", "-", "-", "-", "-", ">", "<", "a", "/", ">">>}

MCDocs == {Good(t, s) : t \in Trees, s \in Styles} \union {Bad(x) : x \in Damaged}
PlainDocs == {Good(t, PlainStyle) : t \in Trees}

(* The writer's states, found one by one: each choice shows in its character.   *)
RECURSIVE LogFrom(_, _)
LogFrom(d, log) ==
  LET i == Len(log) IN
  IF i > Len(d.text) THEN log
  ELSE LogFrom(d, Append(log, CHOOSE w \in After(d.nodes, log[i], d.text[i]) : TRUE))

(* What is taken for undamaged was written, in the sense of XmlWriter.         *)
ASSUME GoodIsWritten ==
  \A d \in Docs : d.good => WrittenBy(d, d.nodes, LogFrom(d, <<Fresh>>))
================================================================================
