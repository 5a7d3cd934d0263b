---------------------------- MODULE XmlRoundTripProofs ----------------------------
(***************************************************************************)
(* That the reader gives back the tree a file was written from, for every    *)
(* tree, every text a writer may make of it and every file of any length.     *)
(* The reader is shown to keep step with the writer, character by character:  *)
(* Follows(t, w), with w the state the writer was in before the next          *)
(* character.  The first part says what a writer may do next and what the      *)
(* reader's rules make of the character; the second what stands in the tag     *)
(* collected so far; the third puts them together, step by step.              *)
(***************************************************************************)
EXTENDS XmlWriter, XmlReaderProofs

--------------------------------------------------------------------------------
(* The writer's moves.                                                       *)

(* It goes on to another place; the nodes and texts written stay as they are. *)
Becomes(w, w2, at, n, al) ==
  /\ w2.at = at /\ w2.n = n /\ w2.attrs = al
  /\ w2.said = w.said /\ w2.open = w.open

(* The tag is whole: it opens a node, is one, or ends the one open.           *)
Opens(w, w2) == /\ w2.at = "body" /\ w2.said = Append(w.said, 0)
                /\ w2.open = Len(w.said) + 1
Completes(t, w, w2, said, o) == /\ w2.at = "body" /\ w2.said = said /\ w2.open = o
                                /\ o = 0 => AllSaid(t, said)

LEMMA Fields ==
  ASSUME NEW w \in Writer
  PROVE  /\ w.n \in Nat /\ w.attrs \in Nat /\ w.said \in Seq(Nat) /\ w.open \in Nat
         /\ Len(w.said) \in Nat /\ w.quote \in {Quote, Apostrophe}
  BY DEF Writer

LEMMA MovesTo ==
  ASSUME NEW w \in Writer, NEW at
  PROVE  /\ Becomes(w, w, w.at, w.n, w.attrs)
         /\ Becomes(w, Go(w, at), at, w.n, w.attrs) /\ Go(w, at).quote = w.quote
         /\ \A n : Becomes(w, Start(w, at, n), at, n, w.attrs)
         /\ Becomes(w, GoOn(w), w.at, w.n + 1, w.attrs) /\ GoOn(w).quote = w.quote
  BY DEF Writer, Becomes, Go, Start, GoOn

(* Where a start tag may end. *)
LEMMA StartEnds ==
  ASSUME NEW t, NEW w \in Writer, NEW c, NEW w2 \in EndsStart(t, w, c)
  PROVE  /\ ~MoreAttrs(t, w)
         /\ \/ c = "/" /\ Becomes(w, w2, "/", w.n, w.attrs)
            \/ c = ">" /\ Opens(w, w2)
<1>1. CASE c = "/" /\ ~MoreAttrs(t, w) /\ w2 = Go(w, "/")
  BY <1>1, MovesTo
<1>2. CASE /\ c = ">" /\ ~MoreAttrs(t, w)
           /\ w2 = [w EXCEPT !.at = "body", !.said = Append(w.said, 0), !.open = Len(w.said) + 1]
  BY <1>2 DEF Writer, Opens
<1> QED
  BY <1>1, <1>2 DEF EndsStart, When

(* After is what its name says, place by place. *)
LEMMA Dispatch ==
  ASSUME NEW t, NEW w, NEW c
  PROVE  /\ w.at = "before" => After(t, w, c) = AfterBefore(w, c)
         /\ w.at = "<" => After(t, w, c) = AfterLess(t, w, c)
         /\ w.at = "tag" => After(t, w, c) = AfterTag(t, w, c)
         /\ w.at = "gap" => After(t, w, c) = AfterGap(t, w, c)
         /\ w.at = "attr" => After(t, w, c) = AfterAttr(t, w, c)
         /\ w.at = "equals" => After(t, w, c) = AfterEquals(w, c)
         /\ w.at = "value" => After(t, w, c) = AfterValue(t, w, c)
         /\ w.at = "valued" => After(t, w, c) = AfterValued(t, w, c)
         /\ w.at = "/" => After(t, w, c) = AfterSlash(t, w, c)
         /\ w.at = "end" => After(t, w, c) = AfterEnd(t, w, c)
         /\ w.at = "body" => After(t, w, c) = AfterBody(t, w, c)
         /\ w.at \in Skipping => After(t, w, c) = AfterSkipped(w, c)
  BY DEF After, Skipping

LEMMA FromBefore ==
  ASSUME NEW t, NEW w \in Writer, w.at = "before", NEW c, NEW w2 \in After(t, w, c)
  PROVE  \/ c \in White /\ Becomes(w, w2, "before", w.n, w.attrs)
         \/ c = "<" /\ Becomes(w, w2, "<", w.n, w.attrs)
<1>1. w2 \in AfterBefore(w, c)
  BY Dispatch
<1>2. (c \in White /\ w2 = w) \/ (c = "<" /\ w2 = Go(w, "<"))
  BY <1>1 DEF AfterBefore, When
<1> QED
  BY <1>2, MovesTo

LEMMA FromLess ==
  ASSUME NEW t, NEW w \in Writer, w.at = "<", NEW c, NEW w2 \in After(t, w, c)
  PROVE  \/ c = "?" /\ Becomes(w, w2, "instruction", w.n, w.attrs)
         \/ c = "!" /\ Becomes(w, w2, "declaration", w.n, w.attrs)
         \/ c = "/" /\ w.open # 0 /\ Becomes(w, w2, "end", 0, w.attrs)
         \/ /\ Len(w.said) < Len(t) /\ This(t, w).parent = w.open /\ c = This(t, w).tag[1]
            /\ Becomes(w, w2, "tag", 1, 0)
<1>1. w2 \in AfterLess(t, w, c)
  BY Dispatch
<1>2. \/ c = "?" /\ w2 = Go(w, "instruction")
      \/ c = "!" /\ w2 = Go(w, "declaration")
      \/ c = "/" /\ w.open # 0 /\ w2 = Start(w, "end", 0)
      \/ /\ Len(w.said) < Len(t) /\ This(t, w).parent = w.open /\ c = This(t, w).tag[1]
         /\ w2 = [w EXCEPT !.at = "tag", !.n = 1, !.attrs = 0]
  BY <1>1 DEF AfterLess, When
<1>3. w2 = [w EXCEPT !.at = "tag", !.n = 1, !.attrs = 0] => Becomes(w, w2, "tag", 1, 0)
  BY DEF Writer, Becomes
<1> QED
  BY <1>2, <1>3, MovesTo

LEMMA FromTag ==
  ASSUME NEW t, NEW w \in Writer, w.at = "tag", NEW c, NEW w2 \in After(t, w, c)
  PROVE  LET s == This(t, w).tag IN
         \/ Letter(w, s, c) /\ Becomes(w, w2, "tag", w.n + 1, w.attrs)
         \/ Whole(w, s) /\ c \in White /\ Becomes(w, w2, "gap", w.n, w.attrs)
         \/ Whole(w, s) /\ w2 \in EndsStart(t, w, c)
<1> DEFINE s == This(t, w).tag
<1>1. w2 \in AfterTag(t, w, c)
  BY Dispatch
<1>2. \/ Letter(w, s, c) /\ w2 = GoOn(w)
      \/ Whole(w, s) /\ c \in White /\ w2 = Go(w, "gap")
      \/ Whole(w, s) /\ w2 \in EndsStart(t, w, c)
  BY <1>1 DEF AfterTag, When
<1> QED
  BY <1>2, MovesTo

LEMMA FromGap ==
  ASSUME NEW t, NEW w \in Writer, w.at = "gap", NEW c, NEW w2 \in After(t, w, c)
  PROVE  \/ c \in White /\ Becomes(w, w2, "gap", w.n, w.attrs)
         \/ w2 \in EndsStart(t, w, c)
         \/ /\ MoreAttrs(t, w) /\ c = Attribute(t, w).name[1]
            /\ Becomes(w, w2, "attr", 1, w.attrs)
<1>1. w2 \in AfterGap(t, w, c)
  BY Dispatch
<1>2. \/ c \in White /\ w2 = w
      \/ w2 \in EndsStart(t, w, c)
      \/ MoreAttrs(t, w) /\ c = Attribute(t, w).name[1] /\ w2 = Start(w, "attr", 1)
  BY <1>1 DEF AfterGap, When
<1> QED
  BY <1>2, MovesTo

LEMMA FromAttr ==
  ASSUME NEW t, NEW w \in Writer, w.at = "attr", NEW c, NEW w2 \in After(t, w, c)
  PROVE  LET s == Attribute(t, w).name IN
         \/ Letter(w, s, c) /\ Becomes(w, w2, "attr", w.n + 1, w.attrs)
         \/ Whole(w, s) /\ c \in White /\ Becomes(w, w2, "attr", w.n, w.attrs)
         \/ Whole(w, s) /\ c = "=" /\ Becomes(w, w2, "equals", w.n, w.attrs)
<1> DEFINE s == Attribute(t, w).name
<1>1. w2 \in AfterAttr(t, w, c)
  BY Dispatch
<1>2. \/ Letter(w, s, c) /\ w2 = GoOn(w)
      \/ Whole(w, s) /\ c \in White /\ w2 = w
      \/ Whole(w, s) /\ c = "=" /\ w2 = Go(w, "equals")
  BY <1>1 DEF AfterAttr, When
<1> QED
  BY <1>2, MovesTo

LEMMA FromEquals ==
  ASSUME NEW t, NEW w \in Writer, w.at = "equals", NEW c, NEW w2 \in After(t, w, c)
  PROVE  \/ c \in White /\ Becomes(w, w2, "equals", w.n, w.attrs)
         \/ /\ c \in {Quote, Apostrophe} /\ Becomes(w, w2, "value", 0, w.attrs)
            /\ w2.quote = c
<1>1. w2 \in AfterEquals(w, c)
  BY Dispatch
<1>2. \/ c \in White /\ w2 = w
      \/ c \in {Quote, Apostrophe} /\ w2 = [w EXCEPT !.at = "value", !.n = 0, !.quote = c]
  BY <1>1 DEF AfterEquals, When
<1>3. w2 = [w EXCEPT !.at = "value", !.n = 0, !.quote = c]
        => Becomes(w, w2, "value", 0, w.attrs) /\ w2.quote = c
  BY DEF Writer, Becomes
<1> QED
  BY <1>2, <1>3, MovesTo

LEMMA FromTheValue ==
  ASSUME NEW t, NEW w \in Writer, w.at = "value", NEW c, NEW w2 \in After(t, w, c)
  PROVE  LET s == Attribute(t, w).value IN
         \/ /\ w.n < Len(s) /\ Shows(c, s[w.n + 1], w.quote)
            /\ Becomes(w, w2, "value", w.n + 1, w.attrs) /\ w2.quote = w.quote
         \/ Whole(w, s) /\ c = w.quote /\ Becomes(w, w2, "valued", w.n, w.attrs + 1)
<1> DEFINE s == Attribute(t, w).value
<1>1. w2 \in AfterValue(t, w, c)
  BY Dispatch
<1>2. \/ w.n < Len(s) /\ Shows(c, s[w.n + 1], w.quote) /\ w2 = GoOn(w)
      \/ Whole(w, s) /\ c = w.quote /\ w2 = [w EXCEPT !.at = "valued", !.attrs = w.attrs + 1]
  BY <1>1 DEF AfterValue, When
<1>3. w2 = [w EXCEPT !.at = "valued", !.attrs = w.attrs + 1]
        => Becomes(w, w2, "valued", w.n, w.attrs + 1)
  BY DEF Writer, Becomes
<1> QED
  BY <1>2, <1>3, MovesTo

LEMMA FromValued ==
  ASSUME NEW t, NEW w \in Writer, w.at = "valued", NEW c, NEW w2 \in After(t, w, c)
  PROVE  \/ c \in White /\ Becomes(w, w2, "gap", w.n, w.attrs)
         \/ w2 \in EndsStart(t, w, c)
<1>1. w2 \in AfterValued(t, w, c)
  BY Dispatch
<1>2. (c \in White /\ w2 = Go(w, "gap")) \/ w2 \in EndsStart(t, w, c)
  BY <1>1 DEF AfterValued, When
<1> QED
  BY <1>2, MovesTo

LEMMA ClosesTo ==
  ASSUME NEW t, NEW w \in Writer, NEW said, NEW o, NEW w2 \in Closes(t, w, said, o)
  PROVE  Completes(t, w, w2, said, o)
<1>1. /\ o = 0 => AllSaid(t, said)
      /\ w2 = [w EXCEPT !.at = "body", !.said = said, !.open = o]
  BY Zenon DEF Closes, When
<1>2. w2.at = "body" /\ w2.said = said /\ w2.open = o
  BY <1>1 DEF Writer
<1> QED
  BY <1>1, <1>2 DEF Completes

LEMMA FromTheSlash ==
  ASSUME NEW t, NEW w \in Writer, w.at = "/", NEW c, NEW w2 \in After(t, w, c)
  PROVE  c = ">" /\ Completes(t, w, w2, Append(w.said, 0), w.open)
<1>1. w2 \in AfterSlash(t, w, c)
  BY Dispatch
<1>2. c = ">" /\ w2 \in Closes(t, w, Append(w.said, 0), w.open)
  BY <1>1 DEF AfterSlash
<1> QED
  BY <1>2, ClosesTo

LEMMA FromEnd ==
  ASSUME NEW t, NEW w \in Writer, w.at = "end", NEW c, NEW w2 \in After(t, w, c)
  PROVE  LET s == t[w.open].tag IN
         \/ Letter(w, s, c) /\ Becomes(w, w2, "end", w.n + 1, w.attrs)
         \/ Whole(w, s) /\ c \in White /\ Becomes(w, w2, "end", w.n, w.attrs)
         \/ Whole(w, s) /\ c = ">" /\ Completes(t, w, w2, w.said, t[w.open].parent)
<1> DEFINE s == t[w.open].tag
<1>1. w2 \in AfterEnd(t, w, c)
  BY Dispatch
<1>2. \/ Letter(w, s, c) /\ w2 = GoOn(w)
      \/ Whole(w, s) /\ c \in White /\ w2 = w
      \/ Whole(w, s) /\ c = ">" /\ w2 \in Closes(t, w, w.said, t[w.open].parent)
  BY <1>1 DEF AfterEnd, When
<1> QED
  BY <1>2, MovesTo, ClosesTo

(* One more character of the text of node k. *)
OneMoreSaid(said, k) == [said EXCEPT ![k] = said[k] + 1]

LEMMA FromBody ==
  ASSUME NEW t, NEW w \in Writer, w.at = "body", w.open # 0, NEW c, NEW w2 \in After(t, w, c)
  PROVE  LET k == w.open IN
         \/ c = "<" /\ Becomes(w, w2, "<", w.n, w.attrs)
         \/ /\ c # "<" /\ w.said[k] < Len(t[k].text) /\ c = t[k].text[w.said[k] + 1]
            /\ w2.at = "body" /\ w2.open = k /\ w2.said = OneMoreSaid(w.said, k)
<1> DEFINE k == w.open
<1>1. w2 \in AfterBody(t, w, c)
  BY Dispatch
<1>2. \/ c = "<" /\ w2 = Go(w, "<")
      \/ /\ c # "<" /\ w.said[k] < Len(t[k].text) /\ c = t[k].text[w.said[k] + 1]
         /\ w2 = [w EXCEPT !.said = [w.said EXCEPT ![k] = w.said[k] + 1]]
  BY <1>1 DEF AfterBody, When
<1>3. w2 = [w EXCEPT !.said = [w.said EXCEPT ![k] = w.said[k] + 1]]
        => w2.at = w.at /\ w2.open = w.open /\ w2.said = OneMoreSaid(w.said, k)
  BY DEF Writer, OneMoreSaid
<1> QED
  BY <1>2, <1>3, MovesTo

LEMMA FromSkipped ==
  ASSUME NEW t, NEW w \in Writer, w.at \in Skipping, NEW c, NEW w2 \in After(t, w, c)
  PROVE  /\ w.at \in {"instruction", "bracketed"} =>
              \/ c = ">" /\ Becomes(w, w2, "before", w.n, w.attrs)
              \/ c # ">" /\ Becomes(w, w2, w.at, w.n, w.attrs)
         /\ w.at = "declaration" =>
              \/ c = ">" /\ Becomes(w, w2, "before", w.n, w.attrs)
              \/ c = "-" /\ Becomes(w, w2, "dash", w.n, w.attrs)
              \/ c = "[" /\ Becomes(w, w2, "bracket", 1, w.attrs)
              \/ c \notin {">", "-", "["} /\ Becomes(w, w2, "instruction", w.n, w.attrs)
         /\ w.at = "dash" =>
              \/ c = ">" /\ Becomes(w, w2, "before", w.n, w.attrs)
              \/ c = "-" /\ Becomes(w, w2, "comment", w.n, w.attrs)
              \/ c \notin {">", "-"} /\ Becomes(w, w2, "instruction", w.n, w.attrs)
         /\ w.at = "comment" =>
              \/ c = "-" /\ Becomes(w, w2, "comment-", w.n, w.attrs)
              \/ c # "-" /\ Becomes(w, w2, "comment", w.n, w.attrs)
         /\ w.at = "comment-" =>
              \/ c = "-" /\ Becomes(w, w2, "comment--", w.n, w.attrs)
              \/ c # "-" /\ Becomes(w, w2, "comment", w.n, w.attrs)
         /\ w.at = "comment--" => c = ">" /\ Becomes(w, w2, "before", w.n, w.attrs)
         /\ w.at = "bracket" =>
              \/ c = "[" /\ Becomes(w, w2, "bracket", w.n + 1, w.attrs)
              \/ c = "]" /\ w.n = 1 /\ Becomes(w, w2, "bracketed", w.n - 1, w.attrs)
              \/ c = "]" /\ w.n # 1 /\ Becomes(w, w2, "bracket", w.n - 1, w.attrs)
              \/ c \notin {"[", "]"} /\ Becomes(w, w2, "bracket", w.n, w.attrs)
<1>1. w2 \in AfterSkipped(w, c)
  BY Dispatch
<1>2. CASE w.at \in {"instruction", "bracketed"}
  <2>1. (c = ">" /\ w2 = Go(w, "before")) \/ (c # ">" /\ w2 = w)
    BY <1>1, <1>2 DEF AfterSkipped
  <2> QED
    BY <1>2, <2>1, MovesTo
<1>3. CASE w.at = "declaration"
  <2>1. \/ c = ">" /\ w2 = Go(w, "before")
        \/ c = "-" /\ w2 = Go(w, "dash")
        \/ c = "[" /\ w2 = Start(w, "bracket", 1)
        \/ c \notin {">", "-", "["} /\ w2 = Go(w, "instruction")
    BY <1>1, <1>3 DEF AfterSkipped
  <2> QED
    BY <1>3, <2>1, MovesTo
<1>4. CASE w.at = "dash"
  <2>1. \/ c = ">" /\ w2 = Go(w, "before")
        \/ c = "-" /\ w2 = Go(w, "comment")
        \/ c \notin {">", "-"} /\ w2 = Go(w, "instruction")
    BY <1>1, <1>4 DEF AfterSkipped
  <2> QED
    BY <1>4, <2>1, MovesTo
<1>5. CASE w.at = "comment"
  <2>1. (c = "-" /\ w2 = Go(w, "comment-")) \/ (c # "-" /\ w2 = w)
    BY <1>1, <1>5 DEF AfterSkipped
  <2> QED
    BY <1>5, <2>1, MovesTo
<1>6. CASE w.at = "comment-"
  <2>1. (c = "-" /\ w2 = Go(w, "comment--")) \/ (c # "-" /\ w2 = Go(w, "comment"))
    BY <1>1, <1>6 DEF AfterSkipped
  <2> QED
    BY <1>6, <2>1, MovesTo
<1>7. CASE w.at = "comment--"
  <2>1. c = ">" /\ w2 = Go(w, "before")
    BY <1>1, <1>7 DEF AfterSkipped, When
  <2> QED
    BY <1>7, <2>1, MovesTo
<1>8. CASE w.at = "bracket"
  <2>1. \/ c = "[" /\ w2 = GoOn(w)
        \/ c = "]" /\ w.n = 1 /\ w2 = Start(w, "bracketed", w.n - 1)
        \/ c = "]" /\ w.n # 1 /\ w2 = Start(w, "bracket", w.n - 1)
        \/ c \notin {"[", "]"} /\ w2 = w
    BY <1>1, <1>8 DEF AfterSkipped
  <2> QED
    BY <1>8, <2>1, MovesTo
<1> QED
  BY <1>2, <1>3, <1>4, <1>5, <1>6, <1>7, <1>8

--------------------------------------------------------------------------------
(* The reader's rules.                                                       *)

(* In phase p there is a rule for c, and only one way to take it.             *)
Takes(p, c, go, put) == /\ \E r \in Rules(p) : c \in r.on
                        /\ \A r \in Rules(p) : c \in r.on => r.go = go /\ r.put = put

LEMMA NoMarks ==
  /\ \A c \in NameChars : c \notin White \union {"<", ">", "/", "=", "?", "!"}
  /\ NameStart \subseteq NameChars /\ NameChars \subseteq Chars
<1>1. \A c \in Letters \union Digits : c \notin Marks
  BY CharsAssumption
<1>2. White \union {"<", ">", "/", "=", "?", "!"} \subseteq Marks
  BY DEF Marks
<1>3. \A c \in {"_", "-", "."} : c \notin White \union {"<", ">", "/", "=", "?", "!"}
  BY DEF White, Space
<1> QED
  BY <1>1, <1>2, <1>3 DEF NameChars, NameStart, Chars

(* Rules is what the table says, phase by phase. *)
LEMMA RuleIs ==
  ASSUME NEW on, NEW go, NEW put
  PROVE  R(on, go, put).on = on /\ R(on, go, put).go = go /\ R(on, go, put).put = put
  BY DEF R

LEMMA TakesBefore ==
  ASSUME NEW c
  PROVE  /\ c \in White => Takes(0, c, 0, "nothing")
         /\ c = "<" => Takes(0, c, 1, "char")
<1>1. \A d \in White : d # "<"
  BY DEF White, Space, Quote, Apostrophe
<1>2. Rules(0) = {R(White, 0, "nothing"), R({"<"}, 1, "char")}
  BY DEF Rules
<1> QED
  BY <1>1, <1>2, RuleIs DEF Takes

LEMMA TakesLess ==
  ASSUME NEW c
  PROVE  /\ c = "/" => Takes(1, c, 10, "char")
         /\ c = "?" => Takes(1, c, 14, "back")
         /\ c = "!" => Takes(1, c, 15, "back")
         /\ c \in NameStart => Takes(1, c, 2, "char")
<1>1. Rules(1) = {R({"/"}, 10, "char"), R({"?"}, 14, "back"),
                  R({"!"}, 15, "back"), R(NameStart, 2, "char")}
  BY DEF Rules
<1> QED
  BY <1>1, RuleIs, NoMarks DEF Takes

LEMMA TakesName ==
  ASSUME NEW c
  PROVE  /\ c \in White => Takes(2, c, 3, "space")
         /\ c = "/" => Takes(2, c, 13, "spaced")
         /\ c = ">" => Takes(2, c, 100, "spaced")
         /\ c \in NameChars => Takes(2, c, 2, "char")
<1>1. \A d \in White : d # "/" /\ d # ">"
  BY DEF White, Space, Quote, Apostrophe
<1>2. Rules(2) = {R(White, 3, "space"), R({"/"}, 13, "spaced"),
                  R({">"}, 100, "spaced"), R(NameChars, 2, "char")}
  BY DEF Rules
<1> QED
  BY <1>1, <1>2, RuleIs, NoMarks DEF Takes

LEMMA TakesGap ==
  ASSUME NEW c
  PROVE  /\ c \in White => Takes(3, c, 3, "nothing")
         /\ c = "/" => Takes(3, c, 13, "char")
         /\ c = ">" => Takes(3, c, 100, "char")
         /\ c \in NameStart => Takes(3, c, 4, "char")
<1>1. \A d \in White : d # "/" /\ d # ">"
  BY DEF White, Space, Quote, Apostrophe
<1>2. Rules(3) = {R(White, 3, "nothing"), R({"/"}, 13, "char"),
                  R({">"}, 100, "char"), R(NameStart, 4, "char")}
  BY DEF Rules
<1> QED
  BY <1>1, <1>2, RuleIs, NoMarks DEF Takes

LEMMA TakesAttr ==
  ASSUME NEW c
  PROVE  /\ c \in White => Takes(4, c, 5, "nothing") /\ Takes(5, c, 5, "nothing")
         /\ c = "=" => Takes(4, c, 6, "char") /\ Takes(5, c, 6, "char")
         /\ c \in NameChars => Takes(4, c, 4, "char")
<1>1. \A d \in White : d # "="
  BY DEF White, Space, Quote, Apostrophe
<1>2. Rules(4) = {R(White, 5, "nothing"), R({"="}, 6, "char"), R(NameChars, 4, "char")}
  BY DEF Rules
<1>3. Rules(5) = {R(White, 5, "nothing"), R({"="}, 6, "char")}
  BY DEF Rules
<1> QED
  BY <1>1, <1>2, <1>3, RuleIs, NoMarks DEF Takes

LEMMA TakesEquals ==
  ASSUME NEW c
  PROVE  /\ c \in White => Takes(6, c, 6, "nothing")
         /\ c = Quote => Takes(6, c, 7, "char")
         /\ c = Apostrophe => Takes(6, c, 8, "char")
<1>1. Quote # Apostrophe /\ \A d \in White : d # Quote /\ d # Apostrophe
  BY DEF White, Space, Quote, Apostrophe
<1>2. Rules(6) = {R(White, 6, "nothing"), R({Quote}, 7, "char"),
                  R({Apostrophe}, 8, "char")}
  BY DEF Rules
<1> QED
  BY <1>1, <1>2, RuleIs DEF Takes

LEMMA TakesValue ==
  ASSUME NEW c \in Chars
  PROVE  /\ c \in White => Takes(7, c, 7, "space") /\ Takes(8, c, 8, "space")
         /\ c = Quote => Takes(7, c, 9, "char")
         /\ c = Apostrophe => Takes(8, c, 9, "char")
         /\ c \notin White \union {"<", Quote} => Takes(7, c, 7, "char")
         /\ c \notin White \union {"<", Apostrophe} => Takes(8, c, 8, "char")
<1>1. \A d \in White : d # Quote /\ d # Apostrophe
  BY DEF White, Space, Quote, Apostrophe
<1> DEFINE Rest(q) == Other(White \union {"<", q})
<1>2. \A q : c \in Rest(q) <=> c \notin White \union {"<", q}
  BY DEF Other
<1> HIDE DEF Rest
<1>3. /\ c \in White => Takes(7, c, 7, "space")
      /\ c = Quote => Takes(7, c, 9, "char")
      /\ c \notin White \union {"<", Quote} => Takes(7, c, 7, "char")
  <2>1. Rules(7) = {R(White, 7, "space"), R({Quote}, 9, "char"), R(Rest(Quote), 7, "char")}
    BY DEF Rules, Rest
  <2> QED
    BY <1>1, <1>2, <2>1, RuleIs DEF Takes
<1>4. /\ c \in White => Takes(8, c, 8, "space")
      /\ c = Apostrophe => Takes(8, c, 9, "char")
      /\ c \notin White \union {"<", Apostrophe} => Takes(8, c, 8, "char")
  <2>1. Rules(8) = {R(White, 8, "space"), R({Apostrophe}, 9, "char"),
                    R(Rest(Apostrophe), 8, "char")}
    BY DEF Rules, Rest
  <2> QED
    BY <1>1, <1>2, <2>1, RuleIs DEF Takes
<1> QED
  BY <1>3, <1>4

LEMMA TakesValued ==
  ASSUME NEW c
  PROVE  /\ c \in White => Takes(9, c, 3, "space")
         /\ c = "/" => Takes(9, c, 13, "spaced")
         /\ c = ">" => Takes(9, c, 100, "spaced")
         /\ c = ">" => Takes(13, c, 100, "char")
<1>1. \A d \in White : d # "/" /\ d # ">"
  BY DEF White, Space, Quote, Apostrophe
<1>2. Rules(9) = {R(White, 3, "space"), R({"/"}, 13, "spaced"),
                  R({">"}, 100, "spaced")}
  BY DEF Rules
<1>3. Rules(13) = {R({">"}, 100, "char")}
  BY DEF Rules
<1> QED
  BY <1>1, <1>2, <1>3, RuleIs DEF Takes

LEMMA TakesEnd ==
  ASSUME NEW c
  PROVE  /\ c \in NameStart => Takes(10, c, 11, "char")
         /\ c \in White => Takes(11, c, 12, "space") /\ Takes(12, c, 12, "nothing")
         /\ c = ">" => Takes(11, c, 100, "spaced") /\ Takes(12, c, 100, "char")
         /\ c \in NameChars => Takes(11, c, 11, "char")
<1>1. \A d \in White : d # ">"
  BY DEF White, Space, Quote, Apostrophe
<1>2. Rules(10) = {R(NameStart, 11, "char")}
  BY DEF Rules
<1>3. Rules(11) = {R(White, 12, "space"), R({">"}, 100, "spaced"),
                  R(NameChars, 11, "char")}
  BY DEF Rules
<1>4. Rules(12) = {R(White, 12, "nothing"), R({">"}, 100, "char")}
  BY DEF Rules
<1> QED
  BY <1>1, <1>2, <1>3, <1>4, RuleIs, NoMarks DEF Takes

LEMMA TakesInstruction ==
  ASSUME NEW c \in Chars
  PROVE  /\ c = ">" => Takes(14, c, 0, "nothing") /\ Takes(21, c, 0, "nothing")
         /\ c # ">" => Takes(14, c, 14, "nothing") /\ Takes(21, c, 21, "nothing")
<1>1. Rules(14) = {R({">"}, 0, "nothing"), R(Other({">"}), 14, "nothing")}
  BY DEF Rules
<1>2. Rules(21) = {R({">"}, 0, "nothing"), R(Other({">"}), 21, "nothing")}
  BY DEF Rules
<1> QED
  BY <1>1, <1>2, RuleIs DEF Takes, Other

LEMMA TakesDeclaration ==
  ASSUME NEW c \in Chars
  PROVE  /\ c = ">" => Takes(15, c, 0, "nothing") /\ Takes(16, c, 0, "nothing")
         /\ c = "-" => Takes(15, c, 16, "nothing") /\ Takes(16, c, 17, "nothing")
         /\ c = "[" => Takes(15, c, 20, "nothing")
         /\ c \notin {">", "-", "["} => Takes(15, c, 14, "nothing")
         /\ c \notin {">", "-"} => Takes(16, c, 14, "nothing")
<1>1. Rules(15) = {R({">"}, 0, "nothing"), R({"-"}, 16, "nothing"),
                  R({"["}, 20, "nothing"), R(Other({">", "-", "["}), 14, "nothing")}
  BY DEF Rules
<1>2. Rules(16) = {R({">"}, 0, "nothing"), R({"-"}, 17, "nothing"),
                  R(Other({">", "-"}), 14, "nothing")}
  BY DEF Rules
<1> QED
  BY <1>1, <1>2, RuleIs DEF Takes, Other

LEMMA TakesComment ==
  ASSUME NEW c \in Chars
  PROVE  /\ c = "-" => Takes(17, c, 18, "nothing") /\ Takes(18, c, 19, "nothing")
         /\ c # "-" => Takes(17, c, 17, "nothing") /\ Takes(18, c, 17, "nothing")
         /\ c = ">" => Takes(19, c, 0, "nothing")
<1>1. Rules(17) = {R({"-"}, 18, "nothing"), R(Other({"-"}), 17, "nothing")}
  BY DEF Rules
<1>2. Rules(18) = {R({"-"}, 19, "nothing"), R(Other({"-"}), 17, "nothing")}
  BY DEF Rules
<1>3. Rules(19) = {R({">"}, 0, "nothing")}
  BY DEF Rules
<1> QED
  BY <1>1, <1>2, <1>3, RuleIs DEF Takes, Other

LEMMA TakesBracket ==
  ASSUME NEW c \in Chars
  PROVE  /\ c = "[" => Takes(20, c, 20, "nothing")
         /\ c = "]" /\ square = 1 => Takes(20, c, 21, "nothing")
         /\ c = "]" /\ square # 1 => Takes(20, c, 20, "nothing")
         /\ c \notin {"[", "]"} => Takes(20, c, 20, "nothing")
<1>1. Rules(20) = {R({"["}, 20, "nothing"), R({"]"}, IF square = 1 THEN 21 ELSE 20, "nothing"),
                  R(Other({"[", "]"}), 20, "nothing")}
  BY DEF Rules
<1> QED
  BY <1>1, RuleIs DEF Takes, Other

--------------------------------------------------------------------------------
(* What stands in the tag.                                                   *)
LEMMA SpellsKept ==
  ASSUME NEW b, NEW b2, Grows(b, b2), NEW o \in Nat, NEW s, NEW n \in Nat, Spells(b, o, s, n)
  PROVE  Spells(b2, o, s, n)
<1>1. \A i \in 1..n : o + i \in 1..Len(b)
  BY DEF Grows, Spells
<1> QED
  BY <1>1 DEF Grows, Spells

LEMMA SpellsOn ==
  ASSUME NEW b, NEW b2, OneMore(b, b2), NEW o \in Nat, NEW s, NEW n \in Nat,
         o + n = Len(b), Spells(b, o, s, n), b2[Len(b2)] = s[n + 1]
  PROVE  Spells(b2, o, s, n + 1)
<1>1. Grows(b, b2) /\ Len(b2) = Len(b) + 1 /\ Len(b) \in Nat
  BY DEF OneMore, Grows
<1>2. Spells(b2, o, s, n)
  BY <1>1, SpellsKept
<1>3. o + (n + 1) = Len(b2)
  BY <1>1
<1>4. \A i \in 1..(n + 1) : i \in 1..n \/ i = n + 1
  OBVIOUS
<1> QED
  BY <1>2, <1>3, <1>4 DEF Spells

LEMMA SpellsAllKept ==
  ASSUME NEW b, NEW b2, Grows(b, b2), Spaced(b), NEW o \in Nat, NEW s, Len(s) \in Nat,
         SpellsAll(b, o, s)
  PROVE  SpellsAll(b2, o, s)
<1>1. Spells(b2, o, s, Len(s))
  BY SpellsKept DEF SpellsAll
<1>2. FindSpace(b2) = FindSpace(b)
  BY SpaceKept
<1> QED
  BY <1>1, <1>2 DEF SpellsAll

(* The name is whole, and its space follows. *)
LEMMA SpellsAllNow ==
  ASSUME NEW b, NEW b2, Grows(b, b2), Len(b) < Len(b2), b2[Len(b) + 1] = Space,
         No(b, Space, 1, Len(b)), NEW o \in Nat, NEW s, Len(s) \in Nat,
         o + Len(s) = Len(b), Spells(b, o, s, Len(s))
  PROVE  SpellsAll(b2, o, s)
<1>1. Len(b) \in Nat /\ Len(b2) \in Nat /\ Len(b) + 1 \in 1..Len(b2) /\ Len(b) + 1 - 1 = Len(b)
  BY DEF Grows
<1>2. No(b2, Space, 1, Len(b))
  BY <1>1, NoKept
<1>3. FindSpace(b2) = Len(b) + 1
  BY <1>1, <1>2, SpaceIs DEF Grows
<1>4. Spells(b2, o, s, Len(s))
  BY SpellsKept
<1> QED
  BY <1>3, <1>4 DEF SpellsAll

LEMMA NameStandsKept ==
  ASSUME NEW b, NEW b2, Grows(b, b2), NEW x \in Span, NEW a \in Attr, NameStands(b, x, a)
  PROVE  NameStands(b2, x, a)
<1>1. x.start - 1 \in Nat /\ Len(a.name) \in Nat
  BY DEF NameStands, Span, Attr, Strings
<1> QED
  BY <1>1, SpellsKept DEF NameStands

LEMMA AttrStandsKept ==
  ASSUME NEW b, NEW b2, Grows(b, b2), NEW x \in Span, NEW a \in Attr, AttrStands(b, x, a)
  PROVE  AttrStands(b2, x, a)
<1>1. x.equals + 1 \in Nat /\ Len(a.value) \in Nat
  BY DEF Span, Attr, Strings
<1>2. NameStands(b2, x, a)
  BY NameStandsKept DEF AttrStands
<1> QED
  BY <1>1, <1>2, SpellsKept DEF AttrStands

(* The attributes that stand stay, in a longer tag and a longer history. *)
LEMMA AttrsStandKept ==
  ASSUME NEW b, NEW b2, Grows(b, b2), NEW s \in Seq(Span), NEW s2, NEW al \in Seq(Attr),
         NEW n \in Nat, AttrsStand(b, s, al, n), n <= Len(s2),
         \A i \in 1..n : s2[i] = s[i]
  PROVE  AttrsStand(b2, s2, al, n)
<1>1. ASSUME NEW i \in 1..n PROVE AttrStands(b2, s2[i], al[i])
  <2>1. /\ n <= Len(s) /\ n <= Len(al) /\ Len(s) \in Nat /\ Len(al) \in Nat
        /\ AttrStands(b, s[i], al[i])
    BY DEF AttrsStand
  <2>2. i \in 1..Len(s) /\ i \in 1..Len(al)
    BY <2>1
  <2>3. s[i] \in Span /\ al[i] \in Attr
    BY <2>2
  <2>4. AttrStands(b2, s[i], al[i])
    BY <2>1, <2>3, AttrStandsKept
  <2> QED
    BY <2>4
<1> QED
  BY <1>1 DEF AttrsStand

LEMMA AttrsStandSame ==
  ASSUME NEW b, NEW b2, Grows(b, b2), NEW s \in Seq(Span), NEW al \in Seq(Attr),
         NEW n \in Nat, AttrsStand(b, s, al, n)
  PROVE  AttrsStand(b2, s, al, n)
<1>1. n <= Len(s)
  BY DEF AttrsStand
<1> QED
  BY <1>1, AttrsStandKept

LEMMA AttrsStandMore ==
  ASSUME NEW b, NEW s \in Seq(Span), NEW al \in Seq(Attr), NEW n \in Nat,
         AttrsStand(b, s, al, n), n < Len(s), n < Len(al),
         AttrStands(b, s[n + 1], al[n + 1])
  PROVE  AttrsStand(b, s, al, n + 1)
<1>1. \A i \in 1..(n + 1) : i \in 1..n \/ i = n + 1
  OBVIOUS
<1>2. n + 1 <= Len(s) /\ n + 1 <= Len(al)
  OBVIOUS
<1> QED
  BY <1>1, <1>2 DEF AttrsStand

(* What each phase asks of the tag and the writer. *)
LEMMA TagAsks ==
  ASSUME NEW b, NEW s, NEW e, NEW w, w.at = "tag", w.n \in 1..Len(e.tag), w.attrs = 0,
         Len(b) = w.n + 1, Spells(b, 1, e.tag, w.n)
  PROVE  StartRead(2, b, s, e, w)
  BY DEF StartRead

LEMMA StandAsks ==
  ASSUME NEW b, NEW s, NEW e, NEW w, SpellsAll(b, 1, e.tag),
         AttrsStand(b, s, e.attrs, w.attrs), Len(s) = w.attrs
  PROVE  /\ w.at = "gap" => StartRead(3, b, s, e, w)
         /\ w.at = "valued" => StartRead(9, b, s, e, w)
         /\ w.at = "/" /\ w.attrs = Len(e.attrs) => StartRead(13, b, s, e, w)
<1>1. w.at = "gap" => StartRead(3, b, s, e, w)
  BY DEF StartRead
<1>2. w.at = "valued" => StartRead(9, b, s, e, w)
  BY DEF StartRead
<1>3. w.at = "/" /\ w.attrs = Len(e.attrs) => StartRead(13, b, s, e, w)
  BY DEF StartRead
<1> QED
  BY <1>1, <1>2, <1>3

LEMMA AttrAsks ==
  ASSUME NEW b, NEW s, NEW e, NEW w, SpellsAll(b, 1, e.tag),
         AttrsStand(b, s, e.attrs, w.attrs), Len(s) = w.attrs + 1, w.attrs < Len(e.attrs),
         NEW x, x = s[Len(s)], NEW a, a = e.attrs[w.attrs + 1],
         w.at = "attr", w.n \in 1..Len(a.name), x.start > 0, x.start + w.n = Len(b) + 1,
         Spells(b, x.start - 1, a.name, w.n)
  PROVE  /\ StartRead(4, b, s, e, w)
         /\ w.n = Len(a.name) => StartRead(5, b, s, e, w)
<1>1. StartRead(4, b, s, e, w)
  BY DEF StartRead
<1>2. w.n = Len(a.name) => StartRead(5, b, s, e, w)
  BY DEF StartRead
<1> QED
  BY <1>1, <1>2

LEMMA ValueAsks ==
  ASSUME NEW b, NEW s, NEW e, NEW w, SpellsAll(b, 1, e.tag),
         AttrsStand(b, s, e.attrs, w.attrs), Len(s) = w.attrs + 1, w.attrs < Len(e.attrs),
         NEW x, x = s[Len(s)], NEW a, a = e.attrs[w.attrs + 1], NameStands(b, x, a)
  PROVE  /\ w.at = "equals" /\ x.equals = Len(b) => StartRead(6, b, s, e, w)
         /\ /\ w.at = "value" /\ w.n \in 0..Len(a.value) /\ x.equals + 1 + w.n = Len(b)
            /\ Spells(b, x.equals + 1, a.value, w.n)
            => /\ w.quote = Quote => StartRead(7, b, s, e, w)
               /\ w.quote = Apostrophe => StartRead(8, b, s, e, w)
<1>1. w.at = "equals" /\ x.equals = Len(b) => StartRead(6, b, s, e, w)
  BY DEF StartRead
<1> SUFFICES ASSUME w.at = "value", w.n \in 0..Len(a.value), x.equals + 1 + w.n = Len(b),
                    Spells(b, x.equals + 1, a.value, w.n)
             PROVE  /\ w.quote = Quote => StartRead(7, b, s, e, w)
                    /\ w.quote = Apostrophe => StartRead(8, b, s, e, w)
  BY <1>1
<1>2. w.quote = Quote => StartRead(7, b, s, e, w)
  BY DEF StartRead
<1>3. w.quote = Apostrophe => StartRead(8, b, s, e, w)
  BY DEF StartRead
<1> QED
  BY <1>2, <1>3

--------------------------------------------------------------------------------
(* The reader and the writer, before the same character of a tag.            *)
Tracks(t, w, w2) ==
  /\ IInv /\ InTag /\ More /\ Tree(t) /\ Follows(t, w)
  /\ w \in Writer /\ w2 \in Writer /\ w2 \in After(t, w, ch)

LEMMA Tracked ==
  ASSUME NEW t, NEW w, NEW w2, Tracks(t, w, w2)
  PROVE  /\ phase \in 0..21 /\ result = "reading" /\ ch \in Chars
         /\ ShapeOK /\ ShapeInv /\ SpansInv /\ buf \in Strings /\ spans \in Seq(Span)
         /\ Len(buf) \in Nat
         /\ open \in Nat /\ open <= Len(nodes) /\ Len(nodes) \in Nat /\ Len(t) \in Nat
         /\ Len(nodes) <= Len(t)
         /\ w \in Writer /\ w2 \in Writer /\ w2 \in After(t, w, ch)
         /\ w.open = open /\ Len(w.said) = Len(nodes) /\ PhaseRead(t, w) /\ TreeRead(t, w)
<1>1. phase \in 0..21 /\ result = "reading"
  BY DEF Tracks, InTag, Reading
<1>2. ch \in Chars
  BY DEF Tracks, IInv, ShapeInv, ShapeOK, Doc, Strings, More, ch
<1>3. /\ ShapeOK /\ ShapeInv /\ SpansInv /\ buf \in Strings /\ spans \in Seq(Span)
      /\ Len(nodes) \in Nat /\ open \in 0..Len(nodes)
  BY DEF Tracks, IInv, ShapeInv, ShapeOK, RestOK
<1>4. Len(buf) \in Nat
  BY <1>3 DEF Strings
<1>5. Len(t) \in Nat
  BY DEF Tracks, Tree
<1>6. TreeRead(t, w) /\ Scans(t, w)
  BY <1>1 DEF Tracks, Follows, Reading
<1> QED
  BY <1>1, <1>2, <1>3, <1>4, <1>5, <1>6 DEF Tracks, TreeRead, Scans

(* A node of the tree. *)
LEMMA NodeOf ==
  ASSUME NEW t, Tree(t), NEW k \in 1..Len(t)
  PROVE  /\ t[k] \in Node /\ t[k].tag \in Names /\ t[k].attrs \in Seq(Attr)
         /\ Len(t[k].attrs) \in Nat
         /\ \A i \in 1..Len(t[k].attrs) :
              t[k].attrs[i].name \in Names /\ t[k].attrs[i].value \in Values
<1>1. t[k] \in Node
  BY DEF Tree
<1>2. t[k].attrs \in Seq(Attr)
  BY <1>1 DEF Node
<1> QED
  BY <1>1, <1>2 DEF Tree

LEMMA NameHas ==
  ASSUME NEW s \in Names
  PROVE  /\ Len(s) \in Nat \ {0} /\ s[1] \in NameStart
         /\ \A i \in 1..Len(s) : s[i] \in NameChars
<1>1. s \in Seq(NameChars) /\ s # <<>> /\ s[1] \in NameStart
  BY DEF Names
<1> QED
  BY <1>1

LEMMA ValueHas ==
  ASSUME NEW s \in Values
  PROVE  Len(s) \in Nat /\ \A i \in 1..Len(s) : s[i] \in Chars /\ s[i] \notin {"<", "tab"}
<1>1. s \in Seq(Chars \ {"<", "tab"})
  BY DEF Values
<1> QED
  BY <1>1

(* What a letter of a name is. *)
LEMMA LetterIs ==
  ASSUME NEW w, w.n \in Nat, NEW s \in Names, NEW c, Letter(w, s, c)
  PROVE  /\ c \in NameChars /\ w.n + 1 \in 1..Len(s) /\ c = s[w.n + 1]
         /\ w.n = 0 => c \in NameStart
<1>1. /\ Len(s) \in Nat \ {0} /\ s[1] \in NameStart
      /\ \A i \in 1..Len(s) : s[i] \in NameChars
  BY NameHas
<1>2. w.n < Len(s) /\ c = s[w.n + 1]
  BY DEF Letter
<1>3. w.n + 1 \in 1..Len(s)
  BY <1>1, <1>2
<1> QED
  BY <1>1, <1>2, <1>3

(* The character is stored as the only rule for it says. *)
LEMMA CharStored ==
  ASSUME NEW t, NEW w, NEW w2, Tracks(t, w, w2), ReadChar, NEW go, NEW put,
         Takes(phase, ch, go, put)
  PROVE  /\ phase' = go /\ spans' = Seen(phase, go) /\ square' = Brackets(phase, ch)
         /\ put = "char" => OneMore(buf, buf') /\ Grows(buf, buf') /\ buf'[Len(buf')] = ch
         /\ put = "space" => OneMore(buf, buf') /\ Grows(buf, buf') /\ buf'[Len(buf')] = Space
         /\ put = "spaced" => /\ Grows(buf, buf') /\ Len(buf') = Len(buf) + 2
                              /\ buf'[Len(buf) + 1] = Space /\ buf'[Len(buf')] = ch
         /\ put = "nothing" => buf' = buf
         /\ UNCHANGED <<nodes, open, result>>
<1>1. ShapeOK
  BY Tracked
<1>2. PICK r \in Rules(phase) : /\ ch \in r.on /\ phase' = r.go
                               /\ spans' = Seen(phase, r.go) /\ Grown(r)
  BY <1>1, OneChar
<1>3. r.go = go /\ r.put = put
  BY <1>2 DEF Takes
<1>4. /\ r.put = "char" => OneMore(buf, buf') /\ buf'[Len(buf')] = ch
      /\ r.put = "space" => OneMore(buf, buf') /\ buf'[Len(buf')] = Space
      /\ r.put = "spaced" => /\ Grows(buf, buf') /\ Len(buf') = Len(buf) + 2
                             /\ buf'[Len(buf) + 1] = Space /\ buf'[Len(buf')] = ch
      /\ r.put = "nothing" => buf' = buf
  BY <1>1, <1>2, GrownTag
<1>5. OneMore(buf, buf') => Grows(buf, buf')
  BY DEF OneMore
<1>6. UNCHANGED <<nodes, open, result>> /\ square' = Brackets(phase, ch)
  BY DEF ReadChar
<1> QED
  BY <1>2, <1>3, <1>4, <1>5, <1>6

(* Texts stay, and one more node may have been begun. *)
LEMMA SameTree ==
  ASSUME NEW t, NEW w \in Writer, NEW w2, TreeRead(t, w), UNCHANGED nodes,
         Len(nodes) \in Nat, w2.said = w.said \/ w2.said = Append(w.said, 0)
  PROVE  TreeRead(t, w2)'
<1>1. w.said \in Seq(Nat) /\ Len(w.said) \in Nat /\ Len(nodes) <= Len(w.said)
  BY Fields DEF TreeRead
<1>2. /\ Len(w2.said) >= Len(w.said)
      /\ \A k \in 1..Len(w.said) : w2.said[k] = w.said[k]
  <2> DEFINE s == w.said
  <2>1. s \in Seq(Nat) /\ (w2.said = s \/ w2.said = Append(s, 0))
    BY <1>1
  <2> HIDE DEF s
  <2>2. /\ Len(Append(s, 0)) >= Len(s) /\ Len(s) >= Len(s)
        /\ \A k \in 1..Len(s) : Append(s, 0)[k] = s[k]
    BY <2>1
  <2>3. Len(w2.said) >= Len(s) /\ \A k \in 1..Len(s) : w2.said[k] = s[k]
    BY <2>1, <2>2
  <2> QED
    BY <2>3 DEF s
<1>3. \A k \in 1..Len(nodes) : w2.said[k] = w.said[k]
  BY <1>1, <1>2
<1>4. Len(nodes) <= Len(w2.said)
  BY <1>1, <1>2, w2.said = w.said \/ w2.said = Append(w.said, 0)
<1>5. Len(nodes) <= Len(t) /\ \A k \in 1..Len(nodes) : NodeRead(nodes[k], t[k], w.said[k])
  BY DEF TreeRead
<1>6. \A k \in 1..Len(nodes) : NodeRead(nodes[k], t[k], w2.said[k])
  BY <1>3, <1>5
<1> QED
  BY <1>4, <1>5, <1>6, nodes' = nodes DEF TreeRead

(* In the tag, or before one. *)
LEMMA KeepsUp ==
  ASSUME NEW t, NEW w, NEW w2, Tracks(t, w, w2), UNCHANGED <<nodes, open, result>>,
         phase' \in 0..21, w2.said = w.said, w2.open = w.open, PhaseRead(t, w2)'
  PROVE  Follows(t, w2)'
<1>1. /\ result = "reading" /\ w.open = open /\ Len(w.said) = Len(nodes)
      /\ TreeRead(t, w) /\ w \in Writer /\ Len(nodes) \in Nat
  BY Tracked
<1>2. TreeRead(t, w2)'
  BY <1>1, SameTree
<1>3. Scans(t, w2)'
  BY <1>1 DEF Scans
<1>4. phase' \notin {100, Taking, Text}
  BY DEF Taking, Text
<1> QED
  BY <1>1, <1>2, <1>3, <1>4 DEF Follows, Reading

(* The tag is whole. *)
LEMMA IsWhole ==
  ASSUME NEW t, NEW w, NEW w2, Tracks(t, w, w2), UNCHANGED <<nodes, open, result>>,
         phase' = 100, w2.said = w.said \/ w2.said = Append(w.said, 0), Pends(t, w2)'
  PROVE  Follows(t, w2)'
<1>1. result = "reading" /\ TreeRead(t, w) /\ w \in Writer /\ Len(nodes) \in Nat
  BY Tracked
<1>2. TreeRead(t, w2)'
  BY <1>1, SameTree
<1> QED
  BY <1>1, <1>2 DEF Follows, Reading, Taking, Text

LEMMA PhaseIs ==
  ASSUME NEW t, NEW w
  PROVE  /\ phase' = 0 /\ w.at = "before" => PhaseRead(t, w)'
         /\ phase' = 1 /\ w.at = "<" => PhaseRead(t, w)'
         /\ /\ phase' \in 10..12 /\ open' # 0
            /\ EndRead(phase, buf, t[open], w)'
            => PhaseRead(t, w)'
         /\ phase' \in 14..21 /\ SkipRead(phase, w)' => PhaseRead(t, w)'
         /\ /\ phase' \in (2..9) \union {13} /\ Len(nodes') < Len(t)
            /\ This(t, w).parent = open'
            /\ StartRead(phase', buf', spans', This(t, w), w)
            => PhaseRead(t, w)'
<1>1. /\ phase' = 0 /\ w.at = "before" => PhaseRead(t, w)'
      /\ phase' = 1 /\ w.at = "<" => PhaseRead(t, w)'
  BY DEF PhaseRead, BeforeTag
<1>2. /\ phase' \in 10..12 /\ open' # 0
      /\ EndRead(phase, buf, t[open], w)'
      => PhaseRead(t, w)'
  BY DEF PhaseRead
<1>3. phase' \in 14..21 /\ SkipRead(phase, w)' => PhaseRead(t, w)'
  BY DEF PhaseRead
<1>4. /\ phase' \in (2..9) \union {13} /\ Len(nodes') < Len(t)
      /\ This(t, w).parent = open'
      /\ StartRead(phase', buf', spans', This(t, w), w)
      => PhaseRead(t, w)'
  BY DEF PhaseRead
<1> QED
  BY <1>1, <1>2, <1>3, <1>4

--------------------------------------------------------------------------------
(* Before a tag.                                                             *)
LEMMA ChoiceBefore ==
  ASSUME NEW t, NEW w, NEW w2, Tracks(t, w, w2), phase = 0
  PROVE  \/ Takes(phase, ch, 0, "nothing") /\ Becomes(w, w2, "before", w.n, w.attrs)
         \/ Takes(phase, ch, 1, "char") /\ Becomes(w, w2, "<", w.n, w.attrs)
<1>1. BeforeTag(w) /\ w \in Writer /\ w2 \in After(t, w, ch)
  BY Tracked DEF PhaseRead
<1>2. CASE w.at = "before"
  <2>1. \/ ch \in White /\ Becomes(w, w2, "before", w.n, w.attrs)
        \/ ch = "<" /\ Becomes(w, w2, "<", w.n, w.attrs)
    BY <1>1, <1>2, FromBefore
  <2> QED
    BY <2>1, TakesBefore
<1>3. CASE w.at = "body" /\ w.open # 0 /\ ch = "<"
  <2>1. Becomes(w, w2, "<", w.n, w.attrs)
    BY <1>1, <1>3, FromBody
  <2> QED
    BY <1>3, <2>1, TakesBefore
<1> QED
  BY <1>1, <1>2, <1>3 DEF BeforeTag

LEMMA ReadBefore ==
  ASSUME NEW t, NEW w, NEW w2, Tracks(t, w, w2), ReadChar, phase = 0
  PROVE  Follows(t, w2)'
<1>1. CASE Takes(phase, ch, 0, "nothing") /\ Becomes(w, w2, "before", w.n, w.attrs)
  <2>1. phase' = 0 /\ UNCHANGED <<nodes, open, result>>
    BY <1>1, CharStored
  <2> QED
    BY <1>1, <2>1, PhaseIs, KeepsUp DEF Becomes
<1>2. CASE Takes(phase, ch, 1, "char") /\ Becomes(w, w2, "<", w.n, w.attrs)
  <2>1. phase' = 1 /\ UNCHANGED <<nodes, open, result>>
    BY <1>2, CharStored
  <2> QED
    BY <1>2, <2>1, PhaseIs, KeepsUp DEF Becomes
<1> QED
  BY <1>1, <1>2, ChoiceBefore

LEMMA ChoiceLess ==
  ASSUME NEW t, NEW w, NEW w2, Tracks(t, w, w2), phase = 1
  PROVE  \/ Takes(phase, ch, 14, "back") /\ Becomes(w, w2, "instruction", w.n, w.attrs)
         \/ Takes(phase, ch, 15, "back") /\ Becomes(w, w2, "declaration", w.n, w.attrs)
         \/ Takes(phase, ch, 10, "char") /\ open # 0 /\ Becomes(w, w2, "end", 0, w.attrs)
         \/ /\ Takes(phase, ch, 2, "char")
            /\ Len(nodes) < Len(t) /\ This(t, w).parent = open /\ ch = This(t, w).tag[1]
            /\ Becomes(w, w2, "tag", 1, 0)
<1>1. /\ w.at = "<" /\ w \in Writer /\ w2 \in After(t, w, ch)
      /\ w.open = open /\ Len(w.said) = Len(nodes) /\ Len(nodes) \in Nat /\ Len(t) \in Nat
  BY Tracked DEF PhaseRead
<1>2. \/ ch = "?" /\ Becomes(w, w2, "instruction", w.n, w.attrs)
      \/ ch = "!" /\ Becomes(w, w2, "declaration", w.n, w.attrs)
      \/ ch = "/" /\ w.open # 0 /\ Becomes(w, w2, "end", 0, w.attrs)
      \/ /\ Len(w.said) < Len(t) /\ This(t, w).parent = w.open /\ ch = This(t, w).tag[1]
         /\ Becomes(w, w2, "tag", 1, 0)
  BY <1>1, FromLess
<1>3. CASE \/ ch = "?" /\ Becomes(w, w2, "instruction", w.n, w.attrs)
           \/ ch = "!" /\ Becomes(w, w2, "declaration", w.n, w.attrs)
           \/ ch = "/" /\ w.open # 0 /\ Becomes(w, w2, "end", 0, w.attrs)
  BY <1>1, <1>3, TakesLess
<1>4. CASE /\ Len(w.said) < Len(t) /\ This(t, w).parent = w.open /\ ch = This(t, w).tag[1]
           /\ Becomes(w, w2, "tag", 1, 0)
  <2>1. Len(nodes) + 1 \in 1..Len(t) /\ This(t, w) = t[Len(nodes) + 1]
    BY <1>1, <1>4 DEF This
  <2>2. This(t, w).tag \in Names
    BY <2>1, NodeOf DEF Tracks
  <2>3. ch \in NameStart
    BY <1>4, <2>2, NameHas
  <2> QED
    BY <1>1, <1>4, <2>3, TakesLess
<1> QED
  BY <1>2, <1>3, <1>4

LEMMA ReadLess ==
  ASSUME NEW t, NEW w, NEW w2, Tracks(t, w, w2), ReadChar, phase = 1
  PROVE  Follows(t, w2)'
<1>0. /\ Len(buf) = 1 /\ Len(nodes) \in Nat /\ Len(w.said) = Len(nodes) /\ Len(t) \in Nat
      /\ w \in Writer
  <2>1. SpansAt(1, buf, spans)
    BY Tracked DEF SpansInv
  <2> QED
    BY <2>1, Tracked DEF SpansAt
<1>1. CASE Takes(phase, ch, 14, "back") /\ Becomes(w, w2, "instruction", w.n, w.attrs)
  <2>1. phase' = 14 /\ UNCHANGED <<nodes, open, result>>
    BY <1>1, CharStored
  <2>2. SkipRead(phase, w2)'
    BY <1>1, <2>1 DEF SkipRead, Becomes
  <2> QED
    BY <1>1, <2>1, <2>2, PhaseIs, KeepsUp DEF Becomes
<1>2. CASE Takes(phase, ch, 15, "back") /\ Becomes(w, w2, "declaration", w.n, w.attrs)
  <2>1. phase' = 15 /\ UNCHANGED <<nodes, open, result>>
    BY <1>2, CharStored
  <2>2. SkipRead(phase, w2)'
    BY <1>2, <2>1 DEF SkipRead, Becomes
  <2> QED
    BY <1>2, <2>1, <2>2, PhaseIs, KeepsUp DEF Becomes
<1>3. CASE Takes(phase, ch, 10, "char") /\ open # 0 /\ Becomes(w, w2, "end", 0, w.attrs)
  <2>1. phase' = 10 /\ UNCHANGED <<nodes, open, result>> /\ OneMore(buf, buf')
    BY <1>3, CharStored
  <2>2. Len(buf') = 2
    BY <1>0, <2>1 DEF OneMore
  <2>3. EndRead(phase, buf, t[open], w2)'
    BY <1>3, <2>1, <2>2 DEF EndRead, Becomes
  <2> QED
    BY <1>3, <2>1, <2>3, PhaseIs, KeepsUp DEF Becomes
<1>4. CASE /\ Takes(phase, ch, 2, "char")
           /\ Len(nodes) < Len(t) /\ This(t, w).parent = open /\ ch = This(t, w).tag[1]
           /\ Becomes(w, w2, "tag", 1, 0)
  <2> DEFINE e == This(t, w)
  <2>1. /\ phase' = 2 /\ UNCHANGED <<nodes, open, result>> /\ OneMore(buf, buf')
        /\ buf'[Len(buf')] = ch
    BY <1>4, CharStored
  <2>2. Len(buf') = 2 /\ buf'[2] = ch
    BY <1>0, <2>1 DEF OneMore
  <2>3. This(t, w2) = e /\ w2.at = "tag" /\ w2.n = 1 /\ w2.attrs = 0
    BY <1>4 DEF Becomes, This
  <2>4. e.tag \in Names /\ e.parent = open /\ ch = e.tag[1]
    <3>1. Len(nodes) + 1 \in 1..Len(t) /\ e = t[Len(nodes) + 1]
      BY <1>0, <1>4 DEF This
    <3> QED
      BY <1>4, <3>1, NodeOf DEF Tracks
  <2> HIDE DEF e
  <2>5. Len(e.tag) \in Nat \ {0}
    BY <2>4, NameHas
  <2>6. Spells(buf', 1, e.tag, 1)
    BY <2>2, <2>4 DEF Spells
  <2>7. w2.n \in 1..Len(e.tag) /\ Len(buf') = w2.n + 1 /\ Spells(buf', 1, e.tag, w2.n)
    BY <2>2, <2>3, <2>5, <2>6
  <2>8. StartRead(2, buf', spans', e, w2)
    BY <2>3, <2>7, TagAsks
  <2>9. PhaseRead(t, w2)'
    BY <1>4, <2>1, <2>3, <2>4, <2>8, PhaseIs
  <2> QED
    BY <1>4, <2>1, <2>9, KeepsUp DEF Becomes
<1> QED
  BY <1>1, <1>2, <1>3, <1>4, ChoiceLess

--------------------------------------------------------------------------------
(* In a start tag.                                                           *)
StartPhases == (2..9) \union {13}

LEMMA InStart ==
  ASSUME NEW t, NEW w, NEW w2, Tracks(t, w, w2), phase \in StartPhases,
         NEW e, e = This(t, w)
  PROVE  /\ Len(nodes) < Len(t) /\ e = t[Len(nodes) + 1]
         /\ e \in Node /\ e.tag \in Names /\ e.parent = open
         /\ e.attrs \in Seq(Attr) /\ Len(e.attrs) \in Nat
         /\ Len(e.tag) \in Nat \ {0} /\ StartRead(phase, buf, spans, e, w)
         /\ w \in Writer /\ w.n \in Nat /\ w.attrs \in Nat
         /\ \A i \in 1..Len(e.attrs) :
              e.attrs[i].name \in Names /\ e.attrs[i].value \in Values
<1>1. /\ PhaseRead(t, w) /\ Len(w.said) = Len(nodes) /\ Len(nodes) \in Nat /\ Len(t) \in Nat
      /\ w \in Writer
  BY Tracked
<1>2. Len(nodes) < Len(t) /\ e.parent = open /\ StartRead(phase, buf, spans, e, w)
  BY <1>1 DEF PhaseRead, StartPhases
<1>3. e = t[Len(nodes) + 1] /\ Len(nodes) + 1 \in 1..Len(t)
  BY <1>1, <1>2 DEF This
<1>4. /\ e \in Node /\ e.tag \in Names /\ e.attrs \in Seq(Attr) /\ Len(e.attrs) \in Nat
      /\ \A i \in 1..Len(e.attrs) :
           e.attrs[i].name \in Names /\ e.attrs[i].value \in Values
  BY <1>3, NodeOf DEF Tracks
<1>5. Len(e.tag) \in Nat \ {0}
  BY <1>4, NameHas
<1> QED
  BY <1>1, <1>2, <1>3, <1>4, <1>5, Fields

LEMMA StartForm ==
  ASSUME NEW t, NEW w, NEW w2, Tracks(t, w, w2), phase \in StartPhases
  PROVE  /\ ~IsEndTag(buf) /\ Len(buf) > 1 /\ (phase # 2 => Spaced(buf))
         /\ \A b2 : Grows(buf, b2) => ~IsEndTag(b2)
<1>1. SpansAt(phase, buf, spans) /\ ScanInv
  BY Tracked DEF SpansInv, ShapeInv
<1>2. ~IsEndTag(buf) /\ Len(buf) > 1
  BY <1>1 DEF SpansAt, StartPhases
<1>3. phase # 2 => Spaced(buf)
  BY <1>1 DEF ScanInv, HasSpace, Spaced, StartPhases
<1> QED
  BY <1>2, <1>3, EndTagKept

(* The tag goes on. *)
LEMMA StaysInStart ==
  ASSUME NEW t, NEW w, NEW w2, Tracks(t, w, w2), phase \in StartPhases,
         UNCHANGED <<nodes, open, result>>, w2.said = w.said, w2.open = w.open,
         phase' \in StartPhases, StartRead(phase', buf', spans', This(t, w), w2)
  PROVE  Follows(t, w2)'
<1>1. Len(nodes) < Len(t) /\ This(t, w).parent = open
  BY InStart
<1>2. This(t, w2) = This(t, w)
  BY DEF This
<1>3. PhaseRead(t, w2)'
  BY <1>1, <1>2, PhaseIs DEF StartPhases
<1>4. phase' \in 0..21
  BY DEF StartPhases
<1> QED
  BY <1>3, <1>4, KeepsUp

(* The tag ends.                                                             *)
LEMMA StartIsWhole ==
  ASSUME NEW t, NEW w, NEW w2, Tracks(t, w, w2), phase \in StartPhases,
         UNCHANGED <<nodes, open, result>>, phase' = 100, Grows(buf, buf'),
         NEW e, e = This(t, w), w.attrs = Len(e.attrs), Len(spans') = w.attrs,
         SpellsAll(buf', 1, e.tag), AttrsStand(buf', spans', e.attrs, w.attrs),
         \/ Opens(w, w2) /\ ~IsSelfClosed(buf')
         \/ Completes(t, w, w2, Append(w.said, 0), w.open) /\ IsSelfClosed(buf')
  PROVE  Follows(t, w2)'
<1> DEFINE m == Len(nodes) + 1
<1>1. /\ Len(nodes) < Len(t) /\ e = t[m] /\ e.parent = open /\ w.attrs \in Nat
      /\ Len(nodes) \in Nat /\ Len(t) \in Nat /\ Len(w.said) = Len(nodes) /\ w.open = open
      /\ w.said \in Seq(Nat)
  BY InStart, Tracked, Fields
<1>2. ~IsEndTag(buf')
  BY StartForm
<1>3. w2.said = Append(w.said, 0) /\ w2.at = "body"
  BY DEF Opens, Completes
<1>4. Len(w2.said) = m /\ w2.said[m] = 0
  BY <1>1, <1>3
<1>5. /\ w2.open = IF IsSelfClosed(buf') THEN open ELSE m
      /\ w2.open = 0 => AllSaid(t, w2.said)
  <2>1. CASE Opens(w, w2) /\ ~IsSelfClosed(buf')
    BY <1>1, <2>1 DEF Opens
  <2>2. CASE Completes(t, w, w2, Append(w.said, 0), w.open) /\ IsSelfClosed(buf')
    BY <1>1, <2>2 DEF Completes
  <2> QED
    BY <2>1, <2>2
<1>6. StartPending(t, w2)'
  BY <1>1, <1>4, <1>5 DEF StartPending
<1>7. Pends(t, w2)'
  BY <1>2, <1>3, <1>5, <1>6 DEF Pends
<1> QED
  BY <1>3, <1>7, IsWhole

(* Where a start tag may end, and how. *)
LEMMA NoMore ==
  ASSUME NEW t, NEW w, NEW w2, Tracks(t, w, w2), phase \in StartPhases,
         NEW e, e = This(t, w), AttrsStand(buf, spans, e.attrs, w.attrs), ~MoreAttrs(t, w)
  PROVE  w.attrs = Len(e.attrs)
<1>1. w.attrs <= Len(e.attrs)
  BY DEF AttrsStand
<1>2. ~(w.attrs < Len(e.attrs)) /\ w.attrs \in Nat /\ Len(e.attrs) \in Nat
  BY InStart DEF MoreAttrs
<1> QED
  BY <1>1, <1>2

LEMMA ChoiceName ==
  ASSUME NEW t, NEW w, NEW w2, Tracks(t, w, w2), phase = 2, NEW e, e = This(t, w)
  PROVE  \/ /\ Takes(phase, ch, 2, "char") /\ w.n + 1 \in 1..Len(e.tag)
            /\ ch = e.tag[w.n + 1] /\ Becomes(w, w2, "tag", w.n + 1, w.attrs)
         \/ /\ Takes(phase, ch, 3, "space") /\ w.n = Len(e.tag)
            /\ Becomes(w, w2, "gap", w.n, w.attrs)
         \/ /\ Takes(phase, ch, 13, "spaced") /\ ch = "/" /\ w.n = Len(e.tag)
            /\ ~MoreAttrs(t, w) /\ Becomes(w, w2, "/", w.n, w.attrs)
         \/ /\ Takes(phase, ch, 100, "spaced") /\ ch = ">" /\ w.n = Len(e.tag)
            /\ ~MoreAttrs(t, w) /\ Opens(w, w2)
<1>0. phase \in StartPhases
  BY DEF StartPhases
<1>1. w \in Writer /\ w.n \in Nat /\ e.tag \in Names /\ StartRead(2, buf, spans, e, w)
  BY <1>0, InStart
<1>2. w.at = "tag" /\ w2 \in After(t, w, ch)
  BY <1>1, Tracked DEF StartRead
<1>3. \/ Letter(w, e.tag, ch) /\ Becomes(w, w2, "tag", w.n + 1, w.attrs)
      \/ Whole(w, e.tag) /\ ch \in White /\ Becomes(w, w2, "gap", w.n, w.attrs)
      \/ Whole(w, e.tag) /\ w2 \in EndsStart(t, w, ch)
  BY <1>1, <1>2, FromTag
<1>4. CASE Letter(w, e.tag, ch) /\ Becomes(w, w2, "tag", w.n + 1, w.attrs)
  <2>1. ch \in NameChars /\ w.n + 1 \in 1..Len(e.tag) /\ ch = e.tag[w.n + 1]
    BY <1>1, <1>4, LetterIs
  <2> QED
    BY <1>4, <2>1, TakesName
<1>5. CASE Whole(w, e.tag) /\ ch \in White /\ Becomes(w, w2, "gap", w.n, w.attrs)
  BY <1>5, TakesName DEF Whole
<1>6. CASE Whole(w, e.tag) /\ w2 \in EndsStart(t, w, ch)
  <2>1. /\ ~MoreAttrs(t, w)
        /\ \/ ch = "/" /\ Becomes(w, w2, "/", w.n, w.attrs)
           \/ ch = ">" /\ Opens(w, w2)
    BY <1>1, <1>6, StartEnds
  <2> QED
    BY <1>6, <2>1, TakesName DEF Whole
<1> QED
  BY <1>3, <1>4, <1>5, <1>6

LEMMA ReadName ==
  ASSUME NEW t, NEW w, NEW w2, Tracks(t, w, w2), ReadChar, phase = 2
  PROVE  Follows(t, w2)'
<1>0. phase \in StartPhases
  BY DEF StartPhases
<1> PICK e : e = This(t, w)
  OBVIOUS
<1>1. /\ e.attrs \in Seq(Attr) /\ Len(e.attrs) \in Nat /\ Len(e.tag) \in Nat \ {0}
      /\ StartRead(2, buf, spans, e, w) /\ w.n \in Nat
  BY <1>0, InStart
<1>2. /\ w.at = "tag" /\ w.n \in 1..Len(e.tag) /\ w.attrs = 0
      /\ Len(buf) = w.n + 1 /\ Spells(buf, 1, e.tag, w.n)
  BY <1>1 DEF StartRead
<1>3. spans = <<>> /\ No(buf, Space, 1, Len(buf))
  <2>1. SpansAt(2, buf, spans)
    BY Tracked DEF SpansInv
  <2> QED
    BY <2>1 DEF SpansAt
<1>4. \A b2 : AttrsStand(b2, <<>>, e.attrs, 0)
  BY <1>1 DEF AttrsStand
<1>5. ASSUME NEW b2, Grows(buf, b2), Len(buf) < Len(b2), b2[Len(buf) + 1] = Space,
             w.n = Len(e.tag)
      PROVE  SpellsAll(b2, 1, e.tag)
  BY <1>1, <1>2, <1>3, <1>5, SpellsAllNow
<1>6. CASE /\ Takes(phase, ch, 2, "char") /\ w.n + 1 \in 1..Len(e.tag)
           /\ ch = e.tag[w.n + 1] /\ Becomes(w, w2, "tag", w.n + 1, w.attrs)
  <2>1. /\ phase' = 2 /\ UNCHANGED <<nodes, open, result>>
        /\ OneMore(buf, buf') /\ buf'[Len(buf')] = ch
    BY <1>6, CharStored
  <2>2. /\ w2.at = "tag" /\ w2.n = w.n + 1 /\ w2.attrs = 0
        /\ w2.said = w.said /\ w2.open = w.open
    BY <1>2, <1>6 DEF Becomes
  <2>3. Spells(buf', 1, e.tag, w.n + 1)
    BY <1>1, <1>2, <1>6, <2>1, SpellsOn
  <2>4. w2.n \in 1..Len(e.tag) /\ Len(buf') = w2.n + 1 /\ Spells(buf', 1, e.tag, w2.n)
    BY <1>2, <1>6, <2>1, <2>2, <2>3 DEF OneMore
  <2>5. StartRead(2, buf', spans', e, w2)
    BY <2>2, <2>4, TagAsks
  <2> QED
    BY <1>0, <2>1, <2>2, <2>5, StaysInStart
<1>7. CASE /\ Takes(phase, ch, 3, "space") /\ w.n = Len(e.tag)
           /\ Becomes(w, w2, "gap", w.n, w.attrs)
  <2>1. /\ phase' = 3 /\ UNCHANGED <<nodes, open, result>> /\ spans' = Seen(phase, 3)
        /\ OneMore(buf, buf') /\ Grows(buf, buf') /\ buf'[Len(buf')] = Space
    BY <1>7, CharStored
  <2>2. /\ w2.at = "gap" /\ w2.attrs = 0 /\ w2.said = w.said /\ w2.open = w.open
    BY <1>2, <1>7 DEF Becomes
  <2>3. Len(buf) < Len(buf') /\ buf'[Len(buf) + 1] = Space
    BY <1>2, <1>1, <2>1 DEF OneMore
  <2>4. spans' = <<>>
    BY <1>3, <2>1, SeenAs
  <2>5. SpellsAll(buf', 1, e.tag)
    BY <1>5, <1>7, <2>1, <2>3
  <2>6. StartRead(3, buf', spans', e, w2)
    BY <1>4, <2>2, <2>4, <2>5, StandAsks
  <2> QED
    BY <1>0, <2>1, <2>2, <2>6, StaysInStart DEF StartPhases
<1>8. CASE /\ Takes(phase, ch, 13, "spaced") /\ ch = "/" /\ w.n = Len(e.tag)
           /\ ~MoreAttrs(t, w) /\ Becomes(w, w2, "/", w.n, w.attrs)
  <2>1. /\ phase' = 13 /\ UNCHANGED <<nodes, open, result>> /\ spans' = Seen(phase, 13)
        /\ Grows(buf, buf') /\ Len(buf') = Len(buf) + 2 /\ buf'[Len(buf) + 1] = Space
    BY <1>8, CharStored
  <2>2. /\ w2.at = "/" /\ w2.attrs = 0 /\ w2.said = w.said /\ w2.open = w.open
    BY <1>2, <1>8 DEF Becomes
  <2>3. Len(buf) < Len(buf')
    BY <1>1, <1>2, <2>1
  <2>4. spans' = <<>>
    BY <1>3, <2>1, SeenAs
  <2>5. SpellsAll(buf', 1, e.tag)
    BY <1>5, <1>8, <2>1, <2>3
  <2>6. w.attrs = Len(e.attrs)
    BY <1>0, <1>2, <1>3, <1>4, <1>8, NoMore
  <2>7. StartRead(13, buf', spans', e, w2)
    BY <1>2, <1>4, <2>2, <2>4, <2>5, <2>6, StandAsks
  <2> QED
    BY <1>0, <2>1, <2>2, <2>7, StaysInStart DEF StartPhases
<1>9. CASE /\ Takes(phase, ch, 100, "spaced") /\ ch = ">" /\ w.n = Len(e.tag)
           /\ ~MoreAttrs(t, w) /\ Opens(w, w2)
  <2>1. /\ phase' = 100 /\ UNCHANGED <<nodes, open, result>> /\ spans' = Seen(phase, 100)
        /\ Grows(buf, buf') /\ Len(buf') = Len(buf) + 2 /\ buf'[Len(buf) + 1] = Space
    BY <1>9, CharStored
  <2>3. Len(buf) < Len(buf') /\ Len(buf') - 1 = Len(buf) + 1
    BY <1>1, <1>2, <2>1
  <2>4. spans' = <<>>
    BY <1>3, <2>1, SeenAs
  <2>5. SpellsAll(buf', 1, e.tag)
    BY <1>5, <1>9, <2>1, <2>3
  <2>6. w.attrs = Len(e.attrs)
    BY <1>0, <1>2, <1>3, <1>4, <1>9, NoMore
  <2>7. ~IsSelfClosed(buf')
    BY <2>1, <2>3 DEF IsSelfClosed, Space
  <2>8. Len(spans') = w.attrs /\ AttrsStand(buf', spans', e.attrs, w.attrs)
    BY <1>2, <1>4, <2>4
  <2> QED
    BY <1>0, <1>9, <2>1, <2>5, <2>6, <2>7, <2>8, StartIsWhole
<1> QED
  BY <1>6, <1>7, <1>8, <1>9, ChoiceName

(* What stood stays, whatever is added. *)
LEMMA Standing ==
  ASSUME NEW t, NEW w, NEW w2, Tracks(t, w, w2), phase \in StartPhases, phase # 2,
         NEW e, e = This(t, w)
  PROVE  /\ SpellsAll(buf, 1, e.tag) /\ AttrsStand(buf, spans, e.attrs, w.attrs)
         /\ spans \in Seq(Span) /\ Len(spans) \in Nat
         /\ \A b2 : Grows(buf, b2) =>
              SpellsAll(b2, 1, e.tag) /\ AttrsStand(b2, spans, e.attrs, w.attrs)
<1>1. /\ e.attrs \in Seq(Attr) /\ Len(e.tag) \in Nat /\ w.attrs \in Nat
      /\ StartRead(phase, buf, spans, e, w)
  BY InStart
<1>2. SpellsAll(buf, 1, e.tag) /\ AttrsStand(buf, spans, e.attrs, w.attrs)
  BY <1>1 DEF StartRead, StartPhases
<1>3. spans \in Seq(Span) /\ Len(spans) \in Nat
  BY Tracked
<1>4. Spaced(buf)
  BY StartForm
<1>5. ASSUME NEW b2, Grows(buf, b2)
      PROVE  SpellsAll(b2, 1, e.tag) /\ AttrsStand(b2, spans, e.attrs, w.attrs)
  <2>1. SpellsAll(b2, 1, e.tag)
    BY <1>1, <1>2, <1>4, <1>5, SpellsAllKept
  <2>2. AttrsStand(b2, spans, e.attrs, w.attrs)
    BY <1>1, <1>2, <1>3, <1>5, AttrsStandSame
  <2> QED
    BY <2>1, <2>2
<1> QED
  BY <1>2, <1>3, <1>5

LEMMA ItSelf ==
  ASSUME NEW b \in Strings
  PROVE  Grows(b, b)
  BY DEF Grows, Strings

(* The writer ends the tag, or goes on to the blanks behind an attribute.     *)
LEMMA ReadOver ==
  ASSUME NEW t, NEW w, NEW w2, Tracks(t, w, w2), phase \in {3, 9},
         UNCHANGED <<nodes, open, result>>, spans' = spans, Grows(buf, buf'),
         \/ phase' = 3 /\ Becomes(w, w2, "gap", w.n, w.attrs)
         \/ phase' = 13 /\ ~MoreAttrs(t, w) /\ Becomes(w, w2, "/", w.n, w.attrs)
         \/ phase' = 100 /\ ~MoreAttrs(t, w) /\ Opens(w, w2) /\ ~IsSelfClosed(buf')
  PROVE  Follows(t, w2)'
<1>0. phase \in StartPhases /\ phase # 2
  BY DEF StartPhases
<1> PICK e : e = This(t, w)
  OBVIOUS
<1>1. /\ AttrsStand(buf, spans, e.attrs, w.attrs)
      /\ SpellsAll(buf', 1, e.tag) /\ AttrsStand(buf', spans, e.attrs, w.attrs)
  BY <1>0, Standing
<1>2. Len(spans) = w.attrs
  <2>1. StartRead(phase, buf, spans, e, w)
    BY <1>0, InStart
  <2> QED
    BY <2>1 DEF StartRead
<1>3. ~MoreAttrs(t, w) => w.attrs = Len(e.attrs)
  BY <1>0, <1>1, NoMore
<1>4. CASE phase' = 3 /\ Becomes(w, w2, "gap", w.n, w.attrs)
  <2>1. /\ w2.at = "gap" /\ w2.attrs = w.attrs /\ w2.said = w.said /\ w2.open = w.open
    BY <1>4 DEF Becomes
  <2>2. StartRead(3, buf', spans', e, w2)
    BY <1>1, <1>2, <2>1, StandAsks
  <2> QED
    BY <1>0, <1>4, <2>1, <2>2, StaysInStart DEF StartPhases
<1>5. CASE phase' = 13 /\ ~MoreAttrs(t, w) /\ Becomes(w, w2, "/", w.n, w.attrs)
  <2>1. /\ w2.at = "/" /\ w2.attrs = w.attrs /\ w2.said = w.said /\ w2.open = w.open
    BY <1>5 DEF Becomes
  <2>2. StartRead(13, buf', spans', e, w2)
    BY <1>1, <1>2, <1>3, <1>5, <2>1, StandAsks
  <2> QED
    BY <1>0, <1>5, <2>1, <2>2, StaysInStart DEF StartPhases
<1>6. CASE phase' = 100 /\ ~MoreAttrs(t, w) /\ Opens(w, w2) /\ ~IsSelfClosed(buf')
  BY <1>0, <1>1, <1>2, <1>3, <1>6, StartIsWhole
<1> QED
  BY <1>4, <1>5, <1>6

LEMMA ChoiceGap ==
  ASSUME NEW t, NEW w, NEW w2, Tracks(t, w, w2), phase = 3, NEW e, e = This(t, w)
  PROVE  \/ Takes(phase, ch, 3, "nothing") /\ Becomes(w, w2, "gap", w.n, w.attrs)
         \/ /\ Takes(phase, ch, 13, "char") /\ ~MoreAttrs(t, w)
            /\ Becomes(w, w2, "/", w.n, w.attrs)
         \/ Takes(phase, ch, 100, "char") /\ ~MoreAttrs(t, w) /\ Opens(w, w2)
         \/ /\ Takes(phase, ch, 4, "char") /\ w.attrs < Len(e.attrs)
            /\ ch = e.attrs[w.attrs + 1].name[1] /\ Becomes(w, w2, "attr", 1, w.attrs)
<1>0. phase \in StartPhases
  BY DEF StartPhases
<1>1. /\ w \in Writer /\ w.attrs \in Nat /\ StartRead(3, buf, spans, e, w)
      /\ Len(e.attrs) \in Nat
      /\ \A i \in 1..Len(e.attrs) : e.attrs[i].name \in Names
  BY <1>0, InStart
<1>2. w.at = "gap" /\ w2 \in After(t, w, ch)
  BY <1>1, Tracked DEF StartRead
<1>3. \/ ch \in White /\ Becomes(w, w2, "gap", w.n, w.attrs)
      \/ w2 \in EndsStart(t, w, ch)
      \/ /\ MoreAttrs(t, w) /\ ch = Attribute(t, w).name[1]
         /\ Becomes(w, w2, "attr", 1, w.attrs)
  BY <1>1, <1>2, FromGap
<1>4. CASE ch \in White /\ Becomes(w, w2, "gap", w.n, w.attrs)
  BY <1>4, TakesGap
<1>5. CASE w2 \in EndsStart(t, w, ch)
  <2>1. /\ ~MoreAttrs(t, w)
        /\ \/ ch = "/" /\ Becomes(w, w2, "/", w.n, w.attrs)
           \/ ch = ">" /\ Opens(w, w2)
    BY <1>1, <1>5, StartEnds
  <2> QED
    BY <2>1, TakesGap
<1>6. CASE /\ MoreAttrs(t, w) /\ ch = Attribute(t, w).name[1]
           /\ Becomes(w, w2, "attr", 1, w.attrs)
  <2>1. w.attrs < Len(e.attrs) /\ ch = e.attrs[w.attrs + 1].name[1]
    BY <1>6 DEF MoreAttrs, Attribute
  <2>2. w.attrs + 1 \in 1..Len(e.attrs)
    BY <1>1, <2>1
  <2>3. ch \in NameStart
    BY <1>1, <2>1, <2>2, NameHas
  <2> QED
    BY <1>6, <2>1, <2>3, TakesGap
<1> QED
  BY <1>3, <1>4, <1>5, <1>6

LEMMA ReadGap ==
  ASSUME NEW t, NEW w, NEW w2, Tracks(t, w, w2), ReadChar, phase = 3
  PROVE  Follows(t, w2)'
<1>0. phase \in StartPhases /\ phase # 2
  BY DEF StartPhases
<1> PICK e : e = This(t, w)
  OBVIOUS
<1>1. /\ LastIs(Space) /\ Len(buf) > 1 /\ Len(buf) \in Nat /\ buf \in Strings
      /\ spans \in Seq(Span)
  BY Tracked DEF ShapeInv, ScanInv
<1>2. CASE Takes(phase, ch, 3, "nothing") /\ Becomes(w, w2, "gap", w.n, w.attrs)
  <2>1. /\ phase' = 3 /\ UNCHANGED <<nodes, open, result>> /\ spans' = Seen(phase, 3)
        /\ buf' = buf
    BY <1>2, CharStored
  <2>2. spans' = spans /\ Grows(buf, buf')
    BY <1>1, <2>1, SeenAs, ItSelf
  <2> QED
    BY <1>2, <2>1, <2>2, ReadOver
<1>3. CASE /\ Takes(phase, ch, 13, "char") /\ ~MoreAttrs(t, w)
           /\ Becomes(w, w2, "/", w.n, w.attrs)
  <2>1. /\ phase' = 13 /\ UNCHANGED <<nodes, open, result>> /\ spans' = Seen(phase, 13)
        /\ Grows(buf, buf')
    BY <1>3, CharStored
  <2>2. spans' = spans
    BY <2>1, SeenAs
  <2> QED
    BY <1>3, <2>1, <2>2, ReadOver
<1>4. CASE Takes(phase, ch, 100, "char") /\ ~MoreAttrs(t, w) /\ Opens(w, w2)
  <2>1. /\ phase' = 100 /\ UNCHANGED <<nodes, open, result>> /\ spans' = Seen(phase, 100)
        /\ OneMore(buf, buf') /\ Grows(buf, buf')
    BY <1>4, CharStored
  <2>2. spans' = spans
    BY <2>1, SeenAs
  <2>3. buf'[Len(buf') - 1] = Space
    <3>1. Len(buf') - 1 = Len(buf) /\ Len(buf) \in 1..Len(buf)
      BY <1>1, <2>1 DEF OneMore
    <3> QED
      BY <1>1, <2>1, <3>1 DEF Grows, LastIs
  <2>4. ~IsSelfClosed(buf')
    BY <2>3 DEF IsSelfClosed, Space
  <2> QED
    BY <1>4, <2>1, <2>2, <2>4, ReadOver
<1>5. CASE /\ Takes(phase, ch, 4, "char") /\ w.attrs < Len(e.attrs)
           /\ ch = e.attrs[w.attrs + 1].name[1] /\ Becomes(w, w2, "attr", 1, w.attrs)
  <2> DEFINE y == [start |-> Len(buf) + 1, equals |-> 0, end |-> 0]
  <2> PICK a : a = e.attrs[w.attrs + 1]
    OBVIOUS
  <2>1. /\ phase' = 4 /\ UNCHANGED <<nodes, open, result>> /\ spans' = Seen(phase, 4)
        /\ OneMore(buf, buf') /\ Grows(buf, buf') /\ buf'[Len(buf')] = ch
    BY <1>5, CharStored
  <2>2. spans' = Append(spans, y) /\ y.start = Len(buf) + 1
    BY <2>1, SeenAs
  <2>3. y \in Span
    BY <1>1 DEF Span
  <2> HIDE DEF y
  <2>4. /\ w2.at = "attr" /\ w2.n = 1 /\ w2.attrs = w.attrs
        /\ w2.said = w.said /\ w2.open = w.open
    BY <1>5 DEF Becomes
  <2>5. Len(spans) = w.attrs /\ w.attrs \in Nat /\ e.attrs \in Seq(Attr) /\ a.name \in Names
    <3>1. /\ StartRead(3, buf, spans, e, w) /\ w.attrs \in Nat /\ e.attrs \in Seq(Attr)
          /\ Len(e.attrs) \in Nat
      BY <1>0, InStart
    <3>2. w.attrs + 1 \in 1..Len(e.attrs)
      BY <1>5, <3>1
    <3>3. Len(spans) = w.attrs
      BY <3>1 DEF StartRead
    <3>4. \A i \in 1..Len(e.attrs) : e.attrs[i].name \in Names
      BY <1>0, InStart
    <3>5. a.name \in Names
      BY <3>2, <3>4
    <3> QED
      BY <3>1, <3>3, <3>5
  <2>6. /\ spans' \in Seq(Span) /\ Len(spans') = w.attrs + 1 /\ spans'[Len(spans')] = y
        /\ \A i \in 1..w.attrs : spans'[i] = spans[i]
    BY <1>1, <2>2, <2>3, <2>5
  <2>7. SpellsAll(buf', 1, e.tag) /\ AttrsStand(buf', spans', e.attrs, w.attrs)
    <3>1. /\ SpellsAll(buf', 1, e.tag) /\ AttrsStand(buf, spans, e.attrs, w.attrs)
      BY <1>0, <2>1, Standing
    <3>2. w.attrs <= Len(spans')
      BY <2>5, <2>6
    <3>3. /\ Grows(buf, buf') /\ spans \in Seq(Span) /\ e.attrs \in Seq(Attr)
          /\ w.attrs \in Nat /\ \A i \in 1..w.attrs : spans'[i] = spans[i]
      BY <1>1, <2>1, <2>5, <2>6
    <3>4. AttrsStand(buf', spans', e.attrs, w.attrs)
      BY <3>1, <3>2, <3>3, AttrsStandKept
    <3> QED
      BY <3>1, <3>4
  <2>8. y.start > 0 /\ y.start + w2.n = Len(buf') + 1 /\ y.start - 1 = Len(buf)
    BY <1>1, <2>1, <2>2, <2>4 DEF OneMore
  <2>9. Spells(buf', y.start - 1, a.name, w2.n)
    <3>1. Len(buf') = Len(buf) + 1 /\ buf'[Len(buf) + 1] = a.name[1]
      BY <1>5, <2>1 DEF OneMore
    <3>2. Spells(buf', Len(buf), a.name, 1)
      BY <1>1, <3>1 DEF Spells
    <3> QED
      BY <2>4, <2>8, <3>2
  <2>10. w2.n \in 1..Len(a.name)
    BY <2>4, <2>5, NameHas
  <2>11. StartRead(4, buf', spans', e, w2)
    BY <1>5, <2>4, <2>6, <2>7, <2>8, <2>9, <2>10, AttrAsks
  <2> QED
    BY <1>0, <2>1, <2>4, <2>11, StaysInStart DEF StartPhases
<1> QED
  BY <1>2, <1>3, <1>4, <1>5, ChoiceGap

(* In an attribute.                                                          *)
LEMMA InAttr ==
  ASSUME NEW t, NEW w, NEW w2, Tracks(t, w, w2), phase \in 4..8, NEW e, e = This(t, w),
         NEW x, x = spans[Len(spans)], NEW a, a = e.attrs[w.attrs + 1]
  PROVE  /\ phase \in StartPhases /\ phase # 2 /\ w \in Writer
         /\ w.n \in Nat /\ w.attrs \in Nat
         /\ Len(spans) = w.attrs + 1 /\ w.attrs < Len(e.attrs) /\ spans \in Seq(Span)
         /\ x \in Span /\ a \in Attr /\ a.name \in Names /\ a.value \in Values
         /\ Len(a.name) \in Nat \ {0} /\ Len(a.value) \in Nat /\ e.attrs \in Seq(Attr)
         /\ StartRead(phase, buf, spans, e, w) /\ This(t, w).attrs[w.attrs + 1] = a
         /\ Attribute(t, w) = a /\ Len(buf) \in Nat
<1>1. phase \in StartPhases /\ phase # 2
  BY DEF StartPhases
<1>2. /\ w \in Writer /\ w.n \in Nat /\ w.attrs \in Nat /\ e.attrs \in Seq(Attr)
      /\ StartRead(phase, buf, spans, e, w) /\ Len(e.attrs) \in Nat
  BY <1>1, InStart
<1>3. \A i \in 1..Len(e.attrs) : e.attrs[i].name \in Names /\ e.attrs[i].value \in Values
  BY <1>1, InStart
<1>4. spans \in Seq(Span) /\ Len(buf) \in Nat
  BY Tracked
<1>5. Len(spans) = w.attrs + 1 /\ w.attrs < Len(e.attrs)
  BY <1>2 DEF StartRead
<1>6. w.attrs + 1 \in 1..Len(e.attrs)
  BY <1>2, <1>5
<1>7. a \in Attr
  BY <1>2, <1>6
<1>8. a.name \in Names /\ a.value \in Values
  BY <1>3, <1>6
<1>9. x \in Span
  BY <1>2, <1>4, <1>5
<1>10. Len(a.name) \in Nat \ {0} /\ Len(a.value) \in Nat
  BY <1>8, NameHas, ValueHas
<1>11. Attribute(t, w) = a /\ This(t, w).attrs[w.attrs + 1] = a
  BY DEF Attribute
<1> QED
  BY <1>1, <1>2, <1>4, <1>5, <1>7, <1>8, <1>9, <1>10, <1>11

LEMMA EqualsSet ==
  ASSUME NEW x \in Span, NEW n \in Nat
  PROVE  /\ [x EXCEPT !.equals = n] \in Span
         /\ [x EXCEPT !.equals = n].start = x.start
         /\ [x EXCEPT !.equals = n].equals = n
         /\ [x EXCEPT !.end = n] \in Span
         /\ [x EXCEPT !.end = n].start = x.start
         /\ [x EXCEPT !.end = n].equals = x.equals
         /\ [x EXCEPT !.end = n].end = n
  BY DEF Span

LEMMA BehindStart ==
  \A x, n, l \in Nat : x > 0 /\ x + n = l + 1 =>
    x - 1 \in Nat /\ x - 1 + n = l /\ x + (n + 1) = l + 1 + 1
  OBVIOUS

LEMMA BehindEquals ==
  ASSUME NEW x \in Nat, NEW n \in Nat, NEW l \in Nat, x + 1 + n = l
  PROVE  x + 1 + (n + 1) = l + 1 /\ x + 1 + n <= l /\ l + 1 = x + 2 + n
  OBVIOUS

(* The last span changes, or not at all; the others and what stands stay.      *)
LEMMA LastOnly ==
  ASSUME NEW t, NEW w, NEW w2, Tracks(t, w, w2), phase \in 4..8, NEW e, e = This(t, w),
         Grows(buf, buf'), NEW y \in Span, spans' = LastBecomes(spans, y)
  PROVE  /\ spans' \in Seq(Span) /\ Len(spans') = w.attrs + 1 /\ spans'[Len(spans')] = y
         /\ SpellsAll(buf', 1, e.tag) /\ AttrsStand(buf', spans', e.attrs, w.attrs)
<1>1. /\ phase \in StartPhases /\ phase # 2 /\ w.attrs \in Nat /\ spans \in Seq(Span)
      /\ Len(spans) = w.attrs + 1 /\ e.attrs \in Seq(Attr)
  BY InAttr
<1>2. spans # <<>>
  BY <1>1
<1>3. /\ spans' \in Seq(Span) /\ Len(spans') = Len(spans) /\ spans'[Len(spans)] = y
      /\ \A i \in 1..(Len(spans) - 1) : spans'[i] = spans[i]
  BY <1>1, <1>2, LastChanged
<1>4. Len(spans) - 1 = w.attrs /\ w.attrs <= Len(spans')
  BY <1>1, <1>3
<1>5. SpellsAll(buf', 1, e.tag) /\ AttrsStand(buf, spans, e.attrs, w.attrs)
  BY <1>1, Standing
<1>6. \A i \in 1..w.attrs : spans'[i] = spans[i]
  BY <1>3, <1>4
<1>7. AttrsStand(buf', spans', e.attrs, w.attrs)
  <2>1. spans \in Seq(Span) /\ e.attrs \in Seq(Attr) /\ w.attrs \in Nat
    BY <1>1
  <2>2. w.attrs <= Len(spans')
    BY <1>4
  <2>3. AttrsStand(buf, spans, e.attrs, w.attrs)
    BY <1>5
  <2> QED
    BY <1>6, <2>1, <2>2, <2>3, AttrsStandKept
<1> QED
  BY <1>1, <1>3, <1>5, <1>7

LEMMA ChoiceAttr ==
  ASSUME NEW t, NEW w, NEW w2, Tracks(t, w, w2), phase \in {4, 5}, NEW e, e = This(t, w),
         NEW a, a = e.attrs[w.attrs + 1]
  PROVE  \/ /\ Takes(phase, ch, 4, "char") /\ phase = 4 /\ w.n + 1 \in 1..Len(a.name)
            /\ ch = a.name[w.n + 1] /\ Becomes(w, w2, "attr", w.n + 1, w.attrs)
         \/ /\ Takes(phase, ch, 5, "nothing") /\ w.n = Len(a.name)
            /\ Becomes(w, w2, "attr", w.n, w.attrs)
         \/ /\ Takes(phase, ch, 6, "char") /\ w.n = Len(a.name)
            /\ Becomes(w, w2, "equals", w.n, w.attrs)
<1>1. /\ w \in Writer /\ w.n \in Nat /\ a.name \in Names /\ Attribute(t, w) = a
      /\ StartRead(phase, buf, spans, e, w)
  BY InAttr
<1>2. /\ w.at = "attr" /\ w2 \in After(t, w, ch)
      /\ phase = 5 => w.n = Len(a.name)
  BY <1>1, Tracked DEF StartRead
<1>3. \/ Letter(w, a.name, ch) /\ Becomes(w, w2, "attr", w.n + 1, w.attrs)
      \/ Whole(w, a.name) /\ ch \in White /\ Becomes(w, w2, "attr", w.n, w.attrs)
      \/ Whole(w, a.name) /\ ch = "=" /\ Becomes(w, w2, "equals", w.n, w.attrs)
  BY <1>1, <1>2, FromAttr
<1>4. CASE Letter(w, a.name, ch) /\ Becomes(w, w2, "attr", w.n + 1, w.attrs)
  <2>1. ch \in NameChars /\ w.n + 1 \in 1..Len(a.name) /\ ch = a.name[w.n + 1]
    BY <1>1, <1>4, LetterIs
  <2>2. phase = 4
    BY <1>1, <1>2, <1>4 DEF Letter
  <2> QED
    BY <1>4, <2>1, <2>2, TakesAttr
<1>5. CASE Whole(w, a.name) /\ ch \in White /\ Becomes(w, w2, "attr", w.n, w.attrs)
  BY <1>5, TakesAttr DEF Whole
<1>6. CASE Whole(w, a.name) /\ ch = "=" /\ Becomes(w, w2, "equals", w.n, w.attrs)
  BY <1>6, TakesAttr DEF Whole
<1> QED
  BY <1>3, <1>4, <1>5, <1>6

LEMMA ReadAttr ==
  ASSUME NEW t, NEW w, NEW w2, Tracks(t, w, w2), ReadChar, phase \in {4, 5}
  PROVE  Follows(t, w2)'
<1> PICK e : e = This(t, w)
  OBVIOUS
<1> PICK a : a = e.attrs[w.attrs + 1]
  OBVIOUS
<1> PICK x : x = spans[Len(spans)]
  OBVIOUS
<1>1. /\ phase \in StartPhases /\ phase # 2 /\ w.n \in Nat /\ w.attrs \in Nat
      /\ Len(spans) = w.attrs + 1 /\ w.attrs < Len(e.attrs) /\ spans \in Seq(Span)
      /\ x \in Span /\ Len(a.name) \in Nat /\ Len(buf) \in Nat
      /\ StartRead(phase, buf, spans, e, w)
  BY InAttr
<1>2. /\ w.n \in 1..Len(a.name) /\ x.start > 0 /\ x.start + w.n = Len(buf) + 1
      /\ Spells(buf, x.start - 1, a.name, w.n)
  BY <1>1 DEF StartRead
<1>3. /\ x.start \in Nat /\ x.start - 1 \in Nat /\ x.start - 1 + w.n = Len(buf)
      /\ x.start + (w.n + 1) = Len(buf) + 1 + 1
  <2>1. PICK m \in Nat : m = x.start
    BY <1>1 DEF Span
  <2>2. PICK n \in Nat : n = w.n
    BY <1>1
  <2>3. PICK l \in Nat : l = Len(buf)
    BY <1>1
  <2>4. m > 0 /\ m + n = l + 1
    BY <1>2, <2>1, <2>2, <2>3
  <2>5. m - 1 \in Nat /\ m - 1 + n = l /\ m + (n + 1) = l + 1 + 1
    BY <2>4, BehindStart
  <2> QED
    BY <2>1, <2>2, <2>3, <2>5
<1>4. CASE /\ Takes(phase, ch, 4, "char") /\ phase = 4 /\ w.n + 1 \in 1..Len(a.name)
           /\ ch = a.name[w.n + 1] /\ Becomes(w, w2, "attr", w.n + 1, w.attrs)
  <2>1. /\ phase' = 4 /\ UNCHANGED <<nodes, open, result>> /\ spans' = Seen(phase, 4)
        /\ OneMore(buf, buf') /\ Grows(buf, buf') /\ buf'[Len(buf')] = ch
    BY <1>4, CharStored
  <2>2. spans' = spans
    BY <1>4, <2>1, SeenAs
  <2>3. /\ w2.at = "attr" /\ w2.n = w.n + 1 /\ w2.attrs = w.attrs
        /\ w2.said = w.said /\ w2.open = w.open
    BY <1>4 DEF Becomes
  <2>4. Spells(buf', x.start - 1, a.name, w.n + 1)
    BY <1>1, <1>2, <1>3, <1>4, <2>1, SpellsOn
  <2>5. SpellsAll(buf', 1, e.tag) /\ AttrsStand(buf', spans, e.attrs, w.attrs)
    BY <1>1, <2>1, Standing
  <2>6. /\ x.start + w2.n = Len(buf') + 1 /\ w2.n \in 1..Len(a.name)
        /\ Spells(buf', x.start - 1, a.name, w2.n)
    <3>1. Len(buf') = Len(buf) + 1
      BY <2>1 DEF OneMore
    <3> QED
      BY <1>3, <1>4, <2>3, <2>4, <3>1
  <2>7. StartRead(4, buf', spans, e, w2)
    BY <1>1, <1>2, <2>3, <2>5, <2>6, AttrAsks
  <2> QED
    BY <1>1, <2>1, <2>2, <2>3, <2>7, StaysInStart DEF StartPhases
<1>5. CASE /\ Takes(phase, ch, 5, "nothing") /\ w.n = Len(a.name)
           /\ Becomes(w, w2, "attr", w.n, w.attrs)
  <2>1. /\ phase' = 5 /\ UNCHANGED <<nodes, open, result>> /\ spans' = Seen(phase, 5)
        /\ buf' = buf
    BY <1>5, CharStored
  <2>2. spans' = spans
    BY <2>1, SeenAs
  <2>3. /\ w2.at = "attr" /\ w2.n = w.n /\ w2.attrs = w.attrs
        /\ w2.said = w.said /\ w2.open = w.open
    BY <1>5 DEF Becomes
  <2>4. SpellsAll(buf, 1, e.tag) /\ AttrsStand(buf, spans, e.attrs, w.attrs)
    BY <1>1, Standing
  <2>5. StartRead(5, buf, spans, e, w2)
    BY <1>1, <1>2, <1>5, <2>3, <2>4, AttrAsks
  <2> QED
    BY <1>1, <2>1, <2>2, <2>3, <2>5, StaysInStart DEF StartPhases
<1>6. CASE /\ Takes(phase, ch, 6, "char") /\ w.n = Len(a.name)
           /\ Becomes(w, w2, "equals", w.n, w.attrs)
  <2> DEFINE y == [x EXCEPT !.equals = Len(buf) + 1]
  <2>1. /\ phase' = 6 /\ UNCHANGED <<nodes, open, result>> /\ spans' = Seen(phase, 6)
        /\ OneMore(buf, buf') /\ Grows(buf, buf')
    BY <1>6, CharStored
  <2>2. spans' = LastBecomes(spans, y)
    BY <2>1, SeenAs
  <2>3. y \in Span /\ y.start = x.start /\ y.equals = Len(buf) + 1
    <3>1. x \in Span /\ Len(buf) + 1 \in Nat
      BY <1>1
    <3> QED
      BY <3>1, EqualsSet
  <2> HIDE DEF y
  <2>4. /\ w2.at = "equals" /\ w2.attrs = w.attrs /\ w2.said = w.said /\ w2.open = w.open
    BY <1>6 DEF Becomes
  <2>5. /\ Len(spans') = w.attrs + 1 /\ spans'[Len(spans')] = y
        /\ SpellsAll(buf', 1, e.tag) /\ AttrsStand(buf', spans', e.attrs, w.attrs)
    BY <2>1, <2>2, <2>3, LastOnly
  <2>6. Spells(buf', x.start - 1, a.name, w.n)
    BY <1>1, <1>2, <1>3, <2>1, SpellsKept
  <2>7. NameStands(buf', y, a) /\ y.equals = Len(buf')
    BY <1>1, <1>2, <1>3, <1>6, <2>1, <2>3, <2>6 DEF NameStands, OneMore
  <2>8. StartRead(6, buf', spans', e, w2)
    BY <1>1, <2>4, <2>5, <2>7, ValueAsks
  <2> QED
    BY <1>1, <2>1, <2>4, <2>8, StaysInStart DEF StartPhases
<1> QED
  BY <1>4, <1>5, <1>6, ChoiceAttr

(* Before a value, and in it.                                                 *)
LEMMA ChoiceEquals ==
  ASSUME NEW t, NEW w, NEW w2, Tracks(t, w, w2), phase = 6
  PROVE  \/ Takes(phase, ch, 6, "nothing") /\ Becomes(w, w2, "equals", w.n, w.attrs)
         \/ /\ Takes(phase, ch, 7, "char") /\ w2.quote = Quote
            /\ Becomes(w, w2, "value", 0, w.attrs)
         \/ /\ Takes(phase, ch, 8, "char") /\ w2.quote = Apostrophe
            /\ Becomes(w, w2, "value", 0, w.attrs)
<1> PICK e : e = This(t, w)
  OBVIOUS
<1>1. w \in Writer /\ StartRead(6, buf, spans, e, w)
  BY InAttr
<1>2. w.at = "equals" /\ w2 \in After(t, w, ch)
  BY <1>1, Tracked DEF StartRead
<1>3. \/ ch \in White /\ Becomes(w, w2, "equals", w.n, w.attrs)
      \/ /\ ch \in {Quote, Apostrophe} /\ Becomes(w, w2, "value", 0, w.attrs)
         /\ w2.quote = ch
  BY <1>1, <1>2, FromEquals
<1> QED
  BY <1>3, TakesEquals

LEMMA ReadEquals ==
  ASSUME NEW t, NEW w, NEW w2, Tracks(t, w, w2), ReadChar, phase = 6
  PROVE  Follows(t, w2)'
<1> PICK e : e = This(t, w)
  OBVIOUS
<1> PICK a : a = e.attrs[w.attrs + 1]
  OBVIOUS
<1> PICK x : x = spans[Len(spans)]
  OBVIOUS
<1>1. /\ phase \in StartPhases /\ phase # 2 /\ w.attrs \in Nat
      /\ Len(spans) = w.attrs + 1 /\ w.attrs < Len(e.attrs)
      /\ x \in Span /\ a \in Attr /\ Len(a.value) \in Nat
      /\ StartRead(6, buf, spans, e, w)
  BY InAttr
<1>2. NameStands(buf, x, a) /\ x.equals = Len(buf) /\ Len(buf) \in Nat
  <2>1. NameStands(buf, x, a) /\ x.equals = Len(buf)
    BY <1>1 DEF StartRead
  <2> QED
    BY <2>1, Tracked
<1>3. SpellsAll(buf, 1, e.tag) /\ AttrsStand(buf, spans, e.attrs, w.attrs)
  BY <1>1, Standing
<1>4. CASE Takes(phase, ch, 6, "nothing") /\ Becomes(w, w2, "equals", w.n, w.attrs)
  <2>1. /\ phase' = 6 /\ UNCHANGED <<nodes, open, result>> /\ spans' = Seen(phase, 6)
        /\ buf' = buf
    BY <1>4, CharStored
  <2>2. spans' = spans
    BY <2>1, SeenAs
  <2>3. /\ w2.at = "equals" /\ w2.attrs = w.attrs
        /\ w2.said = w.said /\ w2.open = w.open
    BY <1>4 DEF Becomes
  <2>4. StartRead(6, buf, spans, e, w2)
    BY <1>1, <1>2, <1>3, <2>3, ValueAsks
  <2> QED
    BY <1>1, <2>1, <2>2, <2>3, <2>4, StaysInStart DEF StartPhases
<1>5. ASSUME NEW go \in {7, 8}, Takes(phase, ch, go, "char"),
             w2.quote = IF go = 7 THEN Quote ELSE Apostrophe,
             Becomes(w, w2, "value", 0, w.attrs)
      PROVE  Follows(t, w2)'
  <2>1. /\ phase' = go /\ UNCHANGED <<nodes, open, result>> /\ spans' = Seen(phase, go)
        /\ OneMore(buf, buf') /\ Grows(buf, buf')
    BY <1>5, CharStored
  <2>2. spans' = spans
    BY <2>1, SeenAs
  <2>3. /\ w2.at = "value" /\ w2.n = 0 /\ w2.attrs = w.attrs
        /\ w2.said = w.said /\ w2.open = w.open
    BY <1>5 DEF Becomes
  <2>4. SpellsAll(buf', 1, e.tag) /\ AttrsStand(buf', spans, e.attrs, w.attrs)
    BY <1>1, <2>1, Standing
  <2>5. NameStands(buf', x, a)
    BY <1>1, <1>2, <2>1, NameStandsKept
  <2>6. Len(buf') = x.equals + 1
    BY <1>2, <2>1 DEF OneMore
  <2>7. w2.n \in 0..Len(a.value) /\ x.equals + 1 + w2.n = Len(buf')
    BY <1>1, <1>2, <2>3, <2>6
  <2>8. Spells(buf', x.equals + 1, a.value, w2.n)
    BY <1>2, <2>3, <2>6 DEF Spells
  <2>9. StartRead(go, buf', spans, e, w2)
    <3>1. /\ w2.quote = Quote => StartRead(7, buf', spans, e, w2)
          /\ w2.quote = Apostrophe => StartRead(8, buf', spans, e, w2)
      BY <1>1, <2>3, <2>4, <2>5, <2>7, <2>8, ValueAsks
    <3> QED
      BY <1>5, <3>1
  <2> QED
    BY <1>1, <2>1, <2>2, <2>3, <2>9, StaysInStart DEF StartPhases
<1> QED
  BY <1>4, <1>5, ChoiceEquals

LEMMA ChoiceValue ==
  ASSUME NEW t, NEW w, NEW w2, Tracks(t, w, w2), phase \in {7, 8}, NEW e, e = This(t, w),
         NEW a, a = e.attrs[w.attrs + 1]
  PROVE  \/ /\ w.n + 1 \in 1..Len(a.value)
            /\ \/ Takes(phase, ch, phase, "space") /\ a.value[w.n + 1] = Space
               \/ Takes(phase, ch, phase, "char") /\ a.value[w.n + 1] = ch
            /\ Becomes(w, w2, "value", w.n + 1, w.attrs) /\ w2.quote = w.quote
         \/ /\ Takes(phase, ch, 9, "char") /\ w.n = Len(a.value)
            /\ Becomes(w, w2, "valued", w.n, w.attrs + 1)
<1>1. /\ w \in Writer /\ w.n \in Nat /\ a.value \in Values /\ Attribute(t, w) = a
      /\ StartRead(phase, buf, spans, e, w)
  BY InAttr
<1>2. w.at = "value" /\ w.quote = (IF phase = 7 THEN Quote ELSE Apostrophe)
  BY <1>1 DEF StartRead
<1>3. w2 \in After(t, w, ch) /\ ch \in Chars
  BY Tracked
<1>4. \/ /\ w.n < Len(a.value) /\ Shows(ch, a.value[w.n + 1], w.quote)
         /\ Becomes(w, w2, "value", w.n + 1, w.attrs) /\ w2.quote = w.quote
      \/ Whole(w, a.value) /\ ch = w.quote /\ Becomes(w, w2, "valued", w.n, w.attrs + 1)
  BY <1>1, <1>2, <1>3, FromTheValue
<1>5. CASE /\ w.n < Len(a.value) /\ Shows(ch, a.value[w.n + 1], w.quote)
           /\ Becomes(w, w2, "value", w.n + 1, w.attrs) /\ w2.quote = w.quote
  <2>1. Len(a.value) \in Nat
    BY <1>1, ValueHas
  <2>2. w.n + 1 \in 1..Len(a.value)
    BY <1>1, <1>5, <2>1
  <2>3. a.value[w.n + 1] \notin {"<", "tab"}
    BY <1>1, <2>2, ValueHas
  <2>4. CASE a.value[w.n + 1] = Space
    <3>1. ch \in White
      BY <1>5, <2>4 DEF Shows
    <3> QED
      BY <1>3, <1>5, <2>2, <2>4, <3>1, TakesValue
  <2>5. CASE a.value[w.n + 1] # Space
    <3>1. ch = a.value[w.n + 1] /\ ch # w.quote
      BY <1>5, <2>5 DEF Shows
    <3>2. ch \notin White \union {"<", w.quote}
      BY <2>3, <2>5, <3>1 DEF White
    <3>3. Takes(phase, ch, phase, "char")
      BY <1>2, <1>3, <3>2, TakesValue
    <3> QED
      BY <1>5, <2>2, <3>1, <3>3
  <2> QED
    BY <2>4, <2>5
<1>6. CASE Whole(w, a.value) /\ ch = w.quote /\ Becomes(w, w2, "valued", w.n, w.attrs + 1)
  <2>1. Takes(phase, ch, 9, "char")
    BY <1>2, <1>3, <1>6, TakesValue
  <2> QED
    BY <1>6, <2>1 DEF Whole
<1> QED
  BY <1>4, <1>5, <1>6

LEMMA ReadTheValue ==
  ASSUME NEW t, NEW w, NEW w2, Tracks(t, w, w2), ReadChar, phase \in {7, 8}
  PROVE  Follows(t, w2)'
<1> PICK e : e = This(t, w)
  OBVIOUS
<1> PICK a : a = e.attrs[w.attrs + 1]
  OBVIOUS
<1> PICK x : x = spans[Len(spans)]
  OBVIOUS
<1>1. /\ phase \in StartPhases /\ phase # 2 /\ w.attrs \in Nat /\ w.n \in Nat
      /\ Len(spans) = w.attrs + 1 /\ w.attrs < Len(e.attrs)
      /\ x \in Span /\ a \in Attr /\ Len(a.value) \in Nat /\ e.attrs \in Seq(Attr)
      /\ StartRead(phase, buf, spans, e, w)
  BY InAttr
<1>2. /\ NameStands(buf, x, a) /\ w.quote = (IF phase = 7 THEN Quote ELSE Apostrophe)
      /\ x.equals + 1 + w.n = Len(buf) /\ Spells(buf, x.equals + 1, a.value, w.n)
  BY <1>1 DEF StartRead
<1>3. x.equals \in Nat /\ x.equals + 1 \in Nat /\ Len(buf) \in Nat
  <2>1. x.equals \in Nat
    BY <1>1 DEF Span
  <2> QED
    BY <2>1, Tracked
<1>4. CASE /\ w.n + 1 \in 1..Len(a.value)
           /\ \/ Takes(phase, ch, phase, "space") /\ a.value[w.n + 1] = Space
              \/ Takes(phase, ch, phase, "char") /\ a.value[w.n + 1] = ch
           /\ Becomes(w, w2, "value", w.n + 1, w.attrs) /\ w2.quote = w.quote
  <2>1. /\ phase' = phase /\ UNCHANGED <<nodes, open, result>> /\ spans' = Seen(phase, phase)
        /\ OneMore(buf, buf') /\ Grows(buf, buf') /\ buf'[Len(buf')] = a.value[w.n + 1]
    <3>1. CASE Takes(phase, ch, phase, "space") /\ a.value[w.n + 1] = Space
      BY <3>1, CharStored
    <3>2. CASE Takes(phase, ch, phase, "char") /\ a.value[w.n + 1] = ch
      BY <3>2, CharStored
    <3> QED
      BY <1>4, <3>1, <3>2
  <2>2. spans' = spans
    BY <2>1, SeenAs
  <2>3. /\ w2.at = "value" /\ w2.n = w.n + 1 /\ w2.attrs = w.attrs /\ w2.quote = w.quote
        /\ w2.said = w.said /\ w2.open = w.open
    BY <1>4 DEF Becomes
  <2>4. SpellsAll(buf', 1, e.tag) /\ AttrsStand(buf', spans, e.attrs, w.attrs)
    BY <1>1, <2>1, Standing
  <2>5. NameStands(buf', x, a)
    BY <1>1, <1>2, <2>1, NameStandsKept
  <2>6. Spells(buf', x.equals + 1, a.value, w.n + 1)
    BY <1>1, <1>2, <1>3, <2>1, SpellsOn
  <2>7. Len(buf') = Len(buf) + 1
    BY <2>1 DEF OneMore
  <2>8. w2.n \in 0..Len(a.value) /\ x.equals + 1 + w2.n = Len(buf')
    <3>1. w.n \in Nat /\ x.equals + 1 + w.n = Len(buf)
      BY <1>1, <1>2
    <3>2. x.equals + 1 + (w.n + 1) = Len(buf) + 1
      <4>1. /\ \E q \in Nat : q = x.equals
            /\ \E n \in Nat : n = w.n
            /\ \E l \in Nat : l = Len(buf)
        BY <1>3, <3>1
      <4>2. PICK q \in Nat, n \in Nat, l \in Nat : q = x.equals /\ n = w.n /\ l = Len(buf)
        BY <4>1
      <4>3. q + 1 + n = l
        BY <3>1, <4>2
      <4>4. q + 1 + (n + 1) = l + 1
        BY <4>3, BehindEquals
      <4> QED
        BY <4>2, <4>4
    <3>3. w.n + 1 \in 0..Len(a.value)
      BY <1>4
    <3> QED
      BY <2>3, <2>7, <3>2, <3>3
  <2>9. StartRead(phase, buf', spans, e, w2)
    <3>1. /\ w2.quote = Quote => StartRead(7, buf', spans, e, w2)
          /\ w2.quote = Apostrophe => StartRead(8, buf', spans, e, w2)
      BY <1>1, <2>3, <2>4, <2>5, <2>6, <2>8, ValueAsks
    <3>2. w2.quote = IF phase = 7 THEN Quote ELSE Apostrophe
      BY <1>2, <2>3
    <3> QED
      BY <3>1, <3>2
  <2> QED
    BY <1>1, <2>1, <2>2, <2>3, <2>9, StaysInStart DEF StartPhases
<1>5. CASE /\ Takes(phase, ch, 9, "char") /\ w.n = Len(a.value)
           /\ Becomes(w, w2, "valued", w.n, w.attrs + 1)
  <2> DEFINE y == [x EXCEPT !.end = Len(buf) + 1]
  <2>1. /\ phase' = 9 /\ UNCHANGED <<nodes, open, result>> /\ spans' = Seen(phase, 9)
        /\ OneMore(buf, buf') /\ Grows(buf, buf')
    BY <1>5, CharStored
  <2>2. spans' = LastBecomes(spans, y)
    BY <2>1, SeenAs
  <2>3. /\ y \in Span /\ y.start = x.start /\ y.equals = x.equals
        /\ y.end = Len(buf) + 1
    <3>1. x \in Span /\ Len(buf) + 1 \in Nat
      BY <1>1, <1>3
    <3> QED
      BY <3>1, EqualsSet
  <2> HIDE DEF y
  <2>4. /\ w2.at = "valued" /\ w2.attrs = w.attrs + 1 /\ w2.said = w.said
        /\ w2.open = w.open
    BY <1>5 DEF Becomes
  <2>5. /\ spans' \in Seq(Span) /\ Len(spans') = w.attrs + 1 /\ spans'[Len(spans')] = y
        /\ SpellsAll(buf', 1, e.tag) /\ AttrsStand(buf', spans', e.attrs, w.attrs)
    BY <2>1, <2>2, <2>3, LastOnly
  <2>6. Spells(buf', x.equals + 1, a.value, Len(a.value))
    <3>1. Spells(buf, x.equals + 1, a.value, Len(a.value)) /\ Len(a.value) \in Nat
      BY <1>1, <1>2, <1>5
    <3> QED
      BY <1>3, <2>1, <3>1, SpellsKept
  <2>7. NameStands(buf', x, a)
    BY <1>1, <1>2, <2>1, NameStandsKept
  <2>8. AttrStands(buf', y, a)
    <3>1. y.end = y.equals + 2 + Len(a.value)
      <4>1. w.n \in Nat /\ x.equals + 1 + w.n = Len(buf)
        BY <1>1, <1>2
      <4>2. Len(buf) + 1 = x.equals + 2 + w.n
        BY <1>3, <4>1, BehindEquals
      <4> QED
        BY <1>5, <2>3, <4>2
    <3>2. NameStands(buf', y, a)
      BY <2>3, <2>7 DEF NameStands
    <3> QED
      BY <2>3, <2>6, <3>1, <3>2 DEF AttrStands
  <2>9. AttrsStand(buf', spans', e.attrs, w.attrs + 1)
    <3>1. w.attrs < Len(spans') /\ spans'[w.attrs + 1] = y
      BY <1>1, <2>5
    <3>2. AttrStands(buf', spans'[w.attrs + 1], e.attrs[w.attrs + 1])
      BY <2>8, <3>1
    <3> QED
      BY <1>1, <2>5, <3>1, <3>2, AttrsStandMore
  <2>10. StartRead(9, buf', spans', e, w2)
    BY <2>4, <2>5, <2>9, StandAsks
  <2> QED
    BY <1>1, <2>1, <2>4, <2>10, StaysInStart DEF StartPhases
<1> QED
  BY <1>4, <1>5, ChoiceValue

(* Behind a value, and behind the slash of an empty tag.                      *)
LEMMA ChoiceValued ==
  ASSUME NEW t, NEW w, NEW w2, Tracks(t, w, w2), phase = 9
  PROVE  \/ Takes(phase, ch, 3, "space") /\ Becomes(w, w2, "gap", w.n, w.attrs)
         \/ /\ Takes(phase, ch, 13, "spaced") /\ ~MoreAttrs(t, w)
            /\ Becomes(w, w2, "/", w.n, w.attrs)
         \/ Takes(phase, ch, 100, "spaced") /\ ~MoreAttrs(t, w) /\ Opens(w, w2)
<1>0. phase \in StartPhases
  BY DEF StartPhases
<1> PICK e : e = This(t, w)
  OBVIOUS
<1>1. w \in Writer /\ StartRead(9, buf, spans, e, w)
  BY <1>0, InStart
<1>2. w.at = "valued" /\ w2 \in After(t, w, ch)
  BY <1>1, Tracked DEF StartRead
<1>3. \/ ch \in White /\ Becomes(w, w2, "gap", w.n, w.attrs)
      \/ w2 \in EndsStart(t, w, ch)
  BY <1>1, <1>2, FromValued
<1>4. CASE ch \in White /\ Becomes(w, w2, "gap", w.n, w.attrs)
  BY <1>4, TakesValued
<1>5. CASE w2 \in EndsStart(t, w, ch)
  <2>1. /\ ~MoreAttrs(t, w)
        /\ \/ ch = "/" /\ Becomes(w, w2, "/", w.n, w.attrs)
           \/ ch = ">" /\ Opens(w, w2)
    BY <1>1, <1>5, StartEnds
  <2> QED
    BY <2>1, TakesValued
<1> QED
  BY <1>3, <1>4, <1>5

LEMMA ReadValued ==
  ASSUME NEW t, NEW w, NEW w2, Tracks(t, w, w2), ReadChar, phase = 9
  PROVE  Follows(t, w2)'
<1>1. Len(buf) \in Nat
  BY Tracked
<1>2. CASE Takes(phase, ch, 3, "space") /\ Becomes(w, w2, "gap", w.n, w.attrs)
  <2>1. /\ phase' = 3 /\ UNCHANGED <<nodes, open, result>> /\ spans' = Seen(phase, 3)
        /\ Grows(buf, buf')
    BY <1>2, CharStored
  <2>2. spans' = spans
    BY <2>1, SeenAs
  <2> QED
    BY <1>2, <2>1, <2>2, ReadOver
<1>3. CASE /\ Takes(phase, ch, 13, "spaced") /\ ~MoreAttrs(t, w)
           /\ Becomes(w, w2, "/", w.n, w.attrs)
  <2>1. /\ phase' = 13 /\ UNCHANGED <<nodes, open, result>> /\ spans' = Seen(phase, 13)
        /\ Grows(buf, buf')
    BY <1>3, CharStored
  <2>2. spans' = spans
    BY <2>1, SeenAs
  <2> QED
    BY <1>3, <2>1, <2>2, ReadOver
<1>4. CASE Takes(phase, ch, 100, "spaced") /\ ~MoreAttrs(t, w) /\ Opens(w, w2)
  <2>1. /\ phase' = 100 /\ UNCHANGED <<nodes, open, result>> /\ spans' = Seen(phase, 100)
        /\ Grows(buf, buf') /\ Len(buf') = Len(buf) + 2 /\ buf'[Len(buf) + 1] = Space
    BY <1>4, CharStored
  <2>2. spans' = spans
    BY <2>1, SeenAs
  <2>3. Len(buf') - 1 = Len(buf) + 1
    BY <1>1, <2>1
  <2>4. ~IsSelfClosed(buf')
    BY <2>1, <2>3 DEF IsSelfClosed, Space
  <2> QED
    BY <1>4, <2>1, <2>2, <2>4, ReadOver
<1> QED
  BY <1>2, <1>3, <1>4, ChoiceValued

LEMMA ChoiceSlash ==
  ASSUME NEW t, NEW w, NEW w2, Tracks(t, w, w2), phase = 13
  PROVE  Takes(phase, ch, 100, "char") /\ Completes(t, w, w2, Append(w.said, 0), w.open)
<1>0. phase \in StartPhases
  BY DEF StartPhases
<1> PICK e : e = This(t, w)
  OBVIOUS
<1>1. w \in Writer /\ StartRead(13, buf, spans, e, w)
  BY <1>0, InStart
<1>2. w.at = "/" /\ w2 \in After(t, w, ch)
  BY <1>1, Tracked DEF StartRead
<1>3. ch = ">" /\ Completes(t, w, w2, Append(w.said, 0), w.open)
  BY <1>1, <1>2, FromTheSlash
<1> QED
  BY <1>3, TakesValued

LEMMA ReadSlash ==
  ASSUME NEW t, NEW w, NEW w2, Tracks(t, w, w2), ReadChar, phase = 13
  PROVE  Follows(t, w2)'
<1>0. phase \in StartPhases /\ phase # 2
  BY DEF StartPhases
<1> PICK e : e = This(t, w)
  OBVIOUS
<1>1. Takes(phase, ch, 100, "char") /\ Completes(t, w, w2, Append(w.said, 0), w.open)
  BY ChoiceSlash
<1>2. /\ phase' = 100 /\ UNCHANGED <<nodes, open, result>> /\ spans' = Seen(phase, 100)
      /\ OneMore(buf, buf') /\ Grows(buf, buf')
  BY <1>1, CharStored
<1>3. spans' = spans
  BY <1>2, SeenAs
<1>4. IsSelfClosed(buf')
  <2>1. LastIs("/") /\ Len(buf) > 1 /\ Len(buf) \in Nat
    BY Tracked DEF ShapeInv, ScanInv
  <2>2. Len(buf') - 1 = Len(buf) /\ Len(buf) \in 1..Len(buf)
    BY <1>2, <2>1 DEF OneMore
  <2>3. buf'[Len(buf)] = "/"
    BY <1>2, <2>1, <2>2 DEF Grows, LastIs
  <2> QED
    BY <2>2, <2>3 DEF IsSelfClosed
<1>5. Len(spans) = w.attrs /\ w.attrs = Len(e.attrs)
  <2>1. StartRead(13, buf, spans, e, w)
    BY <1>0, InStart
  <2> QED
    BY <2>1 DEF StartRead
<1>6. SpellsAll(buf', 1, e.tag) /\ AttrsStand(buf', spans, e.attrs, w.attrs)
  BY <1>0, <1>2, Standing
<1> QED
  BY <1>0, <1>1, <1>2, <1>3, <1>4, <1>5, <1>6, StartIsWhole

--------------------------------------------------------------------------------
(* In an end tag.                                                            *)
LEMMA InEnd ==
  ASSUME NEW t, NEW w, NEW w2, Tracks(t, w, w2), phase \in 10..12, NEW s, s = t[open].tag
  PROVE  /\ open # 0 /\ open \in 1..Len(t) /\ w.open = open /\ t[w.open].tag = s
         /\ s \in Names /\ Len(s) \in Nat \ {0}
         /\ EndRead(phase, buf, t[open], w) /\ w \in Writer /\ w.n \in Nat /\ w.at = "end"
         /\ Len(buf) \in Nat /\ Len(buf) > 1 /\ IsEndTag(buf)
         /\ phase \in {10, 11} => No(buf, Space, 1, Len(buf))
<1>1. /\ PhaseRead(t, w) /\ w.open = open /\ open \in Nat /\ open <= Len(nodes)
      /\ Len(nodes) <= Len(t) /\ Len(nodes) \in Nat /\ Len(t) \in Nat /\ w \in Writer
      /\ Len(buf) \in Nat
  BY Tracked
<1>2. open # 0 /\ EndRead(phase, buf, t[open], w)
  BY <1>1 DEF PhaseRead
<1>3. open \in 1..Len(t)
  BY <1>1, <1>2
<1>4. s \in Names
  BY <1>3, NodeOf DEF Tracks
<1>5. /\ Len(buf) > 1 /\ IsEndTag(buf)
      /\ phase \in {10, 11} => No(buf, Space, 1, Len(buf))
  <2>1. SpansAt(phase, buf, spans)
    BY Tracked DEF SpansInv
  <2> QED
    BY <2>1 DEF SpansAt
<1>6. w.at = "end"
  BY <1>2 DEF EndRead
<1>7. Len(s) \in Nat \ {0} /\ w.n \in Nat
  BY <1>1, <1>4, NameHas, Fields
<1> QED
  BY <1>1, <1>2, <1>3, <1>4, <1>5, <1>6, <1>7

LEMMA ChoiceEnd ==
  ASSUME NEW t, NEW w, NEW w2, Tracks(t, w, w2), phase \in 10..12, NEW s, s = t[open].tag
  PROVE  \/ /\ Takes(phase, ch, 11, "char") /\ phase # 12 /\ w.n + 1 \in 1..Len(s)
            /\ ch = s[w.n + 1] /\ Becomes(w, w2, "end", w.n + 1, w.attrs)
         \/ /\ Takes(phase, ch, 12, "space") /\ phase = 11 /\ w.n = Len(s)
            /\ Becomes(w, w2, "end", w.n, w.attrs)
         \/ /\ Takes(phase, ch, 12, "nothing") /\ phase = 12
            /\ Becomes(w, w2, "end", w.n, w.attrs)
         \/ /\ Takes(phase, ch, 100, "spaced") /\ phase = 11 /\ w.n = Len(s)
            /\ Completes(t, w, w2, w.said, t[open].parent)
         \/ /\ Takes(phase, ch, 100, "char") /\ phase = 12
            /\ Completes(t, w, w2, w.said, t[open].parent)
<1>1. /\ w.open = open /\ t[w.open].tag = s /\ s \in Names /\ Len(s) \in Nat \ {0}
      /\ EndRead(phase, buf, t[open], w) /\ w \in Writer /\ w.n \in Nat /\ w.at = "end"
  BY InEnd
<1>2. w2 \in After(t, w, ch)
  BY Tracked
<1>3. /\ phase = 10 => w.n = 0
      /\ phase = 12 => w.n = Len(s)
  BY <1>1 DEF EndRead
<1>4. \/ Letter(w, s, ch) /\ Becomes(w, w2, "end", w.n + 1, w.attrs)
      \/ Whole(w, s) /\ ch \in White /\ Becomes(w, w2, "end", w.n, w.attrs)
      \/ Whole(w, s) /\ ch = ">" /\ Completes(t, w, w2, w.said, t[open].parent)
  BY <1>1, <1>2, FromEnd
<1>5. CASE Letter(w, s, ch) /\ Becomes(w, w2, "end", w.n + 1, w.attrs)
  <2>1. /\ ch \in NameChars /\ w.n + 1 \in 1..Len(s) /\ ch = s[w.n + 1]
        /\ w.n = 0 => ch \in NameStart
    BY <1>1, <1>5, LetterIs
  <2>2. phase # 12
    BY <1>1, <1>3, <2>1
  <2>3. Takes(phase, ch, 11, "char")
    BY <1>3, <2>1, <2>2, TakesEnd
  <2> QED
    BY <1>5, <2>1, <2>2, <2>3
<1>6. CASE Whole(w, s) /\ ch \in White /\ Becomes(w, w2, "end", w.n, w.attrs)
  BY <1>1, <1>3, <1>6, TakesEnd DEF Whole
<1>7. CASE Whole(w, s) /\ ch = ">" /\ Completes(t, w, w2, w.said, t[open].parent)
  BY <1>1, <1>3, <1>7, TakesEnd DEF Whole
<1> QED
  BY <1>4, <1>5, <1>6, <1>7

LEMMA StaysInEnd ==
  ASSUME NEW t, NEW w, NEW w2, Tracks(t, w, w2), phase \in 10..12,
         UNCHANGED <<nodes, open, result>>, w2.said = w.said, w2.open = w.open,
         phase' \in 10..12, EndRead(phase, buf, t[open], w2)'
  PROVE  Follows(t, w2)'
<1>1. open' # 0
  BY InEnd
<1>2. PhaseRead(t, w2)'
  BY <1>1, PhaseIs
<1>3. phase' \in 0..21
  OBVIOUS
<1> QED
  BY <1>2, <1>3, KeepsUp

LEMMA EndIsWhole ==
  ASSUME NEW t, NEW w, NEW w2, Tracks(t, w, w2), phase \in 10..12,
         UNCHANGED <<nodes, open, result>>, phase' = 100, Grows(buf, buf'),
         SpellsAll(buf', 2, t[open].tag), Completes(t, w, w2, w.said, t[open].parent)
  PROVE  Follows(t, w2)'
<1>1. open # 0 /\ IsEndTag(buf) /\ Len(buf) > 1
  BY InEnd
<1>2. IsEndTag(buf')
  BY <1>1, EndTagKept
<1>3. /\ w2.at = "body" /\ w2.said = w.said /\ w2.open = t[open].parent
      /\ w2.open = 0 => AllSaid(t, w2.said)
  BY DEF Completes
<1>4. Len(w.said) = Len(nodes)
  BY Tracked
<1>5. EndPending(t, w2)'
  BY <1>1, <1>3, <1>4 DEF EndPending
<1>6. Pends(t, w2)'
  BY <1>2, <1>3, <1>5 DEF Pends, Taking
<1> QED
  BY <1>3, <1>6, IsWhole

LEMMA ReadEnd ==
  ASSUME NEW t, NEW w, NEW w2, Tracks(t, w, w2), ReadChar, phase \in 10..12
  PROVE  Follows(t, w2)'
<1> PICK s : s = t[open].tag
  OBVIOUS
<1>1. /\ Len(s) \in Nat \ {0} /\ EndRead(phase, buf, t[open], w) /\ w.n \in Nat
      /\ Len(buf) \in Nat /\ phase \in {10, 11} => No(buf, Space, 1, Len(buf))
  BY InEnd
<1>2. /\ phase \in {10, 11} => Len(buf) = w.n + 2 /\ Spells(buf, 2, s, w.n)
      /\ phase = 12 => SpellsAll(buf, 2, s) /\ w.n = Len(s)
  <2>1. CASE phase = 10
    <3>1. w.n = 0 /\ Len(buf) = 2
      BY <1>1, <2>1 DEF EndRead
    <3>2. Spells(buf, 2, s, 0)
      BY <3>1 DEF Spells
    <3> QED
      BY <2>1, <3>1, <3>2
  <2>2. CASE phase = 11
    BY <1>1, <2>2 DEF EndRead
  <2>3. CASE phase = 12
    BY <1>1, <2>3 DEF EndRead
  <2> QED
    BY <2>1, <2>2, <2>3
<1>3. ASSUME phase = 11, w.n = Len(s), NEW b2, Grows(buf, b2), Len(buf) < Len(b2),
             b2[Len(buf) + 1] = Space
      PROVE  SpellsAll(b2, 2, s)
  <2>1. Spells(buf, 2, s, Len(s)) /\ 2 + Len(s) = Len(buf) /\ Len(s) \in Nat
    BY <1>1, <1>2, <1>3
  <2> QED
    BY <1>1, <1>3, <2>1, SpellsAllNow
<1>4. CASE /\ Takes(phase, ch, 11, "char") /\ phase # 12 /\ w.n + 1 \in 1..Len(s)
           /\ ch = s[w.n + 1] /\ Becomes(w, w2, "end", w.n + 1, w.attrs)
  <2>1. /\ phase' = 11 /\ UNCHANGED <<nodes, open, result>>
        /\ OneMore(buf, buf') /\ buf'[Len(buf')] = ch
    BY <1>4, CharStored
  <2>2. /\ w2.at = "end" /\ w2.n = w.n + 1 /\ w2.said = w.said /\ w2.open = w.open
    BY <1>4 DEF Becomes
  <2>3. Spells(buf', 2, s, w.n + 1)
    <3>1. 2 + w.n = Len(buf) /\ Spells(buf, 2, s, w.n)
      BY <1>1, <1>2, <1>4
    <3> QED
      BY <1>1, <1>4, <2>1, <3>1, SpellsOn
  <2>4. w2.n \in 1..Len(s) /\ Len(buf') = w2.n + 2
    <3>1. Len(buf') = Len(buf) + 1
      BY <2>1 DEF OneMore
    <3>2. Len(buf) = w.n + 2 /\ w.n \in Nat
      BY <1>1, <1>2, <1>4
    <3>3. w.n + 1 \in 1..Len(s)
      BY <1>4
    <3> QED
      BY <2>2, <3>1, <3>2, <3>3
  <2>5. EndRead(phase, buf, t[open], w2)'
    BY <2>1, <2>2, <2>3, <2>4 DEF EndRead
  <2> QED
    BY <2>1, <2>2, <2>5, StaysInEnd
<1>5. CASE /\ Takes(phase, ch, 12, "space") /\ phase = 11 /\ w.n = Len(s)
           /\ Becomes(w, w2, "end", w.n, w.attrs)
  <2>1. /\ phase' = 12 /\ UNCHANGED <<nodes, open, result>>
        /\ OneMore(buf, buf') /\ Grows(buf, buf') /\ buf'[Len(buf')] = Space
    BY <1>5, CharStored
  <2>2. /\ w2.at = "end" /\ w2.n = w.n /\ w2.said = w.said /\ w2.open = w.open
    BY <1>5 DEF Becomes
  <2>3. Len(buf) < Len(buf') /\ buf'[Len(buf) + 1] = Space
    BY <1>1, <2>1 DEF OneMore
  <2>4. SpellsAll(buf', 2, s)
    BY <1>3, <1>5, <2>1, <2>3
  <2>5. EndRead(phase, buf, t[open], w2)'
    BY <1>5, <2>1, <2>2, <2>4 DEF EndRead
  <2> QED
    BY <2>1, <2>2, <2>5, StaysInEnd
<1>6. CASE /\ Takes(phase, ch, 12, "nothing") /\ phase = 12
           /\ Becomes(w, w2, "end", w.n, w.attrs)
  <2>1. /\ phase' = 12 /\ UNCHANGED <<nodes, open, result>> /\ buf' = buf
    BY <1>6, CharStored
  <2>2. /\ w2.at = "end" /\ w2.n = w.n /\ w2.said = w.said /\ w2.open = w.open
    BY <1>6 DEF Becomes
  <2>5. EndRead(phase, buf, t[open], w2)'
    BY <1>2, <1>6, <2>1, <2>2 DEF EndRead
  <2> QED
    BY <2>1, <2>2, <2>5, StaysInEnd
<1>7. CASE /\ Takes(phase, ch, 100, "spaced") /\ phase = 11 /\ w.n = Len(s)
           /\ Completes(t, w, w2, w.said, t[open].parent)
  <2>1. /\ phase' = 100 /\ UNCHANGED <<nodes, open, result>>
        /\ Grows(buf, buf') /\ Len(buf') = Len(buf) + 2 /\ buf'[Len(buf) + 1] = Space
    BY <1>7, CharStored
  <2>2. Len(buf) < Len(buf')
    BY <1>1, <2>1
  <2>3. SpellsAll(buf', 2, s)
    BY <1>3, <1>7, <2>1, <2>2
  <2> QED
    BY <1>7, <2>1, <2>3, EndIsWhole
<1>8. CASE /\ Takes(phase, ch, 100, "char") /\ phase = 12
           /\ Completes(t, w, w2, w.said, t[open].parent)
  <2>1. /\ phase' = 100 /\ UNCHANGED <<nodes, open, result>> /\ Grows(buf, buf')
    BY <1>8, CharStored
  <2>2. Spaced(buf)
    BY <1>8, Tracked DEF ShapeInv, ScanInv, HasSpace, Spaced
  <2>3. SpellsAll(buf', 2, s)
    <3>1. SpellsAll(buf, 2, s) /\ Len(s) \in Nat
      BY <1>1, <1>2, <1>8
    <3> QED
      BY <2>1, <2>2, <3>1, SpellsAllKept
  <2> QED
    BY <1>8, <2>1, <2>3, EndIsWhole
<1> QED
  BY <1>4, <1>5, <1>6, <1>7, <1>8, ChoiceEnd

--------------------------------------------------------------------------------
(* What is skipped before a tag.                                             *)

(* Phase p and place at belong together.                                      *)
Skips(p, at) ==
  \/ p = 14 /\ at = "instruction"
  \/ p = 15 /\ at = "declaration"
  \/ p = 16 /\ at = "dash"
  \/ p = 17 /\ at = "comment"
  \/ p = 18 /\ at = "comment-"
  \/ p = 19 /\ at = "comment--"
  \/ p = 20 /\ at = "bracket"
  \/ p = 21 /\ at = "bracketed"

LEMMA SkipAsks ==
  ASSUME NEW w2, phase' \in 14..21, Skips(phase', w2.at), phase' = 20 => w2.n = square'
  PROVE  SkipRead(phase, w2)'
  BY DEF SkipRead, Skips

LEMMA InSkipped ==
  ASSUME NEW t, NEW w, NEW w2, Tracks(t, w, w2), phase \in 14..21
  PROVE  /\ w \in Writer /\ w2 \in After(t, w, ch) /\ ch \in Chars /\ SquareInv
         /\ Skips(phase, w.at) /\ w.at \in Skipping /\ (phase = 20 => w.n = square)
<1>1. /\ w \in Writer /\ w2 \in After(t, w, ch) /\ ch \in Chars /\ SquareInv
      /\ PhaseRead(t, w)
  BY Tracked DEF Tracks, IInv
<1>2. SkipRead(phase, w)
  BY <1>1 DEF PhaseRead
<1>3. Skips(phase, w.at) /\ (phase = 20 => w.n = square)
  BY <1>2 DEF SkipRead, Skips
<1>4. w.at \in Skipping
  BY <1>3 DEF Skips, Skipping
<1> QED
  BY <1>1, <1>3, <1>4

(* Only the brackets are counted. *)
LEMMA BracketsAre ==
  ASSUME NEW p, NEW c
  PROVE  /\ p \in {15, 20} /\ c = "[" => Brackets(p, c) = square + 1
         /\ p = 20 /\ c = "]" => Brackets(p, c) = square - 1
         /\ c \notin {"[", "]"} => Brackets(p, c) = square
  BY DEF Brackets

LEMMA ChoiceSkipped ==
  ASSUME NEW t, NEW w, NEW w2, Tracks(t, w, w2), phase \in 14..21
  PROVE  \E go \in {0} \union (14..21) : \E n, at :
           /\ Takes(phase, ch, go, "nothing") /\ Becomes(w, w2, at, n, w.attrs)
           /\ go = 0 => at = "before"
           /\ go # 0 => Skips(go, at)
           /\ go = 20 => n = Brackets(phase, ch)
<1> DEFINE Goes(go, at, n) == /\ Takes(phase, ch, go, "nothing")
                              /\ Becomes(w, w2, at, n, w.attrs)
<1>1. /\ w \in Writer /\ w2 \in After(t, w, ch) /\ ch \in Chars /\ SquareInv
      /\ Skips(phase, w.at) /\ w.at \in Skipping /\ (phase = 20 => w.n = square)
  BY InSkipped
<1> SUFFICES \E go \in {0} \union (14..21) : \E n, at :
               /\ Goes(go, at, n) /\ (go = 0 => at = "before") /\ (go # 0 => Skips(go, at))
               /\ (go = 20 => n = Brackets(phase, ch))
  OBVIOUS
<1>2. CASE phase \in {14, 21}
  <2>1. w.at \in {"instruction", "bracketed"} /\ Skips(phase, w.at)
    BY <1>1, <1>2 DEF Skips
  <2>2. \/ ch = ">" /\ Becomes(w, w2, "before", w.n, w.attrs)
        \/ ch # ">" /\ Becomes(w, w2, w.at, w.n, w.attrs)
    BY <1>1, <2>1, FromSkipped
  <2>3. Goes(0, "before", w.n) \/ Goes(phase, w.at, w.n)
    BY <1>1, <1>2, <2>2, TakesInstruction
  <2> HIDE DEF Goes
  <2> QED
    BY <1>2, <2>1, <2>3
<1>3. CASE phase = 15
  <2>1. w.at = "declaration"
    BY <1>1, <1>3 DEF Skips
  <2>2. \/ ch = ">" /\ Becomes(w, w2, "before", w.n, w.attrs)
        \/ ch = "-" /\ Becomes(w, w2, "dash", w.n, w.attrs)
        \/ ch = "[" /\ Becomes(w, w2, "bracket", 1, w.attrs)
        \/ ch \notin {">", "-", "["} /\ Becomes(w, w2, "instruction", w.n, w.attrs)
    BY <1>1, <2>1, FromSkipped
  <2>3. \/ Goes(0, "before", w.n) \/ Goes(16, "dash", w.n)
        \/ ch = "[" /\ Goes(20, "bracket", 1)
        \/ Goes(14, "instruction", w.n)
    BY <1>1, <1>3, <2>2, TakesDeclaration
  <2>4. ch = "[" => 1 = Brackets(phase, ch)
    <3>1. square = 0
      BY <1>1, <1>3, Tracked DEF SquareInv, ShapeOK, RestOK, Tracks, IInv
    <3> QED
      BY <1>3, <3>1, BracketsAre
  <2>5. Skips(16, "dash") /\ Skips(20, "bracket") /\ Skips(14, "instruction")
    BY DEF Skips
  <2> HIDE DEF Goes
  <2> QED
    BY <2>3, <2>4, <2>5
<1>4. CASE phase = 16
  <2>1. w.at = "dash"
    BY <1>1, <1>4 DEF Skips
  <2>2. \/ ch = ">" /\ Becomes(w, w2, "before", w.n, w.attrs)
        \/ ch = "-" /\ Becomes(w, w2, "comment", w.n, w.attrs)
        \/ ch \notin {">", "-"} /\ Becomes(w, w2, "instruction", w.n, w.attrs)
    BY <1>1, <2>1, FromSkipped
  <2>3. Goes(0, "before", w.n) \/ Goes(17, "comment", w.n) \/ Goes(14, "instruction", w.n)
    BY <1>1, <1>4, <2>2, TakesDeclaration
  <2>5. Skips(17, "comment") /\ Skips(14, "instruction")
    BY DEF Skips
  <2> HIDE DEF Goes
  <2> QED
    BY <2>3, <2>5
<1>5. CASE phase \in {17, 18}
  <2>1. \/ phase = 17 /\ w.at = "comment"
        \/ phase = 18 /\ w.at = "comment-"
    BY <1>1, <1>5 DEF Skips
  <2>2. \/ ch = "-" /\ phase = 17 /\ Becomes(w, w2, "comment-", w.n, w.attrs)
        \/ ch = "-" /\ phase = 18 /\ Becomes(w, w2, "comment--", w.n, w.attrs)
        \/ ch # "-" /\ Becomes(w, w2, "comment", w.n, w.attrs)
    BY <1>1, <2>1, FromSkipped
  <2>3. Goes(18, "comment-", w.n) \/ Goes(19, "comment--", w.n) \/ Goes(17, "comment", w.n)
    BY <1>1, <1>5, <2>2, TakesComment
  <2>5. Skips(18, "comment-") /\ Skips(19, "comment--") /\ Skips(17, "comment")
    BY DEF Skips
  <2> HIDE DEF Goes
  <2> QED
    BY <2>3, <2>5
<1>6. CASE phase = 19
  <2>1. w.at = "comment--"
    BY <1>1, <1>6 DEF Skips
  <2>2. ch = ">" /\ Becomes(w, w2, "before", w.n, w.attrs)
    BY <1>1, <2>1, FromSkipped
  <2>3. Goes(0, "before", w.n)
    BY <1>1, <1>6, <2>2, TakesComment
  <2> HIDE DEF Goes
  <2> QED
    BY <2>3
<1>7. CASE phase = 20
  <2>1. w.at = "bracket" /\ w.n = square
    BY <1>1, <1>7 DEF Skips
  <2>2. \/ ch = "[" /\ Becomes(w, w2, "bracket", square + 1, w.attrs)
        \/ ch = "]" /\ square = 1 /\ Becomes(w, w2, "bracketed", square - 1, w.attrs)
        \/ ch = "]" /\ square # 1 /\ Becomes(w, w2, "bracket", square - 1, w.attrs)
        \/ ch \notin {"[", "]"} /\ Becomes(w, w2, "bracket", square, w.attrs)
    BY <1>1, <2>1, FromSkipped
  <2>3. \/ ch = "[" /\ Goes(20, "bracket", square + 1)
        \/ Goes(21, "bracketed", square - 1)
        \/ ch = "]" /\ Goes(20, "bracket", square - 1)
        \/ ch \notin {"[", "]"} /\ Goes(20, "bracket", square)
    BY <1>1, <1>7, <2>2, TakesBracket
  <2>4. /\ ch = "[" => square + 1 = Brackets(phase, ch)
        /\ ch = "]" => square - 1 = Brackets(phase, ch)
        /\ ch \notin {"[", "]"} => square = Brackets(phase, ch)
    BY <1>7, BracketsAre
  <2>5. Skips(20, "bracket") /\ Skips(21, "bracketed")
    BY DEF Skips
  <2> HIDE DEF Goes
  <2> QED
    BY <2>3, <2>4, <2>5
<1> QED
  BY <1>2, <1>3, <1>4, <1>5, <1>6, <1>7

LEMMA ReadSkipped ==
  ASSUME NEW t, NEW w, NEW w2, Tracks(t, w, w2), ReadChar, phase \in 14..21
  PROVE  Follows(t, w2)'
<1>0. PICK go \in {0} \union (14..21) : \E n, at :
        /\ Takes(phase, ch, go, "nothing") /\ Becomes(w, w2, at, n, w.attrs)
        /\ go = 0 => at = "before"
        /\ go # 0 => Skips(go, at)
        /\ go = 20 => n = Brackets(phase, ch)
  BY ChoiceSkipped
<1>1. PICK n, at :
        /\ Takes(phase, ch, go, "nothing") /\ Becomes(w, w2, at, n, w.attrs)
        /\ go = 0 => at = "before"
        /\ go # 0 => Skips(go, at)
        /\ go = 20 => n = Brackets(phase, ch)
  BY <1>0
<1>2. phase' = go /\ UNCHANGED <<nodes, open, result>> /\ square' = Brackets(phase, ch)
  BY <1>1, CharStored
<1>3. w2.at = at /\ w2.n = n /\ w2.said = w.said /\ w2.open = w.open
  BY <1>1 DEF Becomes
<1>4. CASE go = 0
  BY <1>1, <1>2, <1>3, <1>4, PhaseIs, KeepsUp
<1>5. CASE go \in 14..21
  <2>1. Skips(phase', w2.at) /\ (phase' = 20 => w2.n = square') /\ phase' \in 14..21
    BY <1>1, <1>2, <1>3, <1>5
  <2>2. SkipRead(phase, w2)'
    BY <2>1, SkipAsks
  <2> QED
    BY <1>2, <1>3, <2>1, <2>2, PhaseIs, KeepsUp
<1> QED
  BY <1>4, <1>5

(* Every character that was written is read.                                 *)
LEMMA CharFollows ==
  ASSUME NEW t, NEW w, NEW w2, Tracks(t, w, w2), ReadChar
  PROVE  Follows(t, w2)'
<1>1. phase \in 0..21
  BY Tracked
<1>2. \/ phase = 0 \/ phase = 1 \/ phase = 2 \/ phase = 3 \/ phase \in {4, 5}
      \/ phase = 6 \/ phase \in {7, 8} \/ phase = 9 \/ phase \in 10..12 \/ phase = 13
      \/ phase \in 14..21
  BY <1>1
<1> QED
  BY <1>2, ReadBefore, ReadLess, ReadName, ReadGap, ReadAttr, ReadEquals, ReadTheValue,
     ReadValued, ReadEnd, ReadSlash, ReadSkipped

LEMMA Readable ==
  ASSUME NEW t, NEW w, NEW w2, Tracks(t, w, w2)
  PROVE  \E r \in Rules(phase) : ch \in r.on
<1>1. phase \in 0..21
  BY Tracked
<1>2. \E go, put : Takes(phase, ch, go, put)
  <2> PICK e : e = This(t, w)
    OBVIOUS
  <2> PICK a : a = e.attrs[w.attrs + 1]
    OBVIOUS
  <2>1. \/ phase = 0 \/ phase = 1 \/ phase = 2 \/ phase = 3 \/ phase \in {4, 5}
        \/ phase = 6 \/ phase \in {7, 8} \/ phase = 9 \/ phase \in 10..12 \/ phase = 13
        \/ phase \in 14..21
    BY <1>1
  <2>2. phase = 0 \/ phase = 1 => \E go, put : Takes(phase, ch, go, put)
    BY ChoiceBefore, ChoiceLess
  <2>3. phase = 2 => \E go, put : Takes(phase, ch, go, put)
    BY ChoiceName
  <2>4. phase = 3 => \E go, put : Takes(phase, ch, go, put)
    BY ChoiceGap
  <2>5. phase \in {4, 5} => \E go, put : Takes(phase, ch, go, put)
    BY ChoiceAttr
  <2>6. phase = 6 => \E go, put : Takes(phase, ch, go, put)
    BY ChoiceEquals
  <2>7. phase \in {7, 8} => \E go, put : Takes(phase, ch, go, put)
    BY ChoiceValue
  <2>8. phase = 9 \/ phase = 13 => \E go, put : Takes(phase, ch, go, put)
    BY ChoiceValued, ChoiceSlash
  <2>9. phase \in 10..12 => \E go, put : Takes(phase, ch, go, put)
    BY ChoiceEnd
  <2>10. phase \in 14..21 => \E go, put : Takes(phase, ch, go, put)
    BY ChoiceSkipped
  <2> QED
    BY <2>1, <2>2, <2>3, <2>4, <2>5, <2>6, <2>7, <2>8, <2>9, <2>10
<1> QED
  BY <1>2 DEF Takes

--------------------------------------------------------------------------------
(* What is cut out of a tag is what was written into it.                      *)
LEMMA CutOut ==
  ASSUME NEW b \in Strings, NEW o \in Nat, NEW s \in Strings, Spells(b, o, s, Len(s))
  PROVE  SubSeq(b, o + 1, o + Len(s)) = s
<1>1. Len(s) \in Nat /\ Len(b) \in Nat /\ o + Len(s) <= Len(b)
  BY DEF Strings, Spells
<1>2. \A i \in (o + 1)..(o + Len(s)) : i \in 1..Len(b)
  BY <1>1
<1>3. \A i \in (o + 1)..(o + Len(s)) : b[i] \in Chars
  BY <1>2 DEF Strings
<1> DEFINE u == SubSeq(b, o + 1, o + Len(s))
<1>4. /\ u \in Seq(Chars)
      /\ Len(u) = IF o + 1 <= o + Len(s) THEN o + Len(s) - (o + 1) + 1 ELSE 0
      /\ \A i \in 1..(o + Len(s) - (o + 1) + 1) : u[i] = b[o + 1 + i - 1]
  <2>1. o + 1 \in Int /\ o + Len(s) \in Int
    BY <1>1
  <2> QED
    BY <1>3, <2>1, SubSeqProperties
<1>5. o + Len(s) - (o + 1) + 1 = Len(s) /\ \A i \in 1..Len(s) : o + 1 + i - 1 = o + i
  BY <1>1
<1> HIDE DEF u
<1>6. Len(u) = Len(s) /\ \A i \in 1..Len(s) : u[i] = b[o + i]
  BY <1>1, <1>4, <1>5
<1>7. \A i \in 1..Len(u) : u[i] = s[i]
  BY <1>6 DEF Spells
<1>8. u = s
  BY <1>4, <1>6, <1>7, SeqEqual DEF Strings
<1> QED
  BY <1>8 DEF u

LEMMA StringsOf ==
  ASSUME NEW t, Tree(t), NEW k \in 1..Len(t)
  PROVE  /\ t[k] \in Node /\ t[k].tag \in Strings /\ t[k].text \in Strings
         /\ t[k].attrs \in Seq(Attr) /\ t[k].parent \in Nat
<1>1. t[k] \in Node
  BY DEF Tree
<1> QED
  BY <1>1 DEF Node

LEMMA StartName ==
  ASSUME NEW b \in Strings, NEW s \in Strings, SpellsAll(b, 1, s)
  PROVE  TagName(b) = s
<1>1. Len(s) \in Nat /\ FindSpace(b) = 1 + Len(s) + 1 /\ Spells(b, 1, s, Len(s))
  BY DEF SpellsAll, Strings
<1>2. FindSpace(b) - 1 = 1 + Len(s) /\ 1 + 1 = 2
  BY <1>1
<1>3. SubSeq(b, 1 + 1, 1 + Len(s)) = s
  BY <1>1, CutOut
<1> QED
  BY <1>2, <1>3 DEF TagName

LEMMA EndName ==
  ASSUME NEW b \in Strings, NEW s \in Strings, SpellsAll(b, 2, s)
  PROVE  Tail(TagName(b)) = s
<1>1. /\ Len(s) \in Nat /\ FindSpace(b) = 2 + Len(s) + 1 /\ Spells(b, 2, s, Len(s))
      /\ Len(b) \in Nat /\ 2 + Len(s) <= Len(b)
  BY DEF SpellsAll, Strings, Spells
<1>2. FindSpace(b) - 1 = 2 + Len(s) /\ 2 + 1 = 3
  BY <1>1
<1>3. SubSeq(b, 2 + 1, 2 + Len(s)) = s
  BY <1>1, CutOut
<1>4. Tail(SubSeq(b, 2, 2 + Len(s))) = SubSeq(b, 2 + 1, 2 + Len(s))
  <2>1. 2 \in 1..Len(b) /\ 2 + Len(s) \in 2..Len(b)
    BY <1>1
  <2> QED
    BY <2>1, HeadTailOfSubSeq DEF Strings
<1> QED
  BY <1>2, <1>3, <1>4 DEF TagName

LEMMA AttributeOf ==
  ASSUME NEW b \in Strings, NEW x \in Span, NEW a \in Attr, AttrStands(b, x, a)
  PROVE  [name |-> SubSeq(b, x.start, x.equals - 1),
          value |-> SubSeq(b, x.equals + 2, x.end - 1)] = a
<1>1. /\ a.name \in Strings /\ a.value \in Strings /\ a = [name |-> a.name, value |-> a.value]
      /\ x.start \in Nat /\ x.equals \in Nat
  BY DEF Attr, Span
<1>2. /\ x.start > 0 /\ x.equals = x.start + Len(a.name)
      /\ Spells(b, x.start - 1, a.name, Len(a.name))
      /\ x.end = x.equals + 2 + Len(a.value)
      /\ Spells(b, x.equals + 1, a.value, Len(a.value))
  BY DEF AttrStands, NameStands
<1>3. Len(a.name) \in Nat /\ Len(a.value) \in Nat
  BY <1>1 DEF Strings
<1>4. SubSeq(b, x.start, x.equals - 1) = a.name
  <2>1. x.start - 1 \in Nat /\ x.start - 1 + 1 = x.start
    BY <1>1, <1>2
  <2>2. x.start - 1 + Len(a.name) = x.equals - 1
    BY <1>1, <1>2, <1>3
  <2>3. SubSeq(b, x.start - 1 + 1, x.start - 1 + Len(a.name)) = a.name
    BY <1>1, <1>2, <2>1, CutOut
  <2> QED
    BY <2>1, <2>2, <2>3
<1>5. SubSeq(b, x.equals + 2, x.end - 1) = a.value
  <2>1. x.equals + 1 \in Nat /\ x.equals + 1 + 1 = x.equals + 2
    BY <1>1
  <2>2. x.equals + 1 + Len(a.value) = x.end - 1
    BY <1>1, <1>2, <1>3
  <2>3. SubSeq(b, x.equals + 1 + 1, x.equals + 1 + Len(a.value)) = a.value
    BY <1>1, <1>2, <2>1, CutOut
  <2> QED
    BY <2>1, <2>2, <2>3
<1> QED
  BY <1>1, <1>4, <1>5

(* A node whose text is said to its end, and a tree of such nodes.             *)
LEMMA SameNode ==
  ASSUME NEW n \in Node, NEW e \in Node, NodeRead(n, e, Len(e.text))
  PROVE  n = e
<1>1. n.text \in Seq(Chars) /\ e.text \in Seq(Chars)
  BY DEF Node, Strings
<1>2. Len(n.text) = Len(e.text) /\ \A i \in 1..Len(n.text) : n.text[i] = e.text[i]
  BY DEF NodeRead
<1>3. n.text = e.text
  BY <1>1, <1>2, SeqEqual
<1>4. n.tag = e.tag /\ n.attrs = e.attrs /\ n.parent = e.parent
  BY DEF NodeRead
<1> QED
  BY <1>3, <1>4 DEF Node

LEMMA WholeTree ==
  ASSUME NEW t, Tree(t), NEW ns \in Seq(Node), NEW said, Len(ns) = Len(said),
         AllSaid(t, said), \A k \in 1..Len(ns) : NodeRead(ns[k], t[k], said[k])
  PROVE  ns = t
<1>1. t \in Seq(Node) /\ Len(ns) = Len(t)
  BY DEF Tree, AllSaid
<1>2. ASSUME NEW k \in 1..Len(ns)
      PROVE  ns[k] = t[k]
  <2>1. ns[k] \in Node /\ t[k] \in Node
    BY <1>1
  <2>2. said[k] = Len(t[k].text) /\ NodeRead(ns[k], t[k], said[k])
    BY <1>1 DEF AllSaid
  <2> QED
    BY <2>1, <2>2, SameNode
<1> QED
  BY <1>1, <1>2, SeqEqual

--------------------------------------------------------------------------------
(* Between two characters, the writer waiting.                               *)
Runs(t, w) == IInv /\ Tree(t) /\ w \in Writer /\ Follows(t, w)

LEMMA RunsWith ==
  ASSUME NEW t, NEW w, Runs(t, w)
  PROVE  /\ nodes \in Seq(Node) /\ Len(nodes) \in Nat /\ open \in 0..Len(nodes)
         /\ buf \in Strings /\ spans \in Seq(Span) /\ attrs \in Seq(Attr)
         /\ t \in Seq(Node) /\ Len(t) \in Nat /\ w.said \in Seq(Nat)
         /\ Reading => TreeRead(t, w) /\ Len(nodes) <= Len(t)
<1>1. nodes \in Seq(Node) /\ open \in 0..Len(nodes)
  BY DEF Runs, IInv, ShapeInv, ShapeOK
<1>2. buf \in Strings /\ spans \in Seq(Span) /\ attrs \in Seq(Attr)
  BY DEF Runs, IInv, ShapeInv, ShapeOK, RestOK
<1>3. t \in Seq(Node) /\ w.said \in Seq(Nat)
  BY Fields DEF Runs, Tree
<1>4. Reading => TreeRead(t, w) /\ Len(nodes) <= Len(t)
  BY DEF Runs, Follows, TreeRead
<1> QED
  BY <1>1, <1>2, <1>3, <1>4

LEMMA InBody ==
  ASSUME NEW t, NEW w, Reading', phase' = Text, TreeRead(t, w)', w.at = "body",
         w.open = open', Len(w.said) = Len(nodes')
  PROVE  Follows(t, w)'
<1>1. phase' \notin 0..21 /\ phase' \notin {100, Taking}
  BY DEF Text, Taking
<1> QED
  BY <1>1 DEF Follows, Reading

LEMMA IsBuilt ==
  ASSUME NEW t, NEW w, result' = "built", nodes' = t
  PROVE  Follows(t, w)'
  BY DEF Follows, Reading

(* The tag is looked at; nothing but the place of the reader changes.          *)
LEMMA NameFollows ==
  ASSUME NEW t, NEW w, Runs(t, w), TakeName
  PROVE  Follows(t, w)'
<1>1. /\ result = "reading" /\ phase = 100 /\ phase' = Taking /\ ~IsEndTag(buf)
      /\ UNCHANGED <<buf, spans, nodes, open, result>>
  BY DEF TakeName, TagRead, Reading
<1>2. TreeRead(t, w) /\ Pends(t, w)
  BY <1>1 DEF Runs, Follows, Reading
<1>3. TreeRead(t, w)'
  BY <1>1, <1>2 DEF TreeRead
<1>4. StartPending(t, w)'
  BY <1>1, <1>2 DEF Pends, StartPending
<1>5. Pends(t, w)'
  BY <1>1, <1>2, <1>4 DEF Pends, Taking
<1> QED
  BY <1>1, <1>3, <1>5 DEF Follows, Reading, Taking, Text

LEMMA AttributeFollows ==
  ASSUME NEW t, NEW w, Runs(t, w), TakeAttribute
  PROVE  Follows(t, w)'
<1>1. /\ result = "reading" /\ phase = Taking
      /\ UNCHANGED <<phase, buf, spans, nodes, open, result>>
  BY DEF TakeAttribute, InTaking, Reading
<1>2. TreeRead(t, w) /\ Pends(t, w)
  BY <1>1 DEF Runs, Follows, Reading
<1>3. TreeRead(t, w)'
  BY <1>1, <1>2 DEF TreeRead
<1>4. StartPending(t, w)'
  BY <1>1, <1>2 DEF Pends, StartPending
<1>5. Pends(t, w)'
  BY <1>1, <1>2, <1>4 DEF Pends, Taking
<1> QED
  BY <1>1, <1>3, <1>5 DEF Follows, Reading, Taking, Text

(* The node that is made of the tag is the one it was written from.           *)
LEMMA NewNodeIs ==
  ASSUME NEW t, NEW w, Runs(t, w), InTaking, Equals = 0, NEW e, e = t[Len(nodes) + 1]
  PROVE  /\ NodeRead(NewNode, e, 0) /\ StartPending(t, w) /\ TreeRead(t, w)
         /\ w.at = "body" /\ (w.open = 0 => AllSaid(t, w.said))
<1>1. result = "reading" /\ phase = Taking
  BY DEF InTaking, Reading
<1>2. TreeRead(t, w) /\ Pends(t, w)
  BY <1>1 DEF Runs, Follows, Reading
<1>3. StartPending(t, w) /\ w.at = "body" /\ (w.open = 0 => AllSaid(t, w.said))
  BY <1>1, <1>2 DEF Pends
<1>4. /\ Len(nodes) + 1 <= Len(t) /\ e.parent = open /\ SpellsAll(buf, 1, e.tag)
      /\ Len(spans) = Len(e.attrs) /\ AttrsStand(buf, spans, e.attrs, Len(spans))
  BY <1>3 DEF StartPending
<1>5. /\ buf \in Strings /\ spans \in Seq(Span) /\ attrs \in Seq(Attr)
      /\ Len(nodes) \in Nat /\ Len(t) \in Nat
  BY RunsWith
<1>6. Len(nodes) + 1 \in 1..Len(t)
  BY <1>4, <1>5
<1>7. e.tag \in Strings /\ e.attrs \in Seq(Attr) /\ e.text \in Strings
  BY <1>6, StringsOf DEF Runs
<1>8. TagName(buf) = e.tag
  BY <1>4, <1>5, <1>7, StartName
<1>9. attrs = e.attrs
  <2>1. Len(attrs) = Len(spans) /\ \A i \in 1..Len(attrs) : attrs[i] = ScannedAttribute(i)
    BY Agree DEF Runs, AttributesAsScanned
  <2>2. ASSUME NEW i \in 1..Len(attrs)
        PROVE  attrs[i] = e.attrs[i]
    <3>1. i \in 1..Len(spans) /\ i \in 1..Len(e.attrs)
      BY <1>4, <2>1
    <3>2. spans[i] \in Span /\ e.attrs[i] \in Attr
      BY <1>5, <1>7, <3>1
    <3>3. AttrStands(buf, spans[i], e.attrs[i])
      BY <1>4, <3>1 DEF AttrsStand
    <3>4. ScannedAttribute(i) = e.attrs[i]
      BY <1>5, <3>2, <3>3, AttributeOf DEF ScannedAttribute
    <3> QED
      BY <2>1, <3>4
  <2>3. Len(attrs) = Len(e.attrs)
    BY <1>4, <2>1
  <2> QED
    BY <1>5, <1>7, <2>2, <2>3, SeqEqual
<1>10. NodeRead(NewNode, e, 0)
  <2>1. /\ NewNode.tag = e.tag /\ NewNode.attrs = e.attrs /\ NewNode.parent = e.parent
        /\ NewNode.text = <<>>
    BY <1>4, <1>8, <1>9 DEF NewNode
  <2>2. Len(e.text) \in Nat
    BY <1>7 DEF Strings
  <2> QED
    BY <2>1, <2>2 DEF NodeRead
<1> QED
  BY <1>2, <1>3, <1>10

LEMMA NodeFollows ==
  ASSUME NEW t, NEW w, Runs(t, w), InTaking, Equals = 0, nodes' = Append(nodes, NewNode)
  PROVE  /\ nodes' \in Seq(Node) /\ Len(nodes') = Len(nodes) + 1
         /\ TreeRead(t, w)' /\ Len(w.said) = Len(nodes')
         /\ w.at = "body" /\ (w.open = 0 => AllSaid(t, w.said))
         /\ w.open = IF IsSelfClosed(buf) THEN open ELSE Len(nodes')
<1> DEFINE n == NewNode
<1>1. /\ NodeRead(n, t[Len(nodes) + 1], 0) /\ StartPending(t, w) /\ TreeRead(t, w)
      /\ w.at = "body" /\ (w.open = 0 => AllSaid(t, w.said))
  BY NewNodeIs
<1>2. nodes \in Seq(Node) /\ Len(nodes) \in Nat /\ n \in Node
  BY RunsWith, NewNodeFits DEF Runs
<1>3. nodes' = Append(nodes, n)
  OBVIOUS
<1> HIDE DEF n
<1>4. /\ nodes' \in Seq(Node) /\ Len(nodes') = Len(nodes) + 1
      /\ nodes'[Len(nodes) + 1] = n /\ \A k \in 1..Len(nodes) : nodes'[k] = nodes[k]
  BY <1>2, <1>3
<1>5. /\ Len(nodes) + 1 <= Len(t) /\ Len(w.said) = Len(nodes) + 1
      /\ w.said[Len(nodes) + 1] = 0
      /\ w.open = IF IsSelfClosed(buf) THEN open ELSE Len(nodes) + 1
  BY <1>1 DEF StartPending
<1>6. ASSUME NEW k \in 1..(Len(nodes) + 1)
      PROVE  NodeRead(nodes'[k], t[k], w.said[k])
  <2>1. CASE k \in 1..Len(nodes)
    BY <1>1, <1>4, <2>1 DEF TreeRead
  <2>2. CASE k = Len(nodes) + 1
    BY <1>1, <1>4, <1>5, <2>2
  <2>3. k \in 1..Len(nodes) \/ k = Len(nodes) + 1
    BY <1>2
  <2> QED
    BY <2>1, <2>2, <2>3
<1>7. TreeRead(t, w)'
  <2>1. Len(nodes') <= Len(t) /\ Len(nodes') <= Len(w.said)
    BY <1>2, <1>4, <1>5
  <2>2. \A k \in 1..Len(nodes') : NodeRead(nodes'[k], t[k], w.said[k])
    BY <1>4, <1>6
  <2> QED
    BY <2>1, <2>2 DEF TreeRead
<1> QED
  BY <1>1, <1>4, <1>5, <1>7

LEMMA StartFollows ==
  ASSUME NEW t, NEW w, Runs(t, w), StartTag
  PROVE  Follows(t, w)'
<1>1. /\ InTaking /\ Equals = 0 /\ ~IsSelfClosed(buf) /\ nodes' = Append(nodes, NewNode)
      /\ open' = Len(nodes) + 1 /\ phase' = Text /\ result' = result /\ result = "reading"
  BY DEF StartTag, TagTaken, InTaking, Reading
<1>2. /\ TreeRead(t, w)' /\ Len(w.said) = Len(nodes') /\ Len(nodes') = Len(nodes) + 1
      /\ w.at = "body" /\ w.open = IF IsSelfClosed(buf) THEN open ELSE Len(nodes')
  BY <1>1, NodeFollows
<1>3. w.open = open' /\ Reading'
  BY <1>1, <1>2 DEF Reading
<1> QED
  BY <1>1, <1>2, <1>3, InBody

LEMMA SelfClosedFollows ==
  ASSUME NEW t, NEW w, Runs(t, w), SelfClosed
  PROVE  Follows(t, w)'
<1>1. /\ InTaking /\ Equals = 0 /\ IsSelfClosed(buf) /\ nodes' = Append(nodes, NewNode)
      /\ Return(open) /\ phase' = Text
  BY DEF SelfClosed, TagTaken
<1>2. /\ TreeRead(t, w)' /\ Len(w.said) = Len(nodes') /\ nodes' \in Seq(Node)
      /\ w.at = "body" /\ w.open = open /\ (w.open = 0 => AllSaid(t, w.said))
  BY <1>1, NodeFollows
<1>3. CASE open = 0
  <2>1. result' = "built"
    BY <1>1, <1>3 DEF Return
  <2>2. \A k \in 1..Len(nodes') : NodeRead(nodes'[k], t[k], w.said[k])
    BY <1>2 DEF TreeRead
  <2>3. Tree(t)
    BY DEF Runs
  <2>4. nodes' = t
    BY <1>2, <1>3, <2>2, <2>3, WholeTree
  <2> QED
    BY <2>1, <2>4, IsBuilt
<1>4. CASE open # 0
  <2>1. Reading' /\ open' = open
    BY <1>1, <1>4 DEF Return, Reading
  <2> QED
    BY <1>1, <1>2, <2>1, InBody
<1> QED
  BY <1>3, <1>4

(* An end tag ends the node that is open. *)
LEMMA EndIs ==
  ASSUME NEW t, NEW w, Runs(t, w), TagRead, IsEndTag(buf)
  PROVE  /\ open # 0 /\ open \in 1..Len(nodes) /\ TreeRead(t, w)
         /\ Tail(TagName(buf)) = nodes[open].tag
         /\ Len(w.said) = Len(nodes) /\ w.open = nodes[open].parent
         /\ w.at = "body" /\ (w.open = 0 => AllSaid(t, w.said))
<1>1. result = "reading" /\ phase = 100
  BY DEF TagRead, Reading
<1>2. TreeRead(t, w) /\ Pends(t, w)
  BY <1>1 DEF Runs, Follows, Reading
<1>3. /\ open # 0 /\ Len(w.said) = Len(nodes) /\ w.open = t[open].parent
      /\ SpellsAll(buf, 2, t[open].tag)
      /\ w.at = "body" /\ (w.open = 0 => AllSaid(t, w.said))
  BY <1>1, <1>2 DEF Pends, EndPending
<1>4. /\ open \in 0..Len(nodes) /\ Len(nodes) \in Nat /\ Len(t) \in Nat /\ Len(nodes) <= Len(t)
      /\ buf \in Strings
  BY <1>1, RunsWith DEF Reading
<1>5. open \in 1..Len(nodes) /\ open \in 1..Len(t)
  BY <1>3, <1>4
<1>6. t[open].tag \in Strings
  BY <1>5, StringsOf DEF Runs
<1>7. Tail(TagName(buf)) = t[open].tag
  BY <1>3, <1>4, <1>6, EndName
<1>8. nodes[open].tag = t[open].tag /\ nodes[open].parent = t[open].parent
  BY <1>2, <1>5 DEF TreeRead, NodeRead
<1> QED
  BY <1>2, <1>3, <1>5, <1>7, <1>8

LEMMA EndFollows ==
  ASSUME NEW t, NEW w, Runs(t, w), EndTag
  PROVE  Follows(t, w)'
<1>1. TagRead /\ IsEndTag(buf) /\ phase' = Text /\ nodes' = nodes
  BY DEF EndTag, TagTaken
<1>2. /\ Tail(TagName(buf)) = nodes[open].tag /\ TreeRead(t, w)
      /\ Len(w.said) = Len(nodes) /\ w.open = nodes[open].parent
      /\ w.at = "body" /\ (w.open = 0 => AllSaid(t, w.said))
  BY <1>1, EndIs
<1>3. Return(nodes[open].parent)
  BY <1>2 DEF EndTag
<1>4. nodes \in Seq(Node) /\ Tree(t)
  BY RunsWith DEF Runs
<1>5. CASE w.open = 0
  <2>1. result' = "built"
    BY <1>2, <1>3, <1>5 DEF Return
  <2>2. \A k \in 1..Len(nodes) : NodeRead(nodes[k], t[k], w.said[k])
    BY <1>2 DEF TreeRead
  <2>3. nodes = t
    BY <1>2, <1>4, <1>5, <2>2, WholeTree
  <2> QED
    BY <1>1, <2>1, <2>3, IsBuilt
<1>6. CASE w.open # 0
  <2>1. Reading' /\ open' = w.open
    BY <1>2, <1>3, <1>6 DEF Return, Reading
  <2>2. TreeRead(t, w)'
    BY <1>1, <1>2 DEF TreeRead
  <2> QED
    BY <1>1, <1>2, <2>1, <2>2, InBody
<1> QED
  BY <1>5, <1>6

--------------------------------------------------------------------------------
(* A character of a text, and the tag of a child.                             *)
LEMMA InABody ==
  ASSUME NEW t, NEW w, Runs(t, w), InText
  PROVE  /\ result = "reading" /\ TreeRead(t, w) /\ w.at = "body" /\ w.open = open
         /\ Len(w.said) = Len(nodes) /\ open # 0 /\ open \in 1..Len(nodes)
         /\ w.said \in Seq(Nat) /\ nodes \in Seq(Node) /\ Len(nodes) \in Nat
         /\ open \in 1..Len(t)
<1>1. result = "reading" /\ phase = Text
  BY DEF InText, Reading
<1>2. TreeRead(t, w) /\ w.at = "body" /\ w.open = open /\ Len(w.said) = Len(nodes)
  BY <1>1 DEF Runs, Follows, Reading
<1>3. open # 0
  BY DEF Runs, IInv, TreeInv
<1>4. /\ nodes \in Seq(Node) /\ Len(nodes) \in Nat /\ open \in 0..Len(nodes)
      /\ w.said \in Seq(Nat) /\ Len(t) \in Nat /\ Len(nodes) <= Len(t)
  BY <1>1, RunsWith DEF Reading
<1> QED
  BY <1>1, <1>2, <1>3, <1>4

LEMMA LongerText ==
  ASSUME NEW n \in Node, NEW e, NEW m \in Nat, NodeRead(n, e, m), Len(e.text) \in Nat,
         m < Len(e.text), NEW c \in Chars, c = e.text[m + 1]
  PROVE  NodeRead([n EXCEPT !.text = Append(n.text, c)], e, m + 1)
<1> DEFINE s == n.text
           u == Append(s, c)
<1>1. s \in Seq(Chars)
  BY DEF Node, Strings
<1>2. Len(s) = m /\ \A i \in 1..m : s[i] = e.text[i]
  BY DEF NodeRead
<1>3. Len(u) = Len(s) + 1 /\ u[Len(s) + 1] = c /\ \A i \in 1..Len(s) : u[i] = s[i]
  <2> HIDE DEF s
  <2> QED
    BY <1>1
<1>4. [n EXCEPT !.text = u] = [tag |-> n.tag, attrs |-> n.attrs, text |-> u, parent |-> n.parent]
  <2> HIDE DEF u
  <2> QED
    BY DEF Node
<1> HIDE DEF u, s
<1>5. Len(u) = m + 1 /\ \A i \in 1..(m + 1) : u[i] = e.text[i]
  <2>1. \A i \in 1..(m + 1) : i \in 1..m \/ i = m + 1
    OBVIOUS
  <2> QED
    BY <1>2, <1>3, <2>1
<1>6. m + 1 <= Len(e.text)
  OBVIOUS
<1>7. n.tag = e.tag /\ n.attrs = e.attrs /\ n.parent = e.parent
  BY DEF NodeRead
<1>8. NodeRead([n EXCEPT !.text = u], e, m + 1)
  BY <1>4, <1>5, <1>6, <1>7 DEF NodeRead
<1> QED
  BY <1>8 DEF u, s

LEMMA TextFollows ==
  ASSUME NEW t, NEW w, NEW w2, Runs(t, w), w2 \in After(t, w, ch), ReadText
  PROVE  Follows(t, w2)'
<1>0. InText /\ More /\ ch # "<"
  BY DEF ReadText
<1>1. /\ result = "reading" /\ TreeRead(t, w) /\ w.at = "body" /\ w.open = open
      /\ Len(w.said) = Len(nodes) /\ open # 0 /\ open \in 1..Len(nodes)
      /\ w.said \in Seq(Nat) /\ nodes \in Seq(Node) /\ Len(nodes) \in Nat
      /\ open \in 1..Len(t)
  BY <1>0, InABody
<1>2. w \in Writer /\ Tree(t) /\ ch \in Chars
  <2>1. ch \in Chars
    BY <1>0 DEF Runs, IInv, ShapeInv, ShapeOK, Doc, Strings, More, ch
  <2> QED
    BY <2>1 DEF Runs
<1>3. /\ w.said[open] < Len(t[open].text) /\ ch = t[open].text[w.said[open] + 1]
      /\ w2.at = "body" /\ w2.open = open /\ w2.said = OneMoreSaid(w.said, open)
  <2>1. \/ ch = "<" /\ Becomes(w, w2, "<", w.n, w.attrs)
        \/ /\ w.said[w.open] < Len(t[w.open].text)
           /\ ch = t[w.open].text[w.said[w.open] + 1]
           /\ w2.at = "body" /\ w2.open = w.open /\ w2.said = OneMoreSaid(w.said, w.open)
    <3>1. w.at = "body" /\ w.open # 0 /\ w \in Writer
      BY <1>1, <1>2
    <3> QED
      BY <3>1, FromBody
  <2>2. w.open = open /\ ch # "<"
    BY <1>0, <1>1
  <2> QED
    BY <2>1, <2>2
<1> DEFINE m == w.said[open]
           x == [nodes[open] EXCEPT !.text = Append(nodes[open].text, ch)]
<1>4. m \in Nat /\ nodes[open] \in Node /\ Len(t[open].text) \in Nat
  <2>1. t[open].text \in Strings
    BY <1>1, <1>2, StringsOf
  <2> QED
    BY <1>1, <2>1 DEF Strings
<1>5. NodeRead(x, t[open], m + 1)
  <2>1. NodeRead(nodes[open], t[open], m)
    BY <1>1 DEF TreeRead
  <2> QED
    BY <1>2, <1>3, <1>4, <2>1, LongerText
<1>6. nodes' = [nodes EXCEPT ![open] = x] /\ open' = open /\ result' = result /\ phase' = phase
  BY DEF ReadText, tagVars
<1> HIDE DEF x
<1>7. /\ Len(nodes') = Len(nodes) /\ nodes'[open] = x
      /\ \A k \in 1..Len(nodes) : k # open => nodes'[k] = nodes[k]
  BY <1>1, <1>6
<1>8. /\ Len(w2.said) = Len(w.said) /\ w2.said[open] = m + 1
      /\ \A k \in 1..Len(w.said) : k # open => w2.said[k] = w.said[k]
  <2> PICK s \in Seq(Nat) : s = w.said
    BY <1>1
  <2>1. open \in 1..Len(s) /\ w2.said = [s EXCEPT ![open] = m + 1]
    BY <1>1, <1>3 DEF OneMoreSaid
  <2>2. /\ Len(w2.said) = Len(s) /\ w2.said[open] = m + 1
        /\ \A k \in 1..Len(s) : k # open => w2.said[k] = s[k]
    BY <2>1
  <2> QED
    BY <2>2
<1>9. TreeRead(t, w2)'
  <2>1. Len(nodes) <= Len(t) /\ \A k \in 1..Len(nodes) : NodeRead(nodes[k], t[k], w.said[k])
    BY <1>1 DEF TreeRead
  <2>2. \A k \in 1..Len(nodes) : NodeRead(nodes'[k], t[k], w2.said[k])
    BY <1>1, <1>5, <1>7, <1>8, <2>1
  <2>3. Len(nodes') <= Len(t) /\ Len(nodes') <= Len(w2.said)
    BY <1>1, <1>7, <1>8, <2>1
  <2> QED
    BY <1>7, <2>2, <2>3 DEF TreeRead
<1>10. Reading' /\ phase' = Text /\ Len(w2.said) = Len(nodes')
  BY <1>0, <1>1, <1>6, <1>7, <1>8 DEF Reading, InText
<1> QED
  BY <1>3, <1>6, <1>9, <1>10, InBody

LEMMA ChildFollows ==
  ASSUME NEW t, NEW w, Runs(t, w), ReadChild
  PROVE  Follows(t, w)'
<1>1. /\ InText /\ More /\ ch = "<" /\ phase' = 0
      /\ UNCHANGED <<doc, pos, nodes, open, result>>
  BY DEF ReadChild
<1>2. /\ result = "reading" /\ TreeRead(t, w) /\ w.at = "body" /\ w.open = open
      /\ Len(w.said) = Len(nodes) /\ open # 0
  BY <1>1, InABody
<1>3. TreeRead(t, w)'
  BY <1>1, <1>2 DEF TreeRead
<1>4. BeforeTag(w)'
  BY <1>1, <1>2 DEF BeforeTag, More, ch
<1>5. PhaseRead(t, w)'
  BY <1>1, <1>4 DEF PhaseRead
<1>6. Scans(t, w)'
  BY <1>1, <1>2, <1>5 DEF Scans
<1> QED
  BY <1>1, <1>2, <1>3, <1>6 DEF Follows, Reading, Taking, Text

--------------------------------------------------------------------------------
(* The end of the file, the way out, and the texts.                           *)

(* A writer that has finished leaves the reader in no tag and no body.         *)
LEMMA NothingOpen ==
  ASSUME NEW t, NEW w, Runs(t, w), Finished(w), ~More, InTag \/ InText
  PROVE  FALSE
<1>0. w.at = "body" /\ w.open = 0
  BY DEF Finished
<1>1. CASE InText
  BY <1>0, <1>1, InABody
<1>2. CASE InTag
  <2>1. result = "reading" /\ phase \in 0..21
    BY <1>2 DEF InTag, Reading
  <2>2. PhaseRead(t, w)
    BY <2>1 DEF Runs, Follows, Reading, Scans
  <2>3. phase # 0 /\ phase # 1
    BY <1>0, <2>2 DEF PhaseRead, BeforeTag
  <2>4. phase \notin (2..9) \union {13}
    <3> PICK e : e = This(t, w)
      OBVIOUS
    <3>1. SUFFICES ASSUME phase \in (2..9) \union {13} PROVE FALSE
      OBVIOUS
    <3>2. StartRead(phase, buf, spans, e, w)
      BY <2>2, <3>1 DEF PhaseRead
    <3> QED
      BY <1>0, <3>1, <3>2 DEF StartRead
  <2>5. phase \notin 10..12
    BY <1>0, <2>2 DEF PhaseRead, EndRead
  <2>6. phase \notin 14..21
    <3>1. SUFFICES ASSUME phase \in 14..21 PROVE FALSE
      OBVIOUS
    <3>2. SkipRead(phase, w)
      BY <2>2, <3>1 DEF PhaseRead
    <3> QED
      BY <1>0, <3>1, <3>2 DEF SkipRead
  <2> QED
    BY <2>1, <2>3, <2>4, <2>5, <2>6
<1> QED
  BY <1>1, <1>2

LEMMA EndOfFileFollows ==
  ASSUME NEW t, NEW w, Runs(t, w), ~More => Finished(w), EndInTag \/ EndInText
  PROVE  Follows(t, w)'
<1>1. /\ InTag \/ InText
      /\ cut' = More /\ result' \in {"failing", "wild"}
  BY DEF EndInTag, EndInText
<1>2. More
  BY <1>1, NothingOpen
<1> QED
  BY <1>1, <1>2 DEF Follows, Reading

LEMMA WayOutFollows ==
  ASSUME NEW t, NEW w, Runs(t, w), Unwind \/ ReturnNull
  PROVE  Follows(t, w)'
<1>1. result = "failing" /\ result' \in {"failing", "none"} /\ cut' = cut
  BY DEF Unwind, ReturnNull
<1>2. cut
  BY <1>1 DEF Runs, Follows
<1> QED
  BY <1>1, <1>2 DEF Follows, Reading

LEMMA CheckedFollows ==
  ASSUME NEW t, NEW w, Runs(t, w), InitNode
  PROVE  Follows(t, w)'
<1>1. result = "built" /\ result' = "tree" /\ nodes' = Checked(nodes)
  BY DEF InitNode
<1>2. nodes = t
  BY <1>1 DEF Runs, Follows
<1> QED
  BY <1>1, <1>2 DEF Follows, Reading

LEMMA StandsStill ==
  ASSUME NEW t, NEW w, Follows(t, w), UNCHANGED vars
  PROVE  Follows(t, w)'
<1>1. UNCHANGED <<doc, pos, cut, phase, square, buf, spans, nodes, open, result>>
  BY DEF vars, tagVars
<1>2. TreeRead(t, w)' <=> TreeRead(t, w)
  BY <1>1 DEF TreeRead
<1>3. Scans(t, w)' <=> Scans(t, w)
  <2>1. BeforeTag(w)' <=> BeforeTag(w)
    BY <1>1 DEF BeforeTag, More, ch
  <2>2. SkipRead(phase, w)' <=> SkipRead(phase, w)
    BY <1>1 DEF SkipRead
  <2>3. PhaseRead(t, w)' <=> PhaseRead(t, w)
    BY <1>1, <2>1, <2>2 DEF PhaseRead, EndRead, This
  <2> QED
    BY <1>1, <2>3 DEF Scans
<1>4. Pends(t, w)' <=> Pends(t, w)
  BY <1>1 DEF Pends, EndPending, StartPending
<1> QED
  BY <1>1, <1>2, <1>3, <1>4 DEF Follows, Reading

(* One step of the reader. *)
LEMMA StepFollows ==
  ASSUME NEW t, NEW w, NEW w2, Runs(t, w), [Next]_vars,
         ~More => Finished(w), More => w2 \in Writer /\ w2 \in After(t, w, ch)
  PROVE  \/ UNCHANGED <<doc, pos>> /\ Follows(t, w)'
         \/ More /\ pos' = pos + 1 /\ doc' = doc /\ Follows(t, w2)'
<1>1. CASE ReadChar
  <2>1. Tracks(t, w, w2) /\ More /\ pos' = pos + 1 /\ doc' = doc
    BY <1>1 DEF ReadChar, Runs, Tracks
  <2> QED
    BY <1>1, <2>1, CharFollows
<1>2. CASE BadChar
  <2>1. Tracks(t, w, w2) /\ \A r \in Rules(phase) : ch \notin r.on
    BY <1>2 DEF BadChar, Runs, Tracks
  <2> QED
    BY <2>1, Readable
<1>3. CASE EndInTag \/ EndInText
  BY <1>3, EndOfFileFollows DEF EndInTag, EndInText
<1>4. CASE TakeName
  BY <1>4, NameFollows DEF TakeName
<1>5. CASE TakeAttribute
  BY <1>5, AttributeFollows DEF TakeAttribute
<1>6. CASE StartTag
  BY <1>6, StartFollows DEF StartTag
<1>7. CASE SelfClosed
  BY <1>7, SelfClosedFollows DEF SelfClosed
<1>8. CASE EndTag
  BY <1>8, EndFollows DEF EndTag
<1>9. CASE EndTagAsRoot
  BY <1>9, EndIs DEF EndTagAsRoot
<1>10. CASE ReadText
  BY <1>10, TextFollows DEF ReadText
<1>11. CASE ReadChild
  BY <1>11, ChildFollows DEF ReadChild
<1>12. CASE Unwind \/ ReturnNull
  BY <1>12, WayOutFollows DEF Unwind, ReturnNull
<1>13. CASE InitNode
  BY <1>13, CheckedFollows DEF InitNode
<1>14. CASE UNCHANGED vars
  BY <1>14, StandsStill DEF vars, Runs
<1> QED
  BY <1>1, <1>2, <1>3, <1>4, <1>5, <1>6, <1>7, <1>8, <1>9, <1>10, <1>11, <1>12, <1>13,
     <1>14 DEF Next, Step

--------------------------------------------------------------------------------
(* The theorem.                                                              *)

(* Whoever wrote the file, whatever the tree: the reader follows.             *)
InStep == \A t, log : WrittenBy(doc, t, log) => Follows(t, log[pos])

LEMMA StartsInStep ==
  ASSUME Init
  PROVE  InStep
<1> SUFFICES ASSUME NEW t, NEW log, WrittenBy(doc, t, log)
             PROVE  Follows(t, log[pos])
  BY DEF InStep
<1>1. log[pos] = Fresh /\ Tree(t)
  BY DEF WrittenBy, Writing, Init
<1>2. /\ phase = 0 /\ nodes = <<>> /\ open = 0 /\ result = "reading" /\ Len(t) \in Nat
  BY <1>1 DEF Init, Tree
<1>3. Fresh.at = "before" /\ Fresh.open = 0 /\ Fresh.said = <<>>
  BY DEF Fresh
<1>4. TreeRead(t, Fresh)
  BY <1>2, <1>3 DEF TreeRead
<1>5. PhaseRead(t, Fresh)
  BY <1>2, <1>3 DEF PhaseRead, BeforeTag
<1>6. Scans(t, Fresh)
  BY <1>2, <1>3, <1>5 DEF Scans
<1> QED
  BY <1>1, <1>2, <1>4, <1>6 DEF Follows, Taking, Text

LEMMA StaysInStep ==
  ASSUME IInv, InStep, [Next]_vars
  PROVE  InStep'
<1>0. doc' = doc
  BY DEF Next, Step, vars, ReadChar, BadChar, EndInTag, TakeName, TakeAttribute, StartTag,
         SelfClosed, EndTag, EndTagAsRoot, ReadText, ReadChild, EndInText, Unwind,
         ReturnNull, InitNode
<1> SUFFICES ASSUME NEW t, NEW log, WrittenBy(doc, t, log)
             PROVE  Follows(t, log[pos])'
  BY <1>0 DEF InStep
<1>1. /\ Tree(t) /\ log \in Seq(Writer) /\ Len(log) = Len(doc.text) + 1
      /\ Finished(log[Len(log)])
      /\ \A i \in 1..Len(doc.text) : log[i + 1] \in After(t, log[i], doc.text[i])
  BY DEF WrittenBy, Writing
<1>2. pos \in Nat \ {0} /\ pos <= Len(doc.text) + 1 /\ Len(doc.text) \in Nat
  BY DEF IInv, ShapeInv, ShapeOK, RestOK, Doc, Strings
<1> PICK w : w = log[pos]
  OBVIOUS
<1> PICK w2 : w2 = log[pos + 1]
  OBVIOUS
<1>3. w \in Writer
  <2>1. pos \in 1..Len(log)
    BY <1>1, <1>2
  <2> QED
    BY <1>1, <2>1
<1>4. ~More => Finished(w)
  <2>1. ~More => pos = Len(log)
    BY <1>1, <1>2 DEF More
  <2> QED
    BY <1>1, <2>1
<1>5. More => w2 \in Writer /\ w2 \in After(t, w, ch)
  <2>1. More => pos \in 1..Len(doc.text) /\ pos + 1 \in 1..Len(log)
    BY <1>1, <1>2 DEF More
  <2> QED
    BY <1>1, <2>1 DEF ch
<1>6. Follows(t, w)
  BY DEF InStep
<1>7. Runs(t, w)
  BY <1>1, <1>3, <1>6 DEF Runs
<1>8. \/ pos' = pos /\ Follows(t, w)'
      \/ pos' = pos + 1 /\ Follows(t, w2)'
  BY <1>4, <1>5, <1>7, StepFollows
<1>9. CASE pos' = pos /\ Follows(t, w)'
  <2>1. log[pos'] = w
    BY <1>9
  <2> QED
    BY <1>9, <2>1
<1>10. CASE pos' = pos + 1 /\ Follows(t, w2)'
  <2>1. log[pos'] = w2
    BY <1>10
  <2> QED
    BY <1>10, <2>1
<1> QED
  BY <1>8, <1>9, <1>10

LEMMA AlwaysInStep == Spec => []InStep
<1>1. IInv /\ InStep /\ [Next]_vars => InStep'
  BY StaysInStep
<1> QED
  BY Always, StartsInStep, <1>1, PTL DEF Spec

LEMMA ReadAsWritten ==
  ASSUME IInv, CutInv, InStep, Written(doc), doc.good
  PROVE  ReadsWhatWasWritten
<1>1. PICK t, log : WrittenBy(doc, t, log)
  BY DEF Written
<1> PICK w : w = log[pos]
  OBVIOUS
<1>2. Follows(t, w) /\ doc.nodes = Checked(t)
  BY <1>1 DEF InStep, WrittenBy
<1>3. /\ result \in {"none", "wild"} => cut
      /\ result # "bare"
      /\ result = "tree" => nodes = doc.nodes
  BY <1>2 DEF Follows
<1>4. result = "tree" => ~cut
  BY DEF CutInv
<1>5. Ended => (result = "tree" <=> doc.good /\ ~cut)
  BY <1>3, <1>4 DEF Ended
<1>6. NothingLeft
  BY DEF IInv, TreeInv, NothingLeft
<1> QED
  BY <1>3, <1>5, <1>6 DEF ReadsWhatWasWritten

(* What was written is read: for every tree, every text a writer may make of it *)
(* (blanks between the attributes, either quote, empty tags, anything a reader   *)
(* skips before a tag), and wherever the file ends.  A complete file gives the    *)
(* tree it was written from, node for node, name for name, value for value; one   *)
(* that was cut short gives none and leaves nothing                            *)
(* (xmlInterface.cpp:56-399, 468-498).                                         *)
THEOREM WrittenIsRead == Spec => [](Written(doc) /\ doc.good => ReadsWhatWasWritten)
<1>1. IInv /\ CutInv /\ InStep => (Written(doc) /\ doc.good => ReadsWhatWasWritten)
  BY ReadAsWritten
<1> QED
  BY Always, AlwaysCut, AlwaysInStep, <1>1, PTL

================================================================================
