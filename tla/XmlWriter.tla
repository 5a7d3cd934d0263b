------------------------------- MODULE XmlWriter -------------------------------
(***************************************************************************)
(* What it means that a tree was written to a file: a definition to compare  *)
(* the reader with, for files of any length.  A writer goes through the tree   *)
(* in the order of the start tags and puts one character after the other.     *)
(* Blanks, quotes, empty tags, and what it puts before a tag for the reader   *)
(* to skip, are its own choice; so it is given as the set of states it may    *)
(* be in after a character (After), and what it did as the sequence of its    *)
(* states (Writing).                                                         *)
(*                                                                           *)
(* Nothing here looks at a tag as the reader does, through a buffer that is   *)
(* searched: the writer knows the tree.  Follows says how far the reader is    *)
(* with what has been written.                                               *)
(***************************************************************************)
EXTENDS XmlReader

Names == {s \in Seq(NameChars) : s # <<>> /\ s[1] \in NameStart}

(* A tab in a value is read as a space, and a '<' not at all. *)
Values == Seq(Chars \ {"<", "tab"})

Tree(t) ==
  /\ t \in Seq(Node)
  /\ \A k \in 1..Len(t) :
       /\ t[k].tag \in Names
       /\ \A i \in 1..Len(t[k].attrs) :
            t[k].attrs[i].name \in Names /\ t[k].attrs[i].value \in Values

(* Where the writer is; n characters of the name or value there are written,   *)
(* or n brackets are open; attrs attributes of the tag are written; quote is   *)
(* the one around the value; said[k] characters of the text of node k, for the *)
(* nodes begun; open is the node whose body is written, 0 before and after     *)
(* the root.                                                                 *)
Spots == {"before", "<", "tag", "gap", "attr", "equals", "value", "valued", "/", "end",
            "body", "instruction", "declaration", "dash", "comment", "comment-",
            "comment--", "bracket", "bracketed"}
Writer == [at : Spots, n : Nat, attrs : Nat, quote : {Quote, Apostrophe},
           said : Seq(Nat), open : Nat]

Fresh == [at |-> "before", n |-> 0, attrs |-> 0, quote |-> Quote, said |-> <<>>, open |-> 0]
Finished(w) == w.at = "body" /\ w.open = 0

--------------------------------------------------------------------------------
When(may, w) == IF may THEN {w} ELSE {}
Go(w, at) == [w EXCEPT !.at = at]
GoOn(w) == [w EXCEPT !.n = w.n + 1]
Start(w, at, n) == [w EXCEPT !.at = at, !.n = n]

(* The next character of a name is c; all of it is written. *)
Letter(w, s, c) == w.n < Len(s) /\ c = s[w.n + 1]
Whole(w, s) == w.n = Len(s)

(* The node whose tag is written, and its next attribute. *)
This(t, w) == t[Len(w.said) + 1]
Attribute(t, w) == This(t, w).attrs[w.attrs + 1]
MoreAttrs(t, w) == w.attrs < Len(This(t, w).attrs)

(* A tag that closes leaves the body of node o open.  Before the root closes    *)
(* all there is has been written.                                            *)
AllSaid(t, said) == /\ Len(said) = Len(t)
                    /\ \A k \in 1..Len(t) : said[k] = Len(t[k].text)
Closes(t, w, said, o) ==
  When(o = 0 => AllSaid(t, said), [w EXCEPT !.at = "body", !.said = said, !.open = o])

(* The '>' or '/' behind the last attribute. *)
EndsStart(t, w, c) ==
  LET m == Len(w.said) + 1 IN
  When(c = "/" /\ ~MoreAttrs(t, w), Go(w, "/"))
    \union When(c = ">" /\ ~MoreAttrs(t, w),
                [w EXCEPT !.at = "body", !.said = Append(w.said, 0), !.open = m])

AfterBefore(w, c) == When(c \in White, w) \union When(c = "<", Go(w, "<"))

AfterLess(t, w, c) ==
  When(c = "?", Go(w, "instruction")) \union When(c = "!", Go(w, "declaration"))
    \union When(c = "/" /\ w.open # 0, Start(w, "end", 0))
    \union When(/\ Len(w.said) < Len(t) /\ This(t, w).parent = w.open
                /\ c = This(t, w).tag[1],
                [w EXCEPT !.at = "tag", !.n = 1, !.attrs = 0])

AfterTag(t, w, c) ==
  LET s == This(t, w).tag IN
  When(Letter(w, s, c), GoOn(w))
    \union IF Whole(w, s) THEN When(c \in White, Go(w, "gap")) \union EndsStart(t, w, c) ELSE {}

AfterGap(t, w, c) ==
  When(c \in White, w) \union EndsStart(t, w, c)
    \union When(MoreAttrs(t, w) /\ c = Attribute(t, w).name[1], Start(w, "attr", 1))

AfterAttr(t, w, c) ==
  LET s == Attribute(t, w).name IN
  When(Letter(w, s, c), GoOn(w))
    \union When(Whole(w, s) /\ c \in White, w)
    \union When(Whole(w, s) /\ c = "=", Go(w, "equals"))

AfterEquals(w, c) ==
  When(c \in White, w)
    \union When(c \in {Quote, Apostrophe}, [w EXCEPT !.at = "value", !.n = 0, !.quote = c])

(* A space of a value may be written as any blank. *)
Shows(c, v, q) == IF v = Space THEN c \in White ELSE c = v /\ c # q

AfterValue(t, w, c) ==
  LET s == Attribute(t, w).value IN
  When(w.n < Len(s) /\ Shows(c, s[w.n + 1], w.quote), GoOn(w))
    \union When(Whole(w, s) /\ c = w.quote,
                [w EXCEPT !.at = "valued", !.attrs = w.attrs + 1])

AfterValued(t, w, c) == When(c \in White, Go(w, "gap")) \union EndsStart(t, w, c)

AfterSlash(t, w, c) ==
  IF c = ">" THEN Closes(t, w, Append(w.said, 0), w.open) ELSE {}

AfterEnd(t, w, c) ==
  LET s == t[w.open].tag IN
  When(Letter(w, s, c), GoOn(w))
    \union When(Whole(w, s) /\ c \in White, w)
    \union IF Whole(w, s) /\ c = ">" THEN Closes(t, w, w.said, t[w.open].parent) ELSE {}

(* Behind the root anything goes. *)
AfterBody(t, w, c) ==
  IF w.open = 0 THEN {w}
  ELSE LET k == w.open
           x == t[k].text
       IN When(c = "<", Go(w, "<"))
            \union When(/\ c # "<" /\ w.said[k] < Len(x) /\ c = x[w.said[k] + 1],
                        [w EXCEPT !.said = [w.said EXCEPT ![k] = w.said[k] + 1]])

(* What is skipped before a tag. *)
Skipping == {"instruction", "declaration", "dash", "comment", "comment-", "comment--",
             "bracket", "bracketed"}
AfterSkipped(w, c) ==
  CASE w.at \in {"instruction", "bracketed"} -> {IF c = ">" THEN Go(w, "before") ELSE w}
    [] w.at = "declaration" ->
         {IF c = ">" THEN Go(w, "before") ELSE IF c = "-" THEN Go(w, "dash")
          ELSE IF c = "[" THEN Start(w, "bracket", 1) ELSE Go(w, "instruction")}
    [] w.at = "dash" ->
         {IF c = ">" THEN Go(w, "before") ELSE IF c = "-" THEN Go(w, "comment")
          ELSE Go(w, "instruction")}
    [] w.at = "comment" -> {IF c = "-" THEN Go(w, "comment-") ELSE w}
    [] w.at = "comment-" -> {IF c = "-" THEN Go(w, "comment--") ELSE Go(w, "comment")}
    [] w.at = "comment--" -> When(c = ">", Go(w, "before"))
    [] w.at = "bracket" ->
         {IF c = "[" THEN GoOn(w)
          ELSE IF c = "]" THEN Start(w, IF w.n = 1 THEN "bracketed" ELSE "bracket", w.n - 1)
          ELSE w}

After(t, w, c) ==
  CASE w.at = "before" -> AfterBefore(w, c)
    [] w.at = "<" -> AfterLess(t, w, c)
    [] w.at = "tag" -> AfterTag(t, w, c)
    [] w.at = "gap" -> AfterGap(t, w, c)
    [] w.at = "attr" -> AfterAttr(t, w, c)
    [] w.at = "equals" -> AfterEquals(w, c)
    [] w.at = "value" -> AfterValue(t, w, c)
    [] w.at = "valued" -> AfterValued(t, w, c)
    [] w.at = "/" -> AfterSlash(t, w, c)
    [] w.at = "end" -> AfterEnd(t, w, c)
    [] w.at = "body" -> AfterBody(t, w, c)
    [] w.at \in Skipping -> AfterSkipped(w, c)

(* The writer puts text while it goes through the states of log. *)
Writing(t, text, log) ==
  /\ log \in Seq(Writer) /\ Len(log) = Len(text) + 1
  /\ log[1] = Fresh /\ Finished(log[Len(log)])
  /\ \A i \in 1..Len(text) : log[i + 1] \in After(t, log[i], text[i])

(* A document is the tree that was written, with the texts that count. *)
WrittenBy(d, t, log) == Tree(t) /\ Writing(t, d.text, log) /\ d.nodes = Checked(t)
Written(d) == \E t, log : WrittenBy(d, t, log)

--------------------------------------------------------------------------------
(* How far the reader is with what has been written.                         *)

(* The first n characters of s stand in b behind the first o; all of s, and     *)
(* the first space of b.                                                     *)
Spells(b, o, s, n) == o + n <= Len(b) /\ \A i \in 1..n : b[o + i] = s[i]
SpellsAll(b, o, s) == Spells(b, o, s, Len(s)) /\ FindSpace(b) = o + Len(s) + 1

NameStands(b, x, a) == /\ x.start > 0 /\ x.equals = x.start + Len(a.name)
                       /\ Spells(b, x.start - 1, a.name, Len(a.name))
AttrStands(b, x, a) == /\ NameStands(b, x, a)
                       /\ x.end = x.equals + 2 + Len(a.value)
                       /\ Spells(b, x.equals + 1, a.value, Len(a.value))
AttrsStand(b, s, al, n) == /\ n <= Len(s) /\ n <= Len(al)
                           /\ \A i \in 1..n : AttrStands(b, s[i], al[i])

(* In phase p of a start tag, with b collected and attributes seen at s.       *)
StartRead(p, b, s, e, w) ==
  LET x == s[Len(s)]
      a == e.attrs[w.attrs + 1]
  IN
  /\ p = 2 => /\ w.at = "tag" /\ w.n \in 1..Len(e.tag) /\ w.attrs = 0
              /\ Len(b) = w.n + 1 /\ Spells(b, 1, e.tag, w.n)
  /\ p \in (3..9) \union {13} =>
       SpellsAll(b, 1, e.tag) /\ AttrsStand(b, s, e.attrs, w.attrs)
  /\ p \in {3, 9, 13} => Len(s) = w.attrs
  /\ p = 3 => w.at = "gap"
  /\ p = 9 => w.at = "valued"
  /\ p = 13 => w.at = "/" /\ w.attrs = Len(e.attrs)
  /\ p \in 4..8 => Len(s) = w.attrs + 1 /\ w.attrs < Len(e.attrs)
  /\ p \in {4, 5} => /\ w.at = "attr" /\ w.n \in 1..Len(a.name)
                     /\ x.start > 0 /\ x.start + w.n = Len(b) + 1
                     /\ Spells(b, x.start - 1, a.name, w.n)
  /\ p = 5 => w.n = Len(a.name)
  /\ p \in 6..8 => NameStands(b, x, a)
  /\ p = 6 => w.at = "equals" /\ x.equals = Len(b)
  /\ p \in {7, 8} => /\ w.at = "value" /\ w.n \in 0..Len(a.value)
                     /\ w.quote = (IF p = 7 THEN Quote ELSE Apostrophe)
                     /\ x.equals + 1 + w.n = Len(b)
                     /\ Spells(b, x.equals + 1, a.value, w.n)

EndRead(p, b, e, w) ==
  /\ w.at = "end"
  /\ p = 10 => w.n = 0 /\ Len(b) = 2
  /\ p = 11 => w.n \in 1..Len(e.tag) /\ Len(b) = w.n + 2 /\ Spells(b, 2, e.tag, w.n)
  /\ p = 12 => w.n = Len(e.tag) /\ SpellsAll(b, 2, e.tag)

SkipRead(p, w) ==
  /\ p = 14 => w.at = "instruction"
  /\ p = 15 => w.at = "declaration"
  /\ p = 16 => w.at = "dash"
  /\ p = 17 => w.at = "comment"
  /\ p = 18 => w.at = "comment-"
  /\ p = 19 => w.at = "comment--"
  /\ p = 20 => w.at = "bracket" /\ w.n = square
  /\ p = 21 => w.at = "bracketed"

BeforeTag(w) == \/ w.at = "before"
                \/ w.at = "body" /\ w.open # 0 /\ More /\ ch = "<"

(* In the middle of a tag or before one.  A start tag is begun only if there is *)
(* a node left for it.                                                       *)
PhaseRead(t, w) ==
  /\ phase = 0 => BeforeTag(w)
  /\ phase = 1 => w.at = "<"
  /\ phase \in (2..9) \union {13} =>
       /\ Len(nodes) < Len(t) /\ This(t, w).parent = open
       /\ StartRead(phase, buf, spans, This(t, w), w)
  /\ phase \in 10..12 => open # 0 /\ EndRead(phase, buf, t[open], w)
  /\ phase \in 14..21 => SkipRead(phase, w)
Scans(t, w) == w.open = open /\ Len(w.said) = Len(nodes) /\ PhaseRead(t, w)

(* The tag is whole, and the writer a step ahead.                            *)
StartPending(t, w) ==
  LET m == Len(nodes) + 1
      e == t[m]
  IN
  /\ m <= Len(t) /\ Len(w.said) = m /\ w.said[m] = 0 /\ e.parent = open
  /\ w.open = (IF IsSelfClosed(buf) THEN open ELSE m)
  /\ SpellsAll(buf, 1, e.tag)
  /\ Len(spans) = Len(e.attrs) /\ AttrsStand(buf, spans, e.attrs, Len(spans))
EndPending(t, w) ==
  /\ open # 0 /\ Len(w.said) = Len(nodes) /\ w.open = t[open].parent
  /\ SpellsAll(buf, 2, t[open].tag)
Pends(t, w) ==
  /\ w.at = "body" /\ (w.open = 0 => AllSaid(t, w.said))
  /\ phase = 100 /\ IsEndTag(buf) => EndPending(t, w)
  /\ phase = Taking \/ ~IsEndTag(buf) => StartPending(t, w)

(* The nodes are those of the tree, their texts as far as they are written.    *)
NodeRead(n, e, said) ==
  /\ n.tag = e.tag /\ n.attrs = e.attrs /\ n.parent = e.parent
  /\ Len(n.text) = said /\ said <= Len(e.text)
  /\ \A i \in 1..said : n.text[i] = e.text[i]
TreeRead(t, w) ==
  /\ Len(nodes) <= Len(t) /\ Len(nodes) <= Len(w.said)
  /\ \A k \in 1..Len(nodes) : NodeRead(nodes[k], t[k], w.said[k])

Follows(t, w) ==
  /\ Reading =>
       /\ TreeRead(t, w)
       /\ phase \in 0..21 => Scans(t, w)
       /\ phase \in {100, Taking} => Pends(t, w)
       /\ phase = Text => w.at = "body" /\ w.open = open /\ Len(w.said) = Len(nodes)
  /\ result \in {"failing", "none", "wild"} => cut
  /\ result # "bare"
  /\ result = "built" => nodes = t
  /\ result = "tree" => nodes = Checked(t)
================================================================================
