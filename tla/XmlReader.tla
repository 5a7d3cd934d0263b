-------------------------------- MODULE XmlReader --------------------------------
(***************************************************************************)
(* The XML reader: readbasicxmlnode, which calls itself for every child     *)
(* tag, and the XML_Node copied from its tree.  Recipes and the             *)
(* configuration file go through it.                                        *)
(*                                                                           *)
(* A call first collects one tag into buf, with a space after the name and    *)
(* after every attribute and most other white space dropped; then takes the   *)
(* tag apart; then, if the tag has a body, reads text up to the next '<' and  *)
(* calls itself.  The tree is kept flat, in the order of the start tags, each *)
(* node with the index of its parent; the calls under way are the open node   *)
(* and its ancestors.                                                         *)
(*                                                                           *)
(* A file may be shorter than what was to be written to it: parseXML writes   *)
(* /tmp/loadxml.xml without looking whether that worked.  No memory is ever    *)
(* short here, and growing a buffer is left out.                              *)
(***************************************************************************)
EXTENDS Naturals, Sequences, FiniteSets

CONSTANTS
  Letters, Digits, Others,  \* characters without a meaning of their own
  Docs                      \* files: the text, the tree it was written from, and
                            \* whether it was left undamaged

Space == " "
Quote == "\""
Apostrophe == "'"
White == {Space, "tab"}
NameStart == Letters \union {"_"}                        \* isn1
NameChars == NameStart \union {"-", "."} \union Digits   \* isn2
Chars == NameChars \union White \union Others
           \union {"<", ">", "/", "=", "?", "!", "[", "]", Quote, Apostrophe}

(* A character of the three sets is none the reader looks for by itself. *)
Marks == White \union {"<", ">", "/", "=", "?", "!", Quote, Apostrophe}
ASSUME CharsAssumption == (Letters \union Digits \union Others) \intersect Marks = {}

Strings == Seq(Chars)
Attr == [name : Strings, value : Strings]
Node == [tag : Strings, attrs : Seq(Attr), text : Strings, parent : Nat]

Doc == [text : Strings, nodes : Seq(Node), good : BOOLEAN]

ASSUME DocsAssumption == Docs \subseteq Doc

VARIABLES
  doc, pos,     \* the file and the character fgetc returns next
  cut,          \* history: the file has ended before the text of doc
  phase,        \* of the tag being read; or Taking its attributes; or Text, in
                \* a node's body
  square,       \* nesting of [ in <![...]>
  buf,          \* the tag collected so far
  spans,        \* history: where the phases saw the attributes of buf
  ps, attrs,    \* where the next attribute begins in buf; those taken
  nodes, open,  \* the tree so far; the node whose body is read, 0 for none
  result        \* "reading", "failing" (callers are told), "built"; then "tree",
                \* "none" (NULL), "bare" (an end tag as root) or "wild"

tagVars == <<phase, square, buf, spans, ps, attrs>>
vars == <<doc, pos, cut, tagVars, nodes, open, result>>

(* Not phases of the code's switch. *)
Taking == 150
Text == 200

Span == [start : Nat, equals : Nat, end : Nat]

TypeOK ==
  /\ doc \in Doc /\ pos \in 1..(Len(doc.text) + 1) /\ cut \in BOOLEAN
  /\ phase \in (0..21) \union {100, Taking, Text} /\ square \in Nat
  /\ buf \in Strings /\ spans \in Seq(Span)
  /\ ps \in Nat /\ attrs \in Seq(Attr)
  /\ nodes \in Seq(Node) /\ open \in 0..Len(nodes)
  /\ result \in {"reading", "failing", "built", "tree", "none", "bare", "wild"}

Init ==
  /\ doc \in Docs /\ pos = 1 /\ cut = FALSE
  /\ phase = 0 /\ square = 0 /\ buf = <<>> /\ spans = <<>>
  /\ ps = 0 /\ attrs = <<>>
  /\ nodes = <<>> /\ open = 0 /\ result = "reading"

--------------------------------------------------------------------------------
(* Collecting a tag.                                                         *)

(* What the switch does in phase p: on these characters go to that phase and  *)
(* store nothing, the character, a space, both, or take the '<' back.          *)
R(on, go, put) == [on |-> on, go |-> go, put |-> put]
Other(seen) == Chars \ seen

Rules(p) ==
  CASE p = 0 -> {R(White, 0, "nothing"), R({"<"}, 1, "char")}
    [] p = 1 -> {R({"/"}, 10, "char"), R({"?"}, 14, "back"), R({"!"}, 15, "back"),
                 R(NameStart, 2, "char")}
    [] p = 2 -> {R(White, 3, "space"), R({"/"}, 13, "spaced"), R({">"}, 100, "spaced"),
                 R(NameChars, 2, "char")}
    [] p = 3 -> {R(White, 3, "nothing"), R({"/"}, 13, "char"), R({">"}, 100, "char"),
                 R(NameStart, 4, "char")}
    [] p = 4 -> {R(White, 5, "nothing"), R({"="}, 6, "char"), R(NameChars, 4, "char")}
    [] p = 5 -> {R(White, 5, "nothing"), R({"="}, 6, "char")}
    [] p = 6 -> {R(White, 6, "nothing"), R({Quote}, 7, "char"), R({Apostrophe}, 8, "char")}
    [] p = 7 -> {R(White, 7, "space"), R({Quote}, 9, "char"),
                 R(Other(White \union {"<", Quote}), 7, "char")}
    [] p = 8 -> {R(White, 8, "space"), R({Apostrophe}, 9, "char"),
                 R(Other(White \union {"<", Apostrophe}), 8, "char")}
    [] p = 9 -> {R(White, 3, "space"), R({"/"}, 13, "spaced"), R({">"}, 100, "spaced")}
    [] p = 10 -> {R(NameStart, 11, "char")}
    [] p = 11 -> {R(White, 12, "space"), R({">"}, 100, "spaced"), R(NameChars, 11, "char")}
    [] p = 12 -> {R(White, 12, "nothing"), R({">"}, 100, "char")}
    [] p = 13 -> {R({">"}, 100, "char")}
    [] p \in {14, 21} -> {R({">"}, 0, "nothing"), R(Other({">"}), p, "nothing")}
    [] p = 15 -> {R({">"}, 0, "nothing"), R({"-"}, 16, "nothing"), R({"["}, 20, "nothing"),
                  R(Other({">", "-", "["}), 14, "nothing")}
    [] p = 16 -> {R({">"}, 0, "nothing"), R({"-"}, 17, "nothing"),
                  R(Other({">", "-"}), 14, "nothing")}
    [] p = 17 -> {R({"-"}, 18, "nothing"), R(Other({"-"}), 17, "nothing")}
    [] p = 18 -> {R({"-"}, 19, "nothing"), R(Other({"-"}), 17, "nothing")}
    [] p = 19 -> {R({">"}, 0, "nothing")}
    [] p = 20 -> {R({"["}, 20, "nothing"), R({"]"}, IF square = 1 THEN 21 ELSE 20, "nothing"),
                  R(Other({"[", "]"}), 20, "nothing")}

(* Seeded fault: no space before the '>' or '/' that ends a tag. *)
StoredBare(put, c) ==
  CASE put = "nothing" -> buf
    [] put = "back" -> <<>>
    [] put \in {"char", "spaced"} -> Append(buf, c)
    [] put = "space" -> Append(buf, Space)

Stored(put, c) ==
  CASE put = "nothing" -> buf
    [] put = "back" -> <<>>
    [] put = "char" -> Append(buf, c)
    [] put = "space" -> Append(buf, Space)
    [] put = "spaced" -> Append(Append(buf, Space), c)

Brackets(p, c) == IF p \in {15, 20} /\ c = "[" THEN square + 1
                  ELSE IF p = 20 /\ c = "]" THEN square - 1 ELSE square

(* History: a name begins, its '=' is read, the quote that ends its value is. *)
Seen(p, go) ==
  LET here == Len(buf) + 1
      last == Len(spans)
  IN IF p = 3 /\ go = 4
       THEN Append(spans, [start |-> here, equals |-> 0, end |-> 0])
     ELSE IF p \in {4, 5} /\ go = 6 THEN [spans EXCEPT ![last].equals = here]
     ELSE IF p \in {7, 8} /\ go = 9 THEN [spans EXCEPT ![last].end = here]
     ELSE spans

Reading == result = "reading"
InTag == Reading /\ phase \in 0..21
More == pos <= Len(doc.text)
ch == doc.text[pos]

ReadChar ==
  /\ InTag /\ More
  /\ \E r \in Rules(phase) :
       /\ ch \in r.on
       /\ phase' = r.go /\ buf' = Stored(r.put, ch) /\ spans' = Seen(phase, r.go)
  /\ square' = Brackets(phase, ch)
  /\ pos' = pos + 1
  /\ UNCHANGED <<doc, cut, ps, attrs, nodes, open, result>>

(* err: 3, a character that does not belong here; 4, the file ends in a tag. *)
BadChar ==
  /\ InTag /\ More
  /\ \A r \in Rules(phase) : ch \notin r.on
  /\ result' = "failing" /\ pos' = pos + 1
  /\ UNCHANGED <<doc, cut, tagVars, nodes, open>>

EndInTag ==
  /\ InTag
  /\ result' = "failing" /\ cut' = More
  /\ UNCHANGED <<doc, pos, tagVars, nodes, open>>

--------------------------------------------------------------------------------
(* Taking the tag apart.  strchr and strstr find the first place at or after  *)
(* one; 0 stands for NULL.                                                   *)
First(S) == IF S = {} THEN 0 ELSE CHOOSE i \in S : \A j \in S : i <= j
FindPair(b, c, d, from) == First({i \in from..(Len(b) - 1) : b[i] = c /\ b[i + 1] = d})
FindSpace(b) == First({i \in 1..Len(b) : b[i] = Space})

TagName(b) == SubSeq(b, 2, FindSpace(b) - 1)
IsEndTag(b) == b[2] = "/"
IsSelfClosed(b) == b[Len(b) - 1] = "/"

(* The arrays for the attributes: one place for every quote and space, and one. *)
ClosingQuotes(b) == {i \in FindSpace(b)..(Len(b) - 1) :
                      b[i] \in {Quote, Apostrophe} /\ b[i + 1] = Space}
Places(b) == Cardinality(ClosingQuotes(b)) + 1

TagRead == Reading /\ phase = 100
TagTaken == phase' = Text /\ buf' = <<>> /\ spans' = <<>> /\ ps' = 0 /\ attrs' = <<>>

(* The attributes begin behind the space after the tag's name. *)
TakeName ==
  /\ TagRead /\ ~IsEndTag(buf)
  /\ phase' = Taking /\ ps' = FindSpace(buf) + 1
  /\ UNCHANGED <<doc, pos, cut, square, buf, spans, attrs, nodes, open, result>>

(* Seeded fault: the =" is taken though a =' is nearer. *)
QuoteFirst ==
  LET q == FindPair(buf, "=", Quote, ps)
  IN IF q = 0 THEN FindPair(buf, "=", Apostrophe, ps) ELSE q

(* The nearer of =" and =' is where a name ends, and tells the end of its     *)
(* value, which is a quote and a space.                                       *)
Equals == First({FindPair(buf, "=", q, ps) : q \in {Quote, Apostrophe}} \ {0})
ValueEnd == FindPair(buf, buf[Equals + 1], Space, Equals + 2)

InTaking == Reading /\ phase = Taking

TakeAttribute ==
  /\ InTaking /\ Equals # 0
  /\ attrs' = Append(attrs, [name |-> SubSeq(buf, ps, Equals - 1),
                             value |-> SubSeq(buf, Equals + 2, ValueEnd - 1)])
  /\ ps' = ValueEnd + 2
  /\ UNCHANGED <<doc, pos, cut, phase, square, buf, spans, nodes, open, result>>

NewNode == [tag |-> TagName(buf), attrs |-> attrs, text |-> <<>>, parent |-> open]

(* The call for node n returns its node; the caller goes on with its body. *)
Return(n) == IF n = 0 THEN result' = "built" /\ open' = 0
                      ELSE result' = "reading" /\ open' = n

StartTag ==
  /\ InTaking /\ Equals = 0 /\ ~IsSelfClosed(buf)
  /\ nodes' = Append(nodes, NewNode) /\ open' = Len(nodes) + 1
  /\ TagTaken
  /\ UNCHANGED <<doc, pos, cut, square, result>>

SelfClosed ==
  /\ InTaking /\ Equals = 0 /\ IsSelfClosed(buf)
  /\ nodes' = Append(nodes, NewNode)
  /\ Return(open)
  /\ TagTaken
  /\ UNCHANGED <<doc, pos, cut, square>>

(* Seeded fault: any end tag will do. *)
EndTagOfAnyName ==
  /\ TagRead /\ IsEndTag(buf) /\ open # 0
  /\ Return(nodes[open].parent)
  /\ TagTaken
  /\ UNCHANGED <<doc, pos, cut, square, nodes>>

(* The end tag of the open node completes it; that of another is err 13. *)
EndTag ==
  /\ TagRead /\ IsEndTag(buf) /\ open # 0
  /\ IF Tail(TagName(buf)) = nodes[open].tag
       THEN Return(nodes[open].parent)
       ELSE result' = "failing" /\ open' = open
  /\ TagTaken
  /\ UNCHANGED <<doc, pos, cut, square, nodes>>

(* Nobody compares a root that is an end tag.  Its node has no text, which    *)
(* the header calls "always non-NULL", and initNode reads it.                 *)
EndTagAsRoot ==
  /\ TagRead /\ IsEndTag(buf) /\ open = 0
  /\ result' = "bare"
  /\ UNCHANGED <<doc, pos, cut, tagVars, nodes, open>>

--------------------------------------------------------------------------------
(* The body of a node.                                                       *)
InText == Reading /\ phase = Text

ReadText ==
  /\ InText /\ More /\ ch # "<"
  /\ nodes' = [nodes EXCEPT ![open].text = Append(@, ch)]
  /\ pos' = pos + 1
  /\ UNCHANGED <<doc, cut, tagVars, open, result>>

(* The '<' is put back for the child's call. *)
ReadChild ==
  /\ InText /\ More /\ ch = "<"
  /\ phase' = 0
  /\ UNCHANGED <<doc, pos, cut, square, buf, spans, ps, attrs, nodes, open, result>>

Children(n) == {k \in 1..Len(nodes) : nodes[k].parent = n}

(* Seeded fault: the end of the file is not looked for in a body. *)
EndInTextUnseen == InText /\ ~More /\ UNCHANGED vars

(* err 11.  The loop leaves one too far on: the entry after the last child is *)
(* skipped and NULL is stored behind it.  Without a child the skipped entry    *)
(* was set before; with one it is whatever the memory held, and the delete     *)
(* that follows runs into it.                                                  *)
EndInText ==
  /\ InText
  /\ cut' = More
  /\ \/ result' = "failing"
     \/ Children(open) # {} /\ result' = "wild"
  /\ UNCHANGED <<doc, pos, tagVars, nodes, open>>

--------------------------------------------------------------------------------
(* A node is deleted with all its children, and those follow it in the order  *)
(* of the tags.                                                              *)
Deleted(n) == SubSeq(nodes, 1, n - 1)

(* A call that fails deletes its node and returns NULL: err 14 for its caller. *)
UnwindLeavesOpen ==   \* seeded fault
  /\ result = "failing" /\ open # 0
  /\ nodes' = Deleted(open) /\ open' = open
  /\ UNCHANGED <<doc, pos, cut, tagVars, result>>

Unwind ==
  /\ result = "failing" /\ open # 0
  /\ nodes' = Deleted(open) /\ open' = nodes[open].parent
  /\ UNCHANGED <<doc, pos, cut, tagVars, result>>

ReturnNull ==
  /\ result = "failing" /\ open = 0
  /\ result' = "none"
  /\ UNCHANGED <<doc, pos, cut, tagVars, nodes, open>>

(* XML_Node::initNode: a text of white space only is none. *)
IsValidText(s) == \E i \in 1..Len(s) : s[i] \notin White

Checked(t) == [k \in 1..Len(t) |->
                 [t[k] EXCEPT !.text = IF IsValidText(@) THEN @ ELSE <<>>]]

InitNode ==
  /\ result = "built"
  /\ nodes' = Checked(nodes)
  /\ result' = "tree"
  /\ UNCHANGED <<doc, pos, cut, tagVars, open>>

Ended == result \in {"tree", "none", "bare", "wild"}

Step == \/ ReadChar \/ BadChar \/ EndInTag
        \/ TakeName \/ TakeAttribute \/ StartTag \/ SelfClosed \/ EndTag \/ EndTagAsRoot
        \/ ReadText \/ ReadChild \/ EndInText
        \/ Unwind \/ ReturnNull \/ InitNode

Next == Step \/ (Ended /\ UNCHANGED vars)

Spec == Init /\ [][Next]_vars

(* The reader is a plain loop: as long as it can, it goes on. *)
FairSpec == Spec /\ WF_vars(Step)

--------------------------------------------------------------------------------
(* Properties.                                                               *)

(* What is left when a reading fails: nothing (xmlInterface.cpp:374-399). *)
NothingLeft == result = "none" => nodes = <<>>

(* A tree is read from a file exactly if it is undamaged and complete, and    *)
(* then it is the tree the file was written from: every name, attribute and   *)
(* text at its place, whatever quotes, blanks, comments and empty tags the     *)
(* writer used.  A refused file leaves nothing behind                          *)
(* (xmlInterface.cpp:56-399, 468-498).                                        *)
ReadsWhatWasWritten ==
  /\ Ended => (result = "tree" <=> doc.good /\ ~cut)
  /\ result = "tree" => nodes = doc.nodes
  /\ NothingLeft

(* What the code says of a collected tag: "<tag > or </tag > or <tag /> or     *)
(* <tag attr="value" ... >" (xmlInterface.cpp:232-235).  It has a space, or    *)
(* strchr would return NULL, and "/" before the last ">" only if the tag is    *)
(* self-closed.                                                               *)
HasSpace == \E i \in 1..Len(buf) : buf[i] = Space
EndsTag(b) == LET n == Len(b) IN
  /\ n > 2 /\ b[n] = ">"
  /\ \/ b[n - 1] = Space
     \/ b[n - 1] = "/" /\ b[n - 2] = Space
TagForm == phase \in {100, Taking} => HasSpace /\ EndsTag(buf)

(* A tag is read twice: the phases tell its attributes by state, the loop      *)
(* that takes it apart by searching for =" or =' and for a quote and a space    *)
(* (xmlInterface.cpp:278-300).  Both find the same attributes, whatever quotes, *)
(* equal signs and blanks their values hold; no search comes back with NULL    *)
(* where the loop computes with the result.                                   *)
ScannedAttribute(i) == [name |-> SubSeq(buf, spans[i].start, spans[i].equals - 1),
                        value |-> SubSeq(buf, spans[i].equals + 2, spans[i].end - 1)]
AttributesAsScanned ==
  InTaking =>
    /\ Len(attrs) <= Len(spans)
    /\ \A i \in 1..Len(attrs) : attrs[i] = ScannedAttribute(i)
    /\ Equals = 0 => Len(attrs) = Len(spans)
    /\ Equals # 0 => ValueEnd # 0

(* "estimate # of attrs and values (maybe too much)" (xmlInterface.cpp:263):    *)
(* never too few for the attributes and the NULL behind them.                  *)
ArraysSuffice == InTaking => Len(attrs) < Places(buf)

(* Every reading comes to an end. *)
Ends == <>Ended

(* The children of every node end with NULL (xmlInterface.h:46-48), so a       *)
(* delete never runs past them.                                               *)
NullMarksEnd == result # "wild"

--------------------------------------------------------------------------------
(* Why TagForm holds: what buf looks like in each phase.                     *)
LastIs(c) == Len(buf) > 0 /\ buf[Len(buf)] = c
ScanInv ==
  /\ phase \in {0, 14, 15, 16, 17, 18, 19, 20, 21, Text} => buf = <<>>
  /\ phase \in {1, 2, 10, 11} => Len(buf) > 0
  /\ phase \in {3, 4, 5, 6, 7, 8, 9, 12, 13} => HasSpace
  /\ phase \in {3, 12} => LastIs(Space) /\ Len(buf) > 1
  /\ phase = 13 => LastIs("/") /\ Len(buf) > 1 /\ buf[Len(buf) - 1] = Space

(* Why both readings of a tag agree: the attributes stand one behind the       *)
(* other, no name holds an equal sign, no value the quote it stands in, and     *)
(* what follows the last one no equal sign.                                   *)
No(b, c, from, to) == \A j \in from..to : b[j] # c
StartOf(b, s, i) == IF i = 1 THEN FindSpace(b) + 1 ELSE s[i - 1].end + 2

Named(b, from, x) == /\ x.start = from /\ from <= Len(b)
                     /\ No(b, "=", from, Len(b))
Equated(b, from, x) == /\ x.start = from /\ from < x.equals /\ x.equals <= Len(b)
                       /\ b[x.equals] = "=" /\ No(b, "=", from, x.equals - 1)
Opened(b, from, x, q) == /\ Equated(b, from, x)
                         /\ x.equals < Len(b) /\ b[x.equals + 1] = q
Closed(b, from, x) == \E q \in {Quote, Apostrophe} :
  /\ Opened(b, from, x, q)
  /\ x.equals + 1 < x.end /\ x.end <= Len(b)
  /\ b[x.end] = q /\ No(b, q, x.equals + 2, x.end - 1)
Placed(b, from, x) == Closed(b, from, x) /\ x.end < Len(b) /\ b[x.end + 1] = Space
PlacedUpTo(b, s, n) == \A i \in 1..n : Placed(b, StartOf(b, s, i), s[i])
LaidOut(b, s) == PlacedUpTo(b, s, Len(s)) /\ No(b, "=", StartOf(b, s, Len(s) + 1), Len(b))

SpansAt(p, b, s) ==
  LET n == Len(s)
      from == StartOf(b, s, n)
      x == s[n]
  IN
  /\ p \in {0, 1, 2, Text} \union (10..12) \union (14..21) => s = <<>>
  /\ p = 1 => Len(b) = 1 /\ b[1] = "<"
  /\ p \in 2..13 => Len(b) > 1
  /\ p \in {2, 10, 11} => No(b, Space, 1, Len(b))
  /\ p \in (2..9) \union {13, Taking} => ~IsEndTag(b)
  /\ p \in 10..12 => IsEndTag(b)
  /\ p = 3 => PlacedUpTo(b, s, n) /\ StartOf(b, s, n + 1) = Len(b) + 1
  /\ p \in 4..9 => s # <<>> /\ PlacedUpTo(b, s, n - 1)
  /\ p \in {4, 5} => Named(b, from, x)
  /\ p = 6 => Equated(b, from, x) /\ x.equals = Len(b)
  /\ p = 7 => Opened(b, from, x, Quote) /\ No(b, Quote, x.equals + 2, Len(b))
  /\ p = 8 => Opened(b, from, x, Apostrophe) /\ No(b, Apostrophe, x.equals + 2, Len(b))
  /\ p = 9 => Closed(b, from, x) /\ x.end = Len(b)
  /\ p \in {13, Taking} => LaidOut(b, s)
  /\ p = 100 => IsEndTag(b) \/ LaidOut(b, s)
SpansInv == SpansAt(phase, buf, spans)

(* The attributes taken so far are the first ones of the tag. *)
TakingInv ==
  /\ phase # Taking => attrs = <<>> /\ ps = 0
  /\ phase = Taking =>
       /\ Len(attrs) <= Len(spans) /\ ps = StartOf(buf, spans, Len(attrs) + 1)
       /\ \A i \in 1..Len(attrs) : attrs[i] = ScannedAttribute(i)

(* A '[' is open in phase 20 and in no other. *)
SquareInv == square > 0 <=> phase = 20

(* The open node and its ancestors: every parent stands before its children,  *)
(* the first node alone has none, and nothing is open only before the root and *)
(* after it.                                                                  *)
TreeInv ==
  /\ \A k \in 1..Len(nodes) : nodes[k].parent < k /\ (nodes[k].parent = 0 => k = 1)
  /\ InText => open # 0
  /\ result = "none" => open = 0
  /\ result \in {"reading", "failing", "none"} /\ open = 0 => nodes = <<>>

(* The tags nest: what comes behind a node stands below it, or at the node's    *)
(* level or further up, and so does the open node.                            *)
NestInv ==
  /\ \A i \in 1..Len(nodes) : \A k \in 1..(i - 1) :
       nodes[i].parent >= k \/ nodes[i].parent <= nodes[k].parent
  /\ \A k \in 1..Len(nodes) : open >= k \/ open <= nodes[k].parent

(* So the nodes from the open one on are its subtree and nothing else: the      *)
(* delete of a node that fails, which takes the children with it, ends where   *)
(* the calls still under way begin (xmlInterface.cpp:38-54, 374-381).           *)
SubtreeLast ==
  open # 0 => \A k \in (open + 1)..Len(nodes) : nodes[k].parent >= open

(* A file that was cut short is given up, at whatever character                *)
(* (xmlInterface.cpp:91-92, 228-230, 324-328).                                 *)
CutInv == cut => result \in {"failing", "none", "wild"}

ReaderInv == TagForm /\ ScanInv /\ SpansInv /\ TakingInv /\ SquareInv /\ TreeInv
             /\ ArraysSuffice /\ NestInv /\ SubtreeLast /\ CutInv

--------------------------------------------------------------------------------
(* How far a reading is from its end: it goes on through reading, failing (or   *)
(* built) and ended; within that, through the file; between two characters,    *)
(* through the tag.                                                           *)
Stage == CASE result = "reading" -> 2 [] result \in {"failing", "built"} -> 1
           [] OTHER -> 0
Unread == Len(doc.text) + 1 - pos
Work == IF result # "reading" THEN open
        ELSE IF phase \in {100, Taking}
               THEN Len(spans) - Len(attrs) + (IF phase = 100 THEN 3 ELSE 2)
        ELSE IF phase = Text THEN 1 ELSE 0

(* Every step of the reader is progress: no loop of it goes round without      *)
(* having come closer to its end (xmlInterface.cpp:91-227, 281-300, 324-355).   *)
Nearer == \/ Stage' < Stage
          \/ Stage' = Stage /\ Unread' < Unread
          \/ Stage' = Stage /\ Unread' = Unread /\ Work' < Work
MakesProgress == [][Nearer]_vars
================================================================================
