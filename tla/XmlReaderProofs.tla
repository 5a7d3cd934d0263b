----------------------------- MODULE XmlReaderProofs -----------------------------
(***************************************************************************)
(* Proofs about XmlReader, for every set of files: what a collected tag      *)
(* looks like, and that taking it apart finds in it what the phases saw; that *)
(* the tree is always one, and nothing of it is left when a reading fails;    *)
(* that every step brings the reading nearer its end.  That the tree is the    *)
(* one a file was written from is in XmlRoundTripProofs.                      *)
(***************************************************************************)
EXTENDS XmlReader, FiniteSetTheorems, SequenceTheorems, WellFoundedInduction, TLAPS

(* The types the scanning relies on. *)
ShapeOK ==
  /\ doc \in Doc /\ pos \in Nat \ {0}
  /\ phase \in (0..21) \union {100, Taking, Text}
  /\ buf \in Strings
  /\ nodes \in Seq(Node) /\ open \in 0..Len(nodes)

ShapeInv == ShapeOK /\ ScanInv /\ TagForm

LEMMA Blanks == Space \in Chars
  BY DEF Chars, White

(* One more character. *)
LEMMA Appended ==
  ASSUME NEW b \in Strings, NEW c \in Chars
  PROVE  /\ Append(b, c) \in Strings
         /\ Len(Append(b, c)) = Len(b) + 1
         /\ Append(b, c)[Len(b) + 1] = c
         /\ \A i \in 1..Len(b) : Append(b, c)[i] = b[i]
         /\ Len(b) \in Nat
  BY DEF Strings

(* What a rule's way of storing makes of buf. *)
LEMMA StoredChar ==
  ASSUME ShapeOK, NEW c \in Chars, buf' = Stored("char", c)
  PROVE  /\ buf' \in Strings /\ Len(buf') = Len(buf) + 1 /\ Len(buf) \in Nat
         /\ buf'[Len(buf')] = c
         /\ HasSpace => HasSpace'
         /\ \A i \in 1..Len(buf) : buf'[i] = buf[i]
<1>1. buf' = Append(buf, c) /\ buf \in Strings
  BY DEF Stored, ShapeOK
<1>1a. /\ Append(buf, c) \in Strings /\ Len(Append(buf, c)) = Len(buf) + 1
      /\ Append(buf, c)[Len(buf) + 1] = c /\ Len(buf) \in Nat
      /\ \A i \in 1..Len(buf) : Append(buf, c)[i] = buf[i]
  BY <1>1, Appended, Zenon
<1>2. /\ buf' \in Strings /\ Len(buf') = Len(buf) + 1 /\ Len(buf) \in Nat
      /\ buf'[Len(buf) + 1] = c /\ \A i \in 1..Len(buf) : buf'[i] = buf[i]
  BY <1>1, <1>1a, Zenon
<1>3. HasSpace => HasSpace'
  BY <1>2 DEF HasSpace
<1> QED
  BY <1>2, <1>3

LEMMA StoredSpace ==
  ASSUME ShapeOK, NEW c \in Chars, buf' = Stored("space", c)
  PROVE  /\ buf' \in Strings /\ Len(buf') = Len(buf) + 1 /\ Len(buf) \in Nat
         /\ buf'[Len(buf')] = Space /\ HasSpace'
         /\ \A i \in 1..Len(buf) : buf'[i] = buf[i]
<1>1. buf' = Append(buf, Space) /\ buf \in Strings
  BY DEF Stored, ShapeOK
<1>1a. /\ Append(buf, Space) \in Strings /\ Len(Append(buf, Space)) = Len(buf) + 1
       /\ Append(buf, Space)[Len(buf) + 1] = Space /\ Len(buf) \in Nat
       /\ \A i \in 1..Len(buf) : Append(buf, Space)[i] = buf[i]
  BY <1>1, Appended, Blanks, Zenon
<1>2. /\ buf' \in Strings /\ Len(buf') = Len(buf) + 1 /\ Len(buf) \in Nat
      /\ buf'[Len(buf) + 1] = Space /\ \A i \in 1..Len(buf) : buf'[i] = buf[i]
  BY <1>1, <1>1a, Zenon
<1> QED
  BY <1>2 DEF HasSpace

LEMMA StoredSpaced ==
  ASSUME ShapeOK, NEW c \in Chars, buf' = Stored("spaced", c)
  PROVE  /\ buf' \in Strings /\ Len(buf') = Len(buf) + 2 /\ Len(buf) \in Nat
         /\ buf'[Len(buf')] = c /\ HasSpace' /\ buf'[Len(buf') - 1] = Space
         /\ \A i \in 1..Len(buf) : buf'[i] = buf[i]
<1>1. buf' = Append(Append(buf, Space), c) /\ buf \in Strings
  BY DEF Stored, ShapeOK
<1> DEFINE b == Append(buf, Space)
<1>2. /\ b \in Strings /\ Len(b) = Len(buf) + 1 /\ b[Len(buf) + 1] = Space
      /\ Len(buf) \in Nat /\ \A i \in 1..Len(buf) : b[i] = buf[i]
  BY <1>1, Appended, Blanks
<1>3. buf' = Append(b, c)
  BY <1>1
<1> HIDE DEF b
<1>1a. /\ Append(b, c) \in Strings /\ Len(Append(b, c)) = Len(b) + 1
      /\ Append(b, c)[Len(b) + 1] = c
      /\ \A i \in 1..Len(b) : Append(b, c)[i] = b[i]
  BY <1>2, Appended, Zenon
<1>4. /\ buf' \in Strings /\ Len(buf') = Len(b) + 1 /\ buf'[Len(b) + 1] = c
      /\ \A i \in 1..Len(b) : buf'[i] = b[i]
  BY <1>3, <1>1a, Zenon
<1>5. buf'[Len(buf) + 1] = Space /\ \A i \in 1..Len(buf) : buf'[i] = buf[i]
  BY <1>2, <1>4
<1> QED
  BY <1>2, <1>4, <1>5 DEF HasSpace

LEMMA StoredNothing ==
  ASSUME ShapeOK, NEW c, NEW put \in {"nothing", "back"}, buf' = Stored(put, c)
  PROVE  buf' \in Strings /\ (put = "nothing" => buf' = buf) /\ (put = "back" => buf' = <<>>)
  BY DEF Stored, ShapeOK, Strings

(* What one more character makes of the tag, by the rule that applies. *)
Grown(r) ==
  /\ r.put = "char" =>
       /\ buf' \in Strings /\ Len(buf') = Len(buf) + 1 /\ Len(buf) \in Nat
       /\ buf'[Len(buf')] = ch /\ (HasSpace => HasSpace')
       /\ \A i \in 1..Len(buf) : buf'[i] = buf[i]
  /\ r.put = "space" =>
       /\ buf' \in Strings /\ Len(buf') = Len(buf) + 1 /\ Len(buf) \in Nat
       /\ buf'[Len(buf')] = Space /\ HasSpace'
       /\ \A i \in 1..Len(buf) : buf'[i] = buf[i]
  /\ r.put = "spaced" =>
       /\ buf' \in Strings /\ Len(buf') = Len(buf) + 2 /\ Len(buf) \in Nat
       /\ buf'[Len(buf')] = ch /\ HasSpace' /\ buf'[Len(buf') - 1] = Space
       /\ \A i \in 1..Len(buf) : buf'[i] = buf[i]
  /\ r.put = "nothing" => buf' \in Strings /\ buf' = buf /\ (HasSpace => HasSpace')
  /\ r.put = "back" => buf' \in Strings /\ buf' = <<>>

LEMMA OneChar ==
  ASSUME ShapeOK, ReadChar
  PROVE  \E r \in Rules(phase) :
           /\ ch \in r.on /\ ch \in Chars /\ phase' = r.go
           /\ spans' = Seen(phase, r.go) /\ Grown(r)
<1>0. PICK r \in Rules(phase) : /\ ch \in r.on /\ phase' = r.go
                               /\ buf' = Stored(r.put, ch) /\ spans' = Seen(phase, r.go)
  BY DEF ReadChar
<1>1. ch \in Chars
  BY DEF ShapeOK, Doc, Strings, ReadChar, More, ch
<1>2. ShapeOK
  OBVIOUS
<1>3. Grown(r)
  <2> SUFFICES /\ r.put = "char" =>
                    /\ buf' \in Strings /\ Len(buf') = Len(buf) + 1 /\ Len(buf) \in Nat
                    /\ buf'[Len(buf')] = ch /\ (HasSpace => HasSpace')
                    /\ \A i \in 1..Len(buf) : buf'[i] = buf[i]
               /\ r.put = "space" =>
                    /\ buf' \in Strings /\ Len(buf') = Len(buf) + 1 /\ Len(buf) \in Nat
                    /\ buf'[Len(buf')] = Space /\ HasSpace'
                    /\ \A i \in 1..Len(buf) : buf'[i] = buf[i]
               /\ r.put = "spaced" =>
                    /\ buf' \in Strings /\ Len(buf') = Len(buf) + 2 /\ Len(buf) \in Nat
                    /\ buf'[Len(buf')] = ch /\ HasSpace' /\ buf'[Len(buf') - 1] = Space
                    /\ \A i \in 1..Len(buf) : buf'[i] = buf[i]
               /\ r.put = "nothing" => buf' \in Strings /\ buf' = buf /\ (HasSpace => HasSpace')
               /\ r.put = "back" => buf' \in Strings /\ buf' = <<>>
    BY Zenon DEF Grown
  <2>1. ASSUME r.put = "char"
        PROVE  /\ buf' \in Strings /\ Len(buf') = Len(buf) + 1 /\ Len(buf) \in Nat
               /\ buf'[Len(buf')] = ch /\ (HasSpace => HasSpace')
               /\ \A i \in 1..Len(buf) : buf'[i] = buf[i]
    <3>1. buf' = Stored("char", ch)
      BY <1>0, <2>1
    <3> QED
      BY <1>1, <1>2, <3>1, StoredChar
  <2>2. ASSUME r.put = "space"
        PROVE  /\ buf' \in Strings /\ Len(buf') = Len(buf) + 1 /\ Len(buf) \in Nat
               /\ buf'[Len(buf')] = Space /\ HasSpace'
               /\ \A i \in 1..Len(buf) : buf'[i] = buf[i]
    <3>1. buf' = Stored("space", ch)
      BY <1>0, <2>2
    <3> QED
      BY <1>1, <1>2, <3>1, StoredSpace
  <2>3. ASSUME r.put = "spaced"
        PROVE  /\ buf' \in Strings /\ Len(buf') = Len(buf) + 2 /\ Len(buf) \in Nat
               /\ buf'[Len(buf')] = ch /\ HasSpace' /\ buf'[Len(buf') - 1] = Space
               /\ \A i \in 1..Len(buf) : buf'[i] = buf[i]
    <3>1. buf' = Stored("spaced", ch)
      BY <1>0, <2>3
    <3> QED
      BY <1>1, <1>2, <3>1, StoredSpaced
  <2>4. ASSUME r.put = "nothing"
        PROVE  buf' \in Strings /\ buf' = buf /\ (HasSpace => HasSpace')
    BY <1>0, <1>2, <2>4 DEF Stored, ShapeOK, HasSpace
  <2>5. ASSUME r.put = "back"
        PROVE  buf' \in Strings /\ buf' = <<>>
    BY <1>0, <1>2, <2>5 DEF Stored, Strings
  <2> QED
    BY <2>1, <2>2, <2>3, <2>4, <2>5, Zenon
<1> QED
  BY <1>0, <1>1, <1>3

(* One character of a tag. *)
LEMMA ScanStep ==
  ASSUME ShapeInv, ReadChar
  PROVE  ShapeInv'
<1>0. PICK r \in Rules(phase) : ch \in r.on /\ ch \in Chars /\ phase' = r.go /\ Grown(r)
  BY OneChar DEF ShapeInv
<1>2. /\ doc' = doc /\ pos' \in Nat \ {0} /\ nodes' = nodes /\ open' = open
      /\ phase \in 0..21 /\ ShapeOK
  BY DEF ShapeInv, ShapeOK, ReadChar, InTag
<1> DEFINE Go(p, put) == phase' = p /\ r.put = put
<1>3. /\ r.put = "char" =>
           /\ buf' \in Strings /\ Len(buf') = Len(buf) + 1 /\ Len(buf) \in Nat
           /\ buf'[Len(buf')] = ch /\ (HasSpace => HasSpace')
           /\ \A i \in 1..Len(buf) : buf'[i] = buf[i]
      /\ r.put = "space" =>
           /\ buf' \in Strings /\ Len(buf') = Len(buf) + 1 /\ Len(buf) \in Nat
           /\ buf'[Len(buf')] = Space /\ HasSpace'
           /\ \A i \in 1..Len(buf) : buf'[i] = buf[i]
      /\ r.put = "spaced" =>
           /\ buf' \in Strings /\ Len(buf') = Len(buf) + 2 /\ Len(buf) \in Nat
           /\ buf'[Len(buf')] = ch /\ HasSpace' /\ buf'[Len(buf') - 1] = Space
           /\ \A i \in 1..Len(buf) : buf'[i] = buf[i]
      /\ r.put = "nothing" => buf' \in Strings /\ buf' = buf /\ (HasSpace => HasSpace')
      /\ r.put = "back" => buf' \in Strings /\ buf' = <<>>
  BY <1>0, Zenon DEF Grown
<1>4. buf \in Strings /\ Len(buf) \in Nat /\ (HasSpace => Len(buf) > 0)
  BY <1>2 DEF ShapeOK, Strings, HasSpace
<1>5. ASSUME phase' \in (0..21) \union {100}, buf' \in Strings, ScanInv', TagForm'
      PROVE  ShapeInv'
  BY <1>2, <1>5 DEF ShapeInv, ShapeOK
<1>6. CASE phase = 0
  <2>1. \/ Go(0, "nothing")
        \/ Go(1, "char")
    BY <1>0, <1>6 DEF Rules, R
  <2>2. phase' \in (0..21) \union {100} /\ buf' \in Strings
    BY <1>3, <2>1
  <2> SUFFICES ScanInv' /\ TagForm'
    BY <1>5, <2>2
  <2>3. CASE Go(0, "nothing")
    BY <1>3, <1>4, <1>6, <2>3 DEF ShapeInv, ScanInv, TagForm, EndsTag, LastIs, Taking, Text
  <2>4. CASE Go(1, "char")
    BY <1>3, <1>4, <1>6, <2>4 DEF ShapeInv, ScanInv, TagForm, EndsTag, LastIs, Taking, Text
  <2> QED
    BY <2>1, <2>3, <2>4
<1>7. CASE phase = 1
  <2>1. \/ Go(10, "char")
        \/ Go(14, "back")
        \/ Go(15, "back")
        \/ Go(2, "char")
    BY <1>0, <1>7 DEF Rules, R
  <2>2. phase' \in (0..21) \union {100} /\ buf' \in Strings
    BY <1>3, <2>1
  <2> SUFFICES ScanInv' /\ TagForm'
    BY <1>5, <2>2
  <2>3. CASE Go(10, "char")
    BY <1>3, <1>4, <1>7, <2>3 DEF ShapeInv, ScanInv, TagForm, EndsTag, LastIs, Taking, Text
  <2>4. CASE Go(14, "back")
    BY <1>3, <1>4, <1>7, <2>4 DEF ShapeInv, ScanInv, TagForm, EndsTag, LastIs, Taking, Text
  <2>5. CASE Go(15, "back")
    BY <1>3, <1>4, <1>7, <2>5 DEF ShapeInv, ScanInv, TagForm, EndsTag, LastIs, Taking, Text
  <2>6. CASE Go(2, "char")
    BY <1>3, <1>4, <1>7, <2>6 DEF ShapeInv, ScanInv, TagForm, EndsTag, LastIs, Taking, Text
  <2> QED
    BY <2>1, <2>3, <2>4, <2>5, <2>6
<1>8. CASE phase = 2
  <2>1. \/ Go(3, "space")
        \/ (Go(13, "spaced") /\ ch = "/")
        \/ (Go(100, "spaced") /\ ch = ">")
        \/ Go(2, "char")
    BY <1>0, <1>8 DEF Rules, R
  <2>2. phase' \in (0..21) \union {100} /\ buf' \in Strings
    BY <1>3, <2>1
  <2> SUFFICES ScanInv' /\ TagForm'
    BY <1>5, <2>2
  <2>3. CASE Go(3, "space")
    BY <1>3, <1>4, <1>8, <2>3 DEF ShapeInv, ScanInv, TagForm, EndsTag, LastIs, Taking, Text
  <2>4. CASE (Go(13, "spaced") /\ ch = "/")
    BY <1>3, <1>4, <1>8, <2>4 DEF ShapeInv, ScanInv, TagForm, EndsTag, LastIs, Taking, Text
  <2>5. CASE (Go(100, "spaced") /\ ch = ">")
    BY <1>3, <1>4, <1>8, <2>5 DEF ShapeInv, ScanInv, TagForm, EndsTag, LastIs, Taking, Text
  <2>6. CASE Go(2, "char")
    BY <1>3, <1>4, <1>8, <2>6 DEF ShapeInv, ScanInv, TagForm, EndsTag, LastIs, Taking, Text
  <2> QED
    BY <2>1, <2>3, <2>4, <2>5, <2>6
<1>9. CASE phase = 3
  <2>1. \/ Go(3, "nothing")
        \/ (Go(13, "char") /\ ch = "/")
        \/ (Go(100, "char") /\ ch = ">")
        \/ Go(4, "char")
    BY <1>0, <1>9 DEF Rules, R
  <2>2. phase' \in (0..21) \union {100} /\ buf' \in Strings
    BY <1>3, <2>1
  <2> SUFFICES ScanInv' /\ TagForm'
    BY <1>5, <2>2
  <2>3. CASE Go(3, "nothing")
    BY <1>3, <1>4, <1>9, <2>3 DEF ShapeInv, ScanInv, TagForm, EndsTag, LastIs, Taking, Text
  <2>4. CASE (Go(13, "char") /\ ch = "/")
    BY <1>3, <1>4, <1>9, <2>4 DEF ShapeInv, ScanInv, TagForm, EndsTag, LastIs, Taking, Text
  <2>5. CASE (Go(100, "char") /\ ch = ">")
    BY <1>3, <1>4, <1>9, <2>5 DEF ShapeInv, ScanInv, TagForm, EndsTag, LastIs, Taking, Text
  <2>6. CASE Go(4, "char")
    BY <1>3, <1>4, <1>9, <2>6 DEF ShapeInv, ScanInv, TagForm, EndsTag, LastIs, Taking, Text
  <2> QED
    BY <2>1, <2>3, <2>4, <2>5, <2>6
<1>10. CASE phase = 4
  <2>1. \/ Go(5, "nothing")
        \/ Go(6, "char")
        \/ Go(4, "char")
    BY <1>0, <1>10 DEF Rules, R
  <2>2. phase' \in (0..21) \union {100} /\ buf' \in Strings
    BY <1>3, <2>1
  <2> SUFFICES ScanInv' /\ TagForm'
    BY <1>5, <2>2
  <2>3. CASE Go(5, "nothing")
    BY <1>3, <1>4, <1>10, <2>3 DEF ShapeInv, ScanInv, TagForm, EndsTag, LastIs, Taking, Text
  <2>4. CASE Go(6, "char")
    BY <1>3, <1>4, <1>10, <2>4 DEF ShapeInv, ScanInv, TagForm, EndsTag, LastIs, Taking, Text
  <2>5. CASE Go(4, "char")
    BY <1>3, <1>4, <1>10, <2>5 DEF ShapeInv, ScanInv, TagForm, EndsTag, LastIs, Taking, Text
  <2> QED
    BY <2>1, <2>3, <2>4, <2>5
<1>11. CASE phase = 5
  <2>1. \/ Go(5, "nothing")
        \/ Go(6, "char")
    BY <1>0, <1>11 DEF Rules, R
  <2>2. phase' \in (0..21) \union {100} /\ buf' \in Strings
    BY <1>3, <2>1
  <2> SUFFICES ScanInv' /\ TagForm'
    BY <1>5, <2>2
  <2>3. CASE Go(5, "nothing")
    BY <1>3, <1>4, <1>11, <2>3 DEF ShapeInv, ScanInv, TagForm, EndsTag, LastIs, Taking, Text
  <2>4. CASE Go(6, "char")
    BY <1>3, <1>4, <1>11, <2>4 DEF ShapeInv, ScanInv, TagForm, EndsTag, LastIs, Taking, Text
  <2> QED
    BY <2>1, <2>3, <2>4
<1>12. CASE phase = 6
  <2>1. \/ Go(6, "nothing")
        \/ Go(7, "char")
        \/ Go(8, "char")
    BY <1>0, <1>12 DEF Rules, R
  <2>2. phase' \in (0..21) \union {100} /\ buf' \in Strings
    BY <1>3, <2>1
  <2> SUFFICES ScanInv' /\ TagForm'
    BY <1>5, <2>2
  <2>3. CASE Go(6, "nothing")
    BY <1>3, <1>4, <1>12, <2>3 DEF ShapeInv, ScanInv, TagForm, EndsTag, LastIs, Taking, Text
  <2>4. CASE Go(7, "char")
    BY <1>3, <1>4, <1>12, <2>4 DEF ShapeInv, ScanInv, TagForm, EndsTag, LastIs, Taking, Text
  <2>5. CASE Go(8, "char")
    BY <1>3, <1>4, <1>12, <2>5 DEF ShapeInv, ScanInv, TagForm, EndsTag, LastIs, Taking, Text
  <2> QED
    BY <2>1, <2>3, <2>4, <2>5
<1>13. CASE phase = 7
  <2>1. \/ Go(7, "space")
        \/ Go(9, "char")
        \/ Go(7, "char")
    BY <1>0, <1>13 DEF Rules, R
  <2>2. phase' \in (0..21) \union {100} /\ buf' \in Strings
    BY <1>3, <2>1
  <2> SUFFICES ScanInv' /\ TagForm'
    BY <1>5, <2>2
  <2>3. CASE Go(7, "space")
    BY <1>3, <1>4, <1>13, <2>3 DEF ShapeInv, ScanInv, TagForm, EndsTag, LastIs, Taking, Text
  <2>4. CASE Go(9, "char")
    BY <1>3, <1>4, <1>13, <2>4 DEF ShapeInv, ScanInv, TagForm, EndsTag, LastIs, Taking, Text
  <2>5. CASE Go(7, "char")
    BY <1>3, <1>4, <1>13, <2>5 DEF ShapeInv, ScanInv, TagForm, EndsTag, LastIs, Taking, Text
  <2> QED
    BY <2>1, <2>3, <2>4, <2>5
<1>14. CASE phase = 8
  <2>1. \/ Go(8, "space")
        \/ Go(9, "char")
        \/ Go(8, "char")
    BY <1>0, <1>14 DEF Rules, R
  <2>2. phase' \in (0..21) \union {100} /\ buf' \in Strings
    BY <1>3, <2>1
  <2> SUFFICES ScanInv' /\ TagForm'
    BY <1>5, <2>2
  <2>3. CASE Go(8, "space")
    BY <1>3, <1>4, <1>14, <2>3 DEF ShapeInv, ScanInv, TagForm, EndsTag, LastIs, Taking, Text
  <2>4. CASE Go(9, "char")
    BY <1>3, <1>4, <1>14, <2>4 DEF ShapeInv, ScanInv, TagForm, EndsTag, LastIs, Taking, Text
  <2>5. CASE Go(8, "char")
    BY <1>3, <1>4, <1>14, <2>5 DEF ShapeInv, ScanInv, TagForm, EndsTag, LastIs, Taking, Text
  <2> QED
    BY <2>1, <2>3, <2>4, <2>5
<1>15. CASE phase = 9
  <2>1. \/ Go(3, "space")
        \/ (Go(13, "spaced") /\ ch = "/")
        \/ (Go(100, "spaced") /\ ch = ">")
    BY <1>0, <1>15 DEF Rules, R
  <2>2. phase' \in (0..21) \union {100} /\ buf' \in Strings
    BY <1>3, <2>1
  <2> SUFFICES ScanInv' /\ TagForm'
    BY <1>5, <2>2
  <2>3. CASE Go(3, "space")
    BY <1>3, <1>4, <1>15, <2>3 DEF ShapeInv, ScanInv, TagForm, EndsTag, LastIs, Taking, Text
  <2>4. CASE (Go(13, "spaced") /\ ch = "/")
    BY <1>3, <1>4, <1>15, <2>4 DEF ShapeInv, ScanInv, TagForm, EndsTag, LastIs, Taking, Text
  <2>5. CASE (Go(100, "spaced") /\ ch = ">")
    BY <1>3, <1>4, <1>15, <2>5 DEF ShapeInv, ScanInv, TagForm, EndsTag, LastIs, Taking, Text
  <2> QED
    BY <2>1, <2>3, <2>4, <2>5
<1>16. CASE phase = 10
  <2>1. \/ Go(11, "char")
    BY <1>0, <1>16 DEF Rules, R
  <2>2. phase' \in (0..21) \union {100} /\ buf' \in Strings
    BY <1>3, <2>1
  <2> SUFFICES ScanInv' /\ TagForm'
    BY <1>5, <2>2
  <2>3. CASE Go(11, "char")
    BY <1>3, <1>4, <1>16, <2>3 DEF ShapeInv, ScanInv, TagForm, EndsTag, LastIs, Taking, Text
  <2> QED
    BY <2>1, <2>3
<1>17. CASE phase = 11
  <2>1. \/ Go(12, "space")
        \/ (Go(100, "spaced") /\ ch = ">")
        \/ Go(11, "char")
    BY <1>0, <1>17 DEF Rules, R
  <2>2. phase' \in (0..21) \union {100} /\ buf' \in Strings
    BY <1>3, <2>1
  <2> SUFFICES ScanInv' /\ TagForm'
    BY <1>5, <2>2
  <2>3. CASE Go(12, "space")
    BY <1>3, <1>4, <1>17, <2>3 DEF ShapeInv, ScanInv, TagForm, EndsTag, LastIs, Taking, Text
  <2>4. CASE (Go(100, "spaced") /\ ch = ">")
    BY <1>3, <1>4, <1>17, <2>4 DEF ShapeInv, ScanInv, TagForm, EndsTag, LastIs, Taking, Text
  <2>5. CASE Go(11, "char")
    BY <1>3, <1>4, <1>17, <2>5 DEF ShapeInv, ScanInv, TagForm, EndsTag, LastIs, Taking, Text
  <2> QED
    BY <2>1, <2>3, <2>4, <2>5
<1>18. CASE phase = 12
  <2>1. \/ Go(12, "nothing")
        \/ (Go(100, "char") /\ ch = ">")
    BY <1>0, <1>18 DEF Rules, R
  <2>2. phase' \in (0..21) \union {100} /\ buf' \in Strings
    BY <1>3, <2>1
  <2> SUFFICES ScanInv' /\ TagForm'
    BY <1>5, <2>2
  <2>3. CASE Go(12, "nothing")
    BY <1>3, <1>4, <1>18, <2>3 DEF ShapeInv, ScanInv, TagForm, EndsTag, LastIs, Taking, Text
  <2>4. CASE (Go(100, "char") /\ ch = ">")
    BY <1>3, <1>4, <1>18, <2>4 DEF ShapeInv, ScanInv, TagForm, EndsTag, LastIs, Taking, Text
  <2> QED
    BY <2>1, <2>3, <2>4
<1>19. CASE phase = 13
  <2>1. \/ (Go(100, "char") /\ ch = ">")
    BY <1>0, <1>19 DEF Rules, R
  <2>2. phase' \in (0..21) \union {100} /\ buf' \in Strings
    BY <1>3, <2>1
  <2> SUFFICES ScanInv' /\ TagForm'
    BY <1>5, <2>2
  <2>3. CASE (Go(100, "char") /\ ch = ">")
    BY <1>3, <1>4, <1>19, <2>3 DEF ShapeInv, ScanInv, TagForm, EndsTag, LastIs, Taking, Text
  <2> QED
    BY <2>1, <2>3
<1>20. CASE phase \in 14..21
  <2>1. phase' \in {0} \union (14..21) /\ r.put = "nothing"
    BY <1>0, <1>20 DEF Rules, R
  <2>2. buf = <<>> /\ buf' = buf
    BY <1>3, <1>20, <2>1 DEF ShapeInv, ScanInv
  <2>3. ScanInv' /\ TagForm'
    BY <1>20, <2>1, <2>2 DEF ScanInv, TagForm, Taking, Text
  <2> QED
    BY <1>4, <1>5, <2>1, <2>2, <2>3
<1> QED
  BY <1>2, <1>6, <1>7, <1>8, <1>9, <1>10, <1>11, <1>12, <1>13, <1>14, <1>15, <1>16, <1>17, <1>18, <1>19, <1>20
--------------------------------------------------------------------------------
(* What strchr and strstr find.                                              *)

(* A set of places has a first one: of the sets of those up to a place, one    *)
(* has no smaller one inside.                                                 *)
LEMMA Least ==
  ASSUME NEW S, S \subseteq Nat, IsFiniteSet(S), S # {}
  PROVE  First(S) \in S /\ \A j \in S : First(S) <= j
<1> DEFINE UpTo(i) == {j \in S : j <= i}
           Sets == {UpTo(i) : i \in S}
<1>1. Sets \subseteq FiniteSubsetsOf(S) /\ Sets # {}
  <2>1. \A i \in S : UpTo(i) \in SUBSET S /\ IsFiniteSet(UpTo(i))
    BY FS_Subset
  <2> QED
    BY <2>1 DEF FiniteSubsetsOf
<1>2. PICK D \in Sets : \A E \in Sets : <<E, D>> \notin StrictSubsetOrdering(S)
  <2> HIDE DEF Sets
  <2>1. IsWellFoundedOn(StrictSubsetOrdering(S), FiniteSubsetsOf(S))
    BY FS_StrictSubsetOrderingWellFounded
  <2> QED
    BY <1>1, <2>1, WFMin
<1>3. PICK i \in S : D = UpTo(i)
  BY <1>2
<1>4. ASSUME NEW j \in S
      PROVE  i <= j
  <2> SUFFICES ASSUME j < i
               PROVE  FALSE
    BY <1>4
  <2>1. UpTo(j) \in Sets /\ UpTo(j) \subseteq UpTo(i) /\ UpTo(i) \subseteq S
    <3>1. i \in Nat /\ j \in Nat /\ S \subseteq Nat
      BY <1>4
    <3>2. \A k \in S : k <= j => k <= i
      BY <3>1
    <3> QED
      BY <1>4, <3>2
  <2>2. i \in UpTo(i) /\ i \notin UpTo(j)
    BY <1>4
  <2>3. <<UpTo(j), D>> \in StrictSubsetOrdering(S)
    BY <1>3, <2>1, <2>2 DEF StrictSubsetOrdering
  <2> QED
    BY <1>2, <2>1, <2>3
<1> QED
  BY <1>4 DEF First

LEMMA FirstIs ==
  ASSUME NEW S, S \subseteq Nat, NEW i \in S, \A j \in S : i <= j
  PROVE  First(S) = i
<1>1. \E k \in S : \A j \in S : k <= j
  OBVIOUS
<1>2. First(S) \in S /\ \A j \in S : First(S) <= j
  BY <1>1 DEF First
<1>3. First(S) \in Nat /\ i \in Nat /\ First(S) <= i /\ i <= First(S)
  BY <1>2
<1> QED
  BY <1>3

(* A tag with a space has a first one. *)
LEMMA SpaceFound ==
  ASSUME NEW b \in Strings, \E i \in 1..Len(b) : b[i] = Space
  PROVE  /\ FindSpace(b) \in 1..Len(b) /\ b[FindSpace(b)] = Space /\ Len(b) \in Nat
         /\ \A j \in 1..Len(b) : b[j] = Space => FindSpace(b) <= j
<1> DEFINE S == {i \in 1..Len(b) : b[i] = Space}
<1>1. Len(b) \in Nat
  BY DEF Strings
<1>2. IsFiniteSet(S)
  <2>1. IsFiniteSet(1..Len(b)) /\ S \in SUBSET (1..Len(b))
    BY <1>1, FS_Interval
  <2> QED
    BY <2>1, FS_Subset
<1>3. First(S) \in S /\ \A j \in S : First(S) <= j
  <2>1. S \subseteq Nat /\ S # {}
    BY <1>1
  <2> HIDE DEF S
  <2> QED
    BY <1>2, <2>1, Least
<1> QED
  BY <1>1, <1>3 DEF FindSpace

LEMMA SpaceIs ==
  ASSUME NEW b \in Strings, NEW i \in 1..Len(b), b[i] = Space, No(b, Space, 1, i - 1)
  PROVE  FindSpace(b) = i
<1>1. Len(b) \in Nat
  BY DEF Strings
<1> DEFINE S == {k \in 1..Len(b) : b[k] = Space}
<1>2. S \subseteq Nat /\ i \in S /\ \A j \in S : i <= j
  BY <1>1 DEF No
<1>3. First(S) = i
  BY <1>2, FirstIs
<1> QED
  BY <1>3 DEF FindSpace

(* strstr comes back with NULL only if the pair is nowhere. *)
LEMMA PairFound ==
  ASSUME NEW b \in Strings, NEW c, NEW d, NEW from \in Nat \ {0}
  PROVE  /\ FindPair(b, c, d, from) \in Nat
         /\ FindPair(b, c, d, from) # 0 =>
              /\ FindPair(b, c, d, from) \in from..(Len(b) - 1)
              /\ b[FindPair(b, c, d, from)] = c
<1> DEFINE S == {i \in from..(Len(b) - 1) : b[i] = c /\ b[i + 1] = d}
<1>1. Len(b) \in Nat
  BY DEF Strings
<1>2. IsFiniteSet(S)
  <2>1. IsFiniteSet(from..(Len(b) - 1)) /\ S \in SUBSET (from..(Len(b) - 1))
    BY <1>1, FS_Interval
  <2> QED
    BY <2>1, FS_Subset
<1>3. FindPair(b, c, d, from) = First(S)
  BY DEF FindPair
<1>4. CASE S = {}
  BY <1>3, <1>4 DEF First
<1>5. CASE S # {}
  <2>1. First(S) \in S
    <3>1. S \subseteq Nat
      BY <1>1
    <3> HIDE DEF S
    <3> QED
      BY <1>2, <1>5, <3>1, Least
  <2> QED
    BY <1>1, <1>3, <2>1
<1> QED
  BY <1>4, <1>5

LEMMA PairIs ==
  ASSUME NEW b \in Strings, NEW c, NEW d, NEW from \in Nat \ {0},
         NEW i \in from..(Len(b) - 1), b[i] = c, b[i + 1] = d, No(b, c, from, i - 1)
  PROVE  FindPair(b, c, d, from) = i
<1>1. Len(b) \in Nat
  BY DEF Strings
<1> DEFINE S == {k \in from..(Len(b) - 1) : b[k] = c /\ b[k + 1] = d}
<1>2. S \subseteq Nat /\ i \in S /\ \A j \in S : i <= j
  BY <1>1 DEF No
<1>3. First(S) = i
  BY <1>2, FirstIs
<1> QED
  BY <1>3 DEF FindPair

--------------------------------------------------------------------------------
(* A longer tag: what was there before stays where it is.                    *)
Grows(b, b2) == /\ b \in Strings /\ b2 \in Strings
                /\ Len(b) \in Nat /\ Len(b2) \in Nat /\ Len(b) <= Len(b2)
                /\ \A i \in 1..Len(b) : b2[i] = b[i]
Spaced(b) == \E i \in 1..Len(b) : b[i] = Space

LEMMA SpaceKept ==
  ASSUME NEW b, NEW b2, Grows(b, b2), Spaced(b)
  PROVE  /\ FindSpace(b2) = FindSpace(b) /\ FindSpace(b) \in 1..Len(b)
         /\ Spaced(b2)
<1>1. /\ FindSpace(b) \in 1..Len(b) /\ b[FindSpace(b)] = Space
      /\ \A j \in 1..Len(b) : b[j] = Space => FindSpace(b) <= j
  BY SpaceFound DEF Grows, Spaced
<1>2. FindSpace(b) \in 1..Len(b2) /\ b2[FindSpace(b)] = Space
  BY <1>1 DEF Grows
<1>3. No(b2, Space, 1, FindSpace(b) - 1)
  BY <1>1 DEF Grows, No
<1>4. FindSpace(b2) = FindSpace(b)
  BY <1>2, <1>3, SpaceIs DEF Grows
<1> QED
  BY <1>1, <1>2, <1>4 DEF Spaced

(* The next attribute begins inside the tag or right behind it. *)
LEMMA StartKept ==
  ASSUME NEW b, NEW b2, Grows(b, b2), Spaced(b), NEW s \in Seq(Span), NEW s2 \in Seq(Span),
         NEW i \in 1..(Len(s) + 1), i > 1 => s2[i - 1].end = s[i - 1].end
  PROVE  StartOf(b2, s2, i) = StartOf(b, s, i) /\ StartOf(b, s, i) \in Nat \ {0}
<1>1. FindSpace(b2) = FindSpace(b) /\ FindSpace(b) \in Nat
  BY SpaceKept DEF Grows
<1>2. i > 1 => s[i - 1].end \in Nat
  <2>1. Len(s) \in Nat /\ s \in [1..Len(s) -> Span]
    BY LenProperties
  <2>2. i > 1 => s[i - 1] \in Span
    BY <2>1
  <2> QED
    BY <2>2 DEF Span
<1>3. i \in Nat \ {0}
  BY LenProperties
<1> QED
  BY <1>1, <1>2, <1>3 DEF StartOf

(* What holds of a whole attribute goes on holding. *)
LEMMA SpanKept ==
  ASSUME NEW b, NEW b2, Grows(b, b2), NEW x \in Span, NEW from \in Nat \ {0},
         Placed(b, from, x)
  PROVE  Placed(b2, from, x)
<1>1. PICK q \in {Quote, Apostrophe} :
        /\ x.start = from /\ from < x.equals /\ b[x.equals] = "="
        /\ No(b, "=", from, x.equals - 1) /\ b[x.equals + 1] = q
        /\ x.equals + 1 < x.end /\ b[x.end] = q /\ No(b, q, x.equals + 2, x.end - 1)
        /\ x.end < Len(b) /\ b[x.end + 1] = Space
  BY DEF Placed, Closed, Opened, Equated
<1>2. x.equals \in Nat /\ x.end \in Nat /\ Len(b) \in Nat /\ Len(b2) \in Nat
      /\ Len(b) <= Len(b2) /\ \A i \in 1..Len(b) : b2[i] = b[i]
  BY DEF Span, Grows
<1>2a. x.equals \in 1..Len(b) /\ x.equals + 1 \in 1..Len(b) /\ x.end \in 1..Len(b)
       /\ x.end + 1 \in 1..Len(b) /\ x.equals < Len(b) /\ x.equals <= Len(b)
  <2>1. /\ from \in Nat /\ from > 0 /\ x.equals \in Nat /\ x.end \in Nat /\ Len(b) \in Nat
        /\ from < x.equals /\ x.equals + 1 < x.end /\ x.end < Len(b)
    BY <1>1, <1>2
  <2> QED
    BY <2>1
<1>3. /\ b2[x.equals] = "=" /\ b2[x.equals + 1] = q /\ b2[x.end] = q
      /\ b2[x.end + 1] = Space /\ x.end < Len(b2) /\ x.equals < Len(b2)
  <2>1. /\ b2[x.equals] = b[x.equals] /\ b2[x.equals + 1] = b[x.equals + 1]
        /\ b2[x.end] = b[x.end] /\ b2[x.end + 1] = b[x.end + 1]
    BY <1>2, <1>2a
  <2>2. x.end < Len(b2) /\ x.equals < Len(b2)
    BY <1>2, <1>2a
  <2> QED
    BY <1>1, <2>1, <2>2
<1>4. No(b2, "=", from, x.equals - 1) /\ No(b2, q, x.equals + 2, x.end - 1)
  <2>1. \A j \in from..(x.equals - 1) : j \in 1..Len(b) /\ b[j] # "="
    BY <1>1, <1>2, <1>2a DEF No
  <2>2. \A j \in (x.equals + 2)..(x.end - 1) : j \in 1..Len(b) /\ b[j] # q
    BY <1>1, <1>2, <1>2a DEF No
  <2> QED
    BY <1>2, <2>1, <2>2 DEF No
<1>5. Equated(b2, from, x) /\ Opened(b2, from, x, q)
  BY <1>1, <1>2, <1>2a, <1>3, <1>4 DEF Opened, Equated
<1>6. x.equals + 1 < x.end /\ x.end <= Len(b2) /\ x.end < Len(b2)
  BY <1>1, <1>2, <1>3
<1>7. Closed(b2, from, x)
  BY <1>3, <1>4, <1>5, <1>6 DEF Closed
<1> QED
  BY <1>3, <1>6, <1>7 DEF Placed

LEMMA PlacedKept ==
  ASSUME NEW b, NEW b2, Grows(b, b2), Spaced(b), NEW s \in Seq(Span), NEW s2 \in Seq(Span),
         NEW n \in 0..Len(s), n <= Len(s2), \A i \in 1..n : s2[i] = s[i],
         PlacedUpTo(b, s, n)
  PROVE  PlacedUpTo(b2, s2, n)
<1> SUFFICES ASSUME NEW i \in 1..n
             PROVE  Placed(b2, StartOf(b2, s2, i), s2[i])
  BY DEF PlacedUpTo
<1>1. n \in Nat /\ Len(s) \in Nat /\ n <= Len(s) /\ s \in [1..Len(s) -> Span]
  BY LenProperties
<1>2. Placed(b, StartOf(b, s, i), s[i]) /\ s2[i] = s[i] /\ s[i] \in Span
  BY <1>1 DEF PlacedUpTo
<1>3. StartOf(b2, s2, i) = StartOf(b, s, i) /\ StartOf(b, s, i) \in Nat \ {0}
  <2>1. i \in 1..(Len(s) + 1) /\ (i > 1 => s2[i - 1].end = s[i - 1].end)
    BY <1>1
  <2> QED
    BY <2>1, StartKept
<1> QED
  BY <1>2, <1>3, SpanKept

--------------------------------------------------------------------------------
(* One attribute, as the phases 3 to 9 read it.                              *)
LEMMA NoKept ==
  ASSUME NEW b, NEW b2, Grows(b, b2), NEW c, NEW from \in Nat \ {0}, NEW to \in Int,
         to <= Len(b), No(b, c, from, to)
  PROVE  No(b2, c, from, to)
<1>1. Len(b) \in Nat /\ \A i \in 1..Len(b) : b2[i] = b[i]
  BY DEF Grows
<1>2. \A j \in from..to : j \in 1..Len(b) /\ b[j] # c
  BY <1>1 DEF No
<1> QED
  BY <1>1, <1>2 DEF No

OneMore(b, b2) == Grows(b, b2) /\ Len(b2) = Len(b) + 1

LEMMA NoGrows ==
  ASSUME NEW b, NEW b2, OneMore(b, b2), NEW c, NEW from \in Nat \ {0},
         No(b, c, from, Len(b)), b2[Len(b2)] # c
  PROVE  No(b2, c, from, Len(b2))
<1>1. Len(b) \in Nat /\ Len(b2) = Len(b) + 1
  BY DEF OneMore, Grows
<1>2. No(b2, c, from, Len(b))
  BY <1>1, NoKept DEF OneMore
<1> QED
  BY <1>1, <1>2 DEF No

LEMMA NameGoesOn ==
  ASSUME NEW b, NEW b2, OneMore(b, b2), NEW x, NEW from \in Nat \ {0},
         Named(b, from, x), b2[Len(b2)] # "="
  PROVE  Named(b2, from, x)
<1>1. No(b2, "=", from, Len(b2))
  BY NoGrows DEF Named
<1>2. from <= Len(b2)
  BY DEF Named, OneMore, Grows
<1> QED
  BY <1>1, <1>2 DEF Named

LEMMA NameEnds ==
  ASSUME NEW b, NEW b2, OneMore(b, b2), NEW x \in Span, NEW from \in Nat \ {0},
         Named(b, from, x), b2[Len(b2)] = "="
  PROVE  LET y == [x EXCEPT !.equals = Len(b) + 1]
         IN  y \in Span /\ Equated(b2, from, y) /\ y.equals = Len(b2)
<1> DEFINE y == [x EXCEPT !.equals = Len(b) + 1]
<1> SUFFICES y \in Span /\ Equated(b2, from, y) /\ y.equals = Len(b2)
  OBVIOUS
<1>1. Len(b) \in Nat /\ Len(b2) = Len(b) + 1 /\ Grows(b, b2)
  BY DEF OneMore, Grows
<1>2. y \in Span /\ y.start = x.start /\ y.equals = Len(b) + 1
  BY <1>1 DEF Span
<1> HIDE DEF y
<1>3. No(b2, "=", from, Len(b))
  BY <1>1, NoKept DEF Named
<1>4. from < y.equals /\ y.equals <= Len(b2) /\ y.equals - 1 = Len(b)
  BY <1>1, <1>2 DEF Named
<1>5. b2[y.equals] = "=" /\ y.start = from
  BY <1>1, <1>2 DEF Named
<1> QED
  BY <1>1, <1>2, <1>3, <1>4, <1>5 DEF Equated

LEMMA EquatedKept ==
  ASSUME NEW b, NEW b2, Grows(b, b2), NEW x \in Span, NEW from \in Nat \ {0},
         Equated(b, from, x)
  PROVE  Equated(b2, from, x)
<1>1. x.equals \in Nat /\ from < x.equals /\ x.equals <= Len(b)
  BY DEF Span, Equated
<1>2. Len(b) \in Nat /\ Len(b2) \in Nat /\ Len(b) <= Len(b2)
      /\ \A i \in 1..Len(b) : b2[i] = b[i]
  BY DEF Grows
<1>3. x.equals \in 1..Len(b) /\ x.equals - 1 \in Int /\ x.equals - 1 <= Len(b)
  BY <1>1, <1>2
<1>4. No(b2, "=", from, x.equals - 1)
  BY <1>3, NoKept DEF Equated
<1>5. b2[x.equals] = "="
  BY <1>2, <1>3 DEF Equated
<1>6. x.equals <= Len(b2)
  BY <1>1, <1>2
<1> QED
  BY <1>4, <1>5, <1>6 DEF Equated

LEMMA QuoteOpens ==
  ASSUME NEW b, NEW b2, OneMore(b, b2), NEW x \in Span, NEW from \in Nat \ {0},
         Equated(b, from, x), x.equals = Len(b), NEW q, b2[Len(b2)] = q
  PROVE  Opened(b2, from, x, q) /\ No(b2, q, x.equals + 2, Len(b2))
<1>1. Len(b) \in Nat /\ Len(b2) = Len(b) + 1 /\ Grows(b, b2)
  BY DEF OneMore, Grows
<1>2. Equated(b2, from, x)
  BY <1>1, EquatedKept
<1>3. x.equals < Len(b2) /\ x.equals + 1 = Len(b2)
  BY <1>1
<1>4. No(b2, q, x.equals + 2, Len(b2))
  BY <1>1 DEF No
<1> QED
  BY <1>2, <1>3, <1>4 DEF Opened

LEMMA OpenedKept ==
  ASSUME NEW b, NEW b2, Grows(b, b2), NEW x \in Span, NEW from \in Nat \ {0}, NEW q,
         Opened(b, from, x, q)
  PROVE  Opened(b2, from, x, q)
<1>1. x.equals \in Nat /\ x.equals < Len(b) /\ b[x.equals + 1] = q
  BY DEF Span, Opened
<1>2. Len(b) \in Nat /\ Len(b2) \in Nat /\ Len(b) <= Len(b2)
      /\ \A i \in 1..Len(b) : b2[i] = b[i]
  BY DEF Grows
<1>3. x.equals + 1 \in 1..Len(b) /\ x.equals < Len(b2)
  BY <1>1, <1>2
<1>4. b2[x.equals + 1] = q
  BY <1>1, <1>2, <1>3
<1> QED
  BY <1>3, <1>4, EquatedKept DEF Opened

LEMMA ValueGoesOn ==
  ASSUME NEW b, NEW b2, OneMore(b, b2), NEW x \in Span, NEW from \in Nat \ {0}, NEW q,
         Opened(b, from, x, q), No(b, q, x.equals + 2, Len(b)), b2[Len(b2)] # q
  PROVE  Opened(b2, from, x, q) /\ No(b2, q, x.equals + 2, Len(b2))
<1>1. x.equals + 2 \in Nat \ {0}
  BY DEF Span
<1> QED
  BY <1>1, NoGrows, OpenedKept DEF OneMore

(* Phase 7 stands in a value between quotes, phase 8 in one between apostrophes. *)
Within(p, q) == (p = 7 /\ q = Quote) \/ (p = 8 /\ q = Apostrophe)

LEMMA QuoteCloses ==
  ASSUME NEW b, NEW b2, OneMore(b, b2), NEW x \in Span, NEW from \in Nat \ {0},
         NEW p, NEW q, Within(p, q),
         Opened(b, from, x, q), No(b, q, x.equals + 2, Len(b)), b2[Len(b2)] = q
  PROVE  LET y == [x EXCEPT !.end = Len(b) + 1]
         IN  y \in Span /\ Closed(b2, from, y) /\ y.end = Len(b2)
<1> DEFINE y == [x EXCEPT !.end = Len(b) + 1]
<1> SUFFICES y \in Span /\ Closed(b2, from, y) /\ y.end = Len(b2)
  OBVIOUS
<1>1. Len(b) \in Nat /\ Len(b2) = Len(b) + 1 /\ Grows(b, b2)
  BY DEF OneMore, Grows
<1>2. y \in Span /\ y.start = x.start /\ y.equals = x.equals /\ y.end = Len(b) + 1
  BY <1>1 DEF Span
<1> HIDE DEF y
<1>3. x.equals \in Nat /\ x.equals < Len(b)
  BY DEF Span, Opened
<1>4. Opened(b2, from, x, q)
  BY <1>1, OpenedKept
<1>5. Opened(b2, from, y, q)
  BY <1>2, <1>4 DEF Opened, Equated
<1>6. No(b2, q, x.equals + 2, Len(b))
  BY <1>1, <1>3, NoKept
<1>7. y.equals + 1 < y.end /\ y.end <= Len(b2) /\ y.end - 1 = Len(b) /\ y.end = Len(b2)
  BY <1>1, <1>2, <1>3
<1>8. No(b2, q, y.equals + 2, y.end - 1) /\ b2[y.end] = q
  BY <1>2, <1>6, <1>7
<1> QED
  BY <1>2, <1>5, <1>7, <1>8 DEF Closed, Within

LEMMA SpaceFollows ==
  ASSUME NEW b, NEW b2, Grows(b, b2), NEW x \in Span, NEW from \in Nat \ {0},
         Closed(b, from, x), x.end = Len(b), Len(b) < Len(b2), b2[Len(b) + 1] = Space
  PROVE  Placed(b2, from, x)
<1>1. Len(b) \in Nat /\ Len(b2) \in Nat /\ \A i \in 1..Len(b) : b2[i] = b[i]
  BY DEF Grows
<1>2. PICK q \in {Quote, Apostrophe} :
        /\ Opened(b, from, x, q) /\ x.equals + 1 < x.end
        /\ b[x.end] = q /\ No(b, q, x.equals + 2, x.end - 1)
  BY DEF Closed
<1>3. x.equals \in Nat /\ x.end \in 1..Len(b) /\ x.end - 1 \in Int /\ x.end - 1 <= Len(b)
      /\ x.equals + 2 \in Nat \ {0}
  <2>1. x.equals \in Nat /\ x.end \in Nat
    BY DEF Span
  <2> QED
    BY <1>1, <1>2, <2>1
<1>4. Opened(b2, from, x, q)
  BY <1>2, OpenedKept
<1>5. b2[x.end] = q
  BY <1>1, <1>2, <1>3
<1>6. No(b2, q, x.equals + 2, x.end - 1)
  BY <1>2, <1>3, NoKept
<1>7. x.end <= Len(b2) /\ x.end < Len(b2) /\ b2[x.end + 1] = Space
  BY <1>1
<1>8. Closed(b2, from, x)
  BY <1>2, <1>4, <1>5, <1>6, <1>7 DEF Closed
<1> QED
  BY <1>7, <1>8 DEF Placed

(* The last attribute alone changes. *)
LastBecomes(s, y) == [s EXCEPT ![Len(s)] = y]
LEMMA LastChanged ==
  ASSUME NEW s \in Seq(Span), s # <<>>, NEW y \in Span
  PROVE  LET s2 == LastBecomes(s, y) IN
         /\ s2 \in Seq(Span) /\ Len(s2) = Len(s) /\ s2[Len(s)] = y /\ Len(s) \in Nat \ {0}
         /\ \A i \in 1..(Len(s) - 1) : s2[i] = s[i]
  BY DEF LastBecomes

(* A character that may stand in a name is none of those a search looks for. *)
LEMMA PlainNames ==
  /\ NameStart \subseteq NameChars
  /\ \A c \in NameChars : c # Space /\ c # "=" /\ c # "/"
<1>1. \A c \in Letters \union Digits : c \notin Marks
  BY CharsAssumption
<1>2. {Space, "=", "/"} \subseteq Marks
  BY DEF Marks, White
<1>3. \A c \in {"_", "-", "."} : c # Space /\ c # "=" /\ c # "/"
  BY DEF Space
<1> QED
  BY <1>1, <1>2, <1>3 DEF NameChars, NameStart

(* What one more character makes of the tag, as the lemmas above take it. *)
LEMMA GrownTag ==
  ASSUME ShapeOK, NEW r, Grown(r)
  PROVE  /\ r.put = "char" => OneMore(buf, buf') /\ buf'[Len(buf')] = ch
         /\ r.put = "space" => OneMore(buf, buf') /\ buf'[Len(buf')] = Space
         /\ r.put = "spaced" => /\ Grows(buf, buf') /\ Len(buf') = Len(buf) + 2
                                /\ buf'[Len(buf) + 1] = Space /\ buf'[Len(buf')] = ch
         /\ r.put = "nothing" => buf' = buf
         /\ r.put = "back" => buf' = <<>>
         /\ Len(buf) \in Nat
<1>1. buf \in Strings /\ Len(buf) \in Nat
  BY DEF ShapeOK, Strings
<1>2. CASE r.put = "char"
  BY <1>1, <1>2 DEF Grown, OneMore, Grows
<1>3. CASE r.put = "space"
  BY <1>1, <1>3 DEF Grown, OneMore, Grows
<1>4. CASE r.put = "spaced"
  BY <1>1, <1>4 DEF Grown, OneMore, Grows
<1>5. CASE r.put \in {"nothing", "back"}
  BY <1>1, <1>5 DEF Grown
<1> QED
  BY <1>1, <1>2, <1>3, <1>4, <1>5

(* The second character tells an end tag, and it stays. *)
LEMMA EndTagKept ==
  ASSUME NEW b, NEW b2, Grows(b, b2), Len(b) > 1
  PROVE  (IsEndTag(b2) <=> IsEndTag(b)) /\ Len(b2) > 1
  BY DEF Grows, IsEndTag

(* The tag's name, and the space behind it: no attribute yet. *)
LEMMA NoAttribute ==
  ASSUME NEW b, NEW b2, Grows(b, b2), Len(b) < Len(b2), b2[Len(b) + 1] = Space,
         No(b, Space, 1, Len(b))
  PROVE  StartOf(b2, <<>>, 1) = Len(b) + 2 /\ PlacedUpTo(b2, <<>>, 0)
<1>1. Len(b) \in Nat /\ Len(b2) \in Nat /\ Len(b) + 1 \in 1..Len(b2) /\ Len(b) + 1 - 1 = Len(b)
  BY DEF Grows
<1>2. No(b2, Space, 1, Len(b))
  BY <1>1, NoKept
<1>3. FindSpace(b2) = Len(b) + 1
  BY <1>1, <1>2, SpaceIs DEF Grows
<1> QED
  BY <1>1, <1>3 DEF StartOf, PlacedUpTo

(* A tag whose attributes are all there and one more character, no '='. *)
LEMMA LaidOutEnd ==
  ASSUME NEW b2, NEW s \in Seq(Span), PlacedUpTo(b2, s, Len(s)), Len(b2) \in Nat,
         StartOf(b2, s, Len(s) + 1) = Len(b2), b2[Len(b2)] # "="
  PROVE  LaidOut(b2, s)
  BY DEF LaidOut, No

LEMMA LaidOutKept ==
  ASSUME NEW b, NEW b2, OneMore(b, b2), Spaced(b), NEW s \in Seq(Span), LaidOut(b, s),
         b2[Len(b2)] # "="
  PROVE  LaidOut(b2, s)
<1>1. Len(s) \in Nat /\ Grows(b, b2)
  BY LenProperties DEF OneMore
<1>2. PlacedUpTo(b2, s, Len(s))
  BY <1>1, PlacedKept DEF LaidOut
<1> DEFINE from == StartOf(b, s, Len(s) + 1)
<1>3. StartOf(b2, s, Len(s) + 1) = from /\ from \in Nat \ {0}
  BY <1>1, StartKept
<1>4. No(b, "=", from, Len(b))
  BY DEF LaidOut
<1> HIDE DEF from
<1>5. No(b2, "=", from, Len(b2))
  BY <1>3, <1>4, NoGrows
<1> QED
  BY <1>2, <1>3, <1>5 DEF LaidOut

(* The attribute that is being read, in a tag one or two characters longer. *)
LEMMA LastGoesOn ==
  ASSUME NEW b, NEW b2, Grows(b, b2), Spaced(b), NEW s \in Seq(Span), s # <<>>,
         PlacedUpTo(b, s, Len(s) - 1)
  PROVE  /\ PlacedUpTo(b2, s, Len(s) - 1) /\ s[Len(s)] \in Span
         /\ StartOf(b2, s, Len(s)) = StartOf(b, s, Len(s))
         /\ StartOf(b, s, Len(s)) \in Nat \ {0}
<1>1. Len(s) \in Nat \ {0}
  BY EmptySeq
<1>2. Len(s) - 1 \in 0..Len(s) /\ Len(s) \in 1..(Len(s) + 1) /\ Len(s) \in 1..Len(s)
      /\ Len(s) - 1 <= Len(s)
  BY <1>1
<1>3. PlacedUpTo(b2, s, Len(s) - 1)
  BY <1>2, PlacedKept
<1>4. StartOf(b2, s, Len(s)) = StartOf(b, s, Len(s)) /\ StartOf(b, s, Len(s)) \in Nat \ {0}
  BY <1>2, StartKept
<1>5. s[Len(s)] \in Span
  BY <1>2, ElementOfSeq
<1> QED
  BY <1>3, <1>4, <1>5

LEMMA Moved ==
  ASSUME NEW b, NEW b2, Grows(b, b2), Spaced(b), NEW s \in Seq(Span), NEW s2 \in Seq(Span),
         NEW n \in Nat \ {0}, n - 1 <= Len(s), n <= Len(s2),
         \A i \in 1..(n - 1) : s2[i] = s[i], PlacedUpTo(b, s, n - 1)
  PROVE  /\ PlacedUpTo(b2, s2, n - 1)
         /\ StartOf(b2, s2, n) = StartOf(b, s, n) /\ StartOf(b, s, n) \in Nat \ {0}
<1>1. Len(s) \in Nat /\ Len(s2) \in Nat
  BY LenProperties
<1>2. n - 1 \in 0..Len(s) /\ n - 1 <= Len(s2) /\ n \in 1..(Len(s) + 1)
      /\ (n > 1 => n - 1 \in 1..(n - 1))
  BY <1>1
<1>3. PlacedUpTo(b2, s2, n - 1)
  BY <1>2, PlacedKept
<1>4. n > 1 => s2[n - 1].end = s[n - 1].end
  BY <1>2
<1> QED
  BY <1>2, <1>3, <1>4, StartKept

LEMMA LastMoves ==
  ASSUME NEW b, NEW b2, Grows(b, b2), Spaced(b), NEW s \in Seq(Span), s # <<>>,
         PlacedUpTo(b, s, Len(s) - 1), NEW y \in Span
  PROVE  LET s2 == LastBecomes(s, y) IN
         /\ s2 \in Seq(Span) /\ s2 # <<>> /\ Len(s2) = Len(s) /\ s2[Len(s)] = y
         /\ PlacedUpTo(b2, s2, Len(s) - 1)
         /\ StartOf(b2, s2, Len(s)) = StartOf(b, s, Len(s))
         /\ StartOf(b, s, Len(s)) \in Nat \ {0}
<1> DEFINE s2 == LastBecomes(s, y)
<1>1. /\ s2 \in Seq(Span) /\ Len(s2) = Len(s) /\ s2[Len(s)] = y /\ Len(s) \in Nat \ {0}
      /\ \A i \in 1..(Len(s) - 1) : s2[i] = s[i]
  BY LastChanged, Zenon
<1> HIDE DEF s2
<1>2. Len(s) - 1 <= Len(s) /\ Len(s) <= Len(s2)
  BY <1>1
<1>3. /\ PlacedUpTo(b2, s2, Len(s) - 1)
      /\ StartOf(b2, s2, Len(s)) = StartOf(b, s, Len(s))
      /\ StartOf(b, s, Len(s)) \in Nat \ {0}
  BY <1>1, <1>2, Moved
<1>4. s2 # <<>>
  BY <1>1, EmptySeq
<1> QED
  BY <1>1, <1>3, <1>4, Zenon DEF s2

LEMMA NextBegins ==
  ASSUME NEW b, NEW b2, OneMore(b, b2), Spaced(b), NEW s \in Seq(Span),
         PlacedUpTo(b, s, Len(s)), StartOf(b, s, Len(s) + 1) = Len(b) + 1, b2[Len(b2)] # "=",
         NEW y \in Span, y.start = Len(b) + 1
  PROVE  LET s2 == Append(s, y) IN
         /\ s2 \in Seq(Span) /\ s2 # <<>> /\ PlacedUpTo(b2, s2, Len(s2) - 1)
         /\ Named(b2, StartOf(b2, s2, Len(s2)), s2[Len(s2)])
<1> DEFINE n == Len(s) + 1
           s2 == Append(s, y)
<1>1. Grows(b, b2) /\ Len(b) \in Nat /\ Len(b2) = Len(b) + 1 /\ Len(s) \in Nat
  BY LenProperties DEF OneMore, Grows
<1>4. n \in Nat \ {0} /\ n - 1 = Len(s) /\ n - 1 <= Len(s) /\ n <= n
  BY <1>1
<1>5. /\ s2 \in Seq(Span) /\ s2 # <<>> /\ Len(s2) = n /\ s2[n] = y
      /\ \A i \in 1..Len(s) : s2[i] = s[i]
  BY AppendProperties
<1> HIDE DEF n, s2
<1>6. /\ n <= Len(s2) /\ \A i \in 1..(n - 1) : s2[i] = s[i]
      /\ PlacedUpTo(b, s, n - 1) /\ StartOf(b, s, n) = Len(b) + 1
  BY <1>4, <1>5, Zenon DEF n
<1>7. PlacedUpTo(b2, s2, n - 1) /\ StartOf(b2, s2, n) = Len(b) + 1
  <2>1. Grows(b, b2) /\ s2 \in Seq(Span) /\ n \in Nat \ {0} /\ n - 1 <= Len(s)
    BY <1>1, <1>4, <1>5
  <2>2. /\ PlacedUpTo(b2, s2, n - 1)
        /\ StartOf(b2, s2, n) = StartOf(b, s, n) /\ StartOf(b, s, n) \in Nat \ {0}
    BY <1>6, <2>1, Moved, Zenon
  <2> QED
    BY <1>6, <2>2, Zenon
<1>8. Named(b2, Len(b) + 1, y)
  BY <1>1 DEF Named, No
<1> QED
  BY <1>5, <1>7, <1>8, Zenon DEF s2

(* The next attribute may begin. *)
LEMMA LastIsPlaced ==
  ASSUME NEW b, NEW b2, Grows(b, b2), Spaced(b), NEW s \in Seq(Span), s # <<>>,
         PlacedUpTo(b, s, Len(s) - 1), Closed(b, StartOf(b, s, Len(s)), s[Len(s)]),
         s[Len(s)].end = Len(b), Len(b) < Len(b2), b2[Len(b) + 1] = Space
  PROVE  PlacedUpTo(b2, s, Len(s)) /\ StartOf(b2, s, Len(s) + 1) = Len(b) + 2
<1>1. /\ PlacedUpTo(b2, s, Len(s) - 1) /\ s[Len(s)] \in Span
      /\ StartOf(b2, s, Len(s)) = StartOf(b, s, Len(s))
      /\ StartOf(b, s, Len(s)) \in Nat \ {0}
  BY LastGoesOn
<1>2. Placed(b2, StartOf(b2, s, Len(s)), s[Len(s)])
  BY <1>1, SpaceFollows
<1>3. Len(s) \in Nat \ {0}
  BY EmptySeq
<1>4. PlacedUpTo(b2, s, Len(s))
  BY <1>1, <1>2, <1>3 DEF PlacedUpTo
<1>5. StartOf(b2, s, Len(s) + 1) = Len(b) + 2
  BY <1>3 DEF StartOf
<1> QED
  BY <1>4, <1>5

LEMMA StillPlaced ==
  ASSUME NEW b, NEW b2, Grows(b, b2), Spaced(b), NEW s \in Seq(Span), PlacedUpTo(b, s, Len(s))
  PROVE  PlacedUpTo(b2, s, Len(s)) /\ StartOf(b2, s, Len(s) + 1) = StartOf(b, s, Len(s) + 1)
<1>1. Len(s) \in 0..Len(s) /\ Len(s) <= Len(s) /\ Len(s) + 1 \in 1..(Len(s) + 1)
  BY LenProperties
<1>2. Len(s) + 1 > 1 => s[(Len(s) + 1) - 1].end = s[(Len(s) + 1) - 1].end
  OBVIOUS
<1> QED
  BY <1>1, <1>2, PlacedKept, StartKept

(* What each phase asks of the tag collected so far.                          *)
LEMMA NoTagAsks ==
  ASSUME NEW b, NEW p \in {0, Text} \union (14..21)
  PROVE  SpansAt(p, b, <<>>)
  BY DEF SpansAt, Taking, Text

LEMMA BeginAsks ==
  ASSUME NEW b, Len(b) = 1, b[1] = "<"
  PROVE  SpansAt(1, b, <<>>)
  BY DEF SpansAt, Taking, Text

LEMMA NameAsks ==
  ASSUME NEW b, Len(b) > 1, No(b, Space, 1, Len(b))
  PROVE  /\ ~IsEndTag(b) => SpansAt(2, b, <<>>)
         /\ IsEndTag(b) => SpansAt(10, b, <<>>) /\ SpansAt(11, b, <<>>)
  BY DEF SpansAt, Taking, Text

LEMMA EndTagAsks ==
  ASSUME NEW b, Len(b) > 1, IsEndTag(b)
  PROVE  SpansAt(12, b, <<>>)
  BY DEF SpansAt, Taking, Text

LEMMA WholeAsks ==
  ASSUME NEW b, NEW s, IsEndTag(b) \/ LaidOut(b, s)
  PROVE  SpansAt(100, b, s) /\ (~IsEndTag(b) => SpansAt(Taking, b, s))
<1>1. SpansAt(100, b, s)
  BY DEF SpansAt, Taking, Text
<1>2. ~IsEndTag(b) => SpansAt(Taking, b, s)
  BY DEF SpansAt, Taking, Text
<1> QED
  BY <1>1, <1>2

LEMMA BetweenAsks ==
  ASSUME NEW b, NEW s, Len(b) > 1, ~IsEndTag(b)
  PROVE  /\ PlacedUpTo(b, s, Len(s)) /\ StartOf(b, s, Len(s) + 1) = Len(b) + 1
              => SpansAt(3, b, s)
         /\ LaidOut(b, s) => SpansAt(13, b, s)
<1>1. PlacedUpTo(b, s, Len(s)) /\ StartOf(b, s, Len(s) + 1) = Len(b) + 1 => SpansAt(3, b, s)
  BY DEF SpansAt, Taking, Text
<1>2. LaidOut(b, s) => SpansAt(13, b, s)
  BY DEF SpansAt, Taking, Text
<1> QED
  BY <1>1, <1>2

LEMMA WithinAsks ==
  ASSUME NEW b, NEW s, Len(b) > 1, ~IsEndTag(b), s # <<>>, PlacedUpTo(b, s, Len(s) - 1),
         NEW from, from = StartOf(b, s, Len(s)), NEW x, x = s[Len(s)]
  PROVE  /\ Named(b, from, x) => SpansAt(4, b, s) /\ SpansAt(5, b, s)
         /\ Equated(b, from, x) /\ x.equals = Len(b) => SpansAt(6, b, s)
         /\ Opened(b, from, x, Quote) /\ No(b, Quote, x.equals + 2, Len(b)) => SpansAt(7, b, s)
         /\ Opened(b, from, x, Apostrophe) /\ No(b, Apostrophe, x.equals + 2, Len(b))
              => SpansAt(8, b, s)
         /\ Closed(b, from, x) /\ x.end = Len(b) => SpansAt(9, b, s)
<1>1. Named(b, from, x) => SpansAt(4, b, s)
  BY DEF SpansAt, Taking, Text
<1>2. Named(b, from, x) => SpansAt(5, b, s)
  BY DEF SpansAt, Taking, Text
<1>3. Equated(b, from, x) /\ x.equals = Len(b) => SpansAt(6, b, s)
  BY DEF SpansAt, Taking, Text
<1>4. Opened(b, from, x, Quote) /\ No(b, Quote, x.equals + 2, Len(b)) => SpansAt(7, b, s)
  BY DEF SpansAt, Taking, Text
<1>5. Opened(b, from, x, Apostrophe) /\ No(b, Apostrophe, x.equals + 2, Len(b))
        => SpansAt(8, b, s)
  BY DEF SpansAt, Taking, Text
<1>6. Closed(b, from, x) /\ x.end = Len(b) => SpansAt(9, b, s)
  BY DEF SpansAt, Taking, Text
<1> QED
  BY <1>1, <1>2, <1>3, <1>4, <1>5, <1>6

(* From phase to phase: what one more character makes of a tag.              *)
LEMMA AfterSpace ==
  ASSUME NEW b, NEW b2, Grows(b, b2), Len(b) > 1, ~IsEndTag(b), NEW s \in Seq(Span),
         PlacedUpTo(b2, s, Len(s)), StartOf(b2, s, Len(s) + 1) = Len(b) + 2
  PROVE  /\ Len(b2) = Len(b) + 1 => SpansAt(3, b2, s)
         /\ Len(b2) = Len(b) + 2 /\ b2[Len(b2)] # "=" => SpansAt(13, b2, s) /\ SpansAt(100, b2, s)
<1>1. ~IsEndTag(b2) /\ Len(b2) > 1 /\ Len(b) \in Nat /\ Len(b2) \in Nat
  BY EndTagKept DEF Grows
<1>2. ASSUME Len(b2) = Len(b) + 1
      PROVE  SpansAt(3, b2, s)
  <2>1. StartOf(b2, s, Len(s) + 1) = Len(b2) + 1
    BY <1>1, <1>2
  <2> QED
    BY <1>1, <2>1, BetweenAsks
<1>3. ASSUME Len(b2) = Len(b) + 2, b2[Len(b2)] # "="
      PROVE  SpansAt(13, b2, s) /\ SpansAt(100, b2, s)
  <2>1. LaidOut(b2, s)
    BY <1>1, <1>3, LaidOutEnd
  <2> QED
    BY <1>1, <2>1, BetweenAsks, WholeAsks
<1> QED
  BY <1>2, <1>3

LEMMA FromName ==
  ASSUME NEW b, NEW b2, Grows(b, b2), SpansAt(2, b, <<>>)
  PROVE  /\ OneMore(b, b2) /\ b2[Len(b2)] # Space => SpansAt(2, b2, <<>>)
         /\ OneMore(b, b2) /\ b2[Len(b2)] = Space => SpansAt(3, b2, <<>>)
         /\ Len(b2) = Len(b) + 2 /\ b2[Len(b) + 1] = Space /\ b2[Len(b2)] # "="
              => SpansAt(13, b2, <<>>) /\ SpansAt(100, b2, <<>>)
<1>1. Len(b) > 1 /\ ~IsEndTag(b) /\ No(b, Space, 1, Len(b)) /\ Len(b) \in Nat
  BY DEF SpansAt, Grows
<1>2. ~IsEndTag(b2) /\ Len(b2) > 1
  BY <1>1, EndTagKept
<1>3. ASSUME OneMore(b, b2), b2[Len(b2)] # Space
      PROVE  SpansAt(2, b2, <<>>)
  BY <1>1, <1>2, <1>3, NoGrows, NameAsks
<1>4. <<>> \in Seq(Span) /\ Len(<<>>) = 0
  OBVIOUS
<1>5. ASSUME Len(b) < Len(b2), b2[Len(b) + 1] = Space
      PROVE  PlacedUpTo(b2, <<>>, Len(<<>>)) /\ StartOf(b2, <<>>, Len(<<>>) + 1) = Len(b) + 2
  <2>1. StartOf(b2, <<>>, 1) = Len(b) + 2 /\ PlacedUpTo(b2, <<>>, 0)
    BY <1>1, <1>5, NoAttribute
  <2> QED
    BY <1>4, <2>1
<1>6. ASSUME OneMore(b, b2), b2[Len(b2)] = Space
      PROVE  SpansAt(3, b2, <<>>)
  <2>1. Len(b2) = Len(b) + 1
    BY <1>6 DEF OneMore
  <2>2. Len(b) < Len(b2) /\ b2[Len(b) + 1] = Space
    BY <1>1, <1>6, <2>1
  <2> QED
    BY <1>1, <1>4, <1>5, <2>1, <2>2, AfterSpace
<1>7. ASSUME Len(b2) = Len(b) + 2, b2[Len(b) + 1] = Space, b2[Len(b2)] # "="
      PROVE  SpansAt(13, b2, <<>>) /\ SpansAt(100, b2, <<>>)
  <2>1. Len(b) < Len(b2)
    BY <1>1, <1>7
  <2> QED
    BY <1>1, <1>4, <1>5, <1>7, <2>1, AfterSpace
<1> QED
  BY <1>3, <1>6, <1>7

LEMMA FromBetween ==
  ASSUME NEW b, NEW b2, OneMore(b, b2), Spaced(b), NEW s \in Seq(Span), SpansAt(3, b, s),
         b2[Len(b2)] # "="
  PROVE  SpansAt(13, b2, s) /\ SpansAt(100, b2, s)
<1>1. /\ Len(b) > 1 /\ ~IsEndTag(b) /\ Len(b) \in Nat /\ PlacedUpTo(b, s, Len(s))
      /\ StartOf(b, s, Len(s) + 1) = Len(b) + 1 /\ Grows(b, b2) /\ Len(b2) = Len(b) + 1
      /\ Len(b2) \in Nat
  BY DEF SpansAt, OneMore, Grows
<1>2. ~IsEndTag(b2) /\ Len(b2) > 1
  BY <1>1, EndTagKept
<1>3. PlacedUpTo(b2, s, Len(s)) /\ StartOf(b2, s, Len(s) + 1) = Len(b2)
  BY <1>1, StillPlaced
<1>4. LaidOut(b2, s)
  BY <1>1, <1>3, LaidOutEnd
<1> QED
  BY <1>2, <1>4, BetweenAsks, WholeAsks

LEMMA BeginsName ==
  ASSUME NEW b, NEW b2, OneMore(b, b2), Spaced(b), NEW s \in Seq(Span), SpansAt(3, b, s),
         b2[Len(b2)] # "=", NEW y \in Span, y.start = Len(b) + 1
  PROVE  LET s2 == Append(s, y) IN s2 \in Seq(Span) /\ SpansAt(4, b2, s2)
<1>1. /\ Len(b) > 1 /\ ~IsEndTag(b) /\ PlacedUpTo(b, s, Len(s))
      /\ StartOf(b, s, Len(s) + 1) = Len(b) + 1 /\ Grows(b, b2)
  BY DEF SpansAt, OneMore
<1>2. ~IsEndTag(b2) /\ Len(b2) > 1
  BY <1>1, EndTagKept
<1> DEFINE s2 == Append(s, y)
<1>3. /\ s2 \in Seq(Span) /\ s2 # <<>> /\ PlacedUpTo(b2, s2, Len(s2) - 1)
      /\ Named(b2, StartOf(b2, s2, Len(s2)), s2[Len(s2)])
  BY <1>1, NextBegins, Zenon
<1> SUFFICES s2 \in Seq(Span) /\ SpansAt(4, b2, s2)
  OBVIOUS
<1> HIDE DEF s2
<1> QED
  BY <1>2, <1>3, WithinAsks, Zenon

(* The attribute under way, as phases 4 to 9 know it. *)
LEMMA Under ==
  ASSUME NEW b, NEW s \in Seq(Span), NEW p \in 4..9, SpansAt(p, b, s)
  PROVE  /\ Len(b) > 1 /\ ~IsEndTag(b) /\ s # <<>> /\ PlacedUpTo(b, s, Len(s) - 1)
         /\ s[Len(s)] \in Span
<1>1. Len(b) > 1 /\ ~IsEndTag(b) /\ s # <<>> /\ PlacedUpTo(b, s, Len(s) - 1)
  BY DEF SpansAt
<1> QED
  BY <1>1

LEMMA InName ==
  ASSUME NEW b, NEW b2, OneMore(b, b2), Spaced(b), NEW s \in Seq(Span),
         NEW p \in {4, 5}, SpansAt(p, b, s), b2[Len(b2)] # "="
  PROVE  SpansAt(4, b2, s)
<1>1. /\ Len(b) > 1 /\ ~IsEndTag(b) /\ s # <<>> /\ PlacedUpTo(b, s, Len(s) - 1)
      /\ s[Len(s)] \in Span
  BY Under
<1>2. Named(b, StartOf(b, s, Len(s)), s[Len(s)])
  BY DEF SpansAt
<1>3. Grows(b, b2)
  BY DEF OneMore
<1>4. ~IsEndTag(b2) /\ Len(b2) > 1
  BY <1>1, <1>3, EndTagKept
<1>5. /\ PlacedUpTo(b2, s, Len(s) - 1) /\ StartOf(b2, s, Len(s)) = StartOf(b, s, Len(s))
      /\ StartOf(b, s, Len(s)) \in Nat \ {0}
  BY <1>1, <1>3, LastGoesOn
<1>6. Named(b2, StartOf(b2, s, Len(s)), s[Len(s)])
  BY <1>2, <1>5, NameGoesOn, Zenon
<1> QED
  BY <1>1, <1>4, <1>5, <1>6, WithinAsks, Zenon

LEMMA BlankInName ==
  ASSUME NEW b, NEW s \in Seq(Span), NEW p \in {4, 5}, SpansAt(p, b, s)
  PROVE  SpansAt(5, b, s)
<1>1. /\ Len(b) > 1 /\ ~IsEndTag(b) /\ s # <<>> /\ PlacedUpTo(b, s, Len(s) - 1)
  BY Under
<1>2. Named(b, StartOf(b, s, Len(s)), s[Len(s)])
  BY DEF SpansAt
<1> QED
  BY <1>1, <1>2, WithinAsks, Zenon

LEMMA EndsName ==
  ASSUME NEW b, NEW b2, OneMore(b, b2), Spaced(b), NEW s \in Seq(Span),
         NEW p \in {4, 5}, SpansAt(p, b, s), b2[Len(b2)] = "="
  PROVE  LET s2 == LastBecomes(s, [s[Len(s)] EXCEPT !.equals = Len(b) + 1])
         IN  s2 \in Seq(Span) /\ SpansAt(6, b2, s2)
<1>1. /\ Len(b) > 1 /\ ~IsEndTag(b) /\ s # <<>> /\ PlacedUpTo(b, s, Len(s) - 1)
      /\ s[Len(s)] \in Span
  BY Under
<1>2. Named(b, StartOf(b, s, Len(s)), s[Len(s)])
  BY DEF SpansAt
<1>3. Grows(b, b2)
  BY DEF OneMore
<1>4. ~IsEndTag(b2) /\ Len(b2) > 1
  BY <1>1, <1>3, EndTagKept
<1> DEFINE y == [s[Len(s)] EXCEPT !.equals = Len(b) + 1]
           s2 == LastBecomes(s, y)
<1>5. StartOf(b, s, Len(s)) \in Nat \ {0}
  BY <1>1, <1>3, LastGoesOn
<1>6. y \in Span /\ Equated(b2, StartOf(b, s, Len(s)), y) /\ y.equals = Len(b2)
  BY <1>1, <1>2, <1>5, NameEnds, Zenon
<1>7. /\ s2 \in Seq(Span) /\ s2 # <<>> /\ Len(s2) = Len(s) /\ s2[Len(s)] = y
      /\ PlacedUpTo(b2, s2, Len(s) - 1)
      /\ StartOf(b2, s2, Len(s)) = StartOf(b, s, Len(s))
  <2>1. y \in Span
    BY <1>6
  <2> HIDE DEF y
  <2> QED
    BY <1>1, <1>3, <2>1, LastMoves
<1> SUFFICES s2 \in Seq(Span) /\ SpansAt(6, b2, s2)
  OBVIOUS
<1> HIDE DEF y, s2
<1> QED
  BY <1>4, <1>6, <1>7, WithinAsks, Zenon

LEMMA ToQuote ==
  ASSUME NEW b, NEW b2, OneMore(b, b2), Spaced(b), NEW s \in Seq(Span), SpansAt(6, b, s)
  PROVE  /\ b2[Len(b2)] = Quote => SpansAt(7, b2, s)
         /\ b2[Len(b2)] = Apostrophe => SpansAt(8, b2, s)
<1>1. /\ Len(b) > 1 /\ ~IsEndTag(b) /\ s # <<>> /\ PlacedUpTo(b, s, Len(s) - 1)
      /\ s[Len(s)] \in Span
  BY Under
<1> DEFINE x == s[Len(s)]
<1>2. Equated(b, StartOf(b, s, Len(s)), x) /\ x.equals = Len(b)
  BY DEF SpansAt
<1>3. Grows(b, b2)
  BY DEF OneMore
<1>4. ~IsEndTag(b2) /\ Len(b2) > 1
  BY <1>1, <1>3, EndTagKept
<1>5. /\ PlacedUpTo(b2, s, Len(s) - 1) /\ StartOf(b2, s, Len(s)) = StartOf(b, s, Len(s))
      /\ StartOf(b, s, Len(s)) \in Nat \ {0}
  BY <1>1, <1>3, LastGoesOn
<1>6. ASSUME NEW q, b2[Len(b2)] = q
      PROVE  Opened(b2, StartOf(b2, s, Len(s)), x, q) /\ No(b2, q, x.equals + 2, Len(b2))
  BY <1>1, <1>2, <1>5, <1>6, QuoteOpens, Zenon
<1> QED
  BY <1>1, <1>4, <1>5, <1>6, WithinAsks, Zenon

LEMMA InValue ==
  ASSUME NEW b, NEW b2, OneMore(b, b2), Spaced(b), NEW s \in Seq(Span),
         NEW p, NEW q, Within(p, q), SpansAt(p, b, s), b2[Len(b2)] # q
  PROVE  SpansAt(p, b2, s)
<1>0. p \in {7, 8}
  BY DEF Within
<1>1. /\ Len(b) > 1 /\ ~IsEndTag(b) /\ s # <<>> /\ PlacedUpTo(b, s, Len(s) - 1)
      /\ s[Len(s)] \in Span
  BY <1>0, Under
<1> DEFINE x == s[Len(s)]
<1>2. Opened(b, StartOf(b, s, Len(s)), x, q) /\ No(b, q, x.equals + 2, Len(b))
  BY DEF SpansAt, Within
<1>3. Grows(b, b2)
  BY DEF OneMore
<1>4. ~IsEndTag(b2) /\ Len(b2) > 1
  BY <1>1, <1>3, EndTagKept
<1>5. /\ PlacedUpTo(b2, s, Len(s) - 1) /\ StartOf(b2, s, Len(s)) = StartOf(b, s, Len(s))
      /\ StartOf(b, s, Len(s)) \in Nat \ {0}
  BY <1>1, <1>3, LastGoesOn
<1>6. Opened(b2, StartOf(b2, s, Len(s)), x, q) /\ No(b2, q, x.equals + 2, Len(b2))
  BY <1>1, <1>2, <1>5, ValueGoesOn, Zenon
<1>7. \/ p = 7 /\ q = Quote
      \/ p = 8 /\ q = Apostrophe
  BY DEF Within
<1> QED
  BY <1>1, <1>4, <1>5, <1>6, <1>7, WithinAsks, Zenon

LEMMA EndsValue ==
  ASSUME NEW b, NEW b2, OneMore(b, b2), Spaced(b), NEW s \in Seq(Span),
         NEW p, NEW q, Within(p, q), SpansAt(p, b, s), b2[Len(b2)] = q
  PROVE  LET s2 == LastBecomes(s, [s[Len(s)] EXCEPT !.end = Len(b) + 1])
         IN  s2 \in Seq(Span) /\ SpansAt(9, b2, s2)
<1>0. p \in {7, 8} /\ q \in {Quote, Apostrophe}
  BY DEF Within
<1>1. /\ Len(b) > 1 /\ ~IsEndTag(b) /\ s # <<>> /\ PlacedUpTo(b, s, Len(s) - 1)
      /\ s[Len(s)] \in Span
  BY <1>0, Under
<1>2. /\ Opened(b, StartOf(b, s, Len(s)), s[Len(s)], q)
      /\ No(b, q, s[Len(s)].equals + 2, Len(b))
  BY DEF SpansAt, Within
<1>3. Grows(b, b2)
  BY DEF OneMore
<1>4. ~IsEndTag(b2) /\ Len(b2) > 1
  BY <1>1, <1>3, EndTagKept
<1> DEFINE y == [s[Len(s)] EXCEPT !.end = Len(b) + 1]
           s2 == LastBecomes(s, y)
<1>5. StartOf(b, s, Len(s)) \in Nat \ {0}
  BY <1>1, <1>3, LastGoesOn
<1>6. y \in Span /\ Closed(b2, StartOf(b, s, Len(s)), y) /\ y.end = Len(b2)
  BY <1>1, <1>2, <1>5, QuoteCloses, Zenon
<1>7. /\ s2 \in Seq(Span) /\ s2 # <<>> /\ Len(s2) = Len(s) /\ s2[Len(s)] = y
      /\ PlacedUpTo(b2, s2, Len(s) - 1)
      /\ StartOf(b2, s2, Len(s)) = StartOf(b, s, Len(s))
  <2>1. y \in Span
    BY <1>6
  <2> HIDE DEF y
  <2> QED
    BY <1>1, <1>3, <2>1, LastMoves
<1> SUFFICES s2 \in Seq(Span) /\ SpansAt(9, b2, s2)
  OBVIOUS
<1> HIDE DEF y, s2
<1> QED
  BY <1>4, <1>6, <1>7, WithinAsks, Zenon

LEMMA FromValue ==
  ASSUME NEW b, NEW b2, Grows(b, b2), Spaced(b), NEW s \in Seq(Span), SpansAt(9, b, s),
         Len(b) < Len(b2), b2[Len(b) + 1] = Space
  PROVE  /\ Len(b2) = Len(b) + 1 => SpansAt(3, b2, s)
         /\ Len(b2) = Len(b) + 2 /\ b2[Len(b2)] # "=" => SpansAt(13, b2, s) /\ SpansAt(100, b2, s)
<1>1. /\ Len(b) > 1 /\ ~IsEndTag(b) /\ s # <<>> /\ PlacedUpTo(b, s, Len(s) - 1)
  BY Under
<1>2. Closed(b, StartOf(b, s, Len(s)), s[Len(s)]) /\ s[Len(s)].end = Len(b)
  BY DEF SpansAt
<1>3. PlacedUpTo(b2, s, Len(s)) /\ StartOf(b2, s, Len(s) + 1) = Len(b) + 2
  BY <1>1, <1>2, LastIsPlaced
<1> QED
  BY <1>1, <1>3, AfterSpace

LEMMA InEndTag ==
  ASSUME NEW b, NEW b2, Grows(b, b2), NEW p \in {10, 11, 12}, SpansAt(p, b, <<>>)
  PROVE  /\ SpansAt(12, b2, <<>>) /\ SpansAt(100, b2, <<>>)
         /\ p # 12 /\ OneMore(b, b2) /\ b2[Len(b2)] # Space => SpansAt(11, b2, <<>>)
<1>1. Len(b) > 1 /\ IsEndTag(b) /\ Len(b) \in Nat
  BY DEF SpansAt, Grows
<1>2. IsEndTag(b2) /\ Len(b2) > 1
  BY <1>1, EndTagKept
<1>3. ASSUME p # 12, OneMore(b, b2), b2[Len(b2)] # Space
      PROVE  SpansAt(11, b2, <<>>)
  <2>1. No(b, Space, 1, Len(b))
    BY <1>3 DEF SpansAt
  <2> QED
    BY <1>2, <1>3, <2>1, NoGrows, NameAsks
<1> QED
  BY <1>2, <1>3, EndTagAsks, WholeAsks

LEMMA FromSlash ==
  ASSUME NEW b, NEW b2, OneMore(b, b2), Spaced(b), NEW s \in Seq(Span), SpansAt(13, b, s),
         b2[Len(b2)] # "="
  PROVE  SpansAt(100, b2, s)
<1>1. LaidOut(b, s)
  BY DEF SpansAt
<1> QED
  BY <1>1, LaidOutKept, WholeAsks

(* What the history of a tag becomes. *)
LEMMA SeenAs ==
  ASSUME NEW p, NEW go
  PROVE  /\ p = 3 /\ go = 4 =>
              Seen(p, go) = Append(spans, [start |-> Len(buf) + 1, equals |-> 0, end |-> 0])
         /\ p \in {4, 5} /\ go = 6 =>
              Seen(p, go) = LastBecomes(spans, [spans[Len(spans)] EXCEPT !.equals = Len(buf) + 1])
         /\ p \in {7, 8} /\ go = 9 =>
              Seen(p, go) = LastBecomes(spans, [spans[Len(spans)] EXCEPT !.end = Len(buf) + 1])
         /\ go \notin {4, 6, 9} => Seen(p, go) = spans
         /\ p = go => Seen(p, go) = spans
<1>1. ASSUME p = 3, go = 4
      PROVE  Seen(p, go) = Append(spans, [start |-> Len(buf) + 1, equals |-> 0, end |-> 0])
  BY <1>1 DEF Seen
<1>2. ASSUME p \in {4, 5}, go = 6
      PROVE  Seen(p, go) = LastBecomes(spans, [spans[Len(spans)] EXCEPT !.equals = Len(buf) + 1])
  BY <1>2 DEF Seen, LastBecomes
<1>3. ASSUME p \in {7, 8}, go = 9
      PROVE  Seen(p, go) = LastBecomes(spans, [spans[Len(spans)] EXCEPT !.end = Len(buf) + 1])
  BY <1>3 DEF Seen, LastBecomes
<1>4. go \notin {4, 6, 9} => Seen(p, go) = spans
  BY DEF Seen
<1>5. p = go => Seen(p, go) = spans
  BY DEF Seen
<1> QED
  BY <1>1, <1>2, <1>3, <1>4, <1>5, Zenon

(* One character of a tag, and the history with it. *)
LEMMA SpanStep ==
  ASSUME ShapeInv, SpansInv, spans \in Seq(Span), ReadChar
  PROVE  SpansInv' /\ spans' \in Seq(Span)
<1>0. PICK r \in Rules(phase) : /\ ch \in r.on /\ ch \in Chars /\ phase' = r.go
                               /\ spans' = Seen(phase, r.go) /\ Grown(r)
  BY OneChar DEF ShapeInv
<1> DEFINE Go(p, put) == phase' = p /\ r.put = put
           From(p) == phase = p /\ SpansAt(p, buf, spans)
<1>1. /\ r.put = "char" => OneMore(buf, buf') /\ buf'[Len(buf')] = ch
      /\ r.put = "space" => OneMore(buf, buf') /\ buf'[Len(buf')] = Space
      /\ r.put = "spaced" => /\ Grows(buf, buf') /\ Len(buf') = Len(buf) + 2
                             /\ buf'[Len(buf) + 1] = Space /\ buf'[Len(buf')] = ch
      /\ r.put = "nothing" => buf' = buf
      /\ r.put = "back" => buf' = <<>>
      /\ Len(buf) \in Nat
  BY <1>0, GrownTag DEF ShapeInv
<1>2. OneMore(buf, buf') =>
         /\ Grows(buf, buf') /\ Len(buf') = Len(buf) + 1 /\ Len(buf) < Len(buf')
         /\ buf'[Len(buf')] = buf'[Len(buf) + 1]
  BY <1>1 DEF OneMore
<1>3. SpansAt(phase, buf, spans)
  BY DEF SpansInv
<1>4. phase \in 0..21 /\ (phase \in {3, 4, 5, 6, 7, 8, 9, 12, 13} => Spaced(buf))
  BY DEF ReadChar, InTag, ShapeInv, ScanInv, HasSpace, Spaced
<1>5. phase \in {0, 1, 2} \union (10..12) \union (14..21) => spans = <<>>
  BY <1>3 DEF SpansAt
<1>6. /\ spans' = Seen(phase, phase')
      /\ phase' \notin {4, 6, 9} => spans' = spans
      /\ phase' = phase => spans' = spans
  BY <1>0, SeenAs
<1> SUFFICES SpansAt(phase', buf', spans') /\ spans' \in Seq(Span)
  BY DEF SpansInv
<1>7. CASE phase = 0
  <2>1. \/ Go(0, "nothing")
        \/ Go(1, "char") /\ ch = "<"
    BY <1>0, <1>7, PlainNames DEF Rules, R, Other, White
  <2>2. SpansAt(0, buf, spans)
    BY <1>3, <1>7
  <2>3. CASE Go(0, "nothing")
    <3>1. buf' = buf /\ spans' = spans
      BY <1>1, <1>6, <1>7, <2>3
    <3> QED
      BY <2>2, <1>7, <2>3, <3>1
  <2>4. CASE Go(1, "char") /\ ch = "<"
    <3>1. spans' = <<>> /\ OneMore(buf, buf') /\ buf = <<>>
      BY <1>1, <1>5, <1>6, <1>7, <2>4 DEF ShapeInv, ScanInv
    <3>2. Len(buf') = 1 /\ buf'[1] = "<"
      BY <1>1, <1>2, <2>4, <3>1
    <3> QED
      BY <2>4, <3>1, <3>2, BeginAsks
  <2> QED
    BY <2>1, <2>3, <2>4
<1>8. CASE phase = 1
  <2>1. \/ Go(10, "char") /\ ch = "/"
        \/ Go(14, "back")
        \/ Go(15, "back")
        \/ Go(2, "char") /\ ch # Space /\ ch # "/"
    BY <1>0, <1>8, PlainNames DEF Rules, R, Other, White
  <2>2. SpansAt(1, buf, spans)
    BY <1>3, <1>8
  <2>3. CASE Go(10, "char") /\ ch = "/"
    <3>1. spans' = <<>> /\ OneMore(buf, buf') /\ Len(buf) = 1 /\ buf[1] = "<"
      BY <1>1, <1>5, <1>6, <2>2, <1>8, <2>3 DEF SpansAt
    <3>2. Len(buf') = 2 /\ buf'[1] = "<" /\ buf'[2] = ch
      BY <1>1, <1>2, <2>3, <3>1 DEF Grows
    <3>3. No(buf', Space, 1, Len(buf')) /\ Len(buf') > 1
      <4>1. ch # Space /\ "<" # Space
        BY <2>3 DEF Space
      <4>2. \A j \in 1..2 : j = 1 \/ j = 2
        OBVIOUS
      <4> QED
        BY <3>2, <4>1, <4>2 DEF No
    <3>4. IsEndTag(buf') <=> phase' = 10
      BY <2>3, <3>2 DEF IsEndTag
    <3> QED
      BY <2>3, <3>1, <3>3, <3>4, NameAsks
  <2>4. CASE Go(14, "back")
    <3>1. spans' = <<>>
      BY <1>5, <1>6, <1>8, <2>4
    <3> QED
      BY <2>4, <3>1, NoTagAsks
  <2>5. CASE Go(15, "back")
    <3>1. spans' = <<>>
      BY <1>5, <1>6, <1>8, <2>5
    <3> QED
      BY <2>5, <3>1, NoTagAsks
  <2>6. CASE Go(2, "char") /\ ch # Space /\ ch # "/"
    <3>1. spans' = <<>> /\ OneMore(buf, buf') /\ Len(buf) = 1 /\ buf[1] = "<"
      BY <1>1, <1>5, <1>6, <2>2, <1>8, <2>6 DEF SpansAt
    <3>2. Len(buf') = 2 /\ buf'[1] = "<" /\ buf'[2] = ch
      BY <1>1, <1>2, <2>6, <3>1 DEF Grows
    <3>3. No(buf', Space, 1, Len(buf')) /\ Len(buf') > 1
      <4>1. ch # Space /\ "<" # Space
        BY <2>6 DEF Space
      <4>2. \A j \in 1..2 : j = 1 \/ j = 2
        OBVIOUS
      <4> QED
        BY <3>2, <4>1, <4>2 DEF No
    <3>4. IsEndTag(buf') <=> phase' = 10
      BY <2>6, <3>2 DEF IsEndTag
    <3> QED
      BY <2>6, <3>1, <3>3, <3>4, NameAsks
  <2> QED
    BY <2>1, <2>3, <2>4, <2>5, <2>6
<1>9. CASE phase = 2
  <2>1. \/ Go(3, "space")
        \/ Go(13, "spaced") /\ ch = "/"
        \/ Go(100, "spaced") /\ ch = ">"
        \/ Go(2, "char") /\ ch # Space
    BY <1>0, <1>9, PlainNames DEF Rules, R, Other, White
  <2>2. SpansAt(2, buf, spans)
    BY <1>3, <1>9
  <2>3. CASE Go(3, "space")
    <3>1. spans' = spans /\ (r.put # "spaced" => OneMore(buf, buf'))
      BY <1>1, <1>6, <1>9, <2>3
    <3> QED
      BY <1>1, <1>2, <1>4, <1>5, <2>2, <1>9, <2>3, <3>1, FromName
  <2>4. CASE Go(13, "spaced") /\ ch = "/"
    <3>1. spans' = spans /\ (r.put # "spaced" => OneMore(buf, buf'))
      BY <1>1, <1>6, <1>9, <2>4
    <3> QED
      BY <1>1, <1>2, <1>4, <1>5, <2>2, <1>9, <2>4, <3>1, FromName
  <2>5. CASE Go(100, "spaced") /\ ch = ">"
    <3>1. spans' = spans /\ (r.put # "spaced" => OneMore(buf, buf'))
      BY <1>1, <1>6, <1>9, <2>5
    <3> QED
      BY <1>1, <1>2, <1>4, <1>5, <2>2, <1>9, <2>5, <3>1, FromName
  <2>6. CASE Go(2, "char") /\ ch # Space
    <3>1. spans' = spans /\ (r.put # "spaced" => OneMore(buf, buf'))
      BY <1>1, <1>6, <1>9, <2>6
    <3> QED
      BY <1>1, <1>2, <1>4, <1>5, <2>2, <1>9, <2>6, <3>1, FromName
  <2> QED
    BY <2>1, <2>3, <2>4, <2>5, <2>6
<1>10. CASE phase = 3
  <2>1. \/ Go(3, "nothing")
        \/ Go(13, "char") /\ ch = "/"
        \/ Go(100, "char") /\ ch = ">"
        \/ Go(4, "char") /\ ch # "="
    BY <1>0, <1>10, PlainNames DEF Rules, R, Other, White
  <2>2. SpansAt(3, buf, spans)
    BY <1>3, <1>10
  <2>3. CASE Go(3, "nothing")
    <3>1. buf' = buf /\ spans' = spans
      BY <1>1, <1>6, <1>10, <2>3
    <3> QED
      BY <2>2, <1>10, <2>3, <3>1
  <2>4. CASE Go(13, "char") /\ ch = "/"
    <3>1. spans' = spans /\ (r.put # "spaced" => OneMore(buf, buf'))
      BY <1>1, <1>6, <1>10, <2>4
    <3> QED
      BY <1>1, <1>2, <1>4, <1>5, <2>2, <1>10, <2>4, <3>1, FromBetween
  <2>5. CASE Go(100, "char") /\ ch = ">"
    <3>1. spans' = spans /\ (r.put # "spaced" => OneMore(buf, buf'))
      BY <1>1, <1>6, <1>10, <2>5
    <3> QED
      BY <1>1, <1>2, <1>4, <1>5, <2>2, <1>10, <2>5, <3>1, FromBetween
  <2>6. CASE Go(4, "char") /\ ch # "="
    <3> DEFINE y == [start |-> Len(buf) + 1, equals |-> 0, end |-> 0]
    <3>1. spans' = Append(spans, y) /\ OneMore(buf, buf')
      BY <1>1, <1>6, <1>10, <2>6, SeenAs
    <3>2. y \in Span /\ y.start = Len(buf) + 1
      BY <1>1 DEF Span
    <3> HIDE DEF y
    <3>3. LET s2 == Append(spans, y) IN s2 \in Seq(Span) /\ SpansAt(4, buf', s2)
      <4>1. Spaced(buf) /\ buf'[Len(buf')] # "="
        BY <1>1, <1>4, <1>10, <2>6
      <4> QED
        BY <2>2, <3>1, <3>2, <4>1, BeginsName, Zenon
    <3> QED
      BY <2>6, <3>1, <3>3, Zenon
  <2> QED
    BY <2>1, <2>3, <2>4, <2>5, <2>6
<1>11. CASE phase = 4
  <2>1. \/ Go(5, "nothing")
        \/ Go(6, "char") /\ ch = "="
        \/ Go(4, "char") /\ ch # "="
    BY <1>0, <1>11, PlainNames DEF Rules, R, Other, White
  <2>2. SpansAt(4, buf, spans)
    BY <1>3, <1>11
  <2>3. CASE Go(5, "nothing")
    <3>1. buf' = buf /\ spans' = spans
      BY <1>1, <1>6, <1>11, <2>3
    <3> QED
      BY <2>2, <1>11, <2>3, <3>1, BlankInName
  <2>4. CASE Go(6, "char") /\ ch = "="
    <3> DEFINE s2 == LastBecomes(spans, [spans[Len(spans)] EXCEPT !.equals = Len(buf) + 1])
    <3>1. spans' = s2
      BY <1>6, <1>11, <2>4, SeenAs, Zenon
    <3>2. OneMore(buf, buf') /\ Spaced(buf) /\ buf'[Len(buf')] = ch
      BY <1>1, <1>4, <1>11, <2>4
    <3>3. s2 \in Seq(Span) /\ SpansAt(6, buf', s2)
      <4>1. 4 \in {4, 5} /\ ch = "="
        BY <2>4
      <4> QED
        BY <2>2, <3>2, <4>1, EndsName, Zenon
    <3> HIDE DEF s2
    <3> QED
      BY <2>4, <3>1, <3>3
  <2>5. CASE Go(4, "char") /\ ch # "="
    <3>1. spans' = spans /\ OneMore(buf, buf') /\ Spaced(buf) /\ buf'[Len(buf')] # "="
      BY <1>1, <1>4, <1>6, <1>11, <2>5
    <3> QED
      BY <2>2, <1>11, <2>5, <3>1, InName
  <2> QED
    BY <2>1, <2>3, <2>4, <2>5
<1>12. CASE phase = 5
  <2>1. \/ Go(5, "nothing")
        \/ Go(6, "char") /\ ch = "="
    BY <1>0, <1>12, PlainNames DEF Rules, R, Other, White
  <2>2. SpansAt(5, buf, spans)
    BY <1>3, <1>12
  <2>3. CASE Go(5, "nothing")
    <3>1. buf' = buf /\ spans' = spans
      BY <1>1, <1>6, <1>12, <2>3
    <3> QED
      BY <2>2, <1>12, <2>3, <3>1
  <2>4. CASE Go(6, "char") /\ ch = "="
    <3> DEFINE s2 == LastBecomes(spans, [spans[Len(spans)] EXCEPT !.equals = Len(buf) + 1])
    <3>1. spans' = s2
      BY <1>6, <1>12, <2>4, SeenAs, Zenon
    <3>2. OneMore(buf, buf') /\ Spaced(buf) /\ buf'[Len(buf')] = ch
      BY <1>1, <1>4, <1>12, <2>4
    <3>3. s2 \in Seq(Span) /\ SpansAt(6, buf', s2)
      <4>1. 5 \in {4, 5} /\ ch = "="
        BY <2>4
      <4> QED
        BY <2>2, <3>2, <4>1, EndsName, Zenon
    <3> HIDE DEF s2
    <3> QED
      BY <2>4, <3>1, <3>3
  <2> QED
    BY <2>1, <2>3, <2>4
<1>13. CASE phase = 6
  <2>1. \/ Go(6, "nothing")
        \/ Go(7, "char") /\ ch = Quote
        \/ Go(8, "char") /\ ch = Apostrophe
    BY <1>0, <1>13, PlainNames DEF Rules, R, Other, White
  <2>2. SpansAt(6, buf, spans)
    BY <1>3, <1>13
  <2>3. CASE Go(6, "nothing")
    <3>1. buf' = buf /\ spans' = spans
      BY <1>1, <1>6, <1>13, <2>3
    <3> QED
      BY <2>2, <1>13, <2>3, <3>1
  <2>4. CASE Go(7, "char") /\ ch = Quote
    <3>1. spans' = spans /\ (r.put # "spaced" => OneMore(buf, buf'))
      BY <1>1, <1>6, <1>13, <2>4
    <3> QED
      BY <1>1, <1>2, <1>4, <1>5, <2>2, <1>13, <2>4, <3>1, ToQuote
  <2>5. CASE Go(8, "char") /\ ch = Apostrophe
    <3>1. spans' = spans /\ (r.put # "spaced" => OneMore(buf, buf'))
      BY <1>1, <1>6, <1>13, <2>5
    <3> QED
      BY <1>1, <1>2, <1>4, <1>5, <2>2, <1>13, <2>5, <3>1, ToQuote
  <2> QED
    BY <2>1, <2>3, <2>4, <2>5
<1>14. CASE phase = 7
  <2>1. \/ Go(7, "space")
        \/ Go(9, "char") /\ ch = Quote
        \/ Go(7, "char") /\ ch # Quote
    BY <1>0, <1>14, PlainNames DEF Rules, R, Other, White
  <2>2. SpansAt(7, buf, spans)
    BY <1>3, <1>14
  <2>3. CASE Go(7, "space")
    <3>1. /\ spans' = spans /\ OneMore(buf, buf') /\ Spaced(buf) /\ buf'[Len(buf')] # Quote
          /\ Within(7, Quote)
      BY <1>1, <1>4, <1>6, <1>14, <2>3 DEF Within, Space, Quote, Apostrophe
    <3> QED
      BY <2>2, <1>14, <2>3, <3>1, InValue
  <2>4. CASE Go(9, "char") /\ ch = Quote
    <3> DEFINE s2 == LastBecomes(spans, [spans[Len(spans)] EXCEPT !.end = Len(buf) + 1])
    <3>1. spans' = s2
      BY <1>6, <1>14, <2>4, SeenAs, Zenon
    <3>2. OneMore(buf, buf') /\ Spaced(buf) /\ buf'[Len(buf')] = ch
      BY <1>1, <1>4, <1>14, <2>4
    <3>3. s2 \in Seq(Span) /\ SpansAt(9, buf', s2)
      <4>1. Within(7, Quote) /\ ch = Quote
        BY <2>4 DEF Within
      <4> QED
        BY <2>2, <3>2, <4>1, EndsValue, Zenon
    <3> HIDE DEF s2
    <3> QED
      BY <2>4, <3>1, <3>3
  <2>5. CASE Go(7, "char") /\ ch # Quote
    <3>1. /\ spans' = spans /\ OneMore(buf, buf') /\ Spaced(buf) /\ buf'[Len(buf')] # Quote
          /\ Within(7, Quote)
      BY <1>1, <1>4, <1>6, <1>14, <2>5 DEF Within, Space, Quote, Apostrophe
    <3> QED
      BY <2>2, <1>14, <2>5, <3>1, InValue
  <2> QED
    BY <2>1, <2>3, <2>4, <2>5
<1>15. CASE phase = 8
  <2>1. \/ Go(8, "space")
        \/ Go(9, "char") /\ ch = Apostrophe
        \/ Go(8, "char") /\ ch # Apostrophe
    BY <1>0, <1>15, PlainNames DEF Rules, R, Other, White
  <2>2. SpansAt(8, buf, spans)
    BY <1>3, <1>15
  <2>3. CASE Go(8, "space")
    <3>1. /\ spans' = spans /\ OneMore(buf, buf') /\ Spaced(buf) /\ buf'[Len(buf')] # Apostrophe
          /\ Within(8, Apostrophe)
      BY <1>1, <1>4, <1>6, <1>15, <2>3 DEF Within, Space, Quote, Apostrophe
    <3> QED
      BY <2>2, <1>15, <2>3, <3>1, InValue
  <2>4. CASE Go(9, "char") /\ ch = Apostrophe
    <3> DEFINE s2 == LastBecomes(spans, [spans[Len(spans)] EXCEPT !.end = Len(buf) + 1])
    <3>1. spans' = s2
      BY <1>6, <1>15, <2>4, SeenAs, Zenon
    <3>2. OneMore(buf, buf') /\ Spaced(buf) /\ buf'[Len(buf')] = ch
      BY <1>1, <1>4, <1>15, <2>4
    <3>3. s2 \in Seq(Span) /\ SpansAt(9, buf', s2)
      <4>1. Within(8, Apostrophe) /\ ch = Apostrophe
        BY <2>4 DEF Within
      <4> QED
        BY <2>2, <3>2, <4>1, EndsValue, Zenon
    <3> HIDE DEF s2
    <3> QED
      BY <2>4, <3>1, <3>3
  <2>5. CASE Go(8, "char") /\ ch # Apostrophe
    <3>1. /\ spans' = spans /\ OneMore(buf, buf') /\ Spaced(buf) /\ buf'[Len(buf')] # Apostrophe
          /\ Within(8, Apostrophe)
      BY <1>1, <1>4, <1>6, <1>15, <2>5 DEF Within, Space, Quote, Apostrophe
    <3> QED
      BY <2>2, <1>15, <2>5, <3>1, InValue
  <2> QED
    BY <2>1, <2>3, <2>4, <2>5
<1>16. CASE phase = 9
  <2>1. \/ Go(3, "space")
        \/ Go(13, "spaced") /\ ch = "/"
        \/ Go(100, "spaced") /\ ch = ">"
    BY <1>0, <1>16, PlainNames DEF Rules, R, Other, White
  <2>2. SpansAt(9, buf, spans)
    BY <1>3, <1>16
  <2>3. CASE Go(3, "space")
    <3>1. /\ spans' = spans /\ Grows(buf, buf') /\ Spaced(buf) /\ Len(buf) < Len(buf')
          /\ buf'[Len(buf) + 1] = Space
      BY <1>1, <1>2, <1>4, <1>6, <1>16, <2>3
    <3>2. \/ Len(buf') = Len(buf) + 1
          \/ Len(buf') = Len(buf) + 2 /\ buf'[Len(buf')] # "="
      BY <1>1, <1>2, <2>3
    <3> QED
      BY <1>1, <1>2, <2>2, <2>3, <3>1, <3>2, FromValue
  <2>4. CASE Go(13, "spaced") /\ ch = "/"
    <3>1. /\ spans' = spans /\ Grows(buf, buf') /\ Spaced(buf) /\ Len(buf) < Len(buf')
          /\ buf'[Len(buf) + 1] = Space
      BY <1>1, <1>2, <1>4, <1>6, <1>16, <2>4
    <3>2. \/ Len(buf') = Len(buf) + 1
          \/ Len(buf') = Len(buf) + 2 /\ buf'[Len(buf')] # "="
      BY <1>1, <1>2, <2>4
    <3> QED
      BY <1>1, <1>2, <2>2, <2>4, <3>1, <3>2, FromValue
  <2>5. CASE Go(100, "spaced") /\ ch = ">"
    <3>1. /\ spans' = spans /\ Grows(buf, buf') /\ Spaced(buf) /\ Len(buf) < Len(buf')
          /\ buf'[Len(buf) + 1] = Space
      BY <1>1, <1>2, <1>4, <1>6, <1>16, <2>5
    <3>2. \/ Len(buf') = Len(buf) + 1
          \/ Len(buf') = Len(buf) + 2 /\ buf'[Len(buf')] # "="
      BY <1>1, <1>2, <2>5
    <3> QED
      BY <1>1, <1>2, <2>2, <2>5, <3>1, <3>2, FromValue
  <2> QED
    BY <2>1, <2>3, <2>4, <2>5
<1>17. CASE phase = 10
  <2>1. \/ Go(11, "char") /\ ch # Space
    BY <1>0, <1>17, PlainNames DEF Rules, R, Other, White
  <2>2. SpansAt(10, buf, spans)
    BY <1>3, <1>17
  <2>3. CASE Go(11, "char") /\ ch # Space
    <3>1. /\ spans' = <<>> /\ spans = <<>>
          /\ r.put = "nothing" \/ Grows(buf, buf')
          /\ r.put = "char" => OneMore(buf, buf') /\ buf'[Len(buf')] = ch
      BY <1>1, <1>2, <1>5, <1>6, <1>17, <2>3
    <3> QED
      BY <2>2, <2>3, <3>1, InEndTag
  <2> QED
    BY <2>1, <2>3
<1>18. CASE phase = 11
  <2>1. \/ Go(12, "space")
        \/ Go(100, "spaced") /\ ch = ">"
        \/ Go(11, "char") /\ ch # Space
    BY <1>0, <1>18, PlainNames DEF Rules, R, Other, White
  <2>2. SpansAt(11, buf, spans)
    BY <1>3, <1>18
  <2>3. CASE Go(12, "space")
    <3>1. /\ spans' = <<>> /\ spans = <<>>
          /\ r.put = "nothing" \/ Grows(buf, buf')
          /\ r.put = "char" => OneMore(buf, buf') /\ buf'[Len(buf')] = ch
      BY <1>1, <1>2, <1>5, <1>6, <1>18, <2>3
    <3> QED
      BY <2>2, <2>3, <3>1, InEndTag
  <2>4. CASE Go(100, "spaced") /\ ch = ">"
    <3>1. /\ spans' = <<>> /\ spans = <<>>
          /\ r.put = "nothing" \/ Grows(buf, buf')
          /\ r.put = "char" => OneMore(buf, buf') /\ buf'[Len(buf')] = ch
      BY <1>1, <1>2, <1>5, <1>6, <1>18, <2>4
    <3> QED
      BY <2>2, <2>4, <3>1, InEndTag
  <2>5. CASE Go(11, "char") /\ ch # Space
    <3>1. /\ spans' = <<>> /\ spans = <<>>
          /\ r.put = "nothing" \/ Grows(buf, buf')
          /\ r.put = "char" => OneMore(buf, buf') /\ buf'[Len(buf')] = ch
      BY <1>1, <1>2, <1>5, <1>6, <1>18, <2>5
    <3> QED
      BY <2>2, <2>5, <3>1, InEndTag
  <2> QED
    BY <2>1, <2>3, <2>4, <2>5
<1>19. CASE phase = 12
  <2>1. \/ Go(12, "nothing")
        \/ Go(100, "char") /\ ch = ">"
    BY <1>0, <1>19, PlainNames DEF Rules, R, Other, White
  <2>2. SpansAt(12, buf, spans)
    BY <1>3, <1>19
  <2>3. CASE Go(12, "nothing")
    <3>1. buf' = buf /\ spans' = spans
      BY <1>1, <1>6, <1>19, <2>3
    <3> QED
      BY <2>2, <1>19, <2>3, <3>1
  <2>4. CASE Go(100, "char") /\ ch = ">"
    <3>1. /\ spans' = <<>> /\ spans = <<>>
          /\ r.put = "nothing" \/ Grows(buf, buf')
          /\ r.put = "char" => OneMore(buf, buf') /\ buf'[Len(buf')] = ch
      BY <1>1, <1>2, <1>5, <1>6, <1>19, <2>4
    <3> QED
      BY <2>2, <2>4, <3>1, InEndTag
  <2> QED
    BY <2>1, <2>3, <2>4
<1>20. CASE phase = 13
  <2>1. \/ Go(100, "char") /\ ch = ">"
    BY <1>0, <1>20, PlainNames DEF Rules, R, Other, White
  <2>2. SpansAt(13, buf, spans)
    BY <1>3, <1>20
  <2>3. CASE Go(100, "char") /\ ch = ">"
    <3>1. spans' = spans /\ (r.put # "spaced" => OneMore(buf, buf'))
      BY <1>1, <1>6, <1>20, <2>3
    <3> QED
      BY <1>1, <1>2, <1>4, <1>5, <2>2, <1>20, <2>3, <3>1, FromSlash
  <2> QED
    BY <2>1, <2>3
<1>21. CASE phase \in 14..21
  <2>1. phase' \in {0} \union (14..21)
    BY <1>0, <1>21 DEF Rules, R
  <2>2. spans' = <<>>
    BY <1>5, <1>6, <1>21, <2>1
  <2> QED
    BY <2>1, <2>2, NoTagAsks
<1> QED
  BY <1>4, <1>7, <1>8, <1>9, <1>10, <1>11, <1>12, <1>13, <1>14, <1>15, <1>16, <1>17, <1>18, <1>19, <1>20, <1>21

--------------------------------------------------------------------------------
(* What the searches for an attribute come back with.                        *)
Nearest(b, from) == First({FindPair(b, "=", q, from) : q \in {Quote, Apostrophe}} \ {0})

LEMMA NearestIs ==
  ASSUME NEW b \in Strings, NEW from \in Nat \ {0}, NEW x \in Span, Placed(b, from, x)
  PROVE  Nearest(b, from) = x.equals
<1>1. PICK q \in {Quote, Apostrophe} : Opened(b, from, x, q)
  BY DEF Placed, Closed
<1> DEFINE e == x.equals
           Found == {FindPair(b, "=", p, from) : p \in {Quote, Apostrophe}} \ {0}
<1>2. /\ e \in Nat /\ Len(b) \in Nat /\ from < e /\ e < Len(b)
      /\ b[e] = "=" /\ b[e + 1] = q /\ No(b, "=", from, e - 1)
  BY <1>1 DEF Span, Strings, Opened, Equated
<1> HIDE DEF e
<1>3. FindPair(b, "=", q, from) = e
  <2>1. e \in from..(Len(b) - 1)
    BY <1>2
  <2> QED
    BY <1>2, <2>1, PairIs
<1>4. \A p : LET f == FindPair(b, "=", p, from) IN f \in Nat /\ (f # 0 => e <= f)
  <2> TAKE p
  <2> DEFINE f == FindPair(b, "=", p, from)
  <2>1. f \in Nat /\ (f # 0 => f \in from..(Len(b) - 1) /\ b[f] = "=")
    BY PairFound
  <2> SUFFICES f \in Nat /\ (f # 0 => e <= f)
    OBVIOUS
  <2> HIDE DEF f
  <2>2. f # 0 => e <= f
    <3> SUFFICES ASSUME f # 0, f < e
                 PROVE  FALSE
      BY <1>2, <2>1
    <3>1. f \in from..(e - 1) /\ b[f] = "="
      BY <1>2, <2>1
    <3>2. \A j \in from..(e - 1) : b[j] # "="
      BY <1>2 DEF No
    <3> QED
      BY <3>1, <3>2, Zenon
  <2> QED
    BY <2>1, <2>2
<1>5. Found \subseteq Nat /\ e \in Found /\ \A j \in Found : e <= j
  BY <1>1, <1>2, <1>3, <1>4
<1> HIDE DEF Found
<1>6. First(Found) = e
  BY <1>5, FirstIs
<1> QED
  BY <1>6 DEF Found, Nearest, e

LEMMA NoneIsNear ==
  ASSUME NEW b \in Strings, NEW from \in Nat \ {0}, No(b, "=", from, Len(b))
  PROVE  Nearest(b, from) = 0
<1>1. \A p : FindPair(b, "=", p, from) = 0
  <2> TAKE p
  <2> DEFINE f == FindPair(b, "=", p, from)
  <2>1. f \in Nat /\ (f # 0 => f \in from..(Len(b) - 1) /\ b[f] = "=")
    BY PairFound
  <2> SUFFICES f = 0
    OBVIOUS
  <2> HIDE DEF f
  <2>2. Len(b) \in Nat
    BY DEF Strings
  <2>3. f # 0 => f \in from..Len(b)
    BY <2>1, <2>2
  <2> QED
    BY <2>1, <2>3 DEF No
<1>2. {FindPair(b, "=", q, from) : q \in {Quote, Apostrophe}} \ {0} = {}
  BY <1>1
<1> QED
  BY <1>2 DEF Nearest, First

LEMMA ValueEndIs ==
  ASSUME NEW b \in Strings, NEW from \in Nat \ {0}, NEW x \in Span, Placed(b, from, x)
  PROVE  FindPair(b, b[x.equals + 1], Space, x.equals + 2) = x.end
<1>1. PICK q \in {Quote, Apostrophe} :
        /\ Opened(b, from, x, q) /\ x.equals + 1 < x.end
        /\ b[x.end] = q /\ No(b, q, x.equals + 2, x.end - 1)
  BY DEF Placed, Closed
<1>2. /\ x.equals \in Nat /\ x.end \in Nat /\ Len(b) \in Nat /\ x.end < Len(b)
      /\ b[x.end + 1] = Space /\ b[x.equals + 1] = q
  BY <1>1 DEF Span, Strings, Opened, Placed
<1>3. x.equals + 2 \in Nat \ {0} /\ x.end \in (x.equals + 2)..(Len(b) - 1)
  BY <1>1, <1>2
<1> QED
  BY <1>1, <1>2, <1>3, PairIs

(* An attribute ends inside the tag, behind where it begins. *)
LEMMA PlacedWhere ==
  ASSUME NEW b \in Strings, NEW from \in Nat \ {0}, NEW x \in Span, Placed(b, from, x)
  PROVE  /\ x.start = from /\ from < x.equals /\ x.equals + 1 < x.end /\ x.end < Len(b)
         /\ b[x.end] \in {Quote, Apostrophe} /\ b[x.end + 1] = Space
         /\ x.equals \in Nat /\ x.end \in Nat /\ Len(b) \in Nat
<1>1. x.equals \in Nat /\ x.end \in Nat /\ Len(b) \in Nat
  BY DEF Span, Strings
<1>2. PICK q \in {Quote, Apostrophe} :
        Opened(b, from, x, q) /\ x.equals + 1 < x.end /\ b[x.end] = q
  BY DEF Placed, Closed
<1>3. x.start = from /\ from < x.equals
  BY <1>2 DEF Opened, Equated
<1>4. x.end < Len(b) /\ b[x.end + 1] = Space
  BY DEF Placed
<1> QED
  BY <1>1, <1>2, <1>3, <1>4

(* Where the attributes of a tag begin, and what stands there. *)
LEMMA Begins ==
  ASSUME NEW b \in Strings, Spaced(b), NEW s \in Seq(Span), NEW i \in 1..(Len(s) + 1)
  PROVE  StartOf(b, s, i) \in Nat \ {0} /\ FindSpace(b) \in 1..Len(b)
<1>1. Grows(b, b)
  BY DEF Grows, Strings
<1>2. StartOf(b, s, i) \in Nat \ {0}
  BY <1>1, StartKept
<1> QED
  BY <1>2, SpaceFound DEF Spaced

(* So the loop sees what the phases saw. *)
LEMMA SearchAgrees ==
  ASSUME buf \in Strings, Spaced(buf), spans \in Seq(Span), LaidOut(buf, spans),
         NEW k \in 0..Len(spans), ps = StartOf(buf, spans, k + 1)
  PROVE  /\ k < Len(spans) =>
              /\ spans[k + 1] \in Span /\ Placed(buf, ps, spans[k + 1])
              /\ Equals = spans[k + 1].equals /\ Equals # 0
              /\ ValueEnd = spans[k + 1].end /\ ValueEnd # 0
         /\ k = Len(spans) => Equals = 0
         /\ ps \in Nat \ {0}
<1>0. Len(spans) \in Nat /\ k + 1 \in 1..(Len(spans) + 1)
  OBVIOUS
<1>1. ps \in Nat \ {0}
  BY <1>0, Begins
<1>2. Equals = Nearest(buf, ps)
  BY DEF Equals, Nearest
<1>3. ASSUME k < Len(spans)
      PROVE  /\ spans[k + 1] \in Span /\ Placed(buf, ps, spans[k + 1])
             /\ Equals = spans[k + 1].equals /\ Equals # 0
             /\ ValueEnd = spans[k + 1].end /\ ValueEnd # 0
  <2> DEFINE x == spans[k + 1]
  <2>1. k + 1 \in 1..Len(spans)
    BY <1>0, <1>3
  <2>2. x \in Span /\ Placed(buf, ps, x)
    BY <2>1 DEF LaidOut, PlacedUpTo
  <2> HIDE DEF x
  <2>3. Equals = x.equals
    BY <1>1, <1>2, <2>2, NearestIs
  <2>4. ValueEnd = x.end
    BY <1>1, <2>2, <2>3, ValueEndIs DEF ValueEnd
  <2>5. x.equals # 0 /\ x.end # 0
    BY <1>1, <2>2, PlacedWhere
  <2> QED
    BY <2>2, <2>3, <2>4, <2>5 DEF x
<1>4. ASSUME k = Len(spans)
      PROVE  Equals = 0
  BY <1>1, <1>2, <1>4, NoneIsNear DEF LaidOut
<1> QED
  BY <1>1, <1>3, <1>4

(* One attribute behind the other: their ends only grow.  Were there a later    *)
(* one that does not end further on, the first such would not end further on    *)
(* than the one before it.                                                    *)
LEMMA EndsGrow ==
  ASSUME NEW b \in Strings, Spaced(b), NEW s \in Seq(Span), PlacedUpTo(b, s, Len(s)),
         NEW i \in 1..Len(s), NEW j \in 1..Len(s), i < j
  PROVE  s[i].end < s[j].end
<1>1. ASSUME NEW k \in 1..Len(s)
      PROVE  s[k].end \in Nat /\ (k > 1 => s[k - 1].end \in Nat /\ s[k - 1].end < s[k].end)
  <2>1. StartOf(b, s, k) \in Nat \ {0} /\ s[k] \in Span /\ Len(s) \in Nat
    BY Begins
  <2>2. Placed(b, StartOf(b, s, k), s[k])
    BY DEF PlacedUpTo
  <2>3. /\ StartOf(b, s, k) < s[k].equals /\ s[k].equals + 1 < s[k].end
        /\ s[k].equals \in Nat /\ s[k].end \in Nat
    BY <2>1, <2>2, PlacedWhere
  <2>4. ASSUME k > 1
        PROVE  s[k - 1].end \in Nat /\ s[k - 1].end < s[k].end
    <3>1. k - 1 \in 1..Len(s)
      BY <2>1, <2>4
    <3>2. s[k - 1].end \in Nat
      <4>1. s[k - 1] \in Span
        BY <3>1
      <4> QED
        BY <4>1 DEF Span
    <3>3. StartOf(b, s, k) = s[k - 1].end + 2
      BY <2>4 DEF StartOf
    <3> QED
      BY <2>3, <3>2, <3>3
  <2> QED
    BY <2>3, <2>4
<1> DEFINE S == {k \in (i + 1)..Len(s) : s[k].end <= s[i].end}
<1> SUFFICES ASSUME S # {}
             PROVE  FALSE
  <2>1. Len(s) \in Nat /\ s[i].end \in Nat /\ s[j].end \in Nat /\ j \in (i + 1)..Len(s)
    BY <1>1
  <2> QED
    BY <2>1
<1>2. S \subseteq Nat /\ IsFiniteSet(S)
  <2>1. Len(s) \in Int /\ i + 1 \in Int /\ (i + 1)..Len(s) \subseteq Nat
    OBVIOUS
  <2>2. IsFiniteSet((i + 1)..Len(s))
    BY <2>1, FS_Interval
  <2>3. S \in SUBSET ((i + 1)..Len(s))
    OBVIOUS
  <2> HIDE DEF S
  <2> QED
    BY <2>1, <2>2, <2>3, FS_Subset
<1>3. PICK k \in S : \A l \in S : k <= l
  <2> HIDE DEF S
  <2> QED
    BY <1>2, Least
<1>4. k \in (i + 1)..Len(s) /\ s[k].end <= s[i].end /\ Len(s) \in Nat
  BY <1>3
<1>5. k \in 1..Len(s) /\ k > 1 /\ k - 1 \in 1..Len(s) /\ k - 1 \in i..Len(s)
  BY <1>4
<1>6. s[k - 1].end < s[k].end /\ s[k - 1].end \in Nat /\ s[k].end \in Nat /\ s[i].end \in Nat
  BY <1>1, <1>5
<1>7. CASE k - 1 = i
  BY <1>4, <1>6, <1>7
<1>8. CASE k - 1 # i
  <2>1. k - 1 \in (i + 1)..Len(s) /\ k - 1 < k
    BY <1>5, <1>8
  <2>2. k - 1 \notin S
    BY <1>3, <1>4, <2>1
  <2>3. ~(s[k - 1].end <= s[i].end)
    BY <2>1, <2>2
  <2> QED
    BY <1>4, <1>6, <2>3
<1> QED
  BY <1>7, <1>8

(* So no tag has more attributes than quotes with a space behind them. *)
LEMMA EnoughPlaces ==
  ASSUME NEW b \in Strings, Spaced(b), NEW s \in Seq(Span), PlacedUpTo(b, s, Len(s))
  PROVE  Len(s) < Places(b) /\ Places(b) \in Nat
<1> DEFINE Q == ClosingQuotes(b)
           f == [i \in 1..Len(s) |-> s[i].end]
<1>0. Len(s) \in Nat /\ Len(b) \in Nat /\ FindSpace(b) \in 1..Len(b)
  BY SpaceFound DEF Spaced
<1>1. IsFiniteSet(Q)
  <2>1. IsFiniteSet(FindSpace(b)..(Len(b) - 1))
    BY <1>0, FS_Interval
  <2>2. Q \in SUBSET (FindSpace(b)..(Len(b) - 1))
    BY DEF ClosingQuotes
  <2> HIDE DEF Q
  <2> QED
    BY <2>1, <2>2, FS_Subset
<1>2. ASSUME NEW i \in 1..Len(s)
      PROVE  s[i].end \in Q
  <2>1. StartOf(b, s, i) \in Nat \ {0} /\ s[i] \in Span /\ 1 \in 1..Len(s)
    BY <1>0, Begins
  <2>2. Placed(b, StartOf(b, s, i), s[i]) /\ Placed(b, StartOf(b, s, 1), s[1])
    BY <2>1 DEF PlacedUpTo
  <2>3. /\ s[i].end < Len(b) /\ b[s[i].end] \in {Quote, Apostrophe}
        /\ b[s[i].end + 1] = Space /\ s[i].end \in Nat
    BY <2>1, <2>2, PlacedWhere
  <2>4. FindSpace(b) <= s[1].end /\ s[1].end \in Nat
    <3>1. StartOf(b, s, 1) = FindSpace(b) + 1 /\ s[1] \in Span
      BY <2>1 DEF StartOf
    <3>2. FindSpace(b) + 1 \in Nat \ {0}
      BY <1>0
    <3>3. /\ FindSpace(b) + 1 < s[1].equals /\ s[1].equals + 1 < s[1].end
          /\ s[1].equals \in Nat /\ s[1].end \in Nat
      BY <2>2, <3>1, <3>2, PlacedWhere
    <3> QED
      BY <1>0, <3>3
  <2>5. s[1].end <= s[i].end
    <3>1. i = 1 \/ 1 < i
      OBVIOUS
    <3>2. 1 < i => s[1].end < s[i].end
      BY <2>1, EndsGrow
    <3> QED
      BY <2>3, <2>4, <3>1, <3>2
  <2>6. s[i].end \in FindSpace(b)..(Len(b) - 1)
    BY <1>0, <2>3, <2>4, <2>5
  <2> QED
    BY <2>3, <2>6 DEF ClosingQuotes
<1>3. ASSUME NEW i \in 1..Len(s), NEW j \in 1..Len(s), s[i].end = s[j].end
      PROVE  i = j
  <2>1. i < j => s[i].end < s[j].end
    BY EndsGrow
  <2>2. j < i => s[j].end < s[i].end
    BY EndsGrow
  <2>3. s[i].end \in Nat /\ s[j].end \in Nat
    <3>1. s[i] \in Span /\ s[j] \in Span
      OBVIOUS
    <3> QED
      BY <3>1 DEF Span
  <2> QED
    BY <1>3, <2>1, <2>2, <2>3
<1>4. f \in Injection(1..Len(s), Q)
  <2> HIDE DEF Q
  <2>1. f \in [1..Len(s) -> Q]
    BY <1>2
  <2>2. \A i, j \in 1..Len(s) : f[i] = f[j] => i = j
    BY <1>3
  <2> HIDE DEF f
  <2> QED
    BY <2>1, <2>2 DEF Injection, IsInjective
<1>5. Cardinality(1..Len(s)) <= Cardinality(Q)
  <2> DEFINE D == 1..Len(s)
  <2>1. f \in Injection(D, Q)
    BY <1>4
  <2> SUFFICES Cardinality(D) <= Cardinality(Q)
    OBVIOUS
  <2> HIDE DEF f, Q, D
  <2> QED
    BY <1>1, <2>1, FS_Injection, Zenon
<1>6. Cardinality(1..Len(s)) = Len(s) /\ Cardinality(Q) \in Nat
  <2>1. Cardinality(1..Len(s)) = Len(s)
    <3> DEFINE n == Len(s)
    <3>1. n \in Nat
      BY <1>0
    <3> SUFFICES Cardinality(1..n) = n
      OBVIOUS
    <3> HIDE DEF n
    <3>2. Cardinality(1..n) = IF 1 > n THEN 0 ELSE n - 1 + 1
      BY <3>1, FS_Interval, 1 \in Int, n \in Int
    <3> QED
      BY <3>1, <3>2
  <2> HIDE DEF Q
  <2> QED
    BY <1>0, <1>1, <2>1, FS_CardinalityType
<1> QED
  <2> HIDE DEF f
  <2>1. Places(b) = Cardinality(Q) + 1
    BY DEF Places
  <2> HIDE DEF Q
  <2> QED
    BY <1>0, <1>5, <1>6, <2>1

--------------------------------------------------------------------------------
(* All that every step keeps. *)
RestOK ==
  /\ pos <= Len(doc.text) + 1 /\ cut \in BOOLEAN /\ square \in Nat
  /\ spans \in Seq(Span) /\ ps \in Nat /\ attrs \in Seq(Attr)
  /\ result \in {"reading", "failing", "built", "tree", "none", "bare", "wild"}

IInv == ShapeInv /\ RestOK /\ SpansInv /\ TakingInv /\ SquareInv /\ TreeInv

LEMMA TypesFrom ==
  ASSUME ShapeOK, RestOK
  PROVE  TypeOK
<1>1. Len(doc.text) \in Nat
  BY DEF ShapeOK, Doc, Strings
<1> QED
  BY <1>1 DEF ShapeOK, RestOK, TypeOK

(* The steps that leave the tag alone; those that end the one collected.      *)
LEMMA SameTag ==
  ASSUME IInv, UNCHANGED tagVars
  PROVE  /\ ScanInv' /\ TagForm' /\ SpansInv' /\ TakingInv' /\ SquareInv'
         /\ phase' \in (0..21) \union {100, Taking, Text} /\ buf' \in Strings
         /\ square' \in Nat /\ spans' \in Seq(Span) /\ ps' \in Nat /\ attrs' \in Seq(Attr)
<1>1. ScanInv' /\ TagForm'
  BY DEF IInv, ShapeInv, tagVars, ScanInv, TagForm, HasSpace, LastIs, EndsTag
<1>2. SpansInv'
  BY DEF IInv, tagVars, SpansInv
<1>3. TakingInv'
  BY DEF IInv, tagVars, TakingInv, ScannedAttribute
<1>4. SquareInv'
  BY DEF IInv, tagVars, SquareInv
<1> QED
  BY <1>1, <1>2, <1>3, <1>4 DEF IInv, ShapeInv, ShapeOK, RestOK, tagVars

LEMMA NoTag ==
  ASSUME IInv, phase # 20, phase' \in {0, Text}, square' = square,
         buf' = <<>>, spans' = <<>>, ps' = 0, attrs' = <<>>
  PROVE  /\ ScanInv' /\ TagForm' /\ SpansInv' /\ TakingInv' /\ SquareInv'
         /\ phase' \in (0..21) \union {100, Taking, Text} /\ buf' \in Strings
         /\ square' \in Nat /\ spans' \in Seq(Span) /\ ps' \in Nat /\ attrs' \in Seq(Attr)
<1>1. ScanInv' /\ TagForm' /\ phase' \in (0..21) \union {100, Taking, Text}
  BY DEF ScanInv, TagForm, Text, Taking
<1>2. SpansInv'
  BY NoTagAsks DEF SpansInv
<1>3. TakingInv'
  BY DEF TakingInv, Taking, Text
<1>4. SquareInv' /\ square' \in Nat
  BY DEF IInv, SquareInv, RestOK, Text
<1> QED
  BY <1>1, <1>2, <1>3, <1>4 DEF Strings

(* A '[' is counted in phase 20 alone. *)
LEMMA SquareStep ==
  ASSUME IInv, ReadChar
  PROVE  SquareInv' /\ square' \in Nat
<1>1. PICK r \in Rules(phase) : ch \in r.on /\ phase' = r.go
  BY DEF ReadChar
<1>2. /\ square' = Brackets(phase, ch) /\ phase \in 0..21 /\ square \in Nat
      /\ square > 0 <=> phase = 20
  BY DEF ReadChar, InTag, IInv, RestOK, SquareInv
<1>3. CASE phase = 20
  <2>1. \/ ch = "[" /\ phase' = 20
        \/ ch = "]" /\ phase' = IF square = 1 THEN 21 ELSE 20
        \/ ch # "[" /\ ch # "]" /\ phase' = 20
    BY <1>1, <1>3 DEF Rules, R, Other
  <2> QED
    BY <1>2, <1>3, <2>1 DEF Brackets, SquareInv
<1>4. CASE phase = 15
  <2>1. (ch = "[" /\ phase' = 20) \/ (ch # "[" /\ phase' \in {0, 14, 16})
    BY <1>1, <1>4 DEF Rules, R, Other
  <2> QED
    BY <1>2, <1>4, <2>1 DEF Brackets, SquareInv
<1>5. CASE phase \notin {15, 20}
  <2>1. phase' # 20
    BY <1>1, <1>2, <1>5 DEF Rules, R
  <2> QED
    BY <1>2, <1>5, <2>1 DEF Brackets, SquareInv
<1> QED
  BY <1>3, <1>4, <1>5

(* What is known where the attributes are taken. *)
LEMMA WhenTaking ==
  ASSUME IInv, phase = Taking
  PROVE  /\ buf \in Strings /\ Spaced(buf) /\ spans \in Seq(Span) /\ LaidOut(buf, spans)
         /\ Len(attrs) \in 0..Len(spans) /\ ps = StartOf(buf, spans, Len(attrs) + 1)
         /\ attrs \in Seq(Attr)
<1>1. buf \in Strings /\ spans \in Seq(Span) /\ attrs \in Seq(Attr)
  BY DEF IInv, ShapeInv, ShapeOK, RestOK
<1>2. Spaced(buf)
  BY DEF IInv, ShapeInv, TagForm, HasSpace, Spaced
<1>3. LaidOut(buf, spans)
  BY DEF IInv, SpansInv, SpansAt
<1>4. Len(attrs) <= Len(spans) /\ ps = StartOf(buf, spans, Len(attrs) + 1)
  BY DEF IInv, TakingInv
<1>5. Len(attrs) \in Nat /\ Len(spans) \in Nat
  BY <1>1
<1> QED
  BY <1>1, <1>2, <1>3, <1>4, <1>5

LEMMA NameTaken ==
  ASSUME IInv, TakeName
  PROVE  /\ ScanInv' /\ TagForm' /\ SpansInv' /\ TakingInv' /\ SquareInv'
         /\ phase' = Taking /\ buf' \in Strings
         /\ square' \in Nat /\ spans' \in Seq(Span) /\ ps' \in Nat /\ attrs' \in Seq(Attr)
<1>1. /\ phase = 100 /\ phase' = Taking /\ ps' = FindSpace(buf) + 1 /\ ~IsEndTag(buf)
      /\ UNCHANGED <<square, buf, spans, attrs>>
  BY DEF TakeName, TagRead
<1>2. /\ buf \in Strings /\ spans \in Seq(Span) /\ attrs = <<>> /\ square \in Nat
      /\ TagForm
  BY <1>1 DEF IInv, ShapeInv, ShapeOK, RestOK, TakingInv, Taking
<1>3. Spaced(buf) /\ TagForm'
  BY <1>1, <1>2 DEF TagForm, HasSpace, Spaced, EndsTag
<1>4. ScanInv'
  BY <1>1 DEF ScanInv, Taking, Text
<1>5. SpansInv'
  <2>1. LaidOut(buf, spans)
    BY <1>1 DEF IInv, SpansInv, SpansAt
  <2>2. SpansAt(Taking, buf, spans)
    BY <1>1, <2>1, WholeAsks
  <2> QED
    BY <1>1, <2>2 DEF SpansInv
<1>6. ps' \in Nat
  BY <1>1, <1>2, <1>3, SpaceFound DEF Spaced
<1>7. TakingInv'
  <2>1. attrs' = <<>> /\ Len(attrs') = 0 /\ Len(spans') \in Nat
    BY <1>1, <1>2
  <2>2. ps' = StartOf(buf', spans', Len(attrs') + 1)
    BY <1>1, <2>1 DEF StartOf
  <2> QED
    BY <1>1, <2>1, <2>2 DEF TakingInv
<1>8. SquareInv'
  BY <1>1 DEF IInv, SquareInv, Taking
<1> QED
  BY <1>1, <1>2, <1>3, <1>4, <1>5, <1>6, <1>7, <1>8

(* The loop takes the attribute the phases saw next. *)
LEMMA AttributeTaken ==
  ASSUME IInv, TakeAttribute
  PROVE  /\ attrs' \in Seq(Attr) /\ Len(attrs') = Len(attrs) + 1 /\ ps' \in Nat
         /\ Len(attrs) < Len(spans) /\ TakingInv'
<1> DEFINE k == Len(attrs)
           x == spans[k + 1]
           a == [name |-> SubSeq(buf, ps, Equals - 1),
                 value |-> SubSeq(buf, Equals + 2, ValueEnd - 1)]
<1>1. /\ phase = Taking /\ Equals # 0 /\ attrs' = Append(attrs, a) /\ ps' = ValueEnd + 2
      /\ UNCHANGED <<phase, buf, spans>>
  BY DEF TakeAttribute, InTaking
<1>2. /\ buf \in Strings /\ Spaced(buf) /\ spans \in Seq(Span) /\ LaidOut(buf, spans)
      /\ k \in 0..Len(spans) /\ ps = StartOf(buf, spans, k + 1) /\ attrs \in Seq(Attr)
  BY <1>1, WhenTaking
<1>3. k \in Nat /\ Len(spans) \in Nat
  BY <1>2
<1>4. /\ k < Len(spans) /\ x \in Span /\ Placed(buf, ps, x) /\ ps \in Nat \ {0}
      /\ Equals = x.equals /\ ValueEnd = x.end
  <2> HIDE DEF k
  <2>1. k < Len(spans) \/ k = Len(spans)
    BY <1>2, <1>3
  <2> QED
    BY <1>1, <1>2, <2>1, SearchAgrees
<1>5. /\ x.start = ps /\ ps < x.equals /\ x.equals + 1 < x.end /\ x.end < Len(buf)
      /\ x.equals \in Nat /\ x.end \in Nat /\ Len(buf) \in Nat
  <2> HIDE DEF x
  <2> QED
    BY <1>2, <1>4, PlacedWhere
<1>6. a = ScannedAttribute(k + 1)
  BY <1>4, <1>5 DEF ScannedAttribute
<1>7. a \in Attr
  <2> HIDE DEF x
  <2>1. \A i \in 1..Len(buf) : buf[i] \in Chars
    BY <1>2 DEF Strings
  <2>2. /\ \A i \in ps..(Equals - 1) : i \in 1..Len(buf)
        /\ \A i \in (Equals + 2)..(ValueEnd - 1) : i \in 1..Len(buf)
        /\ ps \in Int /\ Equals - 1 \in Int /\ Equals + 2 \in Int /\ ValueEnd - 1 \in Int
    <3> DEFINE e == Equals
               v == ValueEnd
               n == Len(buf)
    <3>1. /\ ps \in Nat \ {0} /\ e \in Nat /\ v \in Nat /\ n \in Nat
          /\ ps < e /\ e + 1 < v /\ v < n
      BY <1>4, <1>5
    <3> HIDE DEF e, v, n
    <3>2. /\ \A i \in ps..(e - 1) : i \in 1..n
          /\ \A i \in (e + 2)..(v - 1) : i \in 1..n
          /\ ps \in Int /\ e - 1 \in Int /\ e + 2 \in Int /\ v - 1 \in Int
      BY ONLY <3>1
    <3> QED
      BY <3>2 DEF e, v, n
  <2>3. /\ SubSeq(buf, ps, Equals - 1) \in Strings
        /\ SubSeq(buf, Equals + 2, ValueEnd - 1) \in Strings
    BY <2>1, <2>2, SubSeqProperties DEF Strings
  <2> QED
    BY <2>3 DEF Attr
<1> HIDE DEF a
<1>8. /\ attrs' \in Seq(Attr) /\ Len(attrs') = k + 1 /\ attrs'[k + 1] = a
      /\ \A i \in 1..k : attrs'[i] = attrs[i]
  BY <1>1, <1>2, <1>7
<1>9. ps' \in Nat
  BY <1>1, <1>4, <1>5
<1>10. TakingInv'
  <2>1. \A i : ScannedAttribute(i)' = ScannedAttribute(i)
    BY <1>1 DEF ScannedAttribute
  <2>2. \A i \in 1..k : attrs[i] = ScannedAttribute(i)
    BY <1>1 DEF IInv, TakingInv
  <2>3. \A i \in 1..(k + 1) : i = k + 1 \/ i \in 1..k
    BY <1>3
  <2>4. \A i \in 1..Len(attrs') : attrs'[i] = ScannedAttribute(i)'
    BY <1>6, <1>8, <2>1, <2>2, <2>3
  <2>5. ps' = StartOf(buf', spans', Len(attrs') + 1)
    <3>1. Len(attrs') + 1 = k + 2 /\ k + 2 # 1 /\ k + 2 - 1 = k + 1
      BY <1>3, <1>8
    <3> QED
      BY <1>1, <1>4, <3>1 DEF StartOf
  <2>6. Len(attrs') <= Len(spans')
    BY <1>1, <1>3, <1>4, <1>8
  <2> QED
    BY <1>1, <2>4, <2>5, <2>6 DEF TakingInv
<1> QED
  BY <1>4, <1>8, <1>9, <1>10

--------------------------------------------------------------------------------
(* The tree.                                                                 *)
LEMMA NewNodeFits ==
  ASSUME IInv, InTaking
  PROVE  NewNode \in Node /\ NewNode.parent = open
<1>1. /\ buf \in Strings /\ attrs \in Seq(Attr) /\ Spaced(buf) /\ open \in Nat
  BY WhenTaking DEF IInv, ShapeInv, ShapeOK, InTaking
<1>2. FindSpace(buf) \in 1..Len(buf) /\ Len(buf) \in Nat
  BY <1>1, SpaceFound DEF Spaced
<1>3. TagName(buf) \in Strings
  <2>1. \A i \in 2..(FindSpace(buf) - 1) : buf[i] \in Chars
    <3>1. \A i \in 2..(FindSpace(buf) - 1) : i \in 1..Len(buf)
      BY <1>2
    <3> QED
      BY <1>1, <3>1 DEF Strings
  <2>2. 2 \in Int /\ FindSpace(buf) - 1 \in Int
    BY <1>2
  <2> QED
    BY <2>1, <2>2, SubSeqProperties DEF TagName, Strings
<1>4. <<>> \in Strings
  BY DEF Strings
<1> QED
  BY <1>1, <1>3, <1>4 DEF NewNode, Node

LEMMA NodeAdded ==
  ASSUME IInv, InTaking, nodes' = Append(nodes, NewNode)
  PROVE  /\ nodes' \in Seq(Node) /\ Len(nodes') = Len(nodes) + 1
         /\ \A k \in 1..Len(nodes') :
              nodes'[k].parent < k /\ (nodes'[k].parent = 0 => k = 1)
<1>1. nodes \in Seq(Node) /\ open \in 0..Len(nodes) /\ Len(nodes) \in Nat
  BY DEF IInv, ShapeInv, ShapeOK
<1>2. \A k \in 1..Len(nodes) : nodes[k].parent < k /\ (nodes[k].parent = 0 => k = 1)
  BY DEF IInv, TreeInv
<1>3. open = 0 => Len(nodes) = 0
  <2>1. open = 0 => nodes = <<>>
    BY DEF IInv, TreeInv, InTaking, Reading
  <2> QED
    BY <2>1
<1> DEFINE n == NewNode
<1>4. n \in Node /\ n.parent = open
  BY NewNodeFits
<1>5. nodes' = Append(nodes, n)
  OBVIOUS
<1> HIDE DEF n
<1>6. /\ nodes' \in Seq(Node) /\ Len(nodes') = Len(nodes) + 1
      /\ nodes'[Len(nodes) + 1] = n /\ \A k \in 1..Len(nodes) : nodes'[k] = nodes[k]
  BY <1>1, <1>4, <1>5
<1>7. \A k \in 1..(Len(nodes) + 1) : k \in 1..Len(nodes) \/ k = Len(nodes) + 1
  BY <1>1
<1>8. ASSUME NEW k \in 1..(Len(nodes) + 1)
      PROVE  nodes'[k].parent < k /\ (nodes'[k].parent = 0 => k = 1)
  <2>1. CASE k \in 1..Len(nodes)
    BY <1>2, <1>6, <2>1
  <2>2. CASE k = Len(nodes) + 1
    BY <1>1, <1>3, <1>4, <1>6, <2>2
  <2> QED
    BY <1>7, <2>1, <2>2
<1> QED
  BY <1>6, <1>8

LEMMA NewText ==
  ASSUME NEW n \in Node, NEW x \in Strings
  PROVE  /\ [n EXCEPT !.text = x] \in Node /\ [n EXCEPT !.text = x].parent = n.parent
         /\ n.parent \in Nat /\ n.text \in Strings
  BY DEF Node

(* A tree of which one node was changed. *)
LEMMA Replaced ==
  ASSUME NEW S, NEW s \in Seq(S), NEW i \in 1..Len(s), NEW x \in S
  PROVE  /\ [s EXCEPT ![i] = x] \in Seq(S) /\ Len([s EXCEPT ![i] = x]) = Len(s)
  OBVIOUS

LEMMA Parents ==
  ASSUME IInv, open # 0
  PROVE  /\ nodes[open].parent \in 0..(open - 1) /\ open \in 1..Len(nodes)
         /\ nodes[open].parent = 0 => open = 1
<1>1. open \in 1..Len(nodes) /\ nodes[open] \in Node /\ Len(nodes) \in Nat
  BY DEF IInv, ShapeInv, ShapeOK
<1>2. nodes[open].parent \in Nat
  BY <1>1 DEF Node
<1> QED
  BY <1>1, <1>2 DEF IInv, TreeInv

LEMMA TextRead ==
  ASSUME IInv, ReadText
  PROVE  /\ nodes' \in Seq(Node) /\ Len(nodes') = Len(nodes)
         /\ \A k \in 1..Len(nodes) : nodes'[k].parent = nodes[k].parent
<1>0. doc \in Doc /\ pos \in Nat \ {0} /\ nodes \in Seq(Node) /\ open \in 0..Len(nodes)
  BY DEF IInv, ShapeInv, ShapeOK
<1>1. open \in 1..Len(nodes)
  BY <1>0 DEF ReadText, IInv, TreeInv
<1>2. ch \in Chars
  BY <1>0 DEF ReadText, More, ch, Doc, Strings
<1>3. /\ nodes' = [nodes EXCEPT ![open].text = Append(nodes[open].text, ch)]
      /\ nodes[open] \in Node
  BY <1>0, <1>1 DEF ReadText
<1>4. Append(nodes[open].text, ch) \in Strings
  <2>1. nodes[open].text \in Strings
    BY <1>3 DEF Node
  <2> QED
    BY <1>2, <2>1, Appended, Zenon
<1> DEFINE x == [nodes[open] EXCEPT !.text = Append(nodes[open].text, ch)]
<1>5. x \in Node
  BY <1>3, <1>4, NewText
<1>6. nodes' = [nodes EXCEPT ![open] = x]
  BY <1>3
<1>7. nodes' \in Seq(Node) /\ Len(nodes') = Len(nodes)
  <2> HIDE DEF x
  <2> QED
    BY <1>0, <1>1, <1>5, <1>6, Replaced
<1>8. \A k \in 1..Len(nodes) : nodes'[k].parent = nodes[k].parent
  BY <1>0, <1>1, <1>3 DEF Node
<1> QED
  BY <1>7, <1>8

LEMMA TextsChecked ==
  ASSUME IInv, InitNode
  PROVE  /\ nodes' \in Seq(Node) /\ Len(nodes') = Len(nodes)
         /\ \A k \in 1..Len(nodes) : nodes'[k].parent = nodes[k].parent
<1>0. nodes \in Seq(Node) /\ Len(nodes) \in Nat
  BY DEF IInv, ShapeInv, ShapeOK
<1>1. nodes' = [k \in 1..Len(nodes) |->
        [nodes[k] EXCEPT !.text = IF IsValidText(nodes[k].text) THEN nodes[k].text ELSE <<>>]]
  BY DEF InitNode, Checked
<1>2. ASSUME NEW k \in 1..Len(nodes)
      PROVE  nodes'[k] \in Node /\ nodes'[k].parent = nodes[k].parent
  <2> DEFINE x == IF IsValidText(nodes[k].text) THEN nodes[k].text ELSE <<>>
  <2>1. nodes[k] \in Node
    BY <1>0
  <2>2. x \in Strings
    <3>1. nodes[k].text \in Strings
      BY <2>1 DEF Node
    <3>2. <<>> \in Strings
      BY DEF Strings
    <3> QED
      BY <3>1, <3>2
  <2>3. nodes'[k] = [nodes[k] EXCEPT !.text = x]
    BY <1>1
  <2> HIDE DEF x
  <2> QED
    BY <2>1, <2>2, <2>3, NewText
<1> QED
  BY <1>0, <1>1, <1>2

--------------------------------------------------------------------------------
(* Every step keeps all of it.                                               *)
LEMMA Together ==
  ASSUME doc' \in Doc, pos' \in Nat \ {0}, pos' <= Len(doc'.text) + 1, cut' \in BOOLEAN,
         phase' \in (0..21) \union {100, Taking, Text}, buf' \in Strings,
         square' \in Nat, spans' \in Seq(Span), ps' \in Nat, attrs' \in Seq(Attr),
         nodes' \in Seq(Node), open' \in 0..Len(nodes'),
         result' \in {"reading", "failing", "built", "tree", "none", "bare", "wild"},
         ScanInv', TagForm', SpansInv', TakingInv', SquareInv', TreeInv'
  PROVE  IInv'
  BY DEF IInv, ShapeInv, ShapeOK, RestOK

LEMMA InvStep ==
  ASSUME IInv, Next
  PROVE  IInv'
<1>0. /\ doc \in Doc /\ pos \in Nat \ {0} /\ Len(doc.text) \in Nat
      /\ pos <= Len(doc.text) + 1 /\ cut \in BOOLEAN
      /\ nodes \in Seq(Node) /\ open \in 0..Len(nodes) /\ Len(nodes) \in Nat
      /\ result \in {"reading", "failing", "built", "tree", "none", "bare", "wild"}
      /\ TreeInv
  BY DEF IInv, ShapeInv, ShapeOK, RestOK, Doc, Strings
<1>1. CASE ReadChar
  <2>1. /\ ShapeInv' /\ SpansInv' /\ spans' \in Seq(Span) /\ SquareInv' /\ square' \in Nat
    BY <1>1, ScanStep, SpanStep, SquareStep DEF IInv, RestOK
  <2>2. /\ UNCHANGED <<doc, cut, ps, attrs, nodes, open, result>> /\ pos' = pos + 1
        /\ pos <= Len(doc.text) /\ phase \in 0..21 /\ result = "reading"
    BY <1>1 DEF ReadChar, InTag, More, Reading
  <2>3. phase' \in (0..21) \union {100}
    <3>1. PICK r \in Rules(phase) : phase' = r.go
      BY <1>1 DEF ReadChar
    <3> QED
      BY <2>2, <3>1 DEF Rules, R
  <2>4. TakingInv' /\ ps' \in Nat /\ attrs' \in Seq(Attr)
    <3>1. phase # Taking /\ phase' # Taking
      BY <2>2, <2>3 DEF Taking
    <3>2. TakingInv /\ ps \in Nat /\ attrs \in Seq(Attr)
      BY DEF IInv, RestOK
    <3>3. attrs' = <<>> /\ ps' = 0
      BY <2>2, <3>1, <3>2 DEF TakingInv
    <3> QED
      BY <3>1, <3>3 DEF TakingInv
  <2>5. TreeInv'
    <3>1. ~InText'
      BY <2>3 DEF InText, Text
    <3> QED
      BY <1>0, <2>2, <3>1 DEF TreeInv
  <2>6. pos' <= Len(doc'.text) + 1
    BY <1>0, <2>2
  <2> QED
    BY <1>0, <2>1, <2>2, <2>4, <2>5, <2>6 DEF IInv, RestOK
<1>2. CASE BadChar
  <2>1. /\ UNCHANGED <<doc, cut, tagVars, nodes, open>> /\ result' = "failing"
        /\ pos' = pos + 1 /\ pos <= Len(doc.text) /\ result = "reading"
    BY <1>2 DEF BadChar, InTag, More, Reading
  <2>2. TreeInv'
    BY <1>0, <2>1 DEF TreeInv, InText, Reading
  <2>3. UNCHANGED tagVars /\ pos' \in Nat \ {0} /\ pos' <= Len(doc'.text) + 1
    BY <1>0, <2>1
  <2> QED
    BY <1>0, <2>1, <2>2, <2>3, SameTag, Together
<1>3. CASE EndInTag \/ EndInText \/ EndTagAsRoot
  <2>1. /\ UNCHANGED <<doc, pos, tagVars, nodes, open>> /\ cut' \in BOOLEAN
        /\ result' \in {"failing", "bare", "wild"} /\ result = "reading"
    <3>1. More \in BOOLEAN
      BY DEF More
    <3>2. cut' \in {cut, More}
      BY <1>3 DEF EndInTag, EndTagAsRoot, EndInText
    <3>3. cut' \in BOOLEAN
      BY <1>0, <3>1, <3>2, Zenon
    <3> QED
      BY <1>3, <3>3 DEF EndInTag, EndTagAsRoot, EndInText, InTag, InText, TagRead, Reading
  <2>2. TreeInv'
    BY <1>0, <2>1 DEF TreeInv, InText, Reading
  <2> QED
    BY <1>0, <2>1, <2>2, SameTag, Together
<1>4. CASE TakeName
  <2>1. UNCHANGED <<doc, pos, cut, nodes, open, result>> /\ phase' = Taking
    BY <1>4 DEF TakeName
  <2>2. TreeInv'
    BY <1>0, <2>1 DEF TreeInv, InText, Taking, Text
  <2> QED
    BY <1>0, <1>4, <2>1, <2>2, NameTaken, Together
<1>5. CASE TakeAttribute
  <2>1. /\ UNCHANGED <<doc, pos, cut, phase, square, buf, spans, nodes, open, result>>
        /\ phase = Taking
    BY <1>5 DEF TakeAttribute, InTaking
  <2>2. TreeInv'
    BY <1>0, <2>1 DEF TreeInv, InText, Reading
  <2>3. ScanInv' /\ TagForm' /\ SpansInv' /\ SquareInv'
    BY <2>1 DEF IInv, ShapeInv, ScanInv, TagForm, HasSpace, LastIs, EndsTag, SpansInv, SquareInv
  <2>4. /\ phase' \in (0..21) \union {100, Taking, Text} /\ buf' \in Strings
        /\ square' \in Nat /\ spans' \in Seq(Span)
    BY <2>1 DEF IInv, ShapeInv, ShapeOK, RestOK
  <2> QED
    BY <1>0, <1>5, <2>1, <2>2, <2>3, <2>4, AttributeTaken, Together
<1>6. CASE StartTag
  <2>1. /\ UNCHANGED <<doc, pos, cut, square, result>> /\ InTaking /\ phase # 20
        /\ nodes' = Append(nodes, NewNode) /\ open' = Len(nodes) + 1
        /\ phase' = Text /\ buf' = <<>> /\ spans' = <<>> /\ ps' = 0 /\ attrs' = <<>>
        /\ result = "reading"
    BY <1>6 DEF StartTag, TagTaken, InTaking, Reading, Taking
  <2>2. /\ nodes' \in Seq(Node) /\ Len(nodes') = Len(nodes) + 1
        /\ \A k \in 1..Len(nodes') : nodes'[k].parent < k /\ (nodes'[k].parent = 0 => k = 1)
    BY <2>1, NodeAdded
  <2>3. TreeInv' /\ open' \in 0..Len(nodes')
    BY <1>0, <2>1, <2>2 DEF TreeInv
  <2> QED
    BY <1>0, <2>1, <2>2, <2>3, NoTag, Together
<1>7. CASE SelfClosed
  <2>1. /\ UNCHANGED <<doc, pos, cut, square>> /\ InTaking /\ phase # 20
        /\ nodes' = Append(nodes, NewNode) /\ open' = open
        /\ IF open = 0 THEN result' = "built" ELSE result' = "reading"
        /\ phase' = Text /\ buf' = <<>> /\ spans' = <<>> /\ ps' = 0 /\ attrs' = <<>>
    BY <1>7 DEF SelfClosed, Return, TagTaken, InTaking, Taking
  <2>2. /\ nodes' \in Seq(Node) /\ Len(nodes') = Len(nodes) + 1
        /\ \A k \in 1..Len(nodes') : nodes'[k].parent < k /\ (nodes'[k].parent = 0 => k = 1)
    BY <2>1, NodeAdded
  <2>3. TreeInv' /\ open' \in 0..Len(nodes')
    BY <1>0, <2>1, <2>2 DEF TreeInv, InText, Reading
  <2>4. result' \in {"reading", "failing", "built", "tree", "none", "bare", "wild"}
    BY <2>1
  <2> QED
    BY <1>0, <2>1, <2>2, <2>3, <2>4, NoTag, Together
<1>8. CASE EndTag
  <2>1. /\ UNCHANGED <<doc, pos, cut, square, nodes>> /\ open # 0 /\ phase # 20
        /\ phase' = Text /\ buf' = <<>> /\ spans' = <<>> /\ ps' = 0 /\ attrs' = <<>>
    BY <1>8 DEF EndTag, TagTaken, TagRead
  <2>2. \/ open' = 0 /\ result' = "built"
        \/ open' = nodes[open].parent /\ open' # 0 /\ result' = "reading"
        \/ open' = open /\ result' = "failing"
    BY <1>8 DEF EndTag, Return
  <2>3. /\ open' \in 0..Len(nodes')
        /\ result' \in {"reading", "failing", "built", "tree", "none", "bare", "wild"}
    BY <1>0, <2>1, <2>2, Parents
  <2>4. TreeInv'
    BY <1>0, <2>1, <2>2 DEF TreeInv, InText, Reading
  <2> QED
    BY <1>0, <2>1, <2>3, <2>4, NoTag, Together
<1>9. CASE ReadText
  <2>1. /\ UNCHANGED <<doc, cut, tagVars, open, result>> /\ pos' = pos + 1
        /\ pos <= Len(doc.text) /\ result = "reading" /\ InText
    BY <1>9 DEF ReadText, InText, More, Reading
  <2>2. /\ nodes' \in Seq(Node) /\ Len(nodes') = Len(nodes)
        /\ \A k \in 1..Len(nodes) : nodes'[k].parent = nodes[k].parent
    BY <1>9, TextRead
  <2>3. UNCHANGED tagVars /\ pos' \in Nat \ {0} /\ pos' <= Len(doc'.text) + 1
    BY <1>0, <2>1
  <2>4. TreeInv' /\ open' \in 0..Len(nodes')
    BY <1>0, <2>1, <2>2 DEF TreeInv
  <2> QED
    BY <1>0, <2>1, <2>2, <2>3, <2>4, SameTag, Together
<1>10. CASE ReadChild
  <2>1. /\ UNCHANGED <<doc, pos, cut, square, buf, spans, ps, attrs, nodes, open, result>>
        /\ phase = Text /\ phase' = 0 /\ open # 0
    BY <1>0, <1>10 DEF ReadChild, InText, TreeInv
  <2>2. phase # 20 /\ buf = <<>> /\ spans = <<>> /\ ps = 0 /\ attrs = <<>>
    BY <2>1 DEF IInv, ShapeInv, ScanInv, SpansInv, SpansAt, TakingInv, Taking, Text
  <2>3. TreeInv'
    BY <1>0, <2>1 DEF TreeInv
  <2> QED
    BY <1>0, <2>1, <2>2, <2>3, NoTag, Together
<1>11. CASE Unwind
  <2>1. /\ open \in 1..Len(nodes) /\ nodes[open].parent \in 0..(open - 1)
        /\ nodes[open].parent = 0 => open = 1
    BY <1>11, Parents DEF Unwind
  <2>2. /\ nodes' = SubSeq(nodes, 1, open - 1) /\ open' = nodes[open].parent
        /\ UNCHANGED <<doc, pos, cut, tagVars, result>> /\ result = "failing"
    BY <1>11 DEF Unwind, Deleted
  <2>3. /\ nodes' \in Seq(Node) /\ Len(nodes') = open - 1
        /\ \A k \in 1..(open - 1) : nodes'[k] = nodes[k]
    BY <1>0, <2>1, <2>2
  <2>4. open' \in 0..Len(nodes')
    BY <2>1, <2>2, <2>3
  <2>5. open' = 0 => nodes' = <<>>
    BY <2>1, <2>2, <2>3
  <2>6. \A k \in 1..Len(nodes') : nodes'[k].parent < k /\ (nodes'[k].parent = 0 => k = 1)
    <3>1. \A k \in 1..(open - 1) : k \in 1..Len(nodes)
      BY <1>0, <2>1
    <3> QED
      BY <1>0, <2>3, <3>1 DEF TreeInv
  <2>7. TreeInv'
    BY <2>2, <2>5, <2>6 DEF TreeInv, InText, Reading
  <2> QED
    BY <1>0, <2>2, <2>3, <2>4, <2>7, SameTag, Together
<1>12. CASE ReturnNull
  <2>1. /\ UNCHANGED <<doc, pos, cut, tagVars, nodes, open>> /\ open = 0
        /\ result = "failing" /\ result' = "none"
    BY <1>12 DEF ReturnNull
  <2>2. TreeInv'
    BY <1>0, <2>1 DEF TreeInv, InText, Reading
  <2> QED
    BY <1>0, <2>1, <2>2, SameTag, Together
<1>13. CASE InitNode
  <2>1. UNCHANGED <<doc, pos, cut, tagVars, open>> /\ result' = "tree"
    BY <1>13 DEF InitNode
  <2>2. /\ nodes' \in Seq(Node) /\ Len(nodes') = Len(nodes)
        /\ \A k \in 1..Len(nodes) : nodes'[k].parent = nodes[k].parent
    BY <1>13, TextsChecked
  <2>3. TreeInv' /\ open' \in 0..Len(nodes')
    BY <1>0, <2>1, <2>2 DEF TreeInv, InText, Reading
  <2> QED
    BY <1>0, <2>1, <2>2, <2>3, SameTag, Together
<1>14. CASE UNCHANGED vars
  <2>1. UNCHANGED <<doc, pos, cut, tagVars, nodes, open, result>>
    BY <1>14 DEF vars
  <2>2. TreeInv'
    BY <1>0, <2>1 DEF TreeInv, tagVars, InText, Reading
  <2> QED
    BY <1>0, <2>1, <2>2, SameTag, Together
<1> QED
  BY <1>1, <1>2, <1>3, <1>4, <1>5, <1>6, <1>7, <1>8, <1>9, <1>10, <1>11, <1>12, <1>13, <1>14
  DEF Next, Step

LEMMA InvStays ==
  ASSUME IInv, UNCHANGED vars
  PROVE  IInv'
<1>0. /\ doc \in Doc /\ pos \in Nat \ {0} /\ pos <= Len(doc.text) + 1 /\ cut \in BOOLEAN
      /\ nodes \in Seq(Node) /\ open \in 0..Len(nodes)
      /\ result \in {"reading", "failing", "built", "tree", "none", "bare", "wild"}
      /\ TreeInv
  BY DEF IInv, ShapeInv, ShapeOK, RestOK
<1>1. UNCHANGED <<doc, pos, cut, tagVars, nodes, open, result>>
  BY DEF vars
<1>2. TreeInv'
  BY <1>0, <1>1 DEF TreeInv, tagVars, InText, Reading
<1> QED
  BY <1>0, <1>1, <1>2, SameTag, Together

LEMMA InvStart ==
  ASSUME Init
  PROVE  IInv
<1>1. doc \in Doc /\ Len(doc.text) \in Nat
  BY DocsAssumption DEF Init, Doc, Strings
<1>2. ShapeInv
  <2>1. ShapeOK
    <3>1. nodes = <<>> /\ buf = <<>> /\ open = 0 /\ pos = 1 /\ phase = 0
      BY DEF Init
    <3> QED
      BY <1>1, <3>1 DEF ShapeOK, Strings
  <2>2. ScanInv /\ TagForm
    BY DEF Init, ScanInv, TagForm, Taking, Text
  <2> QED
    BY <2>1, <2>2 DEF ShapeInv
<1>3. RestOK
  <2>1. /\ pos = 1 /\ cut = FALSE /\ square = 0 /\ spans = <<>> /\ ps = 0 /\ attrs = <<>>
        /\ result = "reading"
    BY DEF Init
  <2>2. 1 <= Len(doc.text) + 1 /\ <<>> \in Seq(Span) /\ <<>> \in Seq(Attr)
    BY <1>1
  <2> QED
    BY <2>1, <2>2 DEF RestOK
<1>4. SpansInv
  BY NoTagAsks DEF Init, SpansInv
<1>5. TakingInv /\ SquareInv /\ TreeInv
  BY DEF Init, TakingInv, SquareInv, TreeInv, InText, Taking, Text
<1> QED
  BY <1>2, <1>3, <1>4, <1>5 DEF IInv

--------------------------------------------------------------------------------
(* The theorems.                                                             *)
LEMMA Always == Spec => []IInv
<1>1. IInv /\ [Next]_vars => IInv'
  BY InvStep, InvStays
<1> QED
  BY InvStart, <1>1, PTL DEF Spec

(* Every variable of the reader has its type, in every file whatever and        *)
(* wherever it is cut: the file position stays within it, the square brackets   *)
(* are never counted below none, and every node of the tree is one, with the    *)
(* name and the attributes cut out of its tag (xmlInterface.cpp:56-399).        *)
THEOREM TypeCorrect == Spec => []TypeOK
<1>1. IInv => TypeOK
  BY TypesFrom DEF IInv, ShapeInv
<1> QED
  BY Always, <1>1, PTL

LEMMA PlacesLeft ==
  ASSUME IInv
  PROVE  ArraysSuffice
<1> SUFFICES ASSUME phase = Taking
             PROVE  Len(attrs) < Places(buf)
  BY DEF ArraysSuffice, InTaking
<1>1. /\ buf \in Strings /\ Spaced(buf) /\ spans \in Seq(Span) /\ LaidOut(buf, spans)
      /\ Len(attrs) \in 0..Len(spans)
  BY WhenTaking
<1>2. Len(spans) < Places(buf) /\ Places(buf) \in Nat
  BY <1>1, EnoughPlaces DEF LaidOut
<1>3. Len(spans) \in Nat
  BY <1>1
<1> HIDE DEF Places
<1> QED
  BY <1>1, <1>2, <1>3

--------------------------------------------------------------------------------
(* The tags nest: of n nodes with these parents, o is the open one.           *)
Nested(n, p, o) ==
  /\ \A i \in 1..n : \A k \in 1..(i - 1) : p[i] >= k \/ p[i] <= p[k]
  /\ \A k \in 1..n : o >= k \/ o <= p[k]
Above == [k \in 1..Len(nodes) |-> nodes[k].parent]

LEMMA NestedSame ==
  ASSUME NEW n \in Nat, NEW p, NEW q, NEW o, Nested(n, p, o),
         \A k \in 1..n : q[k] = p[k]
  PROVE  Nested(n, q, o)
<1>1. \A i \in 1..n : \A k \in 1..(i - 1) : k \in 1..n
  OBVIOUS
<1> QED
  BY <1>1 DEF Nested

(* A start tag opens a node below the open one. *)
LEMMA NestedPush ==
  ASSUME NEW n \in Nat, NEW p, NEW q, NEW o \in Nat, Nested(n, p, o), o <= n,
         \A k \in 1..n : q[k] = p[k], q[n + 1] = o
  PROVE  Nested(n + 1, q, o) /\ Nested(n + 1, q, n + 1)
<1>1. \A i \in 1..(n + 1) : i \in 1..n \/ i = n + 1
  OBVIOUS
<1>2. ASSUME NEW i \in 1..(n + 1), NEW k \in 1..(i - 1)
      PROVE  q[i] >= k \/ q[i] <= q[k]
  <2>1. k \in 1..n
    OBVIOUS
  <2>2. CASE i \in 1..n
    BY <2>1, <2>2 DEF Nested
  <2>3. CASE i = n + 1
    BY <2>1, <2>3 DEF Nested
  <2> QED
    BY <1>1, <2>2, <2>3
<1>3. ASSUME NEW k \in 1..(n + 1)
      PROVE  (o >= k \/ o <= q[k]) /\ n + 1 >= k
  BY <1>1 DEF Nested
<1> QED
  BY <1>2, <1>3 DEF Nested

(* Its end, or its deletion with all that follows it, opens the node above. *)
LEMMA NestedPop ==
  ASSUME NEW n \in Nat, NEW p, NEW o \in 1..n, Nested(n, p, o),
         \A k \in 1..n : p[k] \in Nat /\ p[k] < k
  PROVE  Nested(n, p, p[o]) /\ Nested(o - 1, p, p[o])
<1>1. ASSUME NEW k \in 1..n
      PROVE  p[o] >= k \/ p[o] <= p[k]
  <2>1. p[o] \in Nat /\ p[o] < o /\ p[k] \in Nat
    OBVIOUS
  <2>2. CASE k < o
    BY <2>2 DEF Nested
  <2>3. CASE k = o
    BY <2>1, <2>3
  <2>4. CASE k > o
    BY <2>1, <2>4 DEF Nested
  <2> QED
    BY <2>2, <2>3, <2>4
<1>2. \A k \in 1..(o - 1) : k \in 1..n
  OBVIOUS
<1>3. Nested(n, p, p[o])
  BY <1>1 DEF Nested
<1>4. Nested(o - 1, p, p[o])
  BY <1>1, <1>2 DEF Nested
<1> QED
  BY <1>3, <1>4

LEMMA NestIs ==
  ASSUME Len(nodes) \in Nat
  PROVE  NestInv <=> Nested(Len(nodes), Above, open)
<1>1. \A k \in 1..Len(nodes) : Above[k] = nodes[k].parent
  BY DEF Above
<1>2. \A i \in 1..Len(nodes) : \A k \in 1..(i - 1) : k \in 1..Len(nodes)
  OBVIOUS
<1> QED
  BY <1>1, <1>2 DEF NestInv, Nested

LEMMA NestTypes ==
  ASSUME IInv
  PROVE  /\ Len(nodes) \in Nat /\ open \in 0..Len(nodes)
         /\ \A k \in 1..Len(nodes) : Above[k] \in Nat /\ Above[k] < k
<1>1. nodes \in Seq(Node) /\ Len(nodes) \in Nat /\ open \in 0..Len(nodes)
  BY DEF IInv, ShapeInv, ShapeOK
<1>2. \A k \in 1..Len(nodes) : nodes[k] \in Node
  BY <1>1
<1>3. \A k \in 1..Len(nodes) : nodes[k].parent \in Nat
  BY <1>2 DEF Node
<1>4. \A k \in 1..Len(nodes) : nodes[k].parent < k
  BY DEF IInv, TreeInv
<1> QED
  BY <1>1, <1>3, <1>4 DEF Above

(* Each step either leaves the tree's shape or moves along it as above. *)
LEMMA NestStep ==
  ASSUME IInv, NestInv, [Next]_vars
  PROVE  NestInv'
<1> DEFINE N == Nested(Len(nodes), Above, open)
<1>0. /\ Len(nodes) \in Nat /\ open \in 0..Len(nodes) /\ N
      /\ \A k \in 1..Len(nodes) : Above[k] \in Nat /\ Above[k] < k
      /\ nodes \in Seq(Node)
  BY NestTypes, NestIs DEF IInv, ShapeInv, ShapeOK
<1>1. /\ Len(nodes') \in Nat /\ (Len(nodes') \in Nat => (NestInv' <=> N'))
      /\ \A k \in 1..Len(nodes') : Above'[k] = nodes'[k].parent
  <2>1. IInv'
    BY InvStep, InvStays
  <2>2. (IInv => Len(nodes) \in Nat)'
    BY NestTypes, PTL
  <2>3. (Len(nodes) \in Nat => (NestInv <=> N))'
    BY NestIs, PTL
  <2> QED
    BY <2>1, <2>2, <2>3 DEF Above
<1>2. \A k \in 1..Len(nodes) : Above[k] = nodes[k].parent
  BY DEF Above
<1> SUFFICES N'
  BY <1>1
<1>3. ASSUME Len(nodes') = Len(nodes), open' = open,
             \A k \in 1..Len(nodes) : nodes'[k].parent = nodes[k].parent
      PROVE  N'
  BY <1>0, <1>1, <1>2, <1>3, NestedSame
<1>4. CASE ReadText \/ InitNode
  BY <1>3, <1>4, TextRead, TextsChecked DEF ReadText, InitNode
<1>5. CASE UNCHANGED <<nodes, open>>
  BY <1>3, <1>5
<1>6. CASE StartTag \/ SelfClosed
  <2>1. /\ nodes' = Append(nodes, NewNode) /\ InTaking
        /\ open' \in {open, Len(nodes) + 1}
    BY <1>6 DEF StartTag, SelfClosed, Return
  <2>2. NewNode \in Node /\ NewNode.parent = open
    BY <2>1, NewNodeFits
  <2> DEFINE x == NewNode
  <2>3. nodes' = Append(nodes, x) /\ x \in Node /\ x.parent = open
    BY <2>1, <2>2
  <2> HIDE DEF x
  <2>4. /\ Len(nodes') = Len(nodes) + 1 /\ nodes'[Len(nodes) + 1] = x
        /\ \A k \in 1..Len(nodes) : nodes'[k] = nodes[k]
    BY <1>0, <2>3
  <2>5. /\ Above'[Len(nodes) + 1] = open
        /\ \A k \in 1..Len(nodes) : Above'[k] = Above[k]
    BY <1>0, <1>1, <1>2, <2>3, <2>4
  <2> QED
    BY <1>0, <2>1, <2>4, <2>5, NestedPush
<1>7. CASE EndTag
  <2>1. nodes' = nodes /\ open' \in {open, nodes[open].parent} /\ open # 0
    BY <1>7 DEF EndTag, Return
  <2>2. Above' = Above
    BY <2>1 DEF Above
  <2>3. N /\ Nested(Len(nodes), Above, Above[open])
    BY <1>0, <2>1, NestedPop
  <2> QED
    BY <1>0, <1>2, <2>1, <2>2, <2>3
<1>8. CASE Unwind
  <2>1. /\ nodes' = SubSeq(nodes, 1, open - 1) /\ open' = nodes[open].parent
        /\ open \in 1..Len(nodes)
    BY <1>0, <1>8 DEF Unwind, Deleted
  <2>2. /\ Len(nodes') = open - 1
        /\ \A k \in 1..(open - 1) : nodes'[k] = nodes[k] /\ k \in 1..Len(nodes)
    BY <1>0, <2>1
  <2>3. Nested(open - 1, Above, Above[open])
    BY <1>0, <2>1, NestedPop
  <2>4. \A k \in 1..(open - 1) : Above'[k] = Above[k]
    BY <1>1, <1>2, <2>2
  <2>5. open - 1 \in Nat
    BY <1>0, <2>1
  <2> QED
    BY <1>2, <2>1, <2>2, <2>3, <2>4, <2>5, NestedSame
<1>9. CASE ReadChar \/ BadChar \/ EndInTag \/ TakeName \/ TakeAttribute \/ EndTagAsRoot
           \/ ReadChild \/ EndInText \/ ReturnNull \/ UNCHANGED vars
  <2>1. UNCHANGED <<nodes, open>>
    BY <1>9 DEF ReadChar, BadChar, EndInTag, TakeName, TakeAttribute, EndTagAsRoot,
       ReadChild, EndInText, ReturnNull, vars
  <2> QED
    BY <1>5, <2>1
<1> QED
  BY <1>4, <1>6, <1>7, <1>8, <1>9 DEF Next, Step

LEMMA AlwaysNested == Spec => [](IInv /\ NestInv)
<1>1. Init => NestInv
  BY DEF Init, NestInv
<1>2. IInv /\ NestInv /\ [Next]_vars => NestInv'
  BY NestStep
<1> QED
  BY Always, <1>1, <1>2, PTL DEF Spec

LEMMA SubtreeIsLast ==
  ASSUME IInv, NestInv
  PROVE  SubtreeLast
<1> SUFFICES ASSUME open # 0, NEW k \in (open + 1)..Len(nodes)
             PROVE  nodes[k].parent >= open
  BY DEF SubtreeLast
<1>1. Len(nodes) \in Nat /\ open \in 1..Len(nodes) /\ k \in 1..Len(nodes)
  BY NestTypes
<1> QED
  BY <1>1 DEF NestInv

(* A node that fails takes its whole subtree with it and nothing else, however  *)
(* the tags of the file are nested: what stays is the tree of the calls that    *)
(* are still under way (xmlInterface.cpp:38-54, 374-381).                       *)
THEOREM DeleteTakesSubtree == Spec => []SubtreeLast
<1>1. IInv /\ NestInv => SubtreeLast
  BY SubtreeIsLast
<1> QED
  BY AlwaysNested, <1>1, PTL

(* What was cut short stays given up. *)
LEMMA CutStep == CutInv /\ [Next]_vars => CutInv'
<1> SUFFICES ASSUME CutInv, [Next]_vars, cut'
             PROVE  result' \in {"failing", "none", "wild"}
  BY DEF CutInv
<1>1. CASE EndInTag \/ EndInText
  BY <1>1 DEF EndInTag, EndInText
<1>2. ASSUME UNCHANGED cut PROVE result \in {"failing", "none", "wild"}
  BY <1>2 DEF CutInv
<1>3. CASE ReadChar \/ BadChar \/ TakeName \/ TakeAttribute \/ StartTag \/ SelfClosed
           \/ EndTag \/ EndTagAsRoot \/ ReadText \/ ReadChild
  BY <1>2, <1>3 DEF ReadChar, BadChar, TakeName, TakeAttribute, StartTag, SelfClosed,
     EndTag, EndTagAsRoot, ReadText, ReadChild, InTag, InText, InTaking, TagRead, Reading
<1>4. CASE Unwind \/ ReturnNull \/ InitNode \/ UNCHANGED vars
  BY <1>2, <1>4 DEF Unwind, ReturnNull, InitNode, vars
<1> QED
  BY <1>1, <1>3, <1>4 DEF Next, Step

LEMMA AlwaysCut == Spec => []CutInv
<1>1. Init => CutInv
  BY DEF Init, CutInv
<1> QED
  BY <1>1, CutStep, PTL DEF Spec

(* A file that was cut short, at whatever character, is never taken for a       *)
(* complete one (xmlInterface.cpp:91-92, 228-230, 324-328).                    *)
THEOREM CutIsNeverRead == Spec => [](result = "tree" => ~cut)
<1>1. CutInv => (result = "tree" => ~cut)
  BY DEF CutInv
<1> QED
  BY AlwaysCut, <1>1, PTL

--------------------------------------------------------------------------------
(* A tag handed to the code that takes it apart has the form the comment at     *)
(* xmlInterface.cpp:232-235 gives it, each phase keeps what the next ones rely   *)
(* on, the brackets are counted in one phase alone, the calls under way are the  *)
(* open node and its ancestors, the tags nest, a file cut short is given up, and *)
(* the estimate for the attributes' arrays is never too small                   *)
(* (xmlInterface.cpp:56-399).                                                  *)
THEOREM ReaderCorrect == Spec => []ReaderInv
<1>1. IInv /\ NestInv /\ CutInv => ReaderInv
  BY PlacesLeft, SubtreeIsLast DEF IInv, ShapeInv, ReaderInv
<1> QED
  BY AlwaysNested, AlwaysCut, <1>1, PTL

(* Above all the form of a tag: strchr finds the space after its name, and     *)
(* the code that looks at its last characters finds what it looks for           *)
(* (xmlInterface.cpp:232-262, 301).                                             *)
THEOREM TagsHaveForm == Spec => []TagForm
<1>1. ReaderInv => TagForm
  BY DEF ReaderInv
<1> QED
  BY ReaderCorrect, <1>1, PTL

LEMMA Agree ==
  ASSUME IInv
  PROVE  AttributesAsScanned
<1> SUFFICES ASSUME phase = Taking
             PROVE  /\ Len(attrs) <= Len(spans)
                    /\ \A i \in 1..Len(attrs) : attrs[i] = ScannedAttribute(i)
                    /\ Equals = 0 => Len(attrs) = Len(spans)
                    /\ Equals # 0 => ValueEnd # 0
  BY DEF AttributesAsScanned, InTaking
<1>1. /\ buf \in Strings /\ Spaced(buf) /\ spans \in Seq(Span) /\ LaidOut(buf, spans)
      /\ Len(attrs) \in 0..Len(spans) /\ ps = StartOf(buf, spans, Len(attrs) + 1)
  BY WhenTaking
<1>2. \A i \in 1..Len(attrs) : attrs[i] = ScannedAttribute(i)
  BY DEF IInv, TakingInv
<1>3. /\ Len(attrs) < Len(spans) => Equals # 0 /\ ValueEnd # 0
      /\ Len(attrs) = Len(spans) => Equals = 0
  BY <1>1, SearchAgrees
<1>4. Len(attrs) < Len(spans) \/ Len(attrs) = Len(spans)
  <2>1. Len(spans) \in Nat
    BY <1>1
  <2> QED
    BY <1>1, <2>1
<1>5. Len(attrs) <= Len(spans)
  BY <1>1
<1> QED
  BY <1>2, <1>3, <1>4, <1>5

(* The two readings of a tag agree, for every tag there can be: the searches    *)
(* for =" and =' and for the quote that ends a value cut out exactly what the    *)
(* phases told apart, and never run on into the next attribute or to a NULL      *)
(* (xmlInterface.cpp:91-227 against 278-300).                                  *)
THEOREM PassesAgree == Spec => []AttributesAsScanned
<1>1. IInv => AttributesAsScanned
  BY Agree
<1> QED
  BY Always, <1>1, PTL

(* A reading that ends with NULL has taken its whole tree down, whatever was     *)
(* built and however deep the calls were (xmlInterface.cpp:374-399).            *)
THEOREM NullLeavesNothing == Spec => []NothingLeft
<1>1. IInv => NothingLeft
  BY DEF IInv, TreeInv, NothingLeft
<1> QED
  BY Always, <1>1, PTL

--------------------------------------------------------------------------------
(* Progress.                                                                 *)
LEMMA Measured ==
  ASSUME IInv
  PROVE  Stage \in Nat /\ Unread \in Nat /\ Work \in Nat
<1>1. Stage \in Nat
  BY DEF Stage
<1>2. Unread \in Nat
  <2>1. Len(doc.text) \in Nat /\ pos \in Nat /\ pos <= Len(doc.text) + 1
    BY DEF IInv, ShapeInv, ShapeOK, RestOK, Doc, Strings
  <2> QED
    BY <2>1 DEF Unread
<1>3. Work \in Nat
  <2>1. open \in Nat /\ Len(spans) \in Nat /\ Len(attrs) \in Nat
    BY DEF IInv, ShapeInv, ShapeOK, RestOK
  <2>2. phase \in {100, Taking} => Len(attrs) <= Len(spans)
    <3>1. phase # Taking => Len(attrs) = 0
      BY DEF IInv, TakingInv
    <3>2. phase = Taking => Len(attrs) <= Len(spans)
      BY DEF IInv, TakingInv
    <3> QED
      BY <2>1, <3>1, <3>2
  <2>3. phase \in {100, Taking} => /\ Len(spans) - Len(attrs) + 2 \in Nat
                                  /\ Len(spans) - Len(attrs) + 3 \in Nat
    BY <2>1, <2>2
  <2> QED
    BY <2>1, <2>3 DEF Work
<1> QED
  BY <1>1, <1>2, <1>3

LEMMA StepIsNearer ==
  ASSUME IInv, Next
  PROVE  Nearer \/ UNCHANGED vars
<1>0. /\ pos \in Nat /\ Len(doc.text) \in Nat /\ pos <= Len(doc.text) + 1
      /\ open \in Nat /\ Len(spans) \in Nat /\ Len(attrs) \in Nat
      /\ phase = Taking => Len(attrs) <= Len(spans)
      /\ phase # Taking => Len(attrs) = 0
  BY DEF IInv, ShapeInv, ShapeOK, RestOK, Doc, Strings, TakingInv
<1>1. ASSUME result = "reading", result' # "reading"
      PROVE  Nearer
  <2>1. Stage = 2 /\ Stage' \in {0, 1}
    BY <1>1 DEF Stage
  <2> QED
    BY <2>1 DEF Nearer
<1>2. ASSUME result \in {"failing", "built"}, result' \in {"tree", "none"}
      PROVE  Nearer
  <2>1. Stage = 1 /\ Stage' = 0
    BY <1>2 DEF Stage
  <2> QED
    BY <2>1 DEF Nearer
<1>3. ASSUME result' = result, doc' = doc, pos' = pos + 1, pos <= Len(doc.text)
      PROVE  Nearer
  <2>1. Stage' = Stage
    BY <1>3, Zenon DEF Stage
  <2>2. Unread' < Unread
    <3> DEFINE n == Len(doc.text)
    <3>1. Unread = n + 1 - pos /\ Unread' = n + 1 - (pos + 1) /\ n \in Nat
      BY <1>0, <1>3 DEF Unread
    <3> HIDE DEF n
    <3> QED
      BY <1>0, <3>1
  <2> QED
    BY <2>1, <2>2 DEF Nearer
<1>4. ASSUME result' = result, doc' = doc, pos' = pos, Work' < Work
      PROVE  Nearer
  <2>1. Stage' = Stage /\ Unread' = Unread
    BY <1>4, Zenon DEF Stage, Unread
  <2> QED
    BY <1>4, <2>1 DEF Nearer
<1>5. CASE ReadChar \/ ReadText
  BY <1>3, <1>5 DEF ReadChar, ReadText, More
<1>6. CASE BadChar \/ EndInTag \/ EndTagAsRoot \/ EndInText
  BY <1>1, <1>6 DEF BadChar, EndInTag, EndTagAsRoot, EndInText, InTag, InText, TagRead, Reading
<1>7. CASE ReturnNull \/ InitNode
  BY <1>2, <1>7 DEF ReturnNull, InitNode
<1>8. CASE TakeName
  <2>1. /\ UNCHANGED <<doc, pos, spans, attrs, result>> /\ result = "reading"
        /\ phase = 100 /\ phase' = Taking
    BY <1>8 DEF TakeName, TagRead, Reading
  <2>2. Work = Len(spans) - Len(attrs) + 3
    BY <2>1 DEF Work, Taking
  <2>2a. Work' = Len(spans') - Len(attrs') + 2
    BY <2>1 DEF Work, Taking
  <2>3. Work' < Work
    BY <1>0, <2>1, <2>2, <2>2a
  <2> QED
    BY <1>4, <2>1, <2>3
<1>9. CASE TakeAttribute
  <2>1. /\ UNCHANGED <<doc, pos, phase, spans, result>> /\ result = "reading" /\ phase = Taking
    BY <1>9 DEF TakeAttribute, InTaking, Reading
  <2>2. Len(attrs') = Len(attrs) + 1
    BY <1>9, AttributeTaken
  <2>3. Work = Len(spans) - Len(attrs) + 2
    BY <2>1 DEF Work, Taking
  <2>3a. Work' = Len(spans') - Len(attrs') + 2
    BY <2>1 DEF Work, Taking
  <2>4. Work' < Work
    BY <1>0, <2>1, <2>2, <2>3, <2>3a
  <2> QED
    BY <1>4, <2>1, <2>4
<1>10. CASE StartTag \/ SelfClosed \/ EndTag
  <2>1. /\ UNCHANGED <<doc, pos>> /\ result = "reading" /\ phase \in {100, Taking}
        /\ phase' = Text
    BY <1>10 DEF StartTag, SelfClosed, EndTag, TagTaken, InTaking, TagRead, Reading
  <2>2. CASE result' = "reading"
    <3>1. Work' = 1
      BY <2>1, <2>2 DEF Work, Taking, Text
    <3>2. Work \in {Len(spans) - Len(attrs) + 2, Len(spans) - Len(attrs) + 3}
      BY <2>1 DEF Work
    <3>3. Len(attrs) <= Len(spans)
      BY <1>0, <2>1
    <3>4. Work > 1
      BY <1>0, <3>2, <3>3
    <3> QED
      BY <1>4, <2>1, <2>2, <3>1, <3>4
  <2> QED
    BY <1>1, <2>1, <2>2
<1>11. CASE ReadChild
  <2>1. /\ UNCHANGED <<doc, pos, result>> /\ result = "reading" /\ phase = Text /\ phase' = 0
    BY <1>11 DEF ReadChild, InText, Reading
  <2>2. Work = 1 /\ Work' = 0
    BY <2>1 DEF Work, Taking, Text
  <2> QED
    BY <1>4, <2>1, <2>2
<1>12. CASE Unwind
  <2>1. /\ UNCHANGED <<doc, pos, result>> /\ result = "failing"
        /\ open' = nodes[open].parent /\ open # 0
    BY <1>12 DEF Unwind
  <2>2. nodes[open].parent \in 0..(open - 1)
    BY <2>1, Parents
  <2>3. Work = open /\ Work' = open'
    BY <2>1 DEF Work
  <2> QED
    BY <1>0, <1>4, <2>1, <2>2, <2>3
<1> QED
  BY <1>5, <1>6, <1>7, <1>8, <1>9, <1>10, <1>11, <1>12 DEF Next, Step

(* Every step brings a reading nearer its end, in any file: no loop of the       *)
(* reader goes round without having read a character, taken an attribute or      *)
(* left a call (xmlInterface.cpp:91-227, 281-300, 324-355).                     *)
THEOREM Progress == Spec => MakesProgress
<1>1. IInv /\ [Next]_vars => [Nearer]_vars
  BY StepIsNearer
<1> QED
  BY Always, <1>1, PTL DEF Spec, MakesProgress

(* What comes down so are natural numbers, compared the first before the second *)
(* before the third, so it cannot go on for ever: with the theorem above, a      *)
(* reading ends however deep the tags of its file are                          *)
(* (xmlInterface.cpp:56-399).                                                  *)
THEOREM MeasureIsNatural == Spec => [](Stage \in Nat /\ Unread \in Nat /\ Work \in Nat)
<1>1. IInv => Stage \in Nat /\ Unread \in Nat /\ Work \in Nat
  BY Measured
<1> QED
  BY Always, <1>1, PTL
================================================================================
