------------------------ MODULE AnnotationTextProofs ------------------------
(***************************************************************************)
(* Lemmas about the edits of an annotation, for texts of any length.       *)
(***************************************************************************)
EXTENDS AnnotationEdits, SequenceTheorems, FiniteSetTheorems,
        WellFoundedInduction, TLAPS

(* A set of numbers with an element has a least one.                       *)
LEMMA MinOfNats ==
  ASSUME NEW I, I \subseteq Nat, I # {}
  PROVE  Min(I) \in I /\ \A j \in I : Min(I) <= j
<1>1. PICK x \in I : \A y \in I : ~(<< y, x >> \in OpToRel(<, Nat))
  BY NatLessThanWellFounded, WFMin, Zenon
<1>2. \A y \in I : x <= y
  <2>. SUFFICES ASSUME NEW y \in I, y < x
                PROVE  FALSE
    BY SMT
  <2>1. << y, x >> \in OpToRel(<, Nat)
    BY Zenon DEF OpToRel
  <2>. QED
    BY <1>1, <2>1
<1>. QED
  BY <1>2, Zenon DEF Min

(* The index of a line is one of the text's, or 0.                         *)
LEMMA IndexOfRange ==
  ASSUME NEW text \in Text, NEW marker
  PROVE  IndexOf(text, marker) \in 0 .. Len(text)
<1>. DEFINE I == {i \in 1 .. Len(text) : text[i] = marker}
<1>1. Len(text) \in Nat
  BY DEF Text
<1>2. IndexOf(text, marker) = IF I # {} THEN Min(I) ELSE 0
  BY DEF IndexOf, SelectInSeq
<1>3. I \subseteq Nat /\ I \subseteq 1 .. Len(text)
  BY <1>1
<1>. HIDE DEF I
<1>4. I # {} => Min(I) \in I
  BY <1>3, MinOfNats
<1>. QED
  <2>1. CASE I = {}
    BY <1>1, <1>2, <2>1
  <2>2. CASE I # {}
    <3>1. Min(I) \in 1 .. Len(text)
      BY <1>3, <1>4, <2>2
    <3>. QED
      BY <1>1, <1>2, <2>2, <3>1
  <2>. QED
    BY <2>1, <2>2

(* Skipping empty lines leaves a text.                                     *)
LEMMA SkipNewlinesType ==
  ASSUME NEW text \in Text, NEW i \in Nat \ {0}
  PROVE  SkipNewlines(text, i) \in Text
<1>. DEFINE I == {j \in i .. Len(text) : text[j] # Blank}
            first == IF I # {} THEN Min(I) ELSE 0
<1>1. Len(text) \in Nat
  BY DEF Text
<1>2. I \subseteq Nat /\ I \subseteq 1 .. Len(text)
  BY <1>1
<1>3. SkipNewlines(text, i) = IF first = 0 THEN << >> ELSE SubSeq(text, first, Len(text))
  BY DEF SkipNewlines, SelectInSubSeq
<1>. HIDE DEF I
<1>4. first \in {0} \cup (1 .. Len(text))
  BY <1>1, <1>2, MinOfNats
<1>. HIDE DEF first
<1>5. first # 0 => \A j \in first .. Len(text) : text[j] \in Line
  BY <1>1, <1>4 DEF Text
<1>6. first # 0 => SubSeq(text, first, Len(text)) \in Seq(Line)
  BY <1>1, <1>4, <1>5, SubSeqProperties
<1>. QED
  BY <1>3, <1>6 DEF Text

(* Both edits of the attacks make a text of a text.                        *)
LEMMA EditsOfTheAttacks ==
  ASSUME NEW text \in Text, NEW e \in Executions
  PROVE  /\ PrependBlock(text, e) \in Text
         /\ RemoveAnnotationBlock(text, e) \in Text
<1>1. Block(e) \in Seq(Line) /\ << Blank >> \in Seq(Line)
  BY DEF Block, BeginOf, RuleOf, EndOf, Blank, Line
<1>2. PrependBlock(text, e) \in Text
  BY <1>1, ConcatProperties DEF PrependBlock, Text
<1>3. RemoveAnnotationBlock(text, e) \in Text
  <2>. DEFINE start == IndexOf(text, BeginOf(e))
              end   == IndexOf(text, EndOf(e))
  <2>1. start \in 0 .. Len(text) /\ end \in 0 .. Len(text) /\ Len(text) \in Nat
    BY IndexOfRange DEF Text
  <2>2. RemoveAnnotationBlock(text, e)
          = IF start = 0 \/ end = 0 THEN text
            ELSE SubSeq(text, 1, start - 1) \o SkipNewlines(text, end + 1)
    BY DEF RemoveAnnotationBlock
  <2>. HIDE DEF start, end
  <2>3. SkipNewlines(text, end + 1) \in Seq(Line)
    BY <2>1, SkipNewlinesType DEF Text
  <2>4. start # 0 => \A j \in 1 .. start - 1 : text[j] \in Line
    BY <2>1 DEF Text
  <2>5. start # 0 => SubSeq(text, 1, start - 1) \in Seq(Line)
    BY <2>1, <2>4, SubSeqProperties
  <2>. QED
    BY <2>2, <2>3, <2>5, ConcatProperties DEF Text
<1>. QED
  BY <1>2, <1>3

(* And so does every line that is put on top or at the bottom, or taken    *)
(* out.                                                                    *)
LEMMA EditsOfLines ==
  ASSUME NEW text \in Text
  PROVE  /\ \A line \in Line : << line >> \o text \in Text /\ Append(text, line) \in Text
         /\ \A i \in 1 .. Len(text) : RemoveAt(text, i) \in Text
<1>1. \A line \in Line : << line >> \o text \in Text
  <2>1. \A line \in Line : << line >> \in Seq(Line)
    OBVIOUS
  <2>. QED
    BY <2>1, ConcatProperties DEF Text
<1>2. \A line \in Line : Append(text, line) \in Text
  BY AppendProperties DEF Text
<1>3. ASSUME NEW i \in 1 .. Len(text)
      PROVE  RemoveAt(text, i) \in Text
  <2>1. Len(text) \in Nat /\ \A j \in 1 .. Len(text) : text[j] \in Line
    BY DEF Text
  <2>2. SubSeq(text, 1, i - 1) \in Seq(Line)
    BY <2>1, SubSeqProperties
  <2>3. SubSeq(text, i + 1, Len(text)) \in Seq(Line)
    BY <2>1, SubSeqProperties
  <2>. QED
    BY <2>2, <2>3, ConcatProperties DEF RemoveAt, Text
<1>. QED
  BY <1>1, <1>2, <1>3

(* So does every edit of somebody else.                                    *)
LEMMA EditsOfOthers ==
  ASSUME NEW text \in Text
  PROVE  UserEdits(text) \subseteq Text
<1>1. \A u \in UserTexts : UserLine(u) \in Line
  BY DEF UserLine, Line
<1>2. << >> \in Text /\ \A u \in UserTexts : << UserLine(u) >> \in Text
  BY <1>1 DEF Text
<1>. QED
  BY <1>1, <1>2, EditsOfLines DEF UserEdits
-----------------------------------------------------------------------------
(* Whose line is whose.                                                    *)
LEMMA Owners ==
  ASSUME NEW e \in Executions
  PROVE  /\ \A f : OwnedBy(BeginOf(f), e) <=> e = f
         /\ \A f : OwnedBy(RuleOf(f), e) <=> e = f
         /\ \A f : OwnedBy(EndOf(f), e) <=> e = f
         /\ ~OwnedBy(Blank, e)
         /\ \A u \in UserTexts : ~OwnedBy(UserLine(u), e)
<1>1. \A u \in UserTexts : ~OwnedBy(UserLine(u), e)
  BY OwnersAssumption DEF OwnedBy, UserLine
<1>2. ~OwnedBy(Blank, e)
  BY DEF OwnedBy, Blank
<1>. QED
  BY <1>1, <1>2 DEF OwnedBy, BeginOf, RuleOf, EndOf

(* A user's line is nobody else's.                                         *)
LEMMA UsersOwn ==
  ASSUME NEW line \in Line, line.kind = "user", NEW e \in Executions
  PROVE  ~OwnedBy(line, e)
<1>1. line.by \in UserTexts
  BY DEF Line
<1>. QED
  BY <1>1, OwnersAssumption DEF OwnedBy

(* The indices of a text.                                                  *)
LEMMA TextLines ==
  ASSUME NEW text \in Text
  PROVE  /\ Len(text) \in Nat /\ DOMAIN text = 1 .. Len(text)
         /\ \A i \in 1 .. Len(text) : text[i] \in Line
         /\ ToSet(text) = {text[i] : i \in 1 .. Len(text)}
         /\ \A e : HasLineOf(text, e) <=> \E i \in 1 .. Len(text) : OwnedBy(text[i], e)
BY DEF Text, ToSet, HasLineOf

(* The block of e is at i, and e has no line elsewhere.                    *)
BlockAt(text, e, i) ==
  /\ i \in 1 .. Len(text) - 2
  /\ text[i] = BeginOf(e) /\ text[i + 1] = RuleOf(e) /\ text[i + 2] = EndOf(e)
  /\ \A j \in 1 .. Len(text) : OwnedBy(text[j], e) => j \in i .. i + 2

LEMMA WholeBlockAt ==
  ASSUME NEW text \in Text, NEW e \in Executions
  PROVE  HasWholeBlock(text, e) <=> \E i \in 1 .. Len(text) - 2 : BlockAt(text, e, i)
<1>1. ASSUME NEW i \in 1 .. Len(text) - 2
      PROVE  SubSeq(text, i, i + 2) = Block(e)
               <=> /\ text[i] = BeginOf(e) /\ text[i + 1] = RuleOf(e)
                   /\ text[i + 2] = EndOf(e)
  <2>1. \A j \in i .. i + 2 : text[j] \in Line
    BY TextLines
  <2>2. /\ SubSeq(text, i, i + 2) \in Seq(Line)
        /\ Len(SubSeq(text, i, i + 2)) = 3
        /\ SubSeq(text, i, i + 2)[1] = text[i]
        /\ SubSeq(text, i, i + 2)[2] = text[i + 1]
        /\ SubSeq(text, i, i + 2)[3] = text[i + 2]
    BY <2>1, SubSeqProperties, TextLines
  <2>3. Block(e) \in Seq(Line) /\ Len(Block(e)) = 3
    BY DEF Block, BeginOf, RuleOf, EndOf, Line
  <2>4. Block(e)[1] = BeginOf(e) /\ Block(e)[2] = RuleOf(e) /\ Block(e)[3] = EndOf(e)
    BY DEF Block
  <2>5. ASSUME text[i] = BeginOf(e), text[i + 1] = RuleOf(e), text[i + 2] = EndOf(e)
        PROVE  SubSeq(text, i, i + 2) = Block(e)
    <3>1. \A j \in 1 .. 3 : SubSeq(text, i, i + 2)[j] = Block(e)[j]
      BY <2>2, <2>4, <2>5
    <3>. QED
      BY <2>2, <2>3, <3>1, SeqEqual
  <2>. QED
    BY <2>2, <2>4, <2>5
<1>. QED
  BY <1>1 DEF HasWholeBlock, BlockAt

(* The first line that is the begin, or the end, of a whole block.         *)
LEMMA MarkersOfBlock ==
  ASSUME NEW text \in Text, NEW e \in Executions, NEW i, BlockAt(text, e, i)
  PROVE  IndexOf(text, BeginOf(e)) = i /\ IndexOf(text, EndOf(e)) = i + 2
<1>1. ASSUME NEW m \in 1 .. Len(text), NEW marker, text[m] = marker,
             \A j \in 1 .. Len(text) : text[j] = marker => j = m
      PROVE  IndexOf(text, marker) = m
  <2>. DEFINE I == {j \in 1 .. Len(text) : text[j] = marker}
  <2>1. I = {m}
    BY <1>1
  <2>2. IndexOf(text, marker) = IF I # {} THEN Min(I) ELSE 0
    BY DEF IndexOf, SelectInSeq
  <2>. HIDE DEF I
  <2>3. I # {} /\ I \subseteq Nat
    BY <2>1, TextLines
  <2>4. Min(I) \in I
    BY <2>3, MinOfNats
  <2>. QED
    BY <2>1, <2>2, <2>3, <2>4
<1>2. BeginOf(e) # EndOf(e) /\ BeginOf(e) # RuleOf(e) /\ RuleOf(e) # EndOf(e)
  BY DEF BeginOf, RuleOf, EndOf
<1>3. i \in 1 .. Len(text) - 2 /\ Len(text) \in Nat
  BY TextLines DEF BlockAt
<1>4. \A j \in 1 .. Len(text) : text[j] = BeginOf(e) => j = i
  BY <1>2, <1>3, Owners DEF BlockAt
<1>5. \A j \in 1 .. Len(text) : text[j] = EndOf(e) => j = i + 2
  BY <1>2, <1>3, Owners DEF BlockAt
<1>6. IndexOf(text, BeginOf(e)) = i
  BY <1>1, <1>3, <1>4 DEF BlockAt
<1>7. IndexOf(text, EndOf(e)) = i + 2
  BY <1>1, <1>3, <1>5 DEF BlockAt
<1>. QED
  BY <1>6, <1>7
-----------------------------------------------------------------------------
(* An edit adds no line of e, and what it leaves of a block is the block.  *)
Spares(old, new, e) ==
  HasLineOf(new, e) => /\ HasLineOf(old, e)
                       /\ HasWholeBlock(old, e) => HasWholeBlock(new, e)

(* The lines of e in old are d lines further down in new.                  *)
Moved(old, new, e, d) ==
  /\ \A j \in 1 .. Len(old) : OwnedBy(old[j], e) => j + d \in 1 .. Len(new) /\ new[j + d] = old[j]
  /\ \A j \in 1 .. Len(new) : OwnedBy(new[j], e) => j - d \in 1 .. Len(old) /\ new[j] = old[j - d]

LEMMA MovedIsSpared ==
  ASSUME NEW old \in Text, NEW new \in Text, NEW e \in Executions,
         NEW d \in Int, Moved(old, new, e, d)
  PROVE  Spares(old, new, e)
<1>1. HasLineOf(new, e) => HasLineOf(old, e)
  BY TextLines DEF Moved
<1>2. ASSUME NEW i \in 1 .. Len(old) - 2, BlockAt(old, e, i)
      PROVE  i + d \in 1 .. Len(new) - 2 /\ BlockAt(new, e, i + d)
  <2>1. /\ old[i] = BeginOf(e) /\ old[i + 1] = RuleOf(e) /\ old[i + 2] = EndOf(e)
        /\ Len(old) \in Nat /\ Len(new) \in Nat
        /\ i \in 1 .. Len(old) /\ i + 1 \in 1 .. Len(old) /\ i + 2 \in 1 .. Len(old)
    BY <1>2, TextLines DEF BlockAt
  <2>2. OwnedBy(old[i], e) /\ OwnedBy(old[i + 1], e) /\ OwnedBy(old[i + 2], e)
    BY <2>1, Owners
  <2>3. /\ i + d \in 1 .. Len(new) /\ new[i + d] = old[i]
        /\ i + 1 + d \in 1 .. Len(new) /\ new[i + 1 + d] = old[i + 1]
        /\ i + 2 + d \in 1 .. Len(new) /\ new[i + 2 + d] = old[i + 2]
    BY <2>1, <2>2 DEF Moved
  <2>4. i + 1 + d = i + d + 1 /\ i + 2 + d = i + d + 2 /\ i + d \in 1 .. Len(new) - 2
    BY <2>1, <2>3
  <2>5. ASSUME NEW j \in 1 .. Len(new), OwnedBy(new[j], e)
        PROVE  j \in i + d .. i + d + 2
    <3>1. j - d \in 1 .. Len(old) /\ OwnedBy(old[j - d], e)
      BY <2>5 DEF Moved
    <3>2. j - d \in i .. i + 2
      BY <1>2, <3>1 DEF BlockAt
    <3>. QED
      BY <2>1, <3>2
  <2>. QED
    BY <2>1, <2>3, <2>4, <2>5 DEF BlockAt
<1>. QED
  BY <1>1, <1>2, WholeBlockAt DEF Spares

(* What is left of a text when the lines from s up to m are cut out.       *)
CutOut(text, s, m) == SubSeq(text, 1, s - 1) \o SubSeq(text, m, Len(text))

LEMMA CutOutLines ==
  ASSUME NEW text \in Text, NEW s \in 1 .. Len(text) + 1, NEW m \in s .. Len(text) + 1
  PROVE  /\ CutOut(text, s, m) \in Text
         /\ Len(CutOut(text, s, m)) = Len(text) - (m - s)
         /\ \A j \in 1 .. Len(text) - (m - s) :
              CutOut(text, s, m)[j] = text[IF j < s THEN j ELSE j + (m - s)]
<1>1. Len(text) \in Nat /\ \A j \in 1 .. Len(text) : text[j] \in Line
  BY TextLines
<1>2. /\ SubSeq(text, 1, s - 1) \in Seq(Line)
      /\ Len(SubSeq(text, 1, s - 1)) = s - 1
      /\ \A j \in 1 .. s - 1 : SubSeq(text, 1, s - 1)[j] = text[j]
  BY <1>1, SubSeqProperties
<1>3. /\ SubSeq(text, m, Len(text)) \in Seq(Line)
      /\ Len(SubSeq(text, m, Len(text))) = Len(text) - m + 1
      /\ \A j \in 1 .. Len(text) - m + 1 : SubSeq(text, m, Len(text))[j] = text[m + j - 1]
  BY <1>1, SubSeqProperties
<1>4. /\ CutOut(text, s, m) \in Seq(Line)
      /\ Len(CutOut(text, s, m)) = (s - 1) + (Len(text) - m + 1)
      /\ \A j \in 1 .. (s - 1) + (Len(text) - m + 1) : CutOut(text, s, m)[j] =
           IF j <= s - 1 THEN SubSeq(text, 1, s - 1)[j] ELSE SubSeq(text, m, Len(text))[j - (s - 1)]
  <2>. DEFINE a == SubSeq(text, 1, s - 1)
              b == SubSeq(text, m, Len(text))
  <2>1. a \in Seq(Line) /\ b \in Seq(Line) /\ CutOut(text, s, m) = a \o b
    BY <1>2, <1>3 DEF CutOut
  <2>2. Len(a) = s - 1 /\ Len(b) = Len(text) - m + 1
    BY <1>2, <1>3
  <2>. HIDE DEF a, b
  <2>3. /\ a \o b \in Seq(Line) /\ Len(a \o b) = Len(a) + Len(b)
        /\ \A j \in 1 .. Len(a) + Len(b) :
             (a \o b)[j] = IF j <= Len(a) THEN a[j] ELSE b[j - Len(a)]
    BY <2>1, ConcatProperties
  <2>. QED
    BY <2>1, <2>2, <2>3 DEF a, b
<1>5. ASSUME NEW j \in 1 .. Len(text) - (m - s)
      PROVE  CutOut(text, s, m)[j] = text[IF j < s THEN j ELSE j + (m - s)]
  <2>0. CutOut(text, s, m)[j] =
           IF j <= s - 1 THEN SubSeq(text, 1, s - 1)[j] ELSE SubSeq(text, m, Len(text))[j - (s - 1)]
    BY <1>1, <1>4
  <2>1. CASE j < s
    BY <1>1, <1>2, <2>0, <2>1
  <2>2. CASE ~(j < s)
    <3>1. j - (s - 1) \in 1 .. Len(text) - m + 1
      BY <1>1, <2>2
    <3>2. CutOut(text, s, m)[j] = text[m + (j - (s - 1)) - 1]
      BY <1>1, <1>3, <2>0, <2>2, <3>1
    <3>3. m + (j - (s - 1)) - 1 = j + (m - s)
      BY <1>1
    <3>. QED
      BY <2>2, <3>2, <3>3
  <2>. QED
    BY <2>1, <2>2
<1>. QED
  BY <1>1, <1>4, <1>5 DEF Text

(* Cutting out lines that are not e's spares e, and e has no line left     *)
(* when they are all cut out.                                              *)
LEMMA CutOutOthers ==
  ASSUME NEW text \in Text, NEW s \in 1 .. Len(text) + 1, NEW m \in s .. Len(text) + 1,
         NEW e \in Executions, \A j \in s .. m - 1 : ~OwnedBy(text[j], e)
  PROVE  Spares(text, CutOut(text, s, m), e)
<1>. DEFINE new == CutOut(text, s, m)
<1>1. /\ new \in Text /\ Len(new) = Len(text) - (m - s) /\ Len(text) \in Nat
      /\ \A j \in 1 .. Len(text) - (m - s) : new[j] = text[IF j < s THEN j ELSE j + (m - s)]
  BY CutOutLines, TextLines
<1>. HIDE DEF new
<1>2. HasLineOf(new, e) => HasLineOf(text, e)
  <2>. SUFFICES ASSUME NEW j \in 1 .. Len(new), OwnedBy(new[j], e)
                PROVE  \E i \in 1 .. Len(text) : OwnedBy(text[i], e)
    BY <1>1, TextLines
  <2>1. (IF j < s THEN j ELSE j + (m - s)) \in 1 .. Len(text)
    BY <1>1
  <2>2. OwnedBy(text[IF j < s THEN j ELSE j + (m - s)], e)
    BY <1>1
  <2>. QED
    BY <2>1, <2>2
<1>3. ASSUME NEW i \in 1 .. Len(text) - 2, BlockAt(text, e, i)
      PROVE  HasLineOf(new, e) => HasWholeBlock(new, e)
  <2>1. /\ \A j \in 1 .. Len(text) : OwnedBy(text[j], e) => j \in i .. i + 2
        /\ OwnedBy(text[i], e) /\ OwnedBy(text[i + 1], e) /\ OwnedBy(text[i + 2], e)
    BY <1>3, Owners DEF BlockAt
  <2>2. i \notin s .. m - 1 /\ i + 1 \notin s .. m - 1 /\ i + 2 \notin s .. m - 1
    BY <2>1
  <2>3. CASE m <= i
    <3>1. \A j \in 1 .. Len(text) : OwnedBy(text[j], e) =>
             j - (m - s) \in 1 .. Len(new) /\ new[j - (m - s)] = text[j]
      BY <1>1, <2>1, <2>3
    <3>2. ASSUME NEW j \in 1 .. Len(new), OwnedBy(new[j], e)
          PROVE  j + (m - s) \in 1 .. Len(text) /\ new[j] = text[j + (m - s)]
      <4>1. new[j] = text[IF j < s THEN j ELSE j + (m - s)]
        BY <1>1
      <4>2. ~(j < s)
        BY <1>1, <2>1, <2>3, <3>2, <4>1
      <4>. QED
        BY <1>1, <4>1, <4>2
    <3>3. Moved(text, new, e, -(m - s))
      <4>1. \A j \in Int : j + (-(m - s)) = j - (m - s) /\ j - (-(m - s)) = j + (m - s)
        OBVIOUS
      <4>. QED
        BY <1>1, <3>1, <3>2, <4>1 DEF Moved
    <3>4. -(m - s) \in Int
      OBVIOUS
    <3>. QED
      BY <1>1, <1>3, <3>3, <3>4, MovedIsSpared, WholeBlockAt DEF Spares
  <2>4. CASE i + 2 < s \/ m = s
    <3>1. \A j \in 1 .. Len(text) : OwnedBy(text[j], e) =>
             j + 0 \in 1 .. Len(new) /\ new[j + 0] = text[j]
      BY <1>1, <2>1, <2>4
    <3>2. ASSUME NEW j \in 1 .. Len(new), OwnedBy(new[j], e)
          PROVE  j - 0 \in 1 .. Len(text) /\ new[j] = text[j - 0]
      <4>1. new[j] = text[IF j < s THEN j ELSE j + (m - s)]
        BY <1>1
      <4>2. j < s \/ m = s
        <5> SUFFICES ASSUME ~(j < s), m # s PROVE FALSE
          OBVIOUS
        <5>1. j + (m - s) \in 1 .. Len(text) /\ OwnedBy(text[j + (m - s)], e)
          BY <1>1, <3>2, <4>1
        <5>. QED
          BY <1>1, <2>1, <2>4, <5>1
      <4>. QED
        BY <1>1, <4>1, <4>2
    <3>3. Moved(text, new, e, 0)
      BY <3>1, <3>2 DEF Moved
    <3>. QED
      BY <1>1, <1>3, <3>3, MovedIsSpared, WholeBlockAt DEF Spares
  <2>. QED
    BY <1>1, <2>2, <2>3, <2>4
<1>. QED
  BY <1>2, <1>3, WholeBlockAt DEF Spares, new

(* The longest cut: m runs past the empty lines.                           *)
LEMMA SkipNewlinesLines ==
  ASSUME NEW text \in Text, NEW i \in 1 .. Len(text) + 1
  PROVE  \E m \in i .. Len(text) + 1 :
           /\ SkipNewlines(text, i) = SubSeq(text, m, Len(text))
           /\ \A j \in i .. m - 1 : text[j] = Blank
           /\ m <= Len(text) => text[m] # Blank
<1>. DEFINE I == {j \in i .. Len(text) : text[j] # Blank}
            first == IF I # {} THEN Min(I) ELSE 0
<1>1. Len(text) \in Nat
  BY TextLines
<1>2. I \subseteq Nat
  BY <1>1
<1>3. SkipNewlines(text, i) = IF first = 0 THEN << >> ELSE SubSeq(text, first, Len(text))
  BY DEF SkipNewlines, SelectInSubSeq
<1>4. CASE I = {}
  <2>1. SkipNewlines(text, i) = << >>
    BY <1>3, <1>4
  <2>2. SubSeq(text, Len(text) + 1, Len(text)) = << >>
    BY <1>1, SubSeqEmpty
  <2>3. \A j \in i .. Len(text) + 1 - 1 : text[j] = Blank
    BY <1>1, <1>4
  <2>4. Len(text) + 1 \in i .. Len(text) + 1 /\ ~(Len(text) + 1 <= Len(text))
    BY <1>1
  <2>. QED
    BY <2>1, <2>2, <2>3, <2>4
<1>5. CASE I # {}
  <2>. DEFINE m == Min(I)
  <2>1. m \in I /\ \A j \in I : m <= j
    BY <1>2, <1>5, MinOfNats
  <2>. HIDE DEF m
  <2>2. m \in i .. Len(text) /\ m # 0
    BY <1>1, <2>1
  <2>3. SkipNewlines(text, i) = SubSeq(text, m, Len(text))
    BY <1>3, <1>5, <2>2 DEF m
  <2>4. (\A j \in i .. m - 1 : text[j] = Blank) /\ text[m] # Blank
    BY <1>1, <2>1, <2>2
  <2>. QED
    BY <1>1, <2>2, <2>3, <2>4
<1>. QED
  BY <1>4, <1>5
-----------------------------------------------------------------------------
(* The lines of a text with a new block on top.                            *)
LEMMA PrependBlockLines ==
  ASSUME NEW text \in Text, NEW e \in Executions
  PROVE  LET new == PrependBlock(text, e)
             d   == IF text = << >> THEN 3 ELSE 4
         IN  /\ new \in Text /\ Len(new) = Len(text) + d /\ Len(text) \in Nat
             /\ new[1] = BeginOf(e) /\ new[2] = RuleOf(e) /\ new[3] = EndOf(e)
             /\ d = 4 => new[4] = Blank
             /\ \A j \in d + 1 .. Len(new) : new[j] = text[j - d]
<1>. DEFINE new == PrependBlock(text, e)
            d   == IF text = << >> THEN 3 ELSE 4
<1>1. /\ new \in Text /\ Len(new) = Len(text) + d /\ Len(text) \in Nat
      /\ new[1] = BeginOf(e) /\ new[2] = RuleOf(e) /\ new[3] = EndOf(e)
      /\ d = 4 => new[4] = Blank
      /\ \A j \in d + 1 .. Len(new) : new[j] = text[j - d]
  <2>1. Block(e) \in Seq(Line) /\ << Blank >> \in Seq(Line) /\ text \in Seq(Line)
    BY DEF Block, BeginOf, RuleOf, EndOf, Blank, Line, Text
  <2>2. /\ Len(Block(e)) = 3 /\ Block(e)[1] = BeginOf(e)
        /\ Block(e)[2] = RuleOf(e) /\ Block(e)[3] = EndOf(e)
    BY DEF Block
  <2>3. CASE text = << >>
    <3>1. new = Block(e) /\ Len(text) = 0 /\ d = 3
      BY <2>3 DEF PrependBlock
    <3>. HIDE DEF new, d
    <3>2. Len(new) = 3 /\ new \in Seq(Line)
      BY <2>1, <2>2, <3>1
    <3>3. \A j \in d + 1 .. Len(new) : FALSE
      BY <3>1, <3>2
    <3>. QED
      BY <2>2, <3>1, <3>2, <3>3 DEF Text
  <2>4. CASE text # << >>
    <3>. DEFINE block == Block(e)
                sep   == << Blank >>
                top   == block \o sep
    <3>0. new = top \o text /\ d = 4
      BY <2>1, <2>4, ConcatAssociative DEF PrependBlock
    <3>1. /\ block \in Seq(Line) /\ Len(block) = 3 /\ sep \in Seq(Line) /\ Len(sep) = 1
          /\ block[1] = BeginOf(e) /\ block[2] = RuleOf(e) /\ block[3] = EndOf(e)
          /\ sep[1] = Blank
      BY <2>1, <2>2
    <3>. HIDE DEF block, sep, new, d
    <3>2. /\ top \in Seq(Line) /\ Len(top) = Len(block) + Len(sep)
          /\ \A j \in 1 .. Len(block) + Len(sep) :
               top[j] = IF j <= Len(block) THEN block[j] ELSE sep[j - Len(block)]
      BY <3>1, ConcatProperties
    <3>3. /\ Len(top) = 4
          /\ top[1] = BeginOf(e) /\ top[2] = RuleOf(e) /\ top[3] = EndOf(e) /\ top[4] = Blank
      BY <3>1, <3>2
    <3>. HIDE DEF top
    <3>4. /\ new \in Seq(Line) /\ Len(new) = Len(top) + Len(text)
          /\ \A j \in 1 .. Len(top) + Len(text) :
               new[j] = IF j <= Len(top) THEN top[j] ELSE text[j - Len(top)]
      <4>1. /\ top \o text \in Seq(Line) /\ Len(top \o text) = Len(top) + Len(text)
            /\ \A j \in 1 .. Len(top) + Len(text) :
                 (top \o text)[j] = IF j <= Len(top) THEN top[j] ELSE text[j - Len(top)]
        <5>1. top \in Seq(Line) /\ text \in Seq(Line)
          BY <2>1, <3>2
        <5>. QED
          BY <5>1, ConcatProperties
      <4>. QED
        BY <3>0, <4>1
    <3>. QED
      BY <3>0, <3>3, <3>4, TextLines DEF Text
  <2>. QED
    BY <2>3, <2>4
<1>. QED
  BY <1>1

(* A new block is whole, and it spares the blocks of the others.           *)
LEMMA PrependBlockKeeps ==
  ASSUME NEW text \in Text, NEW e \in Executions
  PROVE  /\ ~HasLineOf(text, e) => HasWholeBlock(PrependBlock(text, e), e)
         /\ \A f \in Executions \ {e} : Spares(text, PrependBlock(text, e), f)
<1>. DEFINE new == PrependBlock(text, e)
            d   == IF text = << >> THEN 3 ELSE 4
<1>1. /\ new \in Text /\ Len(new) = Len(text) + d /\ Len(text) \in Nat
      /\ new[1] = BeginOf(e) /\ new[2] = RuleOf(e) /\ new[3] = EndOf(e)
      /\ d = 4 => new[4] = Blank
      /\ \A j \in d + 1 .. Len(new) : new[j] = text[j - d]
  BY PrependBlockLines
<1>. HIDE DEF new
<1>2. d \in {3, 4}
  OBVIOUS
<1>. HIDE DEF d
<1>3. ASSUME ~HasLineOf(text, e)
      PROVE  HasWholeBlock(new, e)
  <2>1. \A j \in 1 .. Len(text) : ~OwnedBy(text[j], e)
    BY <1>3, TextLines
  <2>2. ASSUME NEW j \in 1 .. Len(new), OwnedBy(new[j], e)
        PROVE  j \in 1 .. 1 + 2
    <3>1. CASE j \in d + 1 .. Len(new)
      <4>1. j - d \in 1 .. Len(text) /\ new[j] = text[j - d]
        BY <1>1, <1>2, <3>1
      <4>. QED
        BY <2>1, <2>2, <4>1
    <3>2. CASE j = 4 /\ d = 4
      BY <1>1, <2>2, <3>2, Owners
    <3>. QED
      BY <1>1, <1>2, <3>1, <3>2
  <2>3. 1 \in 1 .. Len(new) - 2
    BY <1>1, <1>2
  <2>4. BlockAt(new, e, 1)
    BY <1>1, <2>2, <2>3 DEF BlockAt
  <2>. QED
    BY <1>1, <2>3, <2>4, WholeBlockAt
<1>4. ASSUME NEW f \in Executions \ {e}
      PROVE  Spares(text, new, f)
  <2>1. \A j \in 1 .. Len(text) : OwnedBy(text[j], f) => j + d \in 1 .. Len(new) /\ new[j + d] = text[j]
    <3>. SUFFICES ASSUME NEW j \in 1 .. Len(text)
                  PROVE  j + d \in 1 .. Len(new) /\ new[j + d] = text[j]
      OBVIOUS
    <3>1. j + d \in d + 1 .. Len(new) /\ (j + d) - d = j /\ j + d \in 1 .. Len(new)
      BY <1>1, <1>2
    <3>2. new[j + d] = text[(j + d) - d]
      BY <1>1, <3>1
    <3>. QED
      BY <3>1, <3>2
  <2>2. ASSUME NEW j \in 1 .. Len(new), OwnedBy(new[j], f)
        PROVE  j - d \in 1 .. Len(text) /\ new[j] = text[j - d]
    <3>1. ~(j \in 1 .. 3) /\ ~(j = 4 /\ d = 4)
      <4>1. /\ ~OwnedBy(BeginOf(e), f) /\ ~OwnedBy(RuleOf(e), f)
            /\ ~OwnedBy(EndOf(e), f) /\ ~OwnedBy(Blank, f)
        BY Owners
      <4>. QED
        BY <1>1, <2>2, <4>1
    <3>2. j \in d + 1 .. Len(new)
      BY <1>1, <1>2, <3>1
    <3>. QED
      BY <1>1, <1>2, <3>2
  <2>3. Moved(text, new, f, d)
    BY <2>1, <2>2 DEF Moved
  <2>. QED
    BY <1>1, <1>2, <2>3, MovedIsSpared
<1>. QED
  BY <1>3, <1>4 DEF new

(* The removal of a block that is whole is a cut.                          *)
LEMMA RemovalIsCut ==
  ASSUME NEW text \in Text, NEW e \in Executions,
         NEW i \in 1 .. Len(text) - 2, BlockAt(text, e, i)
  PROVE  \E m \in i + 3 .. Len(text) + 1 :
           /\ RemoveAnnotationBlock(text, e) = CutOut(text, i, m)
           /\ \A j \in i + 3 .. m - 1 : text[j] = Blank
<1>1. IndexOf(text, BeginOf(e)) = i /\ IndexOf(text, EndOf(e)) = i + 2
  BY MarkersOfBlock
<1>2. Len(text) \in Nat /\ i + 3 \in 1 .. Len(text) + 1
  BY TextLines
<1>3. PICK m \in i + 3 .. Len(text) + 1 :
        /\ SkipNewlines(text, i + 3) = SubSeq(text, m, Len(text))
        /\ \A j \in i + 3 .. m - 1 : text[j] = Blank
  BY <1>2, SkipNewlinesLines
<1>4. i # 0 /\ i + 2 # 0 /\ (i + 2) + 1 = i + 3
  OBVIOUS
<1>. QED
  BY <1>1, <1>3, <1>4 DEF RemoveAnnotationBlock, CutOut

(* Where e has no line there is nothing to remove.                         *)
LEMMA RemovalOfNothing ==
  ASSUME NEW text \in Text, NEW e \in Executions, ~HasLineOf(text, e)
  PROVE  RemoveAnnotationBlock(text, e) = text
<1>1. \A j \in 1 .. Len(text) : text[j] # BeginOf(e)
  BY Owners, TextLines
<1>2. IndexOf(text, BeginOf(e)) = 0
  BY <1>1 DEF IndexOf, SelectInSeq
<1>. QED
  BY <1>2 DEF RemoveAnnotationBlock

(* The removal takes the block of e, all of it, and nothing of the others. *)
LEMMA RemoveAnnotationBlockKeeps ==
  ASSUME NEW text \in Text, NEW e \in Executions,
         HasLineOf(text, e) => HasWholeBlock(text, e)
  PROVE  /\ ~HasLineOf(RemoveAnnotationBlock(text, e), e)
         /\ \A f \in Executions \ {e} : Spares(text, RemoveAnnotationBlock(text, e), f)
<1>1. CASE HasLineOf(text, e)
  <2>1. PICK i \in 1 .. Len(text) - 2 : BlockAt(text, e, i)
    BY <1>1, WholeBlockAt
  <2>3. Len(text) \in Nat
    BY TextLines
  <2>4. PICK m \in i + 3 .. Len(text) + 1 :
          /\ RemoveAnnotationBlock(text, e) = CutOut(text, i, m)
          /\ \A j \in i + 3 .. m - 1 : text[j] = Blank
    BY <2>1, RemovalIsCut
  <2>5. RemoveAnnotationBlock(text, e) = CutOut(text, i, m)
    BY <2>4
  <2>6. i \in 1 .. Len(text) + 1 /\ m \in i .. Len(text) + 1
    BY <2>3
  <2>7. ASSUME NEW f \in Executions \ {e}
        PROVE  Spares(text, RemoveAnnotationBlock(text, e), f)
    <3>1. \A j \in i .. m - 1 : ~OwnedBy(text[j], f)
      <4>1. /\ ~OwnedBy(BeginOf(e), f) /\ ~OwnedBy(RuleOf(e), f)
            /\ ~OwnedBy(EndOf(e), f) /\ ~OwnedBy(Blank, f)
        BY Owners
      <4>2. \A j \in i .. m - 1 : j = i \/ j = i + 1 \/ j = i + 2 \/ j \in i + 3 .. m - 1
        BY <2>3
      <4>. QED
        BY <2>1, <2>4, <4>1, <4>2 DEF BlockAt
    <3>. QED
      BY <2>5, <2>6, <3>1, CutOutOthers
  <2>8. ~HasLineOf(RemoveAnnotationBlock(text, e), e)
    <3>. DEFINE new == CutOut(text, i, m)
    <3>1. /\ new \in Text /\ Len(new) = Len(text) - (m - i)
          /\ \A j \in 1 .. Len(text) - (m - i) :
               new[j] = text[IF j < i THEN j ELSE j + (m - i)]
      BY <2>6, CutOutLines
    <3>. HIDE DEF new
    <3>2. \A j \in 1 .. Len(text) : OwnedBy(text[j], e) => j \in i .. i + 2
      BY <2>1 DEF BlockAt
    <3>3. ASSUME NEW j \in 1 .. Len(new), OwnedBy(new[j], e)
          PROVE  FALSE
      <4>. DEFINE k == IF j < i THEN j ELSE j + (m - i)
      <4>1. k \in 1 .. Len(text) /\ ~(k \in i .. i + 2) /\ new[j] = text[k]
        BY <2>3, <3>1
      <4>. HIDE DEF k
      <4>. QED
        BY <3>2, <3>3, <4>1
    <3>. QED
      BY <2>5, <3>1, <3>3, TextLines DEF new
  <2>. QED
    BY <2>7, <2>8
<1>2. CASE ~HasLineOf(text, e)
  <2>3. RemoveAnnotationBlock(text, e) = text
    BY <1>2, RemovalOfNothing
  <2>. QED
    BY <1>2, <2>3 DEF Spares
<1>. QED
  BY <1>1, <1>2

(* A line that is not the execution's, put on top, at the bottom or taken  *)
(* out, leaves its block as it is.                                         *)
LEMMA LineOnTopKeeps ==
  ASSUME NEW text \in Text, NEW line \in Line, NEW e \in Executions, ~OwnedBy(line, e)
  PROVE  Spares(text, << line >> \o text, e)
<1>. DEFINE new == << line >> \o text
<1>1. << line >> \in Seq(Line) /\ text \in Seq(Line) /\ Len(<< line >>) = 1
  BY DEF Text
<1>2. /\ new \in Seq(Line) /\ Len(new) = 1 + Len(text)
      /\ \A j \in 1 .. 1 + Len(text) : new[j] = IF j <= 1 THEN << line >>[j] ELSE text[j - 1]
  BY <1>1, ConcatProperties
<1>. HIDE DEF new
<1>3. new \in Text /\ ~OwnedBy(new[1], e)
  BY <1>2, TextLines DEF Text
<1>4. Moved(text, new, e, 1)
  BY <1>2, <1>3, TextLines DEF Moved
<1>5. Spares(text, new, e)
  BY <1>3, <1>4, MovedIsSpared
<1>. QED
  BY <1>5 DEF new

LEMMA LineAtBottomKeeps ==
  ASSUME NEW text \in Text, NEW line \in Line, NEW e \in Executions, ~OwnedBy(line, e)
  PROVE  Spares(text, Append(text, line), e)
<1>. DEFINE new == Append(text, line)
<1>1. /\ new \in Seq(Line) /\ Len(new) = Len(text) + 1 /\ new[Len(text) + 1] = line
      /\ \A j \in 1 .. Len(text) : new[j] = text[j]
  BY AppendProperties DEF Text
<1>. HIDE DEF new
<1>2. new \in Text /\ Moved(text, new, e, 0)
  BY <1>1, TextLines DEF Moved, Text
<1>3. Spares(text, new, e)
  BY <1>2, MovedIsSpared
<1>. QED
  BY <1>3 DEF new

LEMMA LineTakenOutKeeps ==
  ASSUME NEW text \in Text, NEW i \in 1 .. Len(text), NEW e \in Executions,
         ~OwnedBy(text[i], e)
  PROVE  Spares(text, RemoveAt(text, i), e)
<1>1. RemoveAt(text, i) = CutOut(text, i, i + 1)
  BY DEF RemoveAt, CutOut
<1>2. i \in 1 .. Len(text) + 1 /\ i + 1 \in i .. Len(text) + 1
  BY TextLines
<1>3. \A j \in i .. (i + 1) - 1 : ~OwnedBy(text[j], e)
  OBVIOUS
<1>. QED
  BY <1>1, <1>2, <1>3, CutOutOthers

(* Whoever else edits the text touches no block, or takes them all.        *)
LEMMA UserEditsKeep ==
  ASSUME NEW text \in Text, NEW new \in UserEdits(text), NEW e \in Executions
  PROVE  Spares(text, new, e)
<1>0. \A u \in UserTexts : UserLine(u) \in Line /\ ~OwnedBy(UserLine(u), e)
  BY Owners DEF UserLine, Line
<1>1. CASE \E u \in UserTexts : new = << UserLine(u) >> \o text
  BY <1>0, <1>1, LineOnTopKeeps
<1>2. CASE \E u \in UserTexts : new = Append(text, UserLine(u))
  BY <1>0, <1>2, LineAtBottomKeeps
<1>3. CASE \E i \in 1 .. Len(text) : text[i].kind = "user" /\ new = RemoveAt(text, i)
  <2>1. PICK i \in 1 .. Len(text) : text[i].kind = "user" /\ new = RemoveAt(text, i)
    BY <1>3
  <2>2. ~OwnedBy(text[i], e)
    BY <2>1, UsersOwn, TextLines
  <2>. QED
    BY <2>1, <2>2, LineTakenOutKeeps
<1>4. CASE new = << >> \/ \E u \in UserTexts : new = << UserLine(u) >>
  BY <1>4, Owners DEF Spares, HasLineOf, ToSet
<1>. QED
  BY <1>1, <1>2, <1>3, <1>4 DEF UserEdits
-----------------------------------------------------------------------------
(* Lines in their order                                                    *)

(* Two texts whose owned lines match one to one, in order, have the same.  *)
LEMMA MatchedLines ==
  ASSUME NEW old \in Text, NEW new \in Text, NEW owners,
         NEW move \in [Places(old, owners) -> Places(new, owners)],
         \A j \in Places(new, owners) : \E i \in Places(old, owners) : move[i] = j,
         \A i, j \in Places(old, owners) : i < j => move[i] < move[j],
         \A i \in Places(old, owners) : new[move[i]] = old[i]
  PROVE  LinesOf(new, owners) = LinesOf(old, owners)
<1>. DEFINE P == Places(old, owners)
            Q == Places(new, owners)
            RankP(i) == Cardinality({j \in P : j <= i})
            RankQ(i) == Cardinality({j \in Q : j <= i})
<1>0. /\ P \subseteq 1 .. Len(old) /\ Q \subseteq 1 .. Len(new)
      /\ Len(old) \in Nat /\ Len(new) \in Nat /\ P \subseteq Int /\ Q \subseteq Int
  BY TextLines DEF Places
<1>1. ASSUME NEW i \in P
      PROVE  RankQ(move[i]) = RankP(i)
  <2>. DEFINE A == {j \in P : j <= i}
              B == {j \in Q : j <= move[i]}
              f == [j \in A |-> move[j]]
  <2>1. IsFiniteSet(A)
    <3>1. A \subseteq 1 .. Len(old) /\ IsFiniteSet(1 .. Len(old))
      BY <1>0, FS_Interval
    <3>. QED
      BY <3>1, FS_Subset
  <2>2. \A j, k \in P : j < k => move[j] < move[k]
    OBVIOUS
  <2>3. \A j \in P : move[j] \in Q /\ move[j] \in Int
    BY <1>0
  <2>. HIDE DEF P, Q
  <2>4. \A j \in P : j <= i <=> move[j] <= move[i]
    <3>. SUFFICES ASSUME NEW j \in P
                  PROVE  j <= i <=> move[j] <= move[i]
      OBVIOUS
    <3>1. j \in Int /\ i \in Int /\ move[j] \in Int /\ move[i] \in Int
      BY <1>0, <2>3
    <3>2. CASE j < i
      BY <2>2, <3>1, <3>2
    <3>3. CASE i < j
      <4>1. move[i] < move[j]
        BY <2>2, <3>3
      <4>. QED
        BY <3>1, <3>3, <4>1
    <3>4. CASE i = j
      BY <3>1, <3>4
    <3>. QED
      BY <3>1, <3>2, <3>3, <3>4
  <2>5. f \in [A -> B]
    BY <2>3, <2>4
  <2>6. \A j, k \in A : f[j] = f[k] => j = k
    <3>. SUFFICES ASSUME NEW j \in A, NEW k \in A, f[j] = f[k]
                  PROVE  j = k
      OBVIOUS
    <3>1. j \in Int /\ k \in Int /\ move[j] \in Int /\ move[j] = move[k] /\ move[k] \in Int
      BY <1>0, <2>3
    <3>2. ~(j < k)
      <4>1. j < k => move[j] < move[k]
        BY <2>2
      <4>. QED
        BY <3>1, <4>1
    <3>3. ~(k < j)
      <4>1. k < j => move[k] < move[j]
        BY <2>2
      <4>. QED
        BY <3>1, <4>1
    <3>. QED
      BY <3>1, <3>2, <3>3
  <2>7. \A t \in B : \E j \in A : f[j] = t
    <3>. SUFFICES ASSUME NEW t \in B
                  PROVE  \E j \in A : f[j] = t
      OBVIOUS
    <3>1. PICK j \in P : move[j] = t
      BY DEF P, Q
    <3>2. j \in A
      BY <2>4, <3>1
    <3>. QED
      BY <3>1, <3>2
  <2>8. f \in Bijection(A, B)
    BY <2>5, <2>6, <2>7 DEF Bijection, Injection, IsInjective, Surjection
  <2>9. ExistsBijection(A, B)
    BY <2>8 DEF ExistsBijection
  <2>. HIDE DEF A, B
  <2>10. Cardinality(B) = Cardinality(A)
    BY <2>1, <2>9, FS_Bijection
  <2>. QED
    BY <2>10 DEF A, B
<1>2. LinesOf(old, owners) = {<< RankP(i), old[i] >> : i \in P}
  BY DEF LinesOf
<1>3. LinesOf(new, owners) = {<< RankQ(j), new[j] >> : j \in Q}
  BY DEF LinesOf
<1>4. \A j \in Q : \E i \in P : j = move[i]
  OBVIOUS
<1>5. \A i \in P : move[i] \in Q /\ new[move[i]] = old[i]
  OBVIOUS
<1>. HIDE DEF P, Q, RankP, RankQ
<1>6. {<< RankQ(j), new[j] >> : j \in Q} = {<< RankP(i), old[i] >> : i \in P}
  BY <1>1, <1>4, <1>5
<1>. QED
  BY <1>2, <1>3, <1>6

(* Cutting out what the owners do not own keeps their lines.               *)
LEMMA CutOutLinesOf ==
  ASSUME NEW text \in Text, NEW s \in 1 .. Len(text) + 1, NEW m \in s .. Len(text) + 1,
         NEW owners, \A j \in s .. m - 1, o \in owners : ~OwnedBy(text[j], o)
  PROVE  LinesOf(CutOut(text, s, m), owners) = LinesOf(text, owners)
<1>. DEFINE new == CutOut(text, s, m)
<1>1. /\ new \in Text /\ Len(new) = Len(text) - (m - s) /\ Len(text) \in Nat
      /\ \A j \in 1 .. Len(text) - (m - s) : new[j] = text[IF j < s THEN j ELSE j + (m - s)]
  <2>1. Len(text) \in Nat
    BY TextLines
  <2>2. /\ CutOut(text, s, m) \in Text
        /\ Len(CutOut(text, s, m)) = Len(text) - (m - s)
        /\ \A j \in 1 .. Len(text) - (m - s) :
             CutOut(text, s, m)[j] = text[IF j < s THEN j ELSE j + (m - s)]
    BY CutOutLines
  <2>. QED
    BY <2>1, <2>2
<1>. DEFINE P    == Places(text, owners)
            Q    == Places(new, owners)
            move == [i \in P |-> IF i < s THEN i ELSE i - (m - s)]
<1>2. P = {i \in 1 .. Len(text) : \E o \in owners : OwnedBy(text[i], o)}
  BY DEF Places
<1>3. Q = {i \in 1 .. Len(new) : \E o \in owners : OwnedBy(new[i], o)}
  BY DEF Places
<1>. HIDE DEF new, P, Q
<1>4. \A i \in P : i \in 1 .. Len(text) /\ (i < s \/ i >= m)
  BY <1>1, <1>2
<1>5. ASSUME NEW i \in P
      PROVE  move[i] \in Q /\ new[move[i]] = text[i]
  <2>1. move[i] \in 1 .. Len(new)
    BY <1>1, <1>4
  <2>2. new[move[i]] = text[i]
    <3>1. CASE i < s
      BY <1>1, <1>4, <2>1, <3>1
    <3>2. CASE ~(i < s)
      <4>1. move[i] = i - (m - s) /\ ~(move[i] < s) /\ move[i] + (m - s) = i
        BY <1>1, <1>4, <3>2
      <4>. HIDE DEF move
      <4>2. new[move[i]] = text[move[i] + (m - s)]
        BY <1>1, <2>1, <4>1
      <4>. QED
        BY <4>1, <4>2
    <3>. QED
      BY <3>1, <3>2
  <2>. QED
    BY <1>2, <1>3, <2>1, <2>2
<1>6. ASSUME NEW j \in Q
      PROVE  \E i \in P : move[i] = j
  <2>. DEFINE i == IF j < s THEN j ELSE j + (m - s)
  <2>1. i \in 1 .. Len(text) /\ new[j] = text[i] /\ j \in Int
    BY <1>1, <1>3
  <2>2. i \in P
    BY <1>2, <1>3, <2>1
  <2>3. (IF i < s THEN i ELSE i - (m - s)) = j
    BY <2>1
  <2>. QED
    BY <2>2, <2>3
<1>7. \A i, j \in P : i < j => move[i] < move[j]
  BY <1>1, <1>4
<1>8. move \in [P -> Q]
  BY <1>5
<1>. HIDE DEF move
<1>. QED
  BY <1>1, <1>5, <1>6, <1>7, <1>8, MatchedLines DEF new, P, Q

(* A block with the empty line after it belongs to its execution alone.    *)
LEMMA BlockOwners ==
  ASSUME NEW e
  PROVE  /\ \A o : OwnedBy(BeginOf(e), o) \/ OwnedBy(RuleOf(e), o) \/ OwnedBy(EndOf(e), o) => o = e
         /\ \A o : ~OwnedBy(Blank, o)
BY DEF OwnedBy, BeginOf, RuleOf, EndOf, Blank

(* A new block on top changes no line of the other owners.                 *)
LEMMA PrependBlockLinesOf ==
  ASSUME NEW text \in Text, NEW e \in Executions, NEW owners, e \notin owners
  PROVE  LinesOf(PrependBlock(text, e), owners) = LinesOf(text, owners)
<1>. DEFINE new == PrependBlock(text, e)
            d   == IF text = << >> THEN 3 ELSE 4
<1>1. /\ new \in Text /\ Len(new) = Len(text) + d /\ Len(text) \in Nat
      /\ new[1] = BeginOf(e) /\ new[2] = RuleOf(e) /\ new[3] = EndOf(e)
      /\ d = 4 => new[4] = Blank
      /\ \A j \in d + 1 .. Len(new) : new[j] = text[j - d]
      /\ d \in {3, 4}
  BY PrependBlockLines
<1>. HIDE DEF new, d
<1>2. 1 \in 1 .. Len(new) + 1 /\ d + 1 \in 1 .. Len(new) + 1
  BY <1>1
<1>3. CutOut(new, 1, d + 1) = text
  <2>1. /\ CutOut(new, 1, d + 1) \in Text
        /\ Len(CutOut(new, 1, d + 1)) = Len(new) - d
        /\ \A j \in 1 .. Len(new) - d : CutOut(new, 1, d + 1)[j] = new[j + d]
    <3>1. PICK s \in 1 .. Len(new) + 1, m \in 1 .. Len(new) + 1 : s = 1 /\ m = d + 1
      BY <1>2
    <3>2. m \in s .. Len(new) + 1
      BY <3>1
    <3>3. /\ CutOut(new, s, m) \in Text
          /\ Len(CutOut(new, s, m)) = Len(new) - (m - s)
          /\ \A j \in 1 .. Len(new) - (m - s) :
               CutOut(new, s, m)[j] = new[IF j < s THEN j ELSE j + (m - s)]
      BY <1>1, <3>2, CutOutLines
    <3>4. m - s = d
      BY <1>1, <3>1
    <3>5. \A j \in 1 .. Len(new) - d : CutOut(new, s, m)[j] = new[j + d]
      BY <1>1, <3>1, <3>3, <3>4
    <3>. QED
      BY <3>1, <3>3, <3>4, <3>5
  <2>2. Len(CutOut(new, 1, d + 1)) = Len(text)
    BY <1>1, <2>1
  <2>3. ASSUME NEW j \in 1 .. Len(text)
        PROVE  CutOut(new, 1, d + 1)[j] = text[j]
    <3>1. CutOut(new, 1, d + 1)[j] = new[j + d]
      BY <1>1, <2>1
    <3>2. j + d \in d + 1 .. Len(new) /\ (j + d) - d = j
      BY <1>1
    <3>3. new[j + d] = text[(j + d) - d]
      BY <1>1, <3>2
    <3>. QED
      BY <3>1, <3>2, <3>3
  <2>. QED
    BY <2>1, <2>2, <2>3, SeqEqual DEF Text
<1>4. \A j \in 1 .. (d + 1) - 1, o \in owners : ~OwnedBy(new[j], o)
  <2>1. \A j \in 1 .. (d + 1) - 1 : j = 1 \/ j = 2 \/ j = 3 \/ (j = 4 /\ d = 4)
    BY <1>1
  <2>. QED
    BY <1>1, <2>1, BlockOwners
<1>5. LinesOf(CutOut(new, 1, d + 1), owners) = LinesOf(new, owners)
  BY <1>1, <1>2, <1>4, CutOutLinesOf
<1>. QED
  BY <1>3, <1>5 DEF new

(* Nor does the removal of a whole block.                                  *)
LEMMA RemoveAnnotationBlockLinesOf ==
  ASSUME NEW text \in Text, NEW e \in Executions, NEW owners, e \notin owners,
         HasLineOf(text, e) => HasWholeBlock(text, e)
  PROVE  LinesOf(RemoveAnnotationBlock(text, e), owners) = LinesOf(text, owners)
<1>1. CASE HasLineOf(text, e)
  <2>1. PICK i \in 1 .. Len(text) - 2 : BlockAt(text, e, i)
    BY <1>1, WholeBlockAt
  <2>2. PICK m \in i + 3 .. Len(text) + 1 :
          /\ RemoveAnnotationBlock(text, e) = CutOut(text, i, m)
          /\ \A j \in i + 3 .. m - 1 : text[j] = Blank
    BY <2>1, RemovalIsCut
  <2>3. i \in 1 .. Len(text) + 1 /\ m \in i .. Len(text) + 1
    BY TextLines
  <2>4. \A j \in i .. m - 1, o \in owners : ~OwnedBy(text[j], o)
    <3>1. \A j \in i .. m - 1 : j = i \/ j = i + 1 \/ j = i + 2 \/ j \in i + 3 .. m - 1
      BY <2>3
    <3>. QED
      BY <2>1, <2>2, <3>1, BlockOwners DEF BlockAt
  <2>. QED
    BY <2>2, <2>3, <2>4, CutOutLinesOf
<1>2. CASE ~HasLineOf(text, e)
  BY <1>2, RemovalOfNothing
<1>. QED
  BY <1>1, <1>2

(* The removal of a whole block takes its lines and nobody else's, in a    *)
(* text of any length (client.removeAnnotationBlock).                      *)
THEOREM RemovalIsExact ==
  \A text \in Text, e \in Executions :
    (HasLineOf(text, e) => HasWholeBlock(text, e)) => KeepsTheRest(text, e)
<1>. SUFFICES ASSUME NEW text \in Text, NEW e \in Executions,
                     HasLineOf(text, e) => HasWholeBlock(text, e)
              PROVE  KeepsTheRest(text, e)
  OBVIOUS
<1>. DEFINE all    == Executions \cup UserTexts
            others == all \ {e}
            new    == RemoveAnnotationBlock(text, e)
<1>1. LinesOf(new, others) = LinesOf(text, others)
  BY RemoveAnnotationBlockLinesOf
<1>2. new \in Text /\ ~HasLineOf(new, e)
  BY EditsOfTheAttacks, RemoveAnnotationBlockKeeps
<1>3. Places(new, all) = Places(new, others)
  BY <1>2, TextLines DEF Places
<1>4. LinesOf(new, all) = LinesOf(new, others)
  BY <1>3 DEF LinesOf
<1>. QED
  BY <1>1, <1>4 DEF KeepsTheRest

(* What was added last is taken out without a trace, except for the empty  *)
(* lines the text began with (client.PrependToAnnotation,                  *)
(* removeAnnotationBlock).                                                 *)
THEOREM RemovalIsUndo ==
  \A text \in Text, e \in Executions : ~HasLineOf(text, e) => UndoesPrepend(text, e)
<1>. SUFFICES ASSUME NEW text \in Text, NEW e \in Executions, ~HasLineOf(text, e)
              PROVE  UndoesPrepend(text, e)
  OBVIOUS
<1>. DEFINE new == PrependBlock(text, e)
            d   == IF text = << >> THEN 3 ELSE 4
<1>1. /\ new \in Text /\ Len(new) = Len(text) + d /\ Len(text) \in Nat
      /\ new[1] = BeginOf(e) /\ new[2] = RuleOf(e) /\ new[3] = EndOf(e)
      /\ d = 4 => new[4] = Blank
      /\ \A j \in d + 1 .. Len(new) : new[j] = text[j - d]
  BY PrependBlockLines
<1>2. HasWholeBlock(new, e)
  BY PrependBlockKeeps
<1>3. /\ d \in {3, 4} /\ (d = 3 <=> text = << >>) /\ (text = << >> => Len(text) = 0)
  OBVIOUS
<1>. HIDE DEF new, d
<1>4. PICK i \in 1 .. Len(new) - 2 : BlockAt(new, e, i)
  BY <1>1, <1>2, WholeBlockAt
<1>5. i = 1
  <2>1. OwnedBy(new[1], e) /\ 1 \in 1 .. Len(new)
    BY <1>1, <1>3, Owners
  <2>. QED
    BY <1>1, <1>4, <2>1 DEF BlockAt
<1>6. PICK m \in 4 .. Len(new) + 1 :
        /\ RemoveAnnotationBlock(new, e) = SubSeq(new, m, Len(new))
        /\ \A j \in 4 .. m - 1 : new[j] = Blank
        /\ m <= Len(new) => new[m] # Blank
  <2>1. IndexOf(new, BeginOf(e)) = 1 /\ IndexOf(new, EndOf(e)) = 3
    BY <1>1, <1>4, <1>5, MarkersOfBlock
  <2>2. RemoveAnnotationBlock(new, e) = SubSeq(new, 1, 0) \o SkipNewlines(new, 4)
    BY <2>1 DEF RemoveAnnotationBlock
  <2>3. SkipNewlines(new, 4) \in Seq(Line)
    BY <1>1, SkipNewlinesType DEF Text
  <2>4. RemoveAnnotationBlock(new, e) = SkipNewlines(new, 4)
    BY <2>2, <2>3, SubSeqEmpty, ConcatEmptySeq
  <2>5. 4 \in 1 .. Len(new) + 1
    BY <1>1, <1>3
  <2>. QED
    BY <1>1, <2>4, <2>5, SkipNewlinesLines
<1>7. CASE text = << >>
  <2>1. m = Len(new) + 1 /\ Len(new) < m /\ m \in Int /\ Len(new) \in Int
    BY <1>1, <1>3, <1>6, <1>7
  <2>. QED
    BY <1>6, <1>7, <2>1, SubSeqEmpty DEF UndoesPrepend, new
<1>8. CASE text # << >>
  <2>1. PICK n \in 1 .. Len(text) + 1 :
          /\ SkipNewlines(text, 1) = SubSeq(text, n, Len(text))
          /\ \A j \in 1 .. n - 1 : text[j] = Blank
          /\ n <= Len(text) => text[n] # Blank
    <3>1. 1 \in 1 .. Len(text) + 1
      BY <1>1
    <3>. QED
      BY <3>1, SkipNewlinesLines
  <2>2. d = 4 /\ \A j \in 1 .. Len(text) : new[j + 4] = text[j]
    <3>1. d = 4
      BY <1>3, <1>8
    <3>2. \A j \in 1 .. Len(text) : j + 4 \in 5 .. Len(new) /\ (j + 4) - 4 = j
      BY <1>1, <3>1
    <3>3. \A j \in 1 .. Len(text) : new[j + 4] = text[(j + 4) - 4]
      BY <1>1, <3>1, <3>2
    <3>. QED
      BY <3>1, <3>2, <3>3
  <2>3. ~(m < n + 4)
    <3>. SUFFICES ASSUME m < n + 4
                  PROVE  FALSE
      OBVIOUS
    <3>1. m <= Len(new) /\ new[m] # Blank /\ m # 4
      BY <1>1, <1>6, <2>1, <2>2
    <3>2. m - 4 \in 1 .. n - 1 /\ m - 4 \in 1 .. Len(text) /\ (m - 4) + 4 = m
      BY <1>1, <2>1, <2>2, <3>1
    <3>3. new[(m - 4) + 4] = text[m - 4] /\ text[m - 4] = Blank
      BY <2>1, <2>2, <3>2
    <3>. QED
      BY <3>1, <3>2, <3>3
  <2>4. ~(n + 4 < m)
    <3>. SUFFICES ASSUME n + 4 < m
                  PROVE  FALSE
      OBVIOUS
    <3>1. n \in 1 .. Len(text) /\ n + 4 \in 4 .. m - 1
      BY <1>1, <1>6, <2>1, <2>2
    <3>2. new[n + 4] = text[n] /\ new[n + 4] = Blank
      BY <1>6, <2>2, <3>1
    <3>. QED
      BY <2>1, <3>1, <3>2
  <2>5. m = n + 4 /\ Len(new) = Len(text) + 4
    BY <1>1, <2>2, <2>3, <2>4
  <2>6. SubSeq(new, n + 4, Len(text) + 4) = SubSeq(text, n, Len(text))
    <3>1. (\A j \in n .. Len(text) : text[j] \in Line)
          /\ \A j \in n + 4 .. Len(text) + 4 : new[j] \in Line
      BY <1>1, <2>1, <2>5, TextLines
    <3>2. /\ SubSeq(text, n, Len(text)) \in Seq(Line)
          /\ Len(SubSeq(text, n, Len(text))) = IF n <= Len(text) THEN Len(text) - n + 1 ELSE 0
          /\ \A j \in 1 .. Len(text) - n + 1 : SubSeq(text, n, Len(text))[j] = text[n + j - 1]
      BY <1>1, <3>1, SubSeqProperties
    <3>3. /\ SubSeq(new, n + 4, Len(text) + 4) \in Seq(Line)
          /\ Len(SubSeq(new, n + 4, Len(text) + 4))
               = IF n + 4 <= Len(text) + 4 THEN (Len(text) + 4) - (n + 4) + 1 ELSE 0
          /\ \A j \in 1 .. (Len(text) + 4) - (n + 4) + 1 :
               SubSeq(new, n + 4, Len(text) + 4)[j] = new[(n + 4) + j - 1]
      BY <1>1, <3>1, SubSeqProperties
    <3>4. Len(SubSeq(new, n + 4, Len(text) + 4)) = Len(SubSeq(text, n, Len(text)))
      BY <1>1, <3>2, <3>3
    <3>5. ASSUME NEW j \in 1 .. Len(SubSeq(new, n + 4, Len(text) + 4))
          PROVE  SubSeq(new, n + 4, Len(text) + 4)[j] = SubSeq(text, n, Len(text))[j]
      <4>1. /\ j \in 1 .. Len(text) - n + 1 /\ j \in 1 .. (Len(text) + 4) - (n + 4) + 1
            /\ (n + 4) + j - 1 = (n + j - 1) + 4 /\ n + j - 1 \in 1 .. Len(text)
        BY <1>1, <3>3
      <4>2. SubSeq(new, n + 4, Len(text) + 4)[j] = new[(n + j - 1) + 4]
        BY <3>3, <4>1
      <4>. QED
        BY <2>2, <3>2, <4>1, <4>2
    <3>. QED
      BY <3>2, <3>3, <3>4, <3>5, SeqEqual
  <2>. QED
    BY <1>6, <1>8, <2>1, <2>5, <2>6 DEF UndoesPrepend, new
<1>. QED
  BY <1>7, <1>8

-----------------------------------------------------------------------------
(* An annotation that is edited has each execution's block as a whole, or  *)
(* nothing of it.                                                          *)
EditsInv ==
  /\ annotation \in Text
  /\ \A e \in Executions : HasLineOf(annotation, e) => HasWholeBlock(annotation, e)

LEMMA EditsInitInv == EditsInit => EditsInv
BY DEF EditsInit, EditsInv, Text, HasLineOf, ToSet

LEMMA EditsStepInv == EditsInv /\ [EditsNext]_annotation => EditsInv'
<1>. SUFFICES ASSUME EditsInv, [EditsNext]_annotation PROVE EditsInv'
  OBVIOUS
<1>. USE DEF EditsInv
<1>1. ASSUME annotation' \in Text,
             \A e \in Executions : Spares(annotation, annotation', e)
      PROVE  EditsInv'
  BY <1>1 DEF Spares
<1>2. ASSUME NEW e \in Executions, AddBlock(e)
      PROVE  EditsInv'
  <2>1. annotation' = PrependBlock(annotation, e) /\ ~HasLineOf(annotation, e)
    BY <1>2 DEF AddBlock
  <2>2. annotation' \in Text
    BY <2>1, EditsOfTheAttacks
  <2>3. HasWholeBlock(annotation', e)
    BY <2>1, PrependBlockKeeps
  <2>4. \A f \in Executions \ {e} : Spares(annotation, annotation', f)
    BY <2>1, PrependBlockKeeps
  <2>. QED
    BY <2>2, <2>3, <2>4 DEF Spares
<1>3. ASSUME NEW e \in Executions, RemoveBlock(e)
      PROVE  EditsInv'
  <2>1. annotation' = RemoveAnnotationBlock(annotation, e)
    BY <1>3 DEF RemoveBlock
  <2>2. annotation' \in Text
    BY <2>1, EditsOfTheAttacks
  <2>3. ~HasLineOf(annotation', e)
    BY <2>1, RemoveAnnotationBlockKeeps
  <2>4. \A f \in Executions \ {e} : Spares(annotation, annotation', f)
    BY <2>1, RemoveAnnotationBlockKeeps
  <2>. QED
    BY <2>2, <2>3, <2>4 DEF Spares
<1>4. CASE AddLine
  <2>1. PICK line \in {Blank} \cup {UserLine(u) : u \in UserTexts} :
          annotation' = << line >> \o annotation \/ annotation' = Append(annotation, line)
    BY <1>4 DEF AddLine
  <2>2. line \in Line /\ \A e \in Executions : ~OwnedBy(line, e)
    BY Owners DEF Blank, UserLine, Line
  <2>. QED
    BY <1>1, <2>1, <2>2, EditsOfLines, LineOnTopKeeps, LineAtBottomKeeps
<1>5. CASE RemoveLine
  <2>1. PICK i \in 1 .. Len(annotation) :
          /\ annotation[i].kind \in {"blank", "user"}
          /\ annotation' = RemoveAt(annotation, i)
    BY <1>5 DEF RemoveLine
  <2>2. \A e \in Executions : ~OwnedBy(annotation[i], e)
    BY <2>1, UsersOwn, TextLines DEF OwnedBy
  <2>. QED
    BY <1>1, <2>1, <2>2, EditsOfLines, LineTakenOutKeeps
<1>6. CASE UNCHANGED annotation
  BY <1>6
<1>. QED
  BY <1>2, <1>3, <1>4, <1>5, <1>6 DEF EditsNext

LEMMA EditsAlways == EditsSpec => []EditsInv
BY EditsInitInv, EditsStepInv, PTL DEF EditsSpec

(* Whichever blocks and lines came and went before, the removal of a block *)
(* takes its lines and keeps the others, in their order.                   *)
THEOREM TheRestIsKept == EditsSpec => []RemovalKeepsTheRest
<1>1. EditsInv => RemovalKeepsTheRest
  BY RemovalIsExact DEF EditsInv, RemovalKeepsTheRest
<1>. QED
  BY <1>1, EditsAlways, PTL

(* Whatever the annotation has become, an execution that adds its block    *)
(* and takes it out again leaves no trace, except for the empty lines the  *)
(* annotation began with.                                                  *)
THEOREM PrependIsUndone == EditsSpec => []RemovalUndoesPrepend
<1>1. EditsInv => RemovalUndoesPrepend
  BY RemovalIsUndo DEF EditsInv, RemovalUndoesPrepend
<1>. QED
  BY <1>1, EditsAlways, PTL
=============================================================================
