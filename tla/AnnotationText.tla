--------------------------- MODULE AnnotationText ---------------------------
(***************************************************************************)
(* The text of an ingress annotation, as the traffic attacks of            *)
(* src/extingress write it and src/client takes it apart again.            *)
(*                                                                         *)
(* A text is the sequence of its lines.  An attack owns a block: a begin   *)
(* marker and an end marker that name the execution, and a rule between    *)
(* them that stands for all the directives the builders emit.  Every other *)
(* line is a user's line or an empty one.                                  *)
(***************************************************************************)
EXTENDS Integers, Sequences, SequencesExt

CONSTANTS Executions,  \* executions of the block and delay attacks
          UserTexts    \* lines somebody else writes into the annotation

(* Executions and user texts are told apart.                               *)
ASSUME OwnersAssumption == Executions \cap UserTexts = {}

Blank       == [kind |-> "blank"]
BeginOf(e)  == [kind |-> "begin", by |-> e]
RuleOf(e)   == [kind |-> "rule",  by |-> e]
EndOf(e)    == [kind |-> "end",   by |-> e]
UserLine(u) == [kind |-> "user",  by |-> u]

Line == [kind : {"blank"}]
          \cup [kind : {"begin", "rule", "end"}, by : Executions]
          \cup [kind : {"user"}, by : UserTexts]
Text == Seq(Line)

-----------------------------------------------------------------------------
(* What the builders write for an execution.                               *)
Block(e) == << BeginOf(e), RuleOf(e), EndOf(e) >>

(* The new block goes on top.  The separator is a newline of its own after *)
(* the one that ends the end marker, so an empty line divides the two.     *)
PrependBlock(text, e) ==
  IF text = << >> THEN Block(e) ELSE Block(e) \o << Blank >> \o text

(* strings.Index: the first line that is the marker, 0 when there is none. *)
IndexOf(text, marker) == SelectInSeq(text, LAMBDA line : line = marker)

(* Mutant: the empty lines after a block stay.                             *)
SkipNothing(text, i) == SubSeq(text, i, Len(text))

(* What is left from line i on once the empty lines it starts with are     *)
(* skipped.                                                                *)
SkipNewlines(text, i) ==
  LET first == SelectInSubSeq(text, i, Len(text), LAMBDA line : line # Blank)
  IN  IF first = 0 THEN << >> ELSE SubSeq(text, first, Len(text))

(* Mutants: the end marker stays; the begin marker stays.                  *)
RemoveUpToEnd(text, e) ==
  LET start == IndexOf(text, BeginOf(e))
      end   == IndexOf(text, EndOf(e))
  IN  IF start = 0 \/ end = 0
      THEN text
      ELSE SubSeq(text, 1, start - 1) \o SkipNewlines(text, end)

(* Cut from the begin marker through the end marker and the empty lines    *)
(* after it; nothing is cut when either marker is missing.                 *)
RemoveAnnotationBlock(text, e) ==
  LET start == IndexOf(text, BeginOf(e))
      end   == IndexOf(text, EndOf(e))
  IN  IF start = 0 \/ end = 0
      THEN text
      ELSE SubSeq(text, 1, start - 1) \o SkipNewlines(text, end + 1)

-----------------------------------------------------------------------------
(* What somebody else may turn a text into: a line of theirs more, one     *)
(* less, or just the text of a manifest that is applied again, with none   *)
(* of the blocks.                                                          *)
UserEdits(text) ==
  LET missing == {u \in UserTexts : UserLine(u) \notin ToSet(text)}
      mine    == {i \in 1 .. Len(text) : text[i].kind = "user"}
  IN  {<< UserLine(u) >> \o text : u \in missing}
        \cup {Append(text, UserLine(u)) : u \in missing}
        \cup {RemoveAt(text, i) : i \in mine}
        \cup {<< >>} \cup {<< UserLine(u) >> : u \in UserTexts}

-----------------------------------------------------------------------------
(* How the properties read a text.                                         *)
OwnedBy(line, e) == line.kind # "blank" /\ line.by = e

(* The lines of the owners, each with its rank among them.                 *)
Places(text, owners) == {i \in 1 .. Len(text) : \E o \in owners : OwnedBy(text[i], o)}

LinesOf(text, owners) ==
  LET Rank(i) == Cardinality({j \in Places(text, owners) : j <= i})
  IN  {<< Rank(i), text[i] >> : i \in Places(text, owners)}

HasLineOf(text, e) == \E line \in ToSet(text) : OwnedBy(line, e)

(* The lines of e are one block, uninterrupted.                            *)
HasWholeBlock(text, e) ==
  \E i \in 1 .. Len(text) - 2 :
    /\ SubSeq(text, i, i + 2) = Block(e)
    /\ \A j \in 1 .. Len(text) : OwnedBy(text[j], e) => j \in i .. i + 2

(* The non-empty lines that a removal leaves are those that are not the    *)
(* execution's, in their order (client.removeAnnotationBlock).             *)
KeepsTheRest(text, e) ==
  LinesOf(RemoveAnnotationBlock(text, e), Executions \cup UserTexts)
    = LinesOf(text, (Executions \cup UserTexts) \ {e})

(* Stopping at once restores the text byte for byte, unless it began with  *)
(* an empty line, which the removal takes for part of the block.           *)
UndoesPrepend(text, e) ==
  RemoveAnnotationBlock(PrependBlock(text, e), e)
    = IF text = << >> THEN << >> ELSE SkipNewlines(text, 1)
=============================================================================
