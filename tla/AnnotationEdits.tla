-------------------------- MODULE AnnotationEdits --------------------------
(***************************************************************************)
(* One annotation that grows and shrinks: by the blocks of the executions, *)
(* and by lines of somebody else and empty lines, on top or at the bottom. *)
(* Its behaviours reach every text that the attacks and the users can      *)
(* write, of which the properties say what becomes of it when a block is   *)
(* taken out (client.PrependToAnnotation, client.removeAnnotationBlock).   *)
(***************************************************************************)
EXTENDS AnnotationText

CONSTANT MaxLength      \* bound on the lines that something is added to

VARIABLE annotation

-----------------------------------------------------------------------------
EditsInit == annotation = << >>

(* An execution has one block at a time.                                   *)
AddBlock(e) ==
  /\ ~HasLineOf(annotation, e)
  /\ annotation' = PrependBlock(annotation, e)

RemoveBlock(e) ==
  /\ HasLineOf(annotation, e)
  /\ annotation' = RemoveAnnotationBlock(annotation, e)

(* Somebody else (external).                                               *)
AddLine ==
  \E line \in {Blank} \cup {UserLine(u) : u \in UserTexts} :
    annotation' = << line >> \o annotation \/ annotation' = Append(annotation, line)

RemoveLine ==
  \E i \in 1 .. Len(annotation) :
    /\ annotation[i].kind \in {"blank", "user"}
    /\ annotation' = RemoveAt(annotation, i)

EditsNext ==
  \/ Len(annotation) < MaxLength /\ (AddLine \/ \E e \in Executions : AddBlock(e))
  \/ RemoveLine \/ \E e \in Executions : RemoveBlock(e)

EditsSpec == EditsInit /\ [][EditsNext]_annotation

-----------------------------------------------------------------------------
(* Properties                                                              *)

(* Removing a block keeps all other lines, in their order, whichever       *)
(* blocks and lines came and went before (client.removeAnnotationBlock).   *)
RemovalKeepsTheRest == \A e \in Executions : KeepsTheRest(annotation, e)

(* Stopping at once restores the text byte for byte, unless it began with  *)
(* an empty line (client.PrependToAnnotation, removeAnnotationBlock).      *)
RemovalUndoesPrepend ==
  \A e \in Executions : ~HasLineOf(annotation, e) => UndoesPrepend(annotation, e)
=============================================================================
