----------------------------- MODULE Publication -----------------------------
(***************************************************************************)
(* What a program that writes several files, and last the one that speaks  *)
(* for them, promises to whoever reads them: there is nothing, or one      *)
(* whole document.  What is published was right at that moment, and stays  *)
(* as it is, to the last file, until it is withdrawn.  OverlayStage and    *)
(* CorpusMerge implement this specification.                               *)
(***************************************************************************)
CONSTANT Nothing

VARIABLES
  document,  \* what a reader finds
  right      \* the documents that would be right, now

Init == document = Nothing

Publish ==
  /\ document = Nothing
  /\ document' # Nothing
  /\ document' \in right

\* It is removed, or a reader can no longer rely on it.
Withdraw == document' = Nothing

Spec == Init /\ [][Publish \/ Withdraw]_document
=============================================================================
