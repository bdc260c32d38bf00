--------------------------- MODULE MCActionEditor ---------------------------
(***************************************************************************)
(* ActionEditor for TLC.                                                   *)
(***************************************************************************)
EXTENDS ActionEditor, TLC

CONSTANTS blank, x, y

\* The page is opened on an empty draft.
Empty == <<>>

\* The texts of a page opened on an empty draft are interchangeable.
Symmetry == Permutations({x, y})
=============================================================================
