---------------------------- MODULE MCDraftEditor ---------------------------
(***************************************************************************)
(* DraftEditor for TLC.                                                    *)
(***************************************************************************)
EXTENDS DraftEditor, TLC

CONSTANTS blank, x, y
=============================================================================
