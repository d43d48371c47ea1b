---------------------------- MODULE MCEditorDraft ----------------------------
(* Small instances of EditorDraft for TLC. *)
EXTENDS EditorDraft
=============================================================================
