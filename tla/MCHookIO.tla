----------------------------- MODULE MCHookIO -----------------------------
(* HookIO for TLC.                                                         *)
EXTENDS HookIO

BothKinds == {"io", "connect"}
============================================================================
