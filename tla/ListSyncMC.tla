----------------------------- MODULE ListSyncMC -----------------------------
(* A worker and a web process, each of which may sync the server.          *)
EXTENDS ListSync, TLC

CONSTANTS Worker, Web

(* Bound: what the lists want to begin with.  Edits lead to the rest.      *)
MCWanted == {{3}}
=============================================================================
