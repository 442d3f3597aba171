---------------------------- MODULE MCWebSession ----------------------------
(* Two sessions: the one the page opens and one more, so that a reset, a    *)
(* retry or a selection can overlap a submit of another session.            *)
EXTENDS WebSession
=============================================================================
