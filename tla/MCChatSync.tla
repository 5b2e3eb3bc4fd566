------------------------------ MODULE MCChatSync ------------------------------
(* Pages of one message, so that three make a reset and a history of pages. *)
EXTENDS ChatSync
=============================================================================
