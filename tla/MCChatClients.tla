--------------------------- MODULE MCChatClients ---------------------------
(* Small instances of ChatClients for TLC. *)
EXTENDS ChatClients
=============================================================================
