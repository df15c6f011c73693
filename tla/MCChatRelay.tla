----------------------------- MODULE MCChatRelay ----------------------------
(* The instance of ChatRelay for TLC: all its values are in the .cfg. *)
EXTENDS ChatRelay

=============================================================================
