--------------------------- MODULE MCAssistantChat ---------------------------
(* An instance of AssistantChat for TLC. *)
EXTENDS AssistantChat, TLC

=============================================================================
