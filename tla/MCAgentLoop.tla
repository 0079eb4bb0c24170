---------------------------- MODULE MCAgentLoop ----------------------------
(* Values of AgentLoop's constants for the model checker.                  *)
EXTENDS AgentLoop

\* Every pseudo-tool, alone and around real calls.
MixedReplies == {
  <<"tool", "save_note", "tool">>,
  <<"ghost">>,
  <<"escalate_to_oracle", "tool">>,
  <<"register_citation">>,
  <<"stop", "tool">>,
  <<"tool", "request_clarification">> }

\* Enough to fill a history between two compactions.
CompactionReplies == { <<"tool", "tool">>, <<"ghost", "save_note">>, <<"stop">> }
=============================================================================
