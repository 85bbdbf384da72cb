--------------------------- MODULE MCConversation ---------------------------
(* An instance of Conversation for TLC: the providers of create_provider   *)
(* that differ in how messages are sent, with short strategies.            *)
EXTENDS Conversation

P(wire, mode, thinking, echo) ==
  [wire |-> wire, mode |-> mode, thinking |-> thinking, echo |-> echo]

MCProviders == {P("chat", "drop", TRUE, FALSE),            \* DeepSeek
                P("chat", "drop", FALSE, TRUE),            \* Kimi
                P("responses", "plaintext", TRUE, FALSE),  \* DeepSeek
                P("responses", "encrypted", FALSE, FALSE), \* OpenAI
                P("responses", "summary", FALSE, FALSE),   \* Ark
                P("messages", "drop", FALSE, FALSE)}

MCAnswers == {<<"call", "cut call">>, <<"silent think", "call">>,
              <<"think", "text", "think", "call">>, <<"hosted", "text", "think", "broken hosted">>}

MCStrategies == <<C!SlidingWindow(2, 1), C!LlmSummary(3), C!Smart(3, 1)>>
=============================================================================
