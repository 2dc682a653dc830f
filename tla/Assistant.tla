----------------------------- MODULE Assistant -----------------------------
(***************************************************************************)
(* The assistant: the bar that takes questions and the panel that shows the *)
(* answers (AskBar.tsx, ChatPanel.tsx), the route behind them and the rounds  *)
(* of tools it plays with the model (server/ai/service.ts).                  *)
(*                                                                         *)
(* Texts are reduced to their lengths, counted in the steps in which an       *)
(* answer grows on the screen; a question is one step long.  The history that *)
(* is sent along, the wording of the answers and what the tools return are    *)
(* left out.                                                               *)
(***************************************************************************)
EXTENDS Integers, Sequences, SequencesExt

CONSTANTS
  MaxText,       \* length of the longest answer
  MaxRounds,     \* rounds of tools that the server plays at most
  MaxQuestions   \* bound of the questions

ASSUME AssistantAssumption == MaxText \in Nat \ {0} /\ MaxRounds \in Nat /\ MaxQuestions \in Nat

VARIABLES
  chat,          \* the messages of the bar
  panelOpen,     \* whether the panel is on the screen
  typed,         \* how much of the last answer the panel has shown
  reduced,       \* whether the user prefers reduced motion
  answering      \* what the server does about the last question

chatVars == <<chat, panelOpen, typed, reduced, answering>>

Modes == {"none", "openai", "local-fallback"}
ChatMsg == [role : {"user", "assistant"}, text : 0..MaxText,
            status : {"pending", "streaming", "done"}, mode : Modes]
NoAnswering == [phase |-> "idle", rounds |-> 0, text |-> 0, mode |-> "none"]

Unfinished(message) == message.role = "assistant" /\ message.status \in {"pending", "streaming"}
busy == \E i \in DOMAIN chat : Unfinished(chat[i])

-----------------------------------------------------------------------------
(* The bar.                                                                  *)

\* A question opens the panel and is sent; there is none while an answer is unfinished.
AskQuestion ==
  /\ Len(chat) < 2 * MaxQuestions
  /\ ~ busy
  /\ chat' = chat \o <<[role |-> "user", text |-> 1, status |-> "done", mode |-> "none"],
                       [role |-> "assistant", text |-> 0, status |-> "pending", mode |-> "none"]>>
  /\ panelOpen' = TRUE
  /\ typed' = 0
  /\ answering' = [NoAnswering EXCEPT !.phase = "model"]
  /\ UNCHANGED reduced

\* The message that waits becomes one that is shown step by step.
Streamed(text, mode) ==
  [chat EXCEPT ![Len(chat)] = [@ EXCEPT !.text = text, !.mode = mode, !.status = "streaming"]]

AnswerArrives ==
  /\ answering.phase = "answered"
  /\ chat' = Streamed(answering.text, answering.mode)
  /\ answering' = NoAnswering
  /\ UNCHANGED <<panelOpen, typed, reduced>>

\* The request fails: the browser answers by its own rules, never with nothing.
AnswerFails ==
  /\ answering.phase # "idle"
  /\ \E text \in 1..MaxText : chat' = Streamed(text, "local-fallback")
  /\ answering' = NoAnswering
  /\ UNCHANGED <<panelOpen, typed, reduced>>

-----------------------------------------------------------------------------
(* The panel.  Its messages live as long as it is open.                       *)

markDone == [chat EXCEPT ![Len(chat)].status = "done"]

Streaming == panelOpen /\ chat # <<>> /\ Last(chat).status = "streaming"

\* The next step of an answer; the last one finishes it.
ShowMore ==
  /\ Streaming /\ ~ reduced
  /\ typed < Last(chat).text
  /\ typed' = typed + 1
  /\ chat' = IF typed' >= Last(chat).text THEN markDone ELSE chat
  /\ UNCHANGED <<panelOpen, reduced, answering>>

ShowAtOnce ==
  /\ Streaming /\ reduced
  /\ typed' = Last(chat).text
  /\ chat' = markDone
  /\ UNCHANGED <<panelOpen, reduced, answering>>

ClosePanel ==
  /\ panelOpen
  /\ panelOpen' = FALSE
  /\ typed' = 0
  /\ UNCHANGED <<chat, reduced, answering>>

-----------------------------------------------------------------------------
(* The server.                                                               *)

\* The model's answer to a round: tools to call, or a text, which may be empty.
ToolsAsked ==
  /\ answering.phase = "model"
  /\ answering.rounds < MaxRounds
  /\ answering' = [answering EXCEPT !.phase = "tools"]
  /\ UNCHANGED <<chat, panelOpen, typed, reduced>>

\* Tools that fail are told to the model like the others.
ToolsReturn ==
  /\ answering.phase = "tools"
  /\ answering' = [answering EXCEPT !.phase = "model", !.rounds = @ + 1]
  /\ UNCHANGED <<chat, panelOpen, typed, reduced>>

\* Mutant: an answer without a text is passed on.
AnswerOfAnyText(text) ==
  [answering EXCEPT !.phase = "answered", !.text = text, !.mode = "openai"]

\* Without a text there is no answer, and the local rules give one.
localFallbackAnswer(text) ==
  [answering EXCEPT !.phase = "answered", !.text = text, !.mode = "local-fallback"]

answerWithFinancialTools(text) ==
  IF text = 0 THEN localFallbackAnswer(1)
  ELSE [answering EXCEPT !.phase = "answered", !.text = text, !.mode = "openai"]

TextGiven ==
  /\ answering.phase = "model"
  /\ \E text \in 0..MaxText : answering' = answerWithFinancialTools(text)
  /\ UNCHANGED <<chat, panelOpen, typed, reduced>>

\* The model is not configured, refuses, or does not answer in time.
ModelFails ==
  /\ answering.phase = "model"
  /\ \E text \in 1..MaxText : answering' = localFallbackAnswer(text)
  /\ UNCHANGED <<chat, panelOpen, typed, reduced>>

-----------------------------------------------------------------------------

AssistantInit ==
  /\ chat = <<>>
  /\ panelOpen = FALSE
  /\ typed = 0
  /\ reduced \in BOOLEAN
  /\ answering = NoAnswering

\* What the server and the browser do by themselves.
Serving == ToolsAsked \/ ToolsReturn \/ TextGiven \/ ModelFails \/ AnswerArrives \/ AnswerFails
Showing == ShowMore \/ ShowAtOnce

AssistantNext == AskQuestion \/ ClosePanel \/ Serving \/ Showing

\* Every call of the model is given up after a minute, and the platform ends the request; the panel's
\* timer goes on while it is open.
AssistantFairness == WF_chatVars(Serving) /\ WF_chatVars(Showing)

AssistantSpec == AssistantInit /\ [][AssistantNext]_chatVars /\ AssistantFairness

-----------------------------------------------------------------------------

AssistantTypeOK ==
  /\ chat \in Seq(ChatMsg)
  /\ panelOpen \in BOOLEAN /\ reduced \in BOOLEAN
  /\ typed \in 0..MaxText
  /\ answering \in [phase : {"idle", "model", "tools", "answered"}, rounds : 0..MaxRounds,
                    text : 0..MaxText, mode : Modes]

\* Only the last message waits for an answer, and it waits as long as the server works on it: no
\* answer comes under another question (AskBar.tsx 31-87).
OneAnswerAtATime ==
  /\ \A i \in DOMAIN chat : Unfinished(chat[i]) => i = Len(chat)
  /\ answering.phase # "idle" <=> chat # <<>> /\ Last(chat).status = "pending"

\* What the user is left with is an answer, if only one of the rules (service.ts 39-42).
NoAnswerIsEmpty ==
  \A i \in DOMAIN chat : chat[i].role = "assistant" /\ chat[i].status = "done" => chat[i].text > 0

AnswersFollowTheirQuestions == OneAnswerAtATime /\ NoAnswerIsEmpty

\* Whoever keeps the panel open can ask again: every answer, of the model or of the rules, comes and
\* is shown to its end (ChatPanel.tsx 98-118, AskBar.tsx 43-91, service.ts 39-42).
EveryQuestionIsAnswered ==
  /\ [](OneAnswerAtATime /\ NoAnswerIsEmpty)
  /\ busy ~> (~ busy \/ ~ panelOpen)
=============================================================================
