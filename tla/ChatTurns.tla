------------------------------- MODULE ChatTurns -------------------------------
(***************************************************************************)
(* The headless chat API: internal/api/chat.go over the "Chat" row of      *)
(* internal/db/chats.go, with the synthesis behind it (internal/mcp/chat.go *)
(* and the start and poll half of ask_codebase.go) as a session per        *)
(* question, since deterministicAskSessionID derives the id from it.       *)
(*                                                                         *)
(* One chat.  A call reads the row, talks to the synthesis backend and     *)
(* then writes the whole message list back: three steps, no lock.  The     *)
(* body with a query is modelled; a body with a message list of its own    *)
(* replaces the stored one with whatever the client sent.                  *)
(***************************************************************************)
EXTENDS Naturals, Sequences, FiniteSets

CONSTANTS
    ChatCalls,    \* HTTP calls
    Questions,    \* what may be asked
    Callers,      \* CreatedBy and somebody else
    ChatOwner,    \* the user that created the chat
    MaxChatFaults

ASSUME ChatConstants == ChatOwner \in Callers /\ Questions # {} /\ MaxChatFaults \in Nat

VARIABLES
    chat,           \* Chat.messages, <<>> before CreateChat
    session,        \* session[q]: the durable request behind question q
    turn,           \* where each call is, and the messages it will write
    chatFaults

chatVars == <<chat, session, turn, chatFaults>>

User(q) == [role |-> "user", of |-> q]
Assistant(q) == [role |-> "assistant", of |-> q]

\* chatHTTPStatus of a normalized response.
ChatHTTPStatus(status) ==
    CASE status = "IN_PROGRESS" -> 202 [] status = "FAILED" -> 502 [] OTHER -> 200

ChatMessagesContainSession_Never(messages, q) == FALSE

ChatMessagesContainSession(messages, q) ==
    \E i \in DOMAIN messages : messages[i] = Assistant(q)

AnswerTo(c, code) == turn' = [turn EXCEPT ![c].at = "replied", ![c].code = code]

-----------------------------------------------------------------------------
\* handleBlockingChat: the row is created with the question in it.
CreateChat(c) ==
    /\ turn[c].at = "new" /\ chat = <<>>
    /\ \E q \in Questions :
          /\ chat' = <<User(q)>>
          /\ turn' = [turn EXCEPT ![c] = [at |-> "asking", kind |-> "create", q |-> q,
                                          base |-> <<User(q)>>, code |-> 0]]
    /\ UNCHANGED <<session, chatFaults>>

\* handleChat up to Ask: 404, 403 for anybody but the owner, else the stored
\* messages and the new one.
ReadForTurn(c) ==
    /\ turn[c].at = "new"
    /\ \E q \in Questions, who \in Callers :
          CASE chat = <<>> -> AnswerTo(c, 404)
            [] chat # <<>> /\ who # ChatOwner -> AnswerTo(c, 403)
            [] OTHER -> turn' = [turn EXCEPT ![c] =
                           [at |-> "asking", kind |-> "turn", q |-> q,
                            base |-> Append(chat, User(q)), code |-> 0]]
    /\ UNCHANGED <<chat, session, chatFaults>>

\* StartChat: a finished session answers at once, a failed one is claimed again.
Ask(c) ==
    /\ turn[c].at = "asking"
    /\ LET q == turn[c].q
           now == IF session[q] = "SUCCEEDED" THEN "SUCCEEDED" ELSE "IN_PROGRESS"
       IN  /\ session' = [session EXCEPT ![q] = now]
           /\ turn' = [turn EXCEPT ![c].at = "saving", ![c].code = ChatHTTPStatus(now)]
    /\ UNCHANGED <<chat, chatFaults>>

\* writeChatBackendError: the chat is left as it is.
AskFails(c) ==
    /\ turn[c].at \in {"asking", "fetching"}
    /\ chatFaults < MaxChatFaults
    /\ AnswerTo(c, 502)
    /\ chatFaults' = chatFaults + 1
    /\ UNCHANGED <<chat, session>>

\* handleGetChatResult up to Get, for a session id some reply has named.
ReadForResult(c) ==
    /\ turn[c].at = "new"
    /\ \E q \in Questions, who \in Callers :
          /\ \E d \in ChatCalls : /\ turn[d].at = "replied" /\ turn[d].q = q
                                  /\ turn[d].code \in {200, 202}
          /\ CASE chat = <<>> -> AnswerTo(c, 404)
               [] chat # <<>> /\ who # ChatOwner -> AnswerTo(c, 403)
               [] OTHER -> turn' = [turn EXCEPT ![c] =
                              [at |-> "fetching", kind |-> "result", q |-> q,
                               base |-> chat, code |-> 0]]
    /\ UNCHANGED <<chat, session, chatFaults>>

\* Get: the answer is saved only when it is new to the messages read before.
FetchResult(c) ==
    /\ turn[c].at = "fetching"
    /\ LET q == turn[c].q IN
       IF session[q] = "SUCCEEDED" /\ ~ChatMessagesContainSession(turn[c].base, q)
       THEN turn' = [turn EXCEPT ![c].at = "saving", ![c].code = 200]
       ELSE AnswerTo(c, ChatHTTPStatus(session[q]))
    /\ UNCHANGED <<chat, session, chatFaults>>

\* The list UpdateChatMessages writes: what was read, with the answer if there is
\* one.
SaveMessages(c) ==
    IF turn[c].code = 200 THEN Append(turn[c].base, Assistant(turn[c].q))
    ELSE turn[c].base

\* A new chat whose answer is not there yet needs no update.
UpdateChatMessages(c) ==
    /\ turn[c].at = "saving"
    /\ chat' = IF turn[c].kind = "create" /\ turn[c].code # 200 THEN chat
               ELSE SaveMessages(c)
    /\ AnswerTo(c, turn[c].code)
    /\ UNCHANGED <<session, chatFaults>>

UpdateFails(c) ==
    /\ turn[c].at = "saving"
    /\ chatFaults < MaxChatFaults
    /\ AnswerTo(c, 500)
    /\ chatFaults' = chatFaults + 1
    /\ UNCHANGED <<chat, session>>

\* The gateway finishes a synthesis (module LLMGateway).
SessionEnds(q) ==
    /\ session[q] = "IN_PROGRESS"
    /\ \E s \in {"SUCCEEDED", "FAILED"} : session' = [session EXCEPT ![q] = s]
    /\ UNCHANGED <<chat, turn, chatFaults>>

-----------------------------------------------------------------------------
ChatInit ==
    /\ chat = <<>>
    /\ session = [q \in Questions |-> "none"]
    /\ turn = [c \in ChatCalls |-> [at |-> "new", kind |-> "turn",
                                    q |-> CHOOSE q \in Questions : TRUE,
                                    base |-> <<>>, code |-> 0]]
    /\ chatFaults = 0

ChatNext ==
    \/ \E c \in ChatCalls :
          \/ CreateChat(c) \/ ReadForTurn(c) \/ Ask(c) \/ AskFails(c)
          \/ ReadForResult(c) \/ FetchResult(c) \/ UpdateChatMessages(c)
          \/ UpdateFails(c)
    \/ \E q \in Questions : SessionEnds(q)

ChatSpec == ChatInit /\ [][ChatNext]_chatVars

-----------------------------------------------------------------------------
\* Calls and sessions have their types; the chat begins with a question.
ChatTypeOK ==
    /\ session \in [Questions -> {"none", "IN_PROGRESS", "SUCCEEDED", "FAILED"}]
    /\ \A c \in ChatCalls :
          /\ turn[c].at \in {"new", "asking", "fetching", "saving", "replied"}
          /\ turn[c].code \in {0, 200, 202, 403, 404, 500, 502}
    /\ chat # <<>> => chat[1].role = "user"

\* However calls interleave, an answer is in the chat a second time only right
\* behind its question, asked again: handleGetChatResult looks for the session
\* among the messages it read, and handleChat adds a question with every answer.
RepeatedAnswerWasAsked ==
    \A q \in Questions : \A i, j \in DOMAIN chat :
        i < j /\ chat[i] = Assistant(q) /\ chat[j] = Assistant(q) => chat[j - 1] = User(q)

=============================================================================
