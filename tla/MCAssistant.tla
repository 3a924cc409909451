---------------------------- MODULE MCAssistant ----------------------------
(***************************************************************************)
(* Small instances of Assistant for TLC: which requests a behaviour has.   *)
(***************************************************************************)
EXTENDS Assistant

CONSTANTS first, message, other, home, away, k1, k2, q1, q2, brl, usd

Start(p)   == [op |-> "start", profile |-> p]
Get(p)     == [op |-> "get", profile |-> p]
Send(k, q) == [op |-> "send", conversation |-> first, key |-> k, question |-> q]
CancelIt   == [op |-> "cancel", conversation |-> first]

\* A conversation, a message to it, and one more request: a retry of the message,
\* the same key for another question, another message, a cancellation, or one
\* that reads or starts a conversation in either profile.
ConversationOffers(r) ==
  CASE r = first   -> {Start(home)}
    [] r = message -> {Send(k1, q1)}
    [] r = other   -> {Send(k1, q1), Send(k1, q2), Send(k2, q2), CancelIt,
                       Get(home), Get(away), Start(home), Start(away)}

\* The two questions are about different currencies; either may need clarification.
TwoCurrencies(q) == IF q = q1 THEN {brl, None} ELSE {usd, None}

=============================================================================
