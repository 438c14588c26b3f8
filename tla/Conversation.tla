---------------------------- MODULE Conversation ----------------------------
(***************************************************************************)
(* What a chat session promises its reader: every request says one text,   *)
(* its prompt is kept at most once, and its answer at most once and only   *)
(* after a prompt with its text.                                           *)
(***************************************************************************)
EXTENDS Naturals, Sequences

CONSTANTS Request, Text, NoText, Chunks

VARIABLES
  text,  \* what each request says
  log    \* the messages kept, oldest first

Kept(role, r) == \E i \in 1..Len(log) : log[i].role = role /\ log[i].req = r

Prompted(r) ==
  \E i \in 1..Len(log) : log[i].role = "user" /\ text[log[i].req] = text[r]

Message(role, r, n) == [role |-> role, req |-> r, len |-> n]

Init == text = [r \in Request |-> NoText] /\ log = << >>

\* A request says what it asks, once.
Say(r, m) ==
  /\ text[r] = NoText
  /\ text' = [text EXCEPT ![r] = m]
  /\ UNCHANGED log

KeepPrompt(r) ==
  /\ text[r] # NoText
  /\ ~Kept("user", r)
  /\ ~Kept("assistant", r)
  /\ log' = Append(log, Message("user", r, 0))
  /\ UNCHANGED text

\* The answer, or the part of it the model got to.
KeepAnswer(r, n) ==
  /\ text[r] # NoText
  /\ Prompted(r)
  /\ ~Kept("assistant", r)
  /\ log' = Append(log, Message("assistant", r, n))
  /\ UNCHANGED text

Next ==
  \E r \in Request :
    \/ \E m \in Text : Say(r, m)
    \/ KeepPrompt(r)
    \/ \E n \in 1..Chunks : KeepAnswer(r, n)

Spec == Init /\ [][Next]_<<text, log>>
=============================================================================
