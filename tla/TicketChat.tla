------------------------------ MODULE TicketChat ------------------------------
(***************************************************************************)
(* The per-ticket conversations of cmd/cwv2/ticketchat.go.  send stores    *)
(* the user's turn and a pending turn of the agent and starts a goroutine; *)
(* the goroutine asks the agent, may post the answer as a Jira comment and *)
(* replaces the pending turn.  A conversation is a file rewritten as a     *)
(* whole; the running map keeps one goroutine per ticket.                  *)
(*                                                                         *)
(* A message is its number; the answer to it carries the same number.      *)
(***************************************************************************)
EXTENDS Naturals, Sequences, Functions

CONSTANTS
    Keys,           \* tickets
    None,
    MaxSends,       \* bound on messages
    MaxFaults       \* bound on crashes

VARIABLES
    chat,       \* ticket-chats/<key>.json
    running,    \* ticketChat.running
    agent,      \* the goroutine of each ticket
    comments,   \* the messages whose answer is a comment of the ticket
    sends, faults,
    abandoned   \* history: the messages whose goroutine a crash ended

vars == <<chat, running, agent, comments, sends, faults, abandoned>>

Messages == 1..MaxSends
Texts == {"", "error", "no_answer", "answer"}

TypeOK ==
    /\ \A k \in Keys : Range(chat[k]) \subseteq
          [role : {"user", "agent"}, of : Messages \cup {None}, text : Texts, pending : BOOLEAN, saved : BOOLEAN]
    /\ running \subseteq Keys /\ DOMAIN agent = Keys
    /\ comments \subseteq Messages /\ abandoned \subseteq Messages
    /\ sends \in 0..MaxSends /\ faults \in 0..MaxFaults

Init ==
    /\ chat = [k \in Keys |-> <<>>] /\ running = {} /\ agent = [k \in Keys |-> None]
    /\ comments = {} /\ sends = 0 /\ faults = 0 /\ abandoned = {}

-----------------------------------------------------------------------------

UserTurn(n) == [role |-> "user", of |-> n, text |-> "", pending |-> FALSE, saved |-> FALSE]
AgentTurn == [role |-> "agent", of |-> None, text |-> "", pending |-> TRUE, saved |-> FALSE]

\* send: refused while the previous message is being worked on.
Send(k, investigate) ==
    /\ sends < MaxSends /\ k \notin running
    /\ sends' = sends + 1
    /\ chat' = [chat EXCEPT ![k] = @ \o <<UserTurn(sends'), AgentTurn>>]
    /\ running' = running \cup {k}
    /\ agent' = [agent EXCEPT ![k] = [pc |-> "load", of |-> sends', investigate |-> investigate]]
    /\ UNCHANGED <<comments, faults, abandoned>>

At(k, pc) == agent[k] # None /\ agent[k].pc = pc
Goes(k, r) == agent' = [agent EXCEPT ![k] = r]

ToFinish(a, text, saved) == [pc |-> "finish", of |-> a.of, text |-> text, saved |-> saved]

\* run: GetIssue; without the ticket the turn ends with the error.
LoadTicket(k) ==
    /\ At(k, "load")
    /\ \/ Goes(k, [agent[k] EXCEPT !.pc = "ask"])
       \/ Goes(k, ToFinish(agent[k], "error", FALSE))
    /\ UNCHANGED <<chat, running, comments, sends, faults, abandoned>>

\* runClaude: an answer, none, or an error or the timeout.  Only an investigation
\* that has something to say goes on to Jira.
Ask(k) ==
    /\ At(k, "ask")
    /\ \E text \in Texts \ {""} :
          Goes(k, IF text = "answer" /\ agent[k].investigate THEN [agent[k] EXCEPT !.pc = "comment"]
                  ELSE ToFinish(agent[k], text, FALSE))
    /\ UNCHANGED <<chat, running, comments, sends, faults, abandoned>>

\* AddComment; its error may come after Jira took the comment.
Comment(k) ==
    /\ At(k, "comment")
    /\ \/ comments' = comments \cup {agent[k].of} /\ Goes(k, ToFinish(agent[k], "answer", TRUE))
       \/ comments' \in {comments, comments \cup {agent[k].of}} /\ Goes(k, ToFinish(agent[k], "answer", FALSE))
    /\ UNCHANGED <<chat, running, sends, faults, abandoned>>

Pending(ms) == {i \in DOMAIN ms : ms[i].role = "agent" /\ ms[i].pending}

Answered(ms, i, a) ==
    [ms EXCEPT ![i] = [@ EXCEPT !.of = a.of, !.text = a.text, !.pending = FALSE, !.saved = a.saved]]

\* The first pending turn is taken.
ReplacedFirst(ms, a) ==
    IF Pending(ms) = {} THEN ms
    ELSE Answered(ms, CHOOSE i \in Pending(ms) : \A j \in Pending(ms) : i <= j, a)

\* The last pending turn becomes the result.
Replaced(ms, a) ==
    IF Pending(ms) = {} THEN ms
    ELSE Answered(ms, CHOOSE i \in Pending(ms) : \A j \in Pending(ms) : j <= i, a)

\* finish
Finish(k) ==
    /\ At(k, "finish")
    /\ chat' = [chat EXCEPT ![k] = Replaced(@, agent[k])]
    /\ Goes(k, [pc |-> "done", of |-> agent[k].of])
    /\ UNCHANGED <<running, comments, sends, faults, abandoned>>

\* The deferred delete.
Done(k) ==
    /\ At(k, "done")
    /\ running' = running \ {k} /\ Goes(k, None)
    /\ UNCHANGED <<chat, comments, sends, faults, abandoned>>

\* The process dies: the goroutines go, pending turns stay, and a conversation
\* that was being written is cut short and reads as none.
Crash ==
    /\ faults < MaxFaults /\ faults' = faults + 1
    /\ running' = {} /\ agent' = [k \in Keys |-> None]
    /\ abandoned' = abandoned \cup {agent[k].of : k \in {j \in Keys : agent[j] # None}}
    /\ \/ UNCHANGED chat
       \/ \E k \in Keys : At(k, "finish") /\ chat' = [chat EXCEPT ![k] = <<>>]
    /\ UNCHANGED <<comments, sends>>

Next ==
    \/ Crash
    \/ \E k \in Keys : \/ \E investigate \in BOOLEAN : Send(k, investigate)
                       \/ LoadTicket(k) \/ Ask(k) \/ Comment(k) \/ Finish(k) \/ Done(k)

Spec == Init /\ [][Next]_vars

-----------------------------------------------------------------------------
(* Properties. *)

\* Every agent turn follows the user turn it belongs to: its result is the answer
\* to that message and a turn marked saved has its comment in Jira; a turn is
\* pending only while its goroutine works or after a crash ended it (finish:
\* "replaces the last pending agent turn", restarts leave older ones behind).
AnswersInPlace ==
    \A k \in Keys : \A i \in DOMAIN chat[k] : chat[k][i].role = "agent" =>
        LET asked == chat[k][i - 1] IN
        /\ i > 1 /\ asked.role = "user"
        /\ IF chat[k][i].pending
           THEN asked.of \in abandoned \/ (agent[k] # None /\ agent[k].of = asked.of)
           ELSE chat[k][i].of = asked.of /\ (chat[k][i].saved => asked.of \in comments)
=============================================================================
