------------------------------ MODULE ChatView ------------------------------
(***************************************************************************)
(* The chat page: frontend/src/views/Chat.vue and the socket of a turn,    *)
(* frontend/src/composables/useChatSocket.js.  What interleaves are the    *)
(* events of the turn's socket, the answers to GET .../messages (they come *)
(* in any order), and the user, who sends, picks a conversation, or uses   *)
(* the browser's back button, which no guard of the page can refuse.       *)
(*                                                                         *)
(* Every handler runs to its end, with the watchers it triggers, before    *)
(* the next.  The server is the order of events that                       *)
(* _run_streaming_turn and the sink of the graph allow on the wire.        *)
(***************************************************************************)
EXTENDS Naturals, Sequences

CONSTANTS
    Sessions,   \* conversations the page can show
    MaxTurns,   \* bound: messages the user sends
    MaxEvents,  \* bound: frames the server sends in one turn, the last excepted
    MaxLoads    \* bound: conversations loaded

ASSUME BoundsAssumption == MaxTurns \in Nat /\ MaxEvents \in Nat /\ MaxLoads \in Nat \ {0}

VARIABLES
    sessionId,      \* the conversation shown, from the route
    messages,       \* the transcript, entries in order
    currentAnswer,  \* the bubble that takes deltas: its index, None or Detached
    turnInFlight,
    historyLoading,
    requests,       \* GET .../messages in progress, by conversation
    status,         \* useChatSocket's status
    turnSettled,    \* the turn's last frame has arrived
    server,         \* what the server is doing for the turn
    turn,           \* number of the last turn sent
    events,         \* frames of this turn so far; bounds the instance
    loads           \* conversations loaded so far; bounds the instance

pageVars == <<messages, currentAnswer, turnInFlight>>
loadVars == <<sessionId, historyLoading, requests, loads>>
socketVars == <<status, turnSettled, server, turn, events>>
vars == <<pageVars, loadVars, socketVars>>

None == 0
\* A bubble that is no longer in the transcript.
Detached == 1 + MaxTurns * (MaxEvents + 2) + MaxTurns

Status == {"idle", "connecting", "streaming", "unauthorized", "error"}

\* open: a card that is pending, a bubble that is streaming.  filledBy: the turn
\* whose tool_call_result a card shows.
Entry == [type : {"user", "tool", "answer", "error", "history"},
          turn : 0 .. MaxTurns, open : BOOLEAN, filledBy : 0 .. MaxTurns]

NewEntry(type, isOpen) ==
    [type |-> type, turn |-> turn, open |-> isOpen, filledBy |-> None]

\* Replayed messages; every tool card among them is "done".
History == <<[type |-> "history", turn |-> 0, open |-> FALSE, filledBy |-> None]>>

Init ==
    /\ sessionId \in Sessions
    /\ messages = <<>>
    /\ currentAnswer = None
    /\ turnInFlight = FALSE
    /\ historyLoading = TRUE
    /\ requests = [s \in Sessions |-> IF s = sessionId THEN 1 ELSE 0]
    /\ status = "idle"
    /\ turnSettled = FALSE
    /\ server = "none"
    /\ turn = 0
    /\ events = 0
    /\ loads = 1

(***************************************************************************)
(* Conversations.                                                          *)
(***************************************************************************)
\* Faulty variant: the bubble of the transcript that is gone is kept.
SameBubble == currentAnswer
NoBubble == None

\* The watcher of the route and loadSessionHistory, up to its await.
LoadSessionHistory(s) ==
    /\ loads < MaxLoads
    /\ loads' = loads + 1
    /\ sessionId' = s
    /\ messages' = <<>>
    /\ currentAnswer' = NoBubble
    /\ historyLoading' = TRUE
    /\ requests' = [requests EXCEPT ![s] = @ + 1]
    /\ UNCHANGED <<turnInFlight, socketVars>>

SelectSession(s) ==
    /\ ~ turnInFlight /\ ~ historyLoading
    /\ s # sessionId
    /\ LoadSessionHistory(s)

\* startNewChat: a conversation without messages, loaded like any other.
StartNewChat(s) ==
    /\ ~ turnInFlight
    /\ s # sessionId
    /\ LoadSessionHistory(s)

\* Back, forward, a pasted link.
Navigate(s) ==
    /\ s # sessionId
    /\ LoadSessionHistory(s)

\* The answer replaces the transcript, whichever conversation is shown by now.
HistoryArrives(s) ==
    /\ requests[s] > 0
    /\ requests' = [requests EXCEPT ![s] = @ - 1]
    /\ messages' = History
    /\ currentAnswer' = IF currentAnswer = None THEN None ELSE Detached
    /\ historyLoading' = FALSE
    /\ UNCHANGED <<sessionId, turnInFlight, loads, socketVars>>

HistoryFails(s) ==
    /\ requests[s] > 0
    /\ requests' = [requests EXCEPT ![s] = @ - 1]
    /\ historyLoading' = FALSE
    /\ UNCHANGED <<sessionId, loads, pageVars, socketVars>>

(***************************************************************************)
(* Sending.                                                                *)
(***************************************************************************)
InFlight == status \in {"connecting", "streaming"}

CanSend == ~ InFlight /\ ~ turnInFlight

SendMessage ==
    /\ CanSend
    /\ turn < MaxTurns
    /\ turn' = turn + 1
    /\ messages' = Append(messages, [NewEntry("user", FALSE) EXCEPT !.turn = turn + 1])
    /\ turnInFlight' = TRUE
    /\ turnSettled' = FALSE
    /\ status' = "connecting"
    /\ server' = "handshake"
    /\ events' = 0
    /\ UNCHANGED <<currentAnswer, loadVars>>

\* onopen: the frame is sent and the server starts the turn.
Opened ==
    /\ server = "handshake"
    /\ status' = "streaming"
    /\ server' = "agent"
    /\ UNCHANGED <<turnSettled, turn, events, pageVars, loadVars>>

(***************************************************************************)
(* Events of the turn.                                                     *)
(***************************************************************************)
Frame(from, to) ==
    /\ server \in from
    /\ events < MaxEvents
    /\ events' = events + 1
    /\ server' = to
    /\ UNCHANGED <<status, turnSettled, turn, turnInFlight, loadVars>>

ToolStart ==
    /\ Frame({"agent", "told", "answered"}, "tool")
    /\ messages' = Append(messages, NewEntry("tool", TRUE))
    /\ UNCHANGED currentAnswer

PendingCards(list) == {i \in DOMAIN list : list[i].type = "tool" /\ list[i].open}

\* Faulty variant: the search starts at the top of the transcript.
OldestPending(cards) == CHOOSE i \in cards : \A j \in cards : i <= j

\* The search for the card runs backwards.
LastPending(cards) == CHOOSE i \in cards : \A j \in cards : j <= i

\* The card is filled; without a pending card a finished one is added.
ToolResult ==
    /\ Frame({"tool"}, "told")
    /\ LET cards == PendingCards(messages)
           card == LastPending(cards)
       IN  messages' =
             IF cards = {}
             THEN Append(messages, [NewEntry("tool", FALSE) EXCEPT !.filledBy = turn])
             ELSE [messages EXCEPT ![card] = [@ EXCEPT !.open = FALSE, !.filledBy = turn]]
    /\ UNCHANGED currentAnswer

\* The first delta of a segment opens a bubble; the next ones grow it.
AnswerDelta ==
    /\ Frame({"agent", "told", "answering"}, "answering")
    /\ IF currentAnswer = None
       THEN /\ messages' = Append(messages, NewEntry("answer", TRUE))
            /\ currentAnswer' = Len(messages) + 1
       ELSE UNCHANGED <<messages, currentAnswer>>

CloseAnswer ==
    IF currentAnswer \in DOMAIN messages
    THEN [messages EXCEPT ![currentAnswer] = [@ EXCEPT !.open = FALSE]]
    ELSE messages

\* The segment is complete: tool calls follow it, or the turn ends.
AnswerDone ==
    /\ Frame({"answering"}, "answered")
    /\ messages' = CloseAnswer
    /\ currentAnswer' = None

\* The frame that ends the turn; the page closes the socket.
SessionState ==
    /\ server \in {"agent", "told", "answered"}
    /\ server' = "closing"
    /\ turnSettled' = TRUE
    /\ turnInFlight' = FALSE
    /\ UNCHANGED <<status, turn, events, messages, currentAnswer, loadVars>>

\* Faulty variant: the bubble is left as it is.
ErrorOnly == Append(messages, NewEntry("error", FALSE))

\* finalizeTurnWithError.
WithError == Append(CloseAnswer, NewEntry("error", FALSE))

FinalizeTurnWithError ==
    /\ messages' = WithError
    /\ currentAnswer' = None
    /\ turnInFlight' = FALSE

\* An "error" frame: a refused session, or the turn failed at any point.
TurnError ==
    /\ server \in {"agent", "tool", "told", "answering", "answered"}
    /\ server' = "closing"
    /\ turnSettled' = TRUE
    /\ FinalizeTurnWithError
    /\ UNCHANGED <<status, turn, events, loadVars>>

(***************************************************************************)
(* onclose.                                                                *)
(***************************************************************************)
\* Faulty variant: a close without a last frame looks like any other.
AlwaysIdle(unauthorized) == "idle"

StatusAfterClose(unauthorized) ==
    IF turnSettled THEN "idle" ELSE IF unauthorized THEN "unauthorized" ELSE "error"

\* Faulty variant: only a turn that was answering is given up.
WasAnswering == currentAnswer # None
TurnToGiveUp == turnInFlight

\* The watcher of status acts on "error", and on nothing else.
Closed(unauthorized) ==
    /\ status' = StatusAfterClose(unauthorized)
    /\ server' = "none"
    /\ IF status' = "error" /\ TurnToGiveUp
       THEN FinalizeTurnWithError
       ELSE UNCHANGED pageVars
    /\ UNCHANGED <<turnSettled, turn, events, loadVars>>

\* The handshake is refused because the token is missing or has expired.  The page
\* sees code 4401, or 1006 if what serves the app turned the refusal into an HTTP one.
Refused ==
    /\ server = "handshake"
    /\ \E unauthorized \in BOOLEAN : Closed(unauthorized)

\* The network or the server went away.
Dropped ==
    /\ server \in {"handshake", "agent", "tool", "told", "answering", "answered"}
    /\ Closed(FALSE)

\* The page's own close, after the last frame.
ClosedByPage == server = "closing" /\ Closed(FALSE)

User ==
    \/ SendMessage
    \/ \E s \in Sessions : SelectSession(s) \/ StartNewChat(s) \/ Navigate(s)

LastFrame == SessionState \/ TurnError

Socket ==
    \/ Opened
    \/ ToolStart \/ ToolResult
    \/ AnswerDelta \/ AnswerDone
    \/ LastFrame
    \/ Refused \/ Dropped \/ ClosedByPage

Next ==
    \/ User
    \/ Socket
    \/ \E s \in Sessions : HistoryArrives(s) \/ HistoryFails(s)

Spec == Init /\ [][Next]_vars

\* A handshake succeeds or fails, a turn's frames come to an end (the graph has a
\* round limit, a lost connection is noticed in the end) and a socket that is being
\* closed closes.  The user is under no obligation.
Fairness == WF_vars(Socket)

FairSpec == Spec /\ Fairness

-----------------------------------------------------------------------------
(***************************************************************************)
(* Properties.                                                             *)
(***************************************************************************)
\* Every variable stays in its type.
TypeOK ==
    /\ sessionId \in Sessions
    /\ messages \in Seq(Entry)
    /\ currentAnswer \in {None, Detached} \cup DOMAIN messages
    /\ turnInFlight \in BOOLEAN
    /\ historyLoading \in BOOLEAN
    /\ requests \in [Sessions -> 0 .. MaxLoads]
    /\ status \in Status
    /\ turnSettled \in BOOLEAN
    /\ server \in {"none", "handshake", "agent", "tool", "told", "answering",
                   "answered", "closing"}
    /\ turn \in 0 .. MaxTurns
    /\ events \in 0 .. MaxEvents
    /\ loads \in 0 .. MaxLoads

\* When no turn is in flight no bubble is left with a blinking cursor, wherever in
\* its segment the turn died and whatever the user loaded meanwhile: what
\* finalizeTurnWithError is for.
NoCursorLeft ==
    ~ turnInFlight =>
        \A i \in DOMAIN messages : messages[i].type = "answer" => ~ messages[i].open

\* A tool result is never shown in a card of another turn, although a turn that
\* failed leaves its card pending and results carry no id.
ResultsInTheirCards ==
    \A i \in DOMAIN messages :
        messages[i].type = "tool" /\ messages[i].filledBy # None
            => messages[i].filledBy = messages[i].turn

\* After a connection that failed the user can send again: no error, in any order
\* with a last frame, leaves the composer disabled for ever.
SendableAfterError == status = "error" => CanSend

\* A turn that was sent ends, or the login has expired.
TurnEnds == turnInFlight ~> ~ turnInFlight \/ status = "unauthorized"
=============================================================================
