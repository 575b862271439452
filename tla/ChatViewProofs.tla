--------------------------- MODULE ChatViewProofs ---------------------------
(***************************************************************************)
(* Theorems about ChatView for any number of conversations, turns, frames  *)
(* and loads.                                                              *)
(*                                                                         *)
(* The page and the socket agree on whether a turn is under way            *)
(* (SocketInv).  An open bubble is the one that deltas go to, and is open  *)
(* only while the server is answering (CursorInv).  While a tool runs, the *)
(* last pending card, if any is left on the page, is the card of this turn *)
(* (CardInv): what was loaded meanwhile took all of them away.             *)
(***************************************************************************)
EXTENDS ChatView, SequenceTheorems, TLAPS

USE DEF NoBubble, TurnToGiveUp, LastPending, WithError, StatusAfterClose, CanSend
USE BoundsAssumption

Serving == {"handshake", "agent", "tool", "told", "answering", "answered"}

PageType ==
    /\ messages \in Seq(Entry)
    /\ currentAnswer \in {None, Detached} \cup DOMAIN messages

LoadType ==
    /\ sessionId \in Sessions
    /\ historyLoading \in BOOLEAN
    /\ loads \in 0 .. MaxLoads
    /\ requests \in [Sessions -> Nat]
    /\ \A s \in Sessions : requests[s] <= loads

SocketType ==
    /\ turnInFlight \in BOOLEAN
    /\ status \in Status
    /\ turnSettled \in BOOLEAN
    /\ server \in {"none", "closing"} \cup Serving
    /\ turn \in 0 .. MaxTurns
    /\ events \in 0 .. MaxEvents

TypeInv == PageType /\ LoadType /\ SocketType

SocketInv ==
    /\ server \in Serving => turnInFlight /\ ~ turnSettled
    /\ server = "closing" => turnSettled /\ ~ turnInFlight
    /\ server # "none" => InFlight
    /\ status = "error" => ~ turnInFlight

Blinking(list, k) == list[k].type = "answer" /\ list[k].open

CursorInv ==
    /\ \A k \in DOMAIN messages : Blinking(messages, k) => k = currentAnswer
    /\ server # "answering" => \A k \in DOMAIN messages : ~ Blinking(messages, k)

\* The last pending card of the list, if there is one, is of turn t.
LastIsOf(list, t) ==
    PendingCards(list) = {} \/ \E k \in PendingCards(list) :
                                   /\ \A j \in PendingCards(list) : j <= k
                                   /\ list[k].turn = t

CardInv ==
    /\ ResultsInTheirCards
    /\ server = "tool" => LastIsOf(messages, turn)

\* An entry put behind the transcript.
LEMMA AppendFacts ==
  ASSUME NEW list \in Seq(Entry), NEW e \in Entry
  PROVE  /\ Append(list, e) \in Seq(Entry)
         /\ Len(list) \in Nat /\ DOMAIN list = 1 .. Len(list)
         /\ DOMAIN Append(list, e) = DOMAIN list \cup {Len(list) + 1}
         /\ Append(list, e)[Len(list) + 1] = e
         /\ \A k \in DOMAIN list : Append(list, e)[k] = list[k] /\ k # Len(list) + 1
BY AppendProperties

\* Closing the bubble leaves every entry its type, its turn and its result.
LEMMA CloseFacts ==
  ASSUME TypeOK
  PROVE  /\ CloseAnswer \in Seq(Entry) /\ DOMAIN CloseAnswer = DOMAIN messages
         /\ \A k \in DOMAIN messages :
              /\ CloseAnswer[k].type = messages[k].type
              /\ CloseAnswer[k].turn = messages[k].turn
              /\ CloseAnswer[k].filledBy = messages[k].filledBy
              /\ CloseAnswer[k].open => messages[k].open
         /\ currentAnswer \in DOMAIN messages => ~ CloseAnswer[currentAnswer].open
<1>1. messages \in Seq(Entry) /\ DOMAIN messages = 1 .. Len(messages)
  BY DEF TypeOK
<1>2. \A k \in DOMAIN messages : messages[k] \in Entry
  BY <1>1
<1>3. CASE currentAnswer \notin DOMAIN messages
  BY <1>1, <1>3 DEF CloseAnswer
<1>4. CASE currentAnswer \in DOMAIN messages
  <2> DEFINE e == [messages[currentAnswer] EXCEPT !.open = FALSE]
  <2>1. /\ e \in Entry /\ e.open = FALSE
        /\ e.type = messages[currentAnswer].type /\ e.turn = messages[currentAnswer].turn
        /\ e.filledBy = messages[currentAnswer].filledBy
    BY <1>2, <1>4 DEF Entry
  <2>2. CloseAnswer = [messages EXCEPT ![currentAnswer] = e]
    BY <1>4 DEF CloseAnswer
  <2> HIDE DEF e
  <2>3. CloseAnswer \in Seq(Entry) /\ DOMAIN CloseAnswer = DOMAIN messages
    BY <1>1, <1>4, <2>1, <2>2, ExceptSeq
  <2> QED
    BY <1>1, <1>4, <2>1, <2>2, <2>3
<1> QED
  BY <1>3, <1>4

LEMMA EntryFacts ==
  ASSUME TypeOK, NEW type \in {"user", "tool", "answer", "error"}, NEW o \in BOOLEAN
  PROVE  /\ NewEntry(type, o) \in Entry
         /\ NewEntry(type, o).type = type /\ NewEntry(type, o).open = o
         /\ NewEntry(type, o).turn = turn /\ NewEntry(type, o).filledBy = None
BY DEF NewEntry, Entry, TypeOK, None

LEMMA Steps ==
  ASSUME Next
  PROVE  \/ SendMessage
         \/ \E s \in Sessions : LoadSessionHistory(s) \/ HistoryArrives(s) \/ HistoryFails(s)
         \/ Opened \/ ToolStart \/ ToolResult \/ AnswerDelta \/ AnswerDone
         \/ SessionState \/ TurnError
         \/ \E refused \in BOOLEAN : /\ Closed(refused)
                                     /\ server \in Serving \cup {"closing"}
                                     /\ refused => server = "handshake"
BY DEF Next, User, Socket, LastFrame, SelectSession, StartNewChat, Navigate,
   Refused, Dropped, ClosedByPage, Serving

-----------------------------------------------------------------------------
\* Giving a turn up closes its bubble and moves no result.
LEMMA GivenUp ==
  ASSUME TypeOK, FinalizeTurnWithError
  PROVE  /\ messages' \in Seq(Entry) /\ currentAnswer' = None /\ turnInFlight' = FALSE
         /\ CursorInv => \A k \in DOMAIN messages' : ~ Blinking(messages', k)
         /\ ResultsInTheirCards => ResultsInTheirCards'
<1> DEFINE e == NewEntry("error", FALSE)
<1>1. messages' = Append(CloseAnswer, e) /\ currentAnswer' = None /\ turnInFlight' = FALSE
  BY DEF FinalizeTurnWithError
<1>2. e \in Entry /\ e.type = "error"
  BY EntryFacts
<1> HIDE DEF e
<1>3. /\ CloseAnswer \in Seq(Entry) /\ DOMAIN CloseAnswer = DOMAIN messages
      /\ \A k \in DOMAIN messages :
           /\ CloseAnswer[k].type = messages[k].type
           /\ CloseAnswer[k].turn = messages[k].turn
           /\ CloseAnswer[k].filledBy = messages[k].filledBy
           /\ CloseAnswer[k].open => messages[k].open
      /\ currentAnswer \in DOMAIN messages => ~ CloseAnswer[currentAnswer].open
  BY CloseFacts
<1> DEFINE c == CloseAnswer
<1> HIDE DEF c
<1>4. /\ messages' \in Seq(Entry)
      /\ \A k \in DOMAIN messages' : \/ messages'[k] = e
                                     \/ k \in DOMAIN messages /\ messages'[k] = c[k]
  BY <1>1, <1>2, <1>3, AppendFacts DEF c
<1>5. CursorInv => \A k \in DOMAIN messages : ~ Blinking(c, k)
  BY <1>3 DEF CursorInv, Blinking, c
<1>6. ASSUME CursorInv, NEW k \in DOMAIN messages'
      PROVE  ~ Blinking(messages', k)
  BY <1>2, <1>4, <1>5, <1>6 DEF Blinking
<1>7. ResultsInTheirCards => ResultsInTheirCards'
  BY <1>2, <1>3, <1>4 DEF ResultsInTheirCards, c
<1> QED
  BY <1>1, <1>4, <1>6, <1>7

\* What a result does to the transcript, whichever card it finds.
LEMMA ResultFacts ==
  ASSUME TypeOK, ToolResult, LastIsOf(messages, turn)
  PROVE  /\ messages' \in Seq(Entry) /\ DOMAIN messages \subseteq DOMAIN messages'
         /\ \A k \in DOMAIN messages' : messages'[k].type = "answer" =>
              k \in DOMAIN messages /\ messages'[k] = messages[k]
         /\ ResultsInTheirCards => ResultsInTheirCards'
<1> DEFINE cards == PendingCards(messages)
<1>1. messages \in Seq(Entry) /\ DOMAIN messages = 1 .. Len(messages) /\ turn \in 0 .. MaxTurns
  BY DEF TypeOK
<1>2. CASE cards = {}
  <2> DEFINE e == [NewEntry("tool", FALSE) EXCEPT !.filledBy = turn]
  <2>1. e \in Entry /\ e.type = "tool" /\ e.filledBy = turn /\ e.turn = turn
    BY <1>1 DEF NewEntry, Entry, None
  <2>2. messages' = Append(messages, e)
    BY <1>2 DEF ToolResult
  <2> HIDE DEF e
  <2>3. /\ messages' \in Seq(Entry) /\ DOMAIN messages \subseteq DOMAIN messages'
        /\ \A k \in DOMAIN messages' : \/ messages'[k] = e
                                       \/ k \in DOMAIN messages /\ messages'[k] = messages[k]
    BY <1>1, <2>1, <2>2, AppendFacts
  <2> QED
    BY <2>1, <2>3 DEF ResultsInTheirCards
<1>3. CASE cards # {}
  <2> DEFINE card == CHOOSE k \in cards : \A j \in cards : j <= k
             e == [messages[card] EXCEPT !.open = FALSE, !.filledBy = turn]
  <2>1. messages' = [messages EXCEPT ![card] = e]
    BY <1>3 DEF ToolResult
  <2>2. card \in cards /\ messages[card].turn = turn
    <3>1. PICK k \in cards : (\A j \in cards : j <= k) /\ messages[k].turn = turn
      BY <1>3 DEF LastIsOf
    <3>2. card \in cards /\ \A j \in cards : j <= card
      BY <3>1
    <3>3. card = k
      BY <1>1, <3>1, <3>2 DEF PendingCards
    <3> QED
      BY <3>1, <3>2, <3>3
  <2> HIDE DEF card
  <2>3. card \in DOMAIN messages /\ messages[card] \in Entry /\ messages[card].type = "tool"
    BY <1>1, <2>2 DEF PendingCards
  <2>4. e \in Entry /\ e.type = "tool" /\ e.filledBy = turn /\ e.turn = turn
    BY <1>1, <2>2, <2>3 DEF Entry
  <2> HIDE DEF e
  <2>5. messages' \in Seq(Entry) /\ DOMAIN messages' = DOMAIN messages
    BY <1>1, <2>1, <2>3, <2>4, ExceptSeq
  <2>6. \A k \in DOMAIN messages : messages'[k] = IF k = card THEN e ELSE messages[k]
    BY <1>1, <2>1, <2>3
  <2> QED
    BY <2>4, <2>5, <2>6 DEF ResultsInTheirCards
<1> QED
  BY <1>2, <1>3

LEMMA TypeInvIsEnough == TypeInv => TypeOK
<1> SUFFICES ASSUME TypeInv
             PROVE  TypeOK
  OBVIOUS
<1>1. requests \in [Sessions -> 0 .. MaxLoads]
  <2>1. ASSUME NEW s \in Sessions
        PROVE  requests[s] \in 0 .. MaxLoads
    <3>1. requests[s] \in Nat /\ loads \in 0 .. MaxLoads /\ requests[s] <= loads
      BY DEF TypeInv, LoadType
    <3> QED
      BY <3>1
  <2> QED
    BY <2>1 DEF TypeInv, LoadType
<1> QED
  BY <1>1 DEF TypeInv, PageType, LoadType, SocketType, TypeOK, Serving

LEMMA TypeInit == Init => TypeInv
<1> SUFFICES ASSUME Init
             PROVE  TypeInv
  OBVIOUS
<1>1. PageType
  BY EmptySeq DEF Init, PageType
<1>2. LoadType
  BY DEF Init, LoadType
<1>3. SocketType
  <2>1. turn \in 0 .. MaxTurns /\ events \in 0 .. MaxEvents
    BY DEF Init
  <2>2. turnInFlight \in BOOLEAN /\ turnSettled \in BOOLEAN
    BY DEF Init
  <2>3. status \in Status /\ server \in {"none", "closing"} \cup Serving
    BY DEF Init, Status
  <2> QED
    BY <2>1, <2>2, <2>3 DEF SocketType
<1> QED
  BY <1>1, <1>2, <1>3 DEF TypeInv

\* An entry put behind the transcript leaves it a transcript.
LEMMA AppendType ==
  ASSUME PageType, NEW e \in Entry, messages' = Append(messages, e),
         currentAnswer' \in {currentAnswer, Len(messages) + 1}
  PROVE  PageType'
<1>1. messages' \in Seq(Entry) /\ DOMAIN messages' = DOMAIN messages \cup {Len(messages) + 1}
  BY AppendFacts DEF PageType
<1>2. currentAnswer' \in {None, Detached} \cup DOMAIN messages'
  BY <1>1 DEF PageType
<1> QED
  BY <1>1, <1>2 DEF PageType

LEMMA FrameType ==
  ASSUME SocketType, NEW from, NEW to \in Serving, Frame(from, to)
  PROVE  SocketType' /\ UNCHANGED loadVars
BY DEF SocketType, Frame

LEMMA TypeNext == TypeInv /\ CardInv /\ [Next]_vars => TypeInv'
<1> SUFFICES ASSUME TypeInv, CardInv, [Next]_vars
             PROVE  TypeInv'
  OBVIOUS
<1>0. /\ PageType /\ LoadType /\ SocketType /\ TypeOK
      /\ (UNCHANGED loadVars => LoadType')
      /\ (UNCHANGED <<messages, currentAnswer>> => PageType')
      /\ (UNCHANGED <<turnInFlight, socketVars>> => SocketType')
  <2>1. PageType /\ LoadType /\ SocketType /\ TypeOK
    BY TypeInvIsEnough DEF TypeInv
  <2>2. UNCHANGED loadVars => LoadType'
    BY <2>1 DEF loadVars, LoadType
  <2>3. UNCHANGED <<messages, currentAnswer>> => PageType'
    BY <2>1 DEF PageType, Detached, None
  <2>4. UNCHANGED <<turnInFlight, socketVars>> => SocketType'
    BY <2>1 DEF socketVars, SocketType
  <2> QED
    BY <2>1, <2>2, <2>3, <2>4
<1>a. UNCHANGED pageVars => UNCHANGED <<messages, currentAnswer>> /\ UNCHANGED turnInFlight
  BY DEF pageVars
<1> SUFFICES PageType' /\ LoadType' /\ SocketType'
  BY DEF TypeInv
<1>1. CASE UNCHANGED vars
  BY <1>0, <1>1 DEF vars, pageVars
<1>2. CASE SendMessage
  <2> DEFINE e == [NewEntry("user", FALSE) EXCEPT !.turn = turn + 1]
  <2>1. e \in Entry
    <3>1. turn + 1 \in 0 .. MaxTurns
      BY <1>0, <1>2 DEF SendMessage, SocketType
    <3>2. NewEntry("user", FALSE) \in Entry
      BY <1>0, EntryFacts
    <3> QED
      BY <3>1, <3>2 DEF Entry
  <2>2. messages' = Append(messages, e) /\ currentAnswer' = currentAnswer /\ UNCHANGED loadVars
    BY <1>2 DEF SendMessage
  <2> HIDE DEF e
  <2>3. PageType'
    BY <1>0, <2>1, <2>2, AppendType
  <2>4. turn' \in 0 .. MaxTurns /\ events' \in 0 .. MaxEvents
    BY <1>0, <1>2 DEF SendMessage, SocketType
  <2>5. /\ turnInFlight' \in BOOLEAN /\ turnSettled' \in BOOLEAN
        /\ status' \in Status /\ server' \in {"none", "closing"} \cup Serving
    BY <1>2 DEF SendMessage, Status, Serving
  <2>6. SocketType'
    BY <2>4, <2>5 DEF SocketType
  <2> QED
    BY <1>0, <2>2, <2>3, <2>6
<1>3. CASE \E s \in Sessions : LoadSessionHistory(s)
  <2>1. PICK s \in Sessions : LoadSessionHistory(s)
    BY <1>3
  <2>2. messages' = <<>> /\ currentAnswer' = None /\ UNCHANGED <<turnInFlight, socketVars>>
    BY <2>1 DEF LoadSessionHistory
  <2>3. PageType'
    BY <2>2, EmptySeq DEF PageType
  <2>4. LoadType'
    BY <1>0, <2>1 DEF LoadSessionHistory, LoadType
  <2> QED
    BY <1>0, <2>2, <2>3, <2>4
<1>4. CASE \E s \in Sessions : HistoryArrives(s) \/ HistoryFails(s)
  <2>1. PICK s \in Sessions : HistoryArrives(s) \/ HistoryFails(s)
    BY <1>4
  <2>2. LoadType'
    <3>1. /\ requests[s] > 0 /\ requests' = [requests EXCEPT ![s] = @ - 1]
          /\ historyLoading' = FALSE /\ UNCHANGED <<sessionId, loads>>
      BY <2>1 DEF HistoryArrives, HistoryFails
    <3>2. requests' \in [Sessions -> Nat] /\ \A r \in Sessions : requests'[r] <= loads
      BY <1>0, <3>1 DEF LoadType
    <3> QED
      BY <1>0, <3>1, <3>2 DEF LoadType
  <2>3. CASE HistoryArrives(s)
    <3> DEFINE e == [type |-> "history", turn |-> 0, open |-> FALSE, filledBy |-> None]
    <3>1. e \in Entry
      BY DEF Entry, None
    <3> HIDE DEF e
    <3>2. messages' = <<e>> /\ currentAnswer' \in {None, Detached}
          /\ UNCHANGED <<turnInFlight, socketVars>>
      BY <2>3 DEF HistoryArrives, History, e
    <3>3. PageType'
      BY <3>1, <3>2 DEF PageType
    <3> QED
      BY <1>0, <2>2, <3>2, <3>3
  <2>4. CASE HistoryFails(s)
    BY <1>0, <1>a, <2>2, <2>4 DEF HistoryFails
  <2> QED
    BY <2>1, <2>3, <2>4
<1>5. CASE Opened
  <2>1. SocketType' /\ UNCHANGED pageVars /\ UNCHANGED loadVars
    BY <1>0, <1>5, <1>a DEF Opened, SocketType, Status, Serving
  <2> QED
    BY <1>0, <1>a, <2>1
<1>6. CASE ToolStart
  <2>1. /\ Frame({"agent", "told", "answered"}, "tool")
        /\ messages' = Append(messages, NewEntry("tool", TRUE)) /\ currentAnswer' = currentAnswer
    BY <1>6 DEF ToolStart
  <2>2. NewEntry("tool", TRUE) \in Entry
    BY <1>0, EntryFacts
  <2>3. PageType'
    BY <1>0, <2>1, <2>2, AppendType
  <2> QED
    BY <1>0, <2>1, <2>3, FrameType DEF Serving
<1>7. CASE ToolResult
  <2>1. Frame({"tool"}, "told") /\ currentAnswer' = currentAnswer
    BY <1>7 DEF ToolResult
  <2>2. messages' \in Seq(Entry) /\ DOMAIN messages \subseteq DOMAIN messages'
    BY <1>0, <1>7, <2>1, ResultFacts DEF CardInv, Frame
  <2>3. PageType'
    BY <1>0, <2>1, <2>2 DEF PageType, Detached, None
  <2> QED
    BY <1>0, <2>1, <2>3, FrameType DEF Serving
<1>8. CASE AnswerDelta
  <2>1. Frame({"agent", "told", "answering"}, "answering")
    BY <1>8 DEF AnswerDelta
  <2>2. CASE currentAnswer = None
    <3>1. /\ messages' = Append(messages, NewEntry("answer", TRUE))
          /\ currentAnswer' = Len(messages) + 1
      BY <1>8, <2>2 DEF AnswerDelta
    <3>2. NewEntry("answer", TRUE) \in Entry
      BY <1>0, EntryFacts
    <3>3. PageType'
      BY <1>0, <3>1, <3>2, AppendType
    <3> QED
      BY <1>0, <2>1, <3>3, FrameType DEF Serving
  <2>3. CASE currentAnswer # None
    <3>1. UNCHANGED <<messages, currentAnswer>>
      BY <1>8, <2>3 DEF AnswerDelta
    <3> QED
      BY <1>0, <2>1, <3>1, FrameType DEF Serving
  <2> QED
    BY <2>2, <2>3
<1>9. CASE AnswerDone
  <2>1. /\ Frame({"answering"}, "answered")
        /\ messages' = CloseAnswer /\ currentAnswer' = None /\ messages' \in Seq(Entry)
    BY <1>0, <1>9, CloseFacts DEF AnswerDone
  <2>2. PageType'
    BY <2>1 DEF PageType
  <2> QED
    BY <1>0, <2>1, <2>2, FrameType DEF Serving
<1>10. CASE SessionState
  <2>1. SocketType' /\ UNCHANGED <<messages, currentAnswer>> /\ UNCHANGED loadVars
    BY <1>0, <1>10 DEF SessionState, SocketType
  <2> QED
    BY <1>0, <2>1
<1>11. CASE TurnError
  <2>1. messages' \in Seq(Entry) /\ currentAnswer' = None /\ turnInFlight' = FALSE
    BY <1>0, <1>11, GivenUp DEF TurnError
  <2>2. PageType'
    BY <2>1 DEF PageType
  <2>3. SocketType' /\ UNCHANGED loadVars
    BY <1>0, <1>11, <2>1 DEF TurnError, SocketType
  <2> QED
    BY <1>0, <2>2, <2>3
<1>12. CASE \E refused \in BOOLEAN : Closed(refused)
  <2>1. PICK refused \in BOOLEAN : Closed(refused)
    BY <1>12
  <2>2. /\ status' \in Status /\ server' = "none"
        /\ UNCHANGED <<turnSettled, turn, events>> /\ UNCHANGED loadVars
    BY <2>1 DEF Closed, Status
  <2>3. CASE FinalizeTurnWithError
    <3>1. messages' \in Seq(Entry) /\ currentAnswer' = None /\ turnInFlight' = FALSE
      BY <1>0, <2>3, GivenUp
    <3>2. PageType'
      BY <3>1 DEF PageType
    <3>3. SocketType'
      BY <1>0, <2>2, <3>1 DEF SocketType
    <3> QED
      BY <1>0, <2>2, <3>2, <3>3
  <2>4. CASE UNCHANGED pageVars
    <3>1. SocketType'
      BY <1>0, <1>a, <2>2, <2>4 DEF SocketType
    <3> QED
      BY <1>0, <1>a, <2>2, <2>4, <3>1
  <2> QED
    BY <2>1, <2>3, <2>4 DEF Closed
<1> QED
  BY <1>1, <1>2, <1>3, <1>4, <1>5, <1>6, <1>7, <1>8, <1>9, <1>10, <1>11, <1>12, Steps

-----------------------------------------------------------------------------
LEMMA SocketNext == SocketInv /\ [Next]_vars => SocketInv'
<1> SUFFICES ASSUME SocketInv, [Next]_vars
             PROVE  SocketInv'
  OBVIOUS
<1> USE DEF SocketInv, InFlight
<1>1. CASE UNCHANGED vars
  BY <1>1 DEF vars, pageVars, socketVars
<1>2. CASE SendMessage
  BY <1>2 DEF SendMessage, Serving
<1>3. CASE \E s \in Sessions : LoadSessionHistory(s) \/ HistoryArrives(s) \/ HistoryFails(s)
  BY <1>3 DEF LoadSessionHistory, HistoryArrives, HistoryFails, pageVars, socketVars
<1>4. CASE Opened
  BY <1>4 DEF Opened, pageVars, Serving
<1>5. CASE ToolStart \/ ToolResult \/ AnswerDelta \/ AnswerDone
  <2>1. /\ server \in Serving /\ server' \in Serving
        /\ UNCHANGED <<status, turnSettled, turnInFlight>>
    BY <1>5 DEF ToolStart, ToolResult, AnswerDelta, AnswerDone, Frame, Serving
  <2>2. InFlight /\ turnInFlight /\ ~ turnSettled
    BY <2>1 DEF Serving
  <2> QED
    BY <2>1, <2>2 DEF Serving
<1>6. CASE SessionState \/ TurnError
  <2>1. /\ server \in Serving /\ server' = "closing"
        /\ turnSettled' = TRUE /\ turnInFlight' = FALSE /\ status' = status
    BY <1>6 DEF SessionState, TurnError, FinalizeTurnWithError, Serving
  <2> QED
    BY <2>1 DEF Serving
<1>7. CASE \E refused \in BOOLEAN : Closed(refused)
  <2>1. /\ server' = "none" /\ turnSettled' = turnSettled
        /\ \/ status' = "error" /\ turnInFlight /\ turnInFlight' = FALSE
           \/ ~ (status' = "error" /\ turnInFlight) /\ turnInFlight' = turnInFlight
    BY <1>7 DEF Closed, FinalizeTurnWithError, pageVars
  <2> QED
    BY <2>1 DEF Serving
<1> QED
  BY <1>1, <1>2, <1>3, <1>4, <1>5, <1>6, <1>7, Steps

\* No turn ends while its bubble blinks, unless it is given up.
LEMMA ClosedQuietly ==
  ASSUME SocketInv, NEW refused \in BOOLEAN, Closed(refused),
         refused => server = "handshake"
  PROVE  FinalizeTurnWithError \/ (server # "answering" /\ UNCHANGED pageVars)
<1>1. CASE server = "answering"
  <2>1. turnInFlight /\ ~ turnSettled /\ ~ refused
    BY <1>1 DEF SocketInv, Serving
  <2>2. status' = "error"
    BY <2>1 DEF Closed
  <2> QED
    BY <2>1, <2>2 DEF Closed
<1>2. CASE server # "answering"
  BY <1>2 DEF Closed
<1> QED
  BY <1>1, <1>2

LEMMA CursorNext ==
  TypeInv /\ SocketInv /\ CursorInv /\ CardInv /\ [Next]_vars => CursorInv'
<1> SUFFICES ASSUME TypeInv, SocketInv, CursorInv, CardInv, [Next]_vars
             PROVE  CursorInv'
  OBVIOUS
<1> DEFINE Quiet == \A k \in DOMAIN messages : ~ Blinking(messages, k)
<1>a. TypeOK /\ messages \in Seq(Entry)
  BY TypeInvIsEnough DEF TypeOK
<1>b. server # "answering" => Quiet
  BY DEF CursorInv
<1>c. Quiet' => CursorInv'
  BY DEF CursorInv
\* An entry that does not blink, put behind a quiet transcript.
<1>d. ASSUME NEW e \in Entry, e.type # "answer" \/ ~ e.open,
             Quiet, messages' = Append(messages, e)
      PROVE  Quiet'
  BY <1>a, <1>d, AppendFacts DEF Blinking
<1>1. CASE UNCHANGED vars
  <2>1. UNCHANGED <<messages, currentAnswer, server>>
    BY <1>1 DEF vars, pageVars, socketVars
  <2> QED
    BY <2>1 DEF CursorInv, Blinking
<1>2. CASE SendMessage
  <2> DEFINE e == [NewEntry("user", FALSE) EXCEPT !.turn = turn + 1]
  <2>1. e \in Entry /\ e.type = "user"
    <3>1. turn + 1 \in 0 .. MaxTurns
      BY <1>2 DEF SendMessage, TypeInv, SocketType
    <3>2. NewEntry("user", FALSE) \in Entry /\ NewEntry("user", FALSE).type = "user"
      BY <1>a, EntryFacts
    <3> QED
      BY <3>1, <3>2 DEF Entry
  <2>2. messages' = Append(messages, e) /\ ~ InFlight
    BY <1>2 DEF SendMessage
  <2> HIDE DEF e
  <2>3. Quiet
    BY <1>b, <2>2 DEF SocketInv
  <2> QED
    BY <1>c, <1>d, <2>1, <2>2, <2>3
<1>3. CASE \E s \in Sessions : LoadSessionHistory(s) \/ HistoryArrives(s)
  <2>1. messages' = <<>> \/ messages' = History
    BY <1>3 DEF LoadSessionHistory, HistoryArrives
  <2>2. Quiet'
    BY <2>1 DEF Blinking, History
  <2> QED
    BY <1>c, <2>2
<1>4. CASE (\E s \in Sessions : HistoryFails(s)) \/ Opened
  <2>1. UNCHANGED <<messages, currentAnswer>> /\ (server' = "answering" => server = "answering")
    BY <1>4 DEF HistoryFails, Opened, pageVars, socketVars
  <2>2. \A k \in DOMAIN messages' : Blinking(messages', k) => k = currentAnswer'
    BY <2>1 DEF CursorInv, Blinking
  <2>3. server' # "answering" => Quiet'
    <3>1. CASE server # "answering"
      BY <1>b, <2>1, <3>1 DEF Blinking
    <3>2. CASE server = "answering"
      BY <1>4, <3>2 DEF Opened, HistoryFails, socketVars
    <3> QED
      BY <3>1, <3>2
  <2> QED
    BY <2>2, <2>3 DEF CursorInv, Blinking
<1>5. CASE ToolStart
  <2>1. server # "answering" /\ messages' = Append(messages, NewEntry("tool", TRUE))
    BY <1>5 DEF ToolStart, Frame
  <2>2. NewEntry("tool", TRUE) \in Entry /\ NewEntry("tool", TRUE).type = "tool"
    BY <1>a, EntryFacts
  <2> QED
    BY <1>b, <1>c, <1>d, <2>1, <2>2
<1>6. CASE ToolResult
  <2>1. server = "tool"
    BY <1>6 DEF ToolResult, Frame
  <2>2. \A k \in DOMAIN messages' : messages'[k].type = "answer" =>
              k \in DOMAIN messages /\ messages'[k] = messages[k]
    BY <1>a, <1>6, <2>1, ResultFacts DEF CardInv
  <2>3. Quiet'
    BY <1>b, <2>1, <2>2 DEF Blinking
  <2> QED
    BY <1>c, <2>3
<1>7. CASE AnswerDelta
  <2>1. server' = "answering"
    BY <1>7 DEF AnswerDelta, Frame
  <2>2. CASE currentAnswer = None
    <3> DEFINE e == NewEntry("answer", TRUE)
    <3>1. messages' = Append(messages, e) /\ currentAnswer' = Len(messages) + 1
      BY <1>7, <2>2 DEF AnswerDelta
    <3>2. Quiet
      BY <1>a, <2>2 DEF CursorInv, None
    <3>3. e \in Entry
      BY <1>a, EntryFacts
    <3> HIDE DEF e
    <3>4. /\ DOMAIN messages' = DOMAIN messages \cup {currentAnswer'}
          /\ \A k \in DOMAIN messages : messages'[k] = messages[k]
      BY <1>a, <3>1, <3>3, AppendFacts
    <3>5. ASSUME NEW k \in DOMAIN messages', k # currentAnswer'
          PROVE  ~ Blinking(messages', k)
      <4>1. k \in DOMAIN messages /\ messages'[k] = messages[k]
        BY <3>4, <3>5
      <4> QED
        BY <3>2, <4>1 DEF Blinking
    <3> QED
      BY <2>1, <3>5 DEF CursorInv, Blinking
  <2>3. CASE currentAnswer # None
    <3>1. UNCHANGED <<messages, currentAnswer>>
      BY <1>7, <2>3 DEF AnswerDelta
    <3> QED
      BY <2>1, <3>1 DEF CursorInv, Blinking
  <2> QED
    BY <2>2, <2>3
<1>8. CASE AnswerDone
  <2>1. messages' = CloseAnswer
    BY <1>8 DEF AnswerDone
  <2>2. Quiet'
    BY <1>a, <2>1, CloseFacts DEF CursorInv, Blinking
  <2> QED
    BY <1>c, <2>2
<1>9. CASE SessionState
  <2>1. server # "answering" /\ UNCHANGED <<messages, currentAnswer>>
    BY <1>9 DEF SessionState
  <2>2. Quiet'
    BY <1>b, <2>1 DEF Blinking
  <2> QED
    BY <1>c, <2>2
<1>10. CASE TurnError
  BY <1>a, <1>c, <1>10, GivenUp DEF TurnError
<1>11. CASE \E refused \in BOOLEAN : Closed(refused) /\ (refused => server = "handshake")
  <2>1. CASE FinalizeTurnWithError
    BY <1>a, <1>c, <2>1, GivenUp
  <2>2. CASE server # "answering" /\ UNCHANGED pageVars
    <3>1. Quiet'
      BY <1>b, <2>2 DEF pageVars, Blinking
    <3> QED
      BY <1>c, <3>1
  <2> QED
    BY <1>11, <2>1, <2>2, ClosedQuietly
<1> QED
  BY <1>1, <1>2, <1>3, <1>4, <1>5, <1>6, <1>7, <1>8, <1>9, <1>10, <1>11, Steps

\* The card a tool has just opened is the last pending one.
LEMMA StartedLast ==
  ASSUME TypeOK, ToolStart
  PROVE  LastIsOf(messages', turn)
<1> DEFINE e == NewEntry("tool", TRUE)
           n == Len(messages) + 1
<1>1. messages \in Seq(Entry) /\ messages' = Append(messages, e)
  BY DEF TypeOK, ToolStart
<1>2. e \in Entry /\ e.type = "tool" /\ e.open = TRUE /\ e.turn = turn
  BY EntryFacts
<1> HIDE DEF e
<1>3. /\ Len(messages) \in Nat /\ DOMAIN messages = 1 .. Len(messages)
      /\ DOMAIN messages' = DOMAIN messages \cup {n} /\ messages'[n] = e
  BY <1>1, <1>2, AppendFacts
<1>4. n \in PendingCards(messages') /\ messages'[n].turn = turn
  BY <1>2, <1>3 DEF PendingCards
<1>5. \A j \in PendingCards(messages') : j <= n
  BY <1>3 DEF PendingCards
<1> QED
  BY <1>4, <1>5 DEF LastIsOf

LEMMA CardNext == TypeInv /\ CardInv /\ [Next]_vars => CardInv'
<1> SUFFICES ASSUME TypeInv, CardInv, [Next]_vars
             PROVE  CardInv'
  OBVIOUS
<1>a. TypeOK /\ messages \in Seq(Entry) /\ ResultsInTheirCards
  BY TypeInvIsEnough DEF TypeOK, CardInv
\* An entry that is no filled card, put behind the transcript.
<1>b. ASSUME NEW e \in Entry, e.type # "tool" \/ e.filledBy = None,
             messages' = Append(messages, e)
      PROVE  ResultsInTheirCards'
  BY <1>a, <1>b, AppendFacts DEF ResultsInTheirCards
<1>c. ASSUME UNCHANGED messages
      PROVE  ResultsInTheirCards'
  BY <1>a, <1>c DEF ResultsInTheirCards
<1>d. ASSUME ResultsInTheirCards', server' # "tool"
      PROVE  CardInv'
  BY <1>d DEF CardInv
<1>1. CASE UNCHANGED vars \/ \E s \in Sessions : HistoryFails(s)
  <2>1. UNCHANGED <<messages, server, turn>>
    BY <1>1 DEF vars, pageVars, socketVars, HistoryFails
  <2>2. LastIsOf(messages, turn) => LastIsOf(messages', turn')
    BY <2>1
  <2> QED
    BY <1>c, <2>1, <2>2 DEF CardInv
<1>2. CASE SendMessage
  <2> DEFINE e == [NewEntry("user", FALSE) EXCEPT !.turn = turn + 1]
  <2>1. e \in Entry /\ e.type = "user"
    <3>1. turn + 1 \in 0 .. MaxTurns
      BY <1>2 DEF SendMessage, TypeInv, SocketType
    <3>2. NewEntry("user", FALSE) \in Entry /\ NewEntry("user", FALSE).type = "user"
      BY <1>a, EntryFacts
    <3> QED
      BY <3>1, <3>2 DEF Entry
  <2>2. messages' = Append(messages, e) /\ server' = "handshake"
    BY <1>2 DEF SendMessage
  <2> HIDE DEF e
  <2> QED
    BY <1>b, <1>d, <2>1, <2>2
<1>3. CASE \E s \in Sessions : LoadSessionHistory(s) \/ HistoryArrives(s)
  <2>1. messages' = <<>> \/ messages' = History
    BY <1>3 DEF LoadSessionHistory, HistoryArrives
  <2>2. PendingCards(messages') = {} /\ ResultsInTheirCards'
    BY <2>1 DEF PendingCards, History, ResultsInTheirCards
  <2> QED
    BY <2>2 DEF CardInv, LastIsOf
<1>4. CASE Opened \/ SessionState
  <2>1. UNCHANGED messages /\ server' # "tool"
    BY <1>4 DEF Opened, SessionState, pageVars
  <2> QED
    BY <1>c, <1>d, <2>1
<1>5. CASE ToolStart
  <2>1. messages' = Append(messages, NewEntry("tool", TRUE)) /\ turn' = turn
    BY <1>5 DEF ToolStart, Frame
  <2>2. NewEntry("tool", TRUE) \in Entry /\ NewEntry("tool", TRUE).filledBy = None
    BY <1>a, EntryFacts
  <2>3. LastIsOf(messages', turn')
    BY <1>a, <1>5, <2>1, StartedLast
  <2> QED
    BY <1>b, <2>1, <2>2, <2>3 DEF CardInv
<1>6. CASE ToolResult
  <2>1. server = "tool" /\ server' # "tool"
    BY <1>6 DEF ToolResult, Frame
  <2>2. ResultsInTheirCards'
    BY <1>a, <1>6, <2>1, ResultFacts DEF CardInv
  <2> QED
    BY <1>d, <2>1, <2>2
<1>7. CASE AnswerDelta
  <2>1. /\ server' # "tool"
        /\ UNCHANGED messages \/ messages' = Append(messages, NewEntry("answer", TRUE))
    BY <1>7 DEF AnswerDelta, Frame
  <2>2. NewEntry("answer", TRUE) \in Entry /\ NewEntry("answer", TRUE).type = "answer"
    BY <1>a, EntryFacts
  <2> QED
    BY <1>b, <1>c, <1>d, <2>1, <2>2
<1>8. CASE AnswerDone
  <2>1. messages' = CloseAnswer /\ server' # "tool"
    BY <1>8 DEF AnswerDone, Frame
  <2>2. ResultsInTheirCards'
    BY <1>a, <2>1, CloseFacts DEF ResultsInTheirCards
  <2> QED
    BY <1>d, <2>1, <2>2
<1>9. CASE TurnError
  <2>1. server' # "tool" /\ FinalizeTurnWithError
    BY <1>9 DEF TurnError
  <2> QED
    BY <1>a, <1>d, <2>1, GivenUp
<1>10. CASE \E refused \in BOOLEAN : Closed(refused)
  <2>1. server' # "tool" /\ (FinalizeTurnWithError \/ UNCHANGED messages)
    BY <1>10 DEF Closed, pageVars
  <2> QED
    BY <1>a, <1>c, <1>d, <2>1, GivenUp
<1> QED
  BY <1>1, <1>2, <1>3, <1>4, <1>5, <1>6, <1>7, <1>8, <1>9, <1>10, Steps

-----------------------------------------------------------------------------
ViewInv == TypeInv /\ SocketInv /\ CursorInv /\ CardInv

LEMMA ViewInit == Init => ViewInv
<1> SUFFICES ASSUME Init
             PROVE  ViewInv
  OBVIOUS
<1>1. messages = <<>> /\ server = "none" /\ status = "idle"
  BY DEF Init
<1>2. SocketInv
  BY <1>1 DEF SocketInv, Serving
<1>3. CursorInv /\ CardInv
  BY <1>1 DEF CursorInv, CardInv, ResultsInTheirCards
<1> QED
  BY <1>2, <1>3, TypeInit DEF ViewInv

LEMMA ViewHolds == Spec => []ViewInv
<1>1. ViewInv /\ [Next]_vars => ViewInv'
  BY TypeNext, SocketNext, CursorNext, CardNext DEF ViewInv
<1> QED
  BY ViewInit, <1>1, PTL DEF Spec

-----------------------------------------------------------------------------
\* Every variable of the page and of its socket keeps its type.
THEOREM TypeCorrect == Spec => []TypeOK
<1>1. ViewInv => TypeOK
  BY TypeInvIsEnough DEF ViewInv
<1> QED
  BY ViewHolds, <1>1, PTL

\* When no turn is in flight, no bubble is left with a blinking cursor.
THEOREM NoBlinking == Spec => []NoCursorLeft
<1>1. ViewInv => NoCursorLeft
  <2> SUFFICES ASSUME ViewInv, ~ turnInFlight
               PROVE  \A k \in DOMAIN messages : ~ Blinking(messages, k)
    BY DEF NoCursorLeft, Blinking
  <2>1. server # "answering"
    BY DEF ViewInv, SocketInv, Serving
  <2> QED
    BY <2>1 DEF ViewInv, CursorInv
<1> QED
  BY ViewHolds, <1>1, PTL

\* No tool result is shown in the card of another turn.
THEOREM OwnCards == Spec => []ResultsInTheirCards
<1>1. ViewInv => ResultsInTheirCards
  BY DEF ViewInv, CardInv
<1> QED
  BY ViewHolds, <1>1, PTL

\* After a failed connection the composer takes the next message.
THEOREM Sendable == Spec => []SendableAfterError
<1>1. ViewInv => SendableAfterError
  BY DEF ViewInv, SocketInv, SendableAfterError, InFlight
<1> QED
  BY ViewHolds, <1>1, PTL
=============================================================================
