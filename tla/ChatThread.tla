----------------------------- MODULE ChatThread -----------------------------
(***************************************************************************)
(* One conversation: the LangGraph thread behind a session_id              *)
(* (app/agent/graph.py), and the turns that POST /chat and WS /chat/stream *)
(* run on it (app/routers/chat.py).  Nothing keeps two turns of a session  *)
(* apart: a second tab, or a message sent again while the server has not   *)
(* yet noticed that the first connection is gone, runs beside the first.   *)
(*                                                                         *)
(* LangGraph and its Postgres checkpointer are external.  A run loads the  *)
(* thread's latest checkpoint once, works on that copy, and writes a new   *)
(* checkpoint after every node; the latest one written is the thread.      *)
(***************************************************************************)
EXTENDS Naturals, Sequences, FiniteSets

CONSTANTS
    Turns,          \* chat requests on this session, each one a turn
    MaxToolRounds,  \* MAX_TOOL_ROUNDS; 4 in the code
    MaxCalls        \* bound: tool calls in one AIMessage

ASSUME RoundsAssumption == MaxToolRounds \in Nat
ASSUME CallsAssumption == MaxCalls \in Nat

VARIABLES
    saved,      \* the messages of the latest checkpoint
    pc,         \* where each turn is: its request, the graph, or how it ended
    messages,   \* state["messages"], as the turn's run holds it
    overlapped  \* history: two turns have run at the same time

vars == <<saved, pc, messages, overlapped>>

\* An AIMessage asks for n tools; a ToolMessage answers the n-th of its round.
Message == [kind : {"human", "ai", "tool"}, turn : Turns, round : Nat, n : Nat]

Human(t) == [kind |-> "human", turn |-> t, round |-> 0, n |-> 0]
Ai(t, r, n) == [kind |-> "ai", turn |-> t, round |-> r, n |-> n]
Results(t, r, n) == [k \in 1 .. n |-> [kind |-> "tool", turn |-> t, round |-> r, n |-> k]]

InGraph(t) == pc[t] \in {"input", "agent", "tools"}

Init ==
    /\ saved = <<>>
    /\ pc = [t \in Turns |-> "new"]
    /\ messages = [t \in Turns |-> <<>>]
    /\ overlapped = FALSE

\* What the checkpointer returns for thread_id = session_id.
LoadThread == saved

\* graph.ainvoke with the user's message: the thread is read, nothing is written.
OpenTurn(t) ==
    /\ pc[t] = "new"
    /\ messages' = [messages EXCEPT ![t] = Append(LoadThread, Human(t))]
    /\ pc' = [pc EXCEPT ![t] = "input"]
    /\ overlapped' = (overlapped \/ \E u \in Turns : InGraph(u))
    /\ UNCHANGED saved

\* Faulty variants: a node's messages are added to whatever the thread is now; they
\* replace the history, as in a state without the reducer.
AddToThread(h, new) == saved \o new
Overwrite(h, new) == new

\* The add_messages reducer, on the run's own copy.
Add(h, new) == h \o new

\* The checkpoint of the input.
SaveInput(t) ==
    /\ pc[t] = "input"
    /\ saved' = messages[t]
    /\ pc' = [pc EXCEPT ![t] = "agent"]
    /\ UNCHANGED <<messages, overlapped>>

\* AIMessages with tool calls after the last HumanMessage.
ToolRoundsThisTurn(h) ==
    Cardinality({i \in DOMAIN h :
        /\ h[i].kind = "ai" /\ h[i].n > 0
        /\ \A j \in i .. Len(h) : h[j].kind # "human"})

\* Faulty variants: any reply leads to the tools node; one round more.
AnyReply(h) == h[Len(h)].kind = "ai" /\ ToolRoundsThisTurn(h) <= MaxToolRounds
OneMoreRound(h) ==
    h[Len(h)].kind = "ai" /\ h[Len(h)].n > 0 /\ ToolRoundsThisTurn(h) <= MaxToolRounds + 1

\* The next node is "tools"; otherwise the graph ends.
ShouldContinue(h) ==
    h[Len(h)].kind = "ai" /\ h[Len(h)].n > 0 /\ ToolRoundsThisTurn(h) <= MaxToolRounds

\* A node returned: its messages join the run's copy, which becomes the thread.
Checkpoint(t, new, next) ==
    /\ messages' = [messages EXCEPT ![t] = Add(messages[t], new)]
    /\ saved' = messages'[t]
    /\ pc' = [pc EXCEPT ![t] = next]
    /\ UNCHANGED overlapped

\* agent_node: the model answers, or asks for n tools.
AgentNode(t) ==
    /\ pc[t] = "agent"
    /\ \E n \in 0 .. MaxCalls :
         LET reply == Ai(t, ToolRoundsThisTurn(messages[t]) + 1, n)
         IN  Checkpoint(t, <<reply>>,
                        IF ShouldContinue(Append(messages[t], reply))
                        THEN "tools" ELSE "done")

\* Faulty variant: a call whose arguments are invalid gets no ToolMessage.
SkipInvalid(calls) == SubSeq(calls, 1, Len(calls) - 1)

\* A result, a validation error or the tool's exception: every call gets one.
Dispatched(calls) == calls

\* tools_node: the calls of the last message in order, all written at the end.
ToolsNode(t) ==
    /\ pc[t] = "tools"
    /\ LET last == messages[t][Len(messages[t])]
       IN  Checkpoint(t, Dispatched(Results(t, last.round, last.n)), "agent")

\* The model call raises, the browser goes away (the run is cancelled at its next
\* event) or the api process dies.
CutTurn(t) ==
    /\ InGraph(t)
    /\ pc' = [pc EXCEPT ![t] = "cut"]
    /\ UNCHANGED <<saved, messages, overlapped>>

Next ==
    \E t \in Turns :
        \/ OpenTurn(t)
        \/ SaveInput(t)
        \/ AgentNode(t)
        \/ ToolsNode(t)
        \/ CutTurn(t)

Spec == Init /\ [][Next]_vars

-----------------------------------------------------------------------------
(***************************************************************************)
(* Properties.                                                             *)
(***************************************************************************)
\* Every variable stays in its type; a turn in the tools node has a last message
\* that asks for tools.
TypeOK ==
    /\ saved \in Seq(Message)
    /\ pc \in [Turns -> {"new", "input", "agent", "tools", "done", "cut"}]
    /\ messages \in [Turns -> Seq(Message)]
    /\ overlapped \in BOOLEAN
    /\ \A t \in Turns : InGraph(t) => messages[t] # <<>>
    /\ \A t \in Turns : pc[t] = "tools" => messages[t][Len(messages[t])].n > 0

\* Whatever turns overlap, the messages of a turn stand together in the thread.
\* messages_this_turn, turn_answer_text, extract_results and the round limit take
\* "everything since the last HumanMessage" for this turn's work.
TurnsDoNotMix ==
    \A i, k \in DOMAIN saved :
        saved[i].turn = saved[k].turn
            => \A j \in i .. k : saved[j].turn = saved[i].turn

\* What may stand at place i of a history: a message of the user, the next reply of
\* the turn before it, or one of the results that a reply asked for, all of which
\* follow that reply without a gap and in the order of its calls.
Fits(h, i) ==
    \/ h[i].kind = "human"
    \/ /\ h[i].kind = "ai" /\ i > 1
       /\ h[i - 1].kind \in {"human", "tool"}
       /\ h[i].turn = h[i - 1].turn /\ h[i].round = h[i - 1].round + 1
    \/ /\ h[i].kind = "tool"
       /\ \E j \in 1 .. i - 1 :
            /\ h[j].kind = "ai" /\ i <= j + h[j].n /\ j + h[j].n <= Len(h)
            /\ \A k \in 1 .. h[j].n :
                  h[j + k] = Results(h[j].turn, h[j].round, h[j].n)[k]

\* Whatever turns overlap or are cut, the thread is a sequence of whole turns: the
\* model is never given a result apart from its call, half of a round's results, or
\* rounds of two turns in one another.
HistoryInOrder == TurnsDoNotMix /\ \A i \in DOMAIN saved : Fits(saved, i)

\* No turn runs its tools more than MAX_TOOL_ROUNDS times, although the rounds are
\* counted in a history that other turns write too.
RoundsBounded ==
    \A t \in Turns :
        Cardinality({saved[i].round : i \in {j \in DOMAIN saved :
            saved[j].turn = t /\ saved[j].kind = "tool"}}) <= MaxToolRounds

\* While turns come one after the other the thread only grows: no step, crash or
\* cancellation takes back a message.
ThreadGrows ==
    [][~ overlapped' =>
         /\ Len(saved') >= Len(saved)
         /\ SubSeq(saved', 1, Len(saved)) = saved]_vars

\* While turns come one after the other, the runs, their copies and their checkpoints
\* are a TurnLog: every write says what the last message of the thread allows, with
\* the round it has there, and nothing is taken back, whatever is cut.
Log == INSTANCE TurnLog WITH log <- saved
ImplementsTurnLog == Log!LogInit /\ [][Log!LogNext \/ overlapped']_saved

\* The tool calls in a history, and those that have a ToolMessage; _replay_messages
\* pairs the two by tool_call_id.
Calls(h) ==
    UNION {{<<h[i].turn, h[i].round, k>> : k \in 1 .. h[i].n} :
            i \in {j \in DOMAIN h : h[j].kind = "ai"}}
Answered(h) ==
    {<<h[i].turn, h[i].round, h[i].n>> : i \in {j \in DOMAIN h : h[j].kind = "tool"}}

\* The round that reached the limit and was not run.
OverLimit(call) == call[2] > MaxToolRounds

\* While turns come one after the other, a call without a result belongs to a turn
\* that is still running, was cut short, or was stopped by the round limit: a turn
\* that ends normally leaves a complete chain.
UnansweredOnlyWhereCut ==
    ~ overlapped =>
        \A call \in Calls(saved) \ Answered(saved) :
            InGraph(call[1]) \/ pc[call[1]] = "cut" \/ OverLimit(call)

\* What ARCHITECTURE.md demands of the stored history, and _replay_messages counts
\* on when it marks every tool card "done": what a tool returned is on record for
\* every call.  False, with nothing running any more, for a turn that was cut in the
\* tools node or stopped by the round limit: a "done" card without a result.
ReplayedToolsHaveResults ==
    (\A t \in Turns : ~ InGraph(t)) => Calls(saved) \subseteq Answered(saved)
=============================================================================
