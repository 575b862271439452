-------------------------- MODULE ChatThreadProofs --------------------------
(***************************************************************************)
(* Theorems about ChatThread for any number of turns, rounds and calls.    *)
(*                                                                         *)
(* A run never looks at the thread again after it has opened: it only adds *)
(* messages of its own to the copy it holds, the last of which is its own  *)
(* (MixInv), so no interleaving of checkpoints can tear a turn apart.  And *)
(* as long as turns do not overlap, the copy of the one that runs is the   *)
(* thread (AloneInv), so what it writes extends the thread.                *)
(*                                                                         *)
(* The tools node runs only in a round within the limit, so results are of *)
(* such rounds (RoundsInv).  A run that is not in the tools node has the   *)
(* results of all its calls, one that is lacks those of its last message   *)
(* (ChainInv).  Alone, its copy is what the thread says of it.             *)
(*                                                                         *)
(* The last message of a copy tells the node the run stands at and the     *)
(* round it counts (LastInv).  So what is added next is what a TurnLog may *)
(* add, and every history is in order at every place (OrderInv).           *)
(***************************************************************************)
EXTENDS ChatThread, FiniteSetTheorems, SequenceTheorems, TLAPS

USE DEF Add, LoadThread, Dispatched

\* What the model puts into a history is messages.
LEMMA MessageTypes ==
  ASSUME NEW t \in Turns, NEW r \in Nat, NEW n \in Nat
  PROVE  /\ Human(t) \in Message /\ Human(t).turn = t
         /\ Ai(t, r, n) \in Message /\ Ai(t, r, n).turn = t /\ Ai(t, r, n).n = n
         /\ Results(t, r, n) \in Seq(Message)
         /\ Len(Results(t, r, n)) = n
         /\ \A k \in 1 .. n : Results(t, r, n)[k].turn = t /\ Results(t, r, n)[k].n = k
<1>1. Results(t, r, n) \in [1 .. n -> Message]
  BY DEF Results, Message
<1> QED
  BY <1>1, IsASeq DEF Human, Ai, Message, Results

\* Tool rounds are counted in a finite history.
LEMMA RoundsAreNat == \A h \in Seq(Message) : ToolRoundsThisTurn(h) \in Nat
<1> SUFFICES ASSUME NEW h \in Seq(Message)
             PROVE  ToolRoundsThisTurn(h) \in Nat
  OBVIOUS
<1> DEFINE S == {i \in DOMAIN h : /\ h[i].kind = "ai" /\ h[i].n > 0
                                  /\ \A j \in i .. Len(h) : h[j].kind # "human"}
<1>1. DOMAIN h = 1 .. Len(h) /\ Len(h) \in Nat
  OBVIOUS
<1>2. IsFiniteSet(1 .. Len(h))
  BY <1>1, FS_Interval
<1>3. IsFiniteSet(S)
  BY <1>1, <1>2, FS_Subset
<1> QED
  BY <1>3, FS_CardinalityType DEF ToolRoundsThisTurn

\* What both nodes do to the thread: messages of this turn, at least one, are put
\* behind the run's copy, which becomes the thread.
Extends(t, new) ==
    /\ new # <<>>
    /\ \A i \in 1 .. Len(new) : new[i].turn = t
    /\ messages' = [messages EXCEPT ![t] = messages[t] \o new]
    /\ saved' = messages[t] \o new
    /\ pc' \in [Turns -> {"new", "input", "agent", "tools", "done", "cut"}]
    /\ pc'[t] \in {"agent", "tools", "done"}
    /\ pc'[t] = "tools" => new[Len(new)].n > 0
    /\ \A u \in Turns \ {t} : pc'[u] = pc[u]
    /\ overlapped' = overlapped

\* The agent node and the tools node both do it.
LEMMA NodeStep ==
  ASSUME TypeOK, NEW t \in Turns, AgentNode(t) \/ ToolsNode(t)
  PROVE  /\ InGraph(t) /\ pc[t] # "input"
         /\ \E new \in Seq(Message) : Extends(t, new)
<1>0. messages[t] \in Seq(Message) /\ ToolRoundsThisTurn(messages[t]) + 1 \in Nat
  BY RoundsAreNat DEF TypeOK
<1>1. InGraph(t) /\ pc[t] # "input"
  BY DEF AgentNode, ToolsNode, InGraph
<1>2. CASE AgentNode(t)
  <2>1. PICK n \in 0 .. MaxCalls :
          LET reply == Ai(t, ToolRoundsThisTurn(messages[t]) + 1, n)
          IN  Checkpoint(t, <<reply>>,
                         IF ShouldContinue(Append(messages[t], reply))
                         THEN "tools" ELSE "done")
    BY <1>2 DEF AgentNode
  <2> DEFINE reply == Ai(t, ToolRoundsThisTurn(messages[t]) + 1, n)
             new == <<reply>>
  <2>2. reply \in Message /\ reply.turn = t /\ reply.n = n
    <3>1. n \in Nat
      BY CallsAssumption
    <3> QED
      BY <1>0, <3>1, MessageTypes
  <2>3. /\ messages' = [messages EXCEPT ![t] = messages[t] \o new]
        /\ saved' = messages[t] \o new
        /\ overlapped' = overlapped
    BY <2>1 DEF Checkpoint, TypeOK
  <2>4. /\ pc' = [pc EXCEPT ![t] = IF ShouldContinue(Append(messages[t], reply))
                                   THEN "tools" ELSE "done"]
    BY <2>1 DEF Checkpoint
  <2>5. ShouldContinue(Append(messages[t], reply)) => reply.n > 0
    <3> HIDE DEF reply
    <3>1. Append(messages[t], reply)[Len(Append(messages[t], reply))] = reply
      BY <1>0, <2>2, AppendProperties
    <3> QED
      BY <3>1 DEF ShouldContinue
  <2>6. new \in Seq(Message) /\ new # <<>> /\ Len(new) = 1 /\ new[1] = reply
    <3> HIDE DEF reply
    <3> QED
      BY <2>2
  <2>7. Extends(t, new)
    <3> HIDE DEF new, reply
    <3> QED
      BY <2>2, <2>3, <2>4, <2>5, <2>6 DEF Extends, TypeOK
  <2> QED
    BY <1>1, <2>6, <2>7
<1>3. CASE ToolsNode(t)
  <2> DEFINE last == messages[t][Len(messages[t])]
             new == Results(t, last.round, last.n)
  <2>1. last \in Message /\ last.n > 0
    <3>1. messages[t] # <<>> /\ pc[t] = "tools"
      BY <1>1, <1>3 DEF TypeOK, ToolsNode
    <3>2. last \in Message
      BY <1>0, <3>1
    <3> QED
      BY <3>1, <3>2 DEF TypeOK
  <2>2. last.round \in Nat /\ last.n \in Nat
    BY <2>1 DEF Message
  <2>3. /\ new \in Seq(Message) /\ Len(new) = last.n
        /\ \A i \in 1 .. Len(new) : new[i].turn = t
    <3> HIDE DEF last
    <3> QED
      BY <2>2, MessageTypes
  <2>4. new # <<>>
    BY <2>1, <2>2, <2>3
  <2>5. Checkpoint(t, new, "agent")
    BY <1>3 DEF ToolsNode
  <2> HIDE DEF new
  <2>6. Extends(t, new)
    BY <2>3, <2>4, <2>5 DEF Extends, Checkpoint, TypeOK
  <2> QED
    BY <1>1, <2>3, <2>6
<1> QED
  BY <1>2, <1>3

-----------------------------------------------------------------------------
\* The last message of an extended history is the last one added.
LEMMA LastOfConcat ==
  ASSUME NEW h \in Seq(Message), NEW new \in Seq(Message), new # <<>>
  PROVE  /\ h \o new \in Seq(Message)
         /\ h \o new # <<>>
         /\ (h \o new)[Len(h \o new)] = new[Len(new)]
<1>1. Len(new) \in Nat /\ Len(new) > 0 /\ Len(h) \in Nat
  BY EmptySeq
<1>2. Len(h \o new) = Len(h) + Len(new) /\ h \o new \in Seq(Message)
  BY ConcatProperties
<1>3. Len(h) + Len(new) \in 1 .. Len(h) + Len(new)
  BY <1>1
<1>4. (h \o new)[Len(h) + Len(new)] = new[Len(h) + Len(new) - Len(h)]
  BY <1>1, <1>3, ConcatProperties
<1> QED
  BY <1>1, <1>2, <1>4, EmptySeq

\* The initial state has the right types.
LEMMA TypeInit == Init => TypeOK
<1>1. <<>> \in Seq(Message)
  BY EmptySeq
<1> QED
  BY <1>1 DEF Init, TypeOK, InGraph

\* Every step keeps the types.
LEMMA TypeStep == TypeOK /\ [Next]_vars => TypeOK'
<1> SUFFICES ASSUME TypeOK, [Next]_vars
             PROVE  TypeOK'
  OBVIOUS
<1>1. ASSUME NEW t \in Turns, OpenTurn(t)
      PROVE  TypeOK'
  <2>1. Human(t) \in Message
    BY RoundsAssumption, MessageTypes
  <2>2. Append(saved, Human(t)) \in Seq(Message) /\ Append(saved, Human(t)) # <<>>
    BY <2>1, AppendProperties DEF TypeOK
  <2> QED
    BY <1>1, <2>2 DEF TypeOK, OpenTurn, InGraph
<1>2. ASSUME NEW t \in Turns, SaveInput(t)
      PROVE  TypeOK'
  BY <1>2 DEF TypeOK, SaveInput, InGraph
<1>3. ASSUME NEW t \in Turns, AgentNode(t) \/ ToolsNode(t)
      PROVE  TypeOK'
  <2>1. PICK new \in Seq(Message) : Extends(t, new)
    BY <1>3, NodeStep
  <2>2. messages[t] \in Seq(Message) /\ new # <<>>
    BY <2>1 DEF TypeOK, Extends
  <2> DEFINE h == messages[t] \o new
  <2>3. h \in Seq(Message) /\ h # <<>> /\ h[Len(h)] = new[Len(new)]
    BY <2>2, LastOfConcat
  <2>4. messages' = [messages EXCEPT ![t] = h] /\ saved' = h
    BY <2>1 DEF Extends
  <2> HIDE DEF h
  <2>5. \A u \in Turns : InGraph(u)' => messages'[u] # <<>>
    BY <2>1, <2>3, <2>4 DEF TypeOK, Extends, InGraph
  <2>6. \A u \in Turns : pc'[u] = "tools" => messages'[u][Len(messages'[u])].n > 0
    BY <2>1, <2>3, <2>4 DEF TypeOK, Extends
  <2> QED
    BY <2>1, <2>3, <2>4, <2>5, <2>6 DEF TypeOK, Extends
<1>4. ASSUME NEW t \in Turns, CutTurn(t)
      PROVE  TypeOK'
  BY <1>4 DEF TypeOK, CutTurn, InGraph
<1>5. CASE UNCHANGED vars
  BY <1>5 DEF TypeOK, vars, InGraph
<1> QED
  BY <1>1, <1>2, <1>3, <1>4, <1>5 DEF Next

\* Every variable keeps its type; the tools node always has a call to run.
THEOREM TypeCorrect == Spec => []TypeOK
<1> QED
  BY TypeInit, TypeStep, PTL DEF Spec

-----------------------------------------------------------------------------
\* The messages of a turn stand together in h.
Together(h) ==
    \A i, k \in DOMAIN h :
        h[i].turn = h[k].turn => \A j \in i .. k : h[j].turn = h[i].turn

Absent(t, h) == \A i \in DOMAIN h : h[i].turn # t

MixInv ==
    /\ Together(saved)
    /\ \A t \in Turns : InGraph(t) =>
         /\ Together(messages[t])
         /\ messages[t][Len(messages[t])].turn = t
    /\ \A t, u \in Turns : pc[t] = "new" =>
         /\ Absent(t, saved)
         /\ InGraph(u) => Absent(t, messages[u])

\* A turn that adds to a history that ends with a message of its own, or that has
\* none of its messages, keeps the turns together.
LEMMA AddOwn ==
  ASSUME NEW h \in Seq(Message), NEW new \in Seq(Message), NEW t \in Turns,
         Together(h), new # <<>>, \A i \in 1 .. Len(new) : new[i].turn = t,
         Absent(t, h) \/ (h # <<>> /\ h[Len(h)].turn = t)
  PROVE  /\ Together(h \o new)
         /\ (h \o new)[Len(h \o new)].turn = t
         /\ \A u \in Turns : u # t /\ Absent(u, h) => Absent(u, h \o new)
<1> DEFINE g == h \o new
<1>1. /\ Len(h) \in Nat /\ Len(new) \in Nat /\ Len(new) > 0
      /\ g \in Seq(Message) /\ Len(g) = Len(h) + Len(new)
      /\ DOMAIN g = 1 .. Len(g) /\ DOMAIN h = 1 .. Len(h)
  BY EmptySeq, ConcatProperties
<1>2. \A i \in 1 .. Len(g) : g[i] = IF i <= Len(h) THEN h[i] ELSE new[i - Len(h)]
  BY <1>1, ConcatProperties
<1> HIDE DEF g
<1>3. \A i \in 1 .. Len(h) : i \in DOMAIN g /\ g[i].turn = h[i].turn
  BY <1>1, <1>2
<1>4. \A i \in DOMAIN g : i > Len(h) => g[i].turn = t
  <2> SUFFICES ASSUME NEW i \in DOMAIN g, i > Len(h)
               PROVE  g[i].turn = t
    OBVIOUS
  <2>1. i - Len(h) \in 1 .. Len(new) /\ i \in 1 .. Len(g)
    BY <1>1
  <2> QED
    BY <1>1, <1>2, <2>1
<1>5. ASSUME NEW i \in DOMAIN g, NEW k \in DOMAIN g, g[i].turn = g[k].turn,
             NEW j \in i .. k
      PROVE  g[j].turn = g[i].turn
  <2>0. i \in 1 .. Len(g) /\ k \in 1 .. Len(g) /\ j \in DOMAIN g /\ j \in Nat
    BY <1>1
  <2>1. CASE k <= Len(h)
    BY <1>1, <1>3, <1>5, <2>0, <2>1 DEF Together
  <2>2. CASE k > Len(h) /\ i > Len(h)
    BY <1>1, <1>4, <2>0, <2>2
  <2>3. CASE k > Len(h) /\ i <= Len(h)
    <3>1. h[i].turn = t /\ i \in DOMAIN h
      BY <1>1, <1>3, <1>4, <1>5, <2>0, <2>3
    <3>2. h[Len(h)].turn = t /\ Len(h) \in DOMAIN h
      BY <1>1, <2>0, <2>3, <3>1 DEF Absent
    <3>3. CASE j > Len(h)
      BY <1>3, <1>4, <2>0, <2>3, <3>1, <3>3
    <3>4. CASE j <= Len(h)
      <4>1. j \in i .. Len(h)
        BY <1>1, <2>0, <3>4
      <4>2. h[j].turn = h[i].turn
        BY <3>1, <3>2, <4>1 DEF Together
      <4> QED
        BY <1>1, <1>3, <2>0, <2>3, <3>4, <4>2
    <3> QED
      BY <1>1, <2>0, <3>3, <3>4
  <2> QED
    BY <1>1, <2>0, <2>1, <2>2, <2>3
<1>6. Together(g)
  BY <1>5 DEF Together
<1>7. g[Len(g)].turn = t
  BY <1>1, <1>4
<1>8. ASSUME NEW u \in Turns, u # t, Absent(u, h), NEW i \in DOMAIN g
      PROVE  g[i].turn # u
  <2>1. CASE i <= Len(h)
    BY <1>1, <1>3, <1>8, <2>1 DEF Absent
  <2>2. CASE i > Len(h)
    BY <1>4, <1>8, <2>2
  <2> QED
    BY <1>1, <2>1, <2>2
<1> QED
  BY <1>6, <1>7, <1>8 DEF g, Absent

\* MixInv is inductive.
LEMMA MixInvStep == TypeOK /\ MixInv /\ [Next]_vars => MixInv'
<1> SUFFICES ASSUME TypeOK, MixInv, [Next]_vars
             PROVE  MixInv'
  OBVIOUS
<1>1. ASSUME NEW t \in Turns, OpenTurn(t)
      PROVE  MixInv'
  <2> DEFINE new == <<Human(t)>>
             h == saved \o new
  <2>1. Human(t) \in Message /\ Human(t).turn = t
    BY RoundsAssumption, MessageTypes
  <2>2. new \in Seq(Message) /\ new # <<>> /\ \A i \in 1 .. Len(new) : new[i].turn = t
    BY <2>1
  <2>3. Append(saved, Human(t)) = h /\ saved \in Seq(Message)
    BY <2>1, AppendIsConcat DEF TypeOK
  <2>4. pc[t] = "new" /\ messages' = [messages EXCEPT ![t] = h] /\ saved' = saved
    BY <1>1, <2>3 DEF OpenTurn
  <2>5. Together(saved) /\ Absent(t, saved)
    BY <2>4 DEF MixInv
  <2> HIDE DEF new
  <2>6. /\ Together(h) /\ h[Len(h)].turn = t
        /\ \A u \in Turns : u # t /\ Absent(u, saved) => Absent(u, h)
    BY <2>2, <2>3, <2>5, AddOwn
  <2> HIDE DEF h
  <2>7. pc' = [pc EXCEPT ![t] = "input"]
    BY <1>1 DEF OpenTurn
  <2> QED
    BY <2>4, <2>5, <2>6, <2>7 DEF TypeOK, MixInv, InGraph
<1>2. ASSUME NEW t \in Turns, SaveInput(t)
      PROVE  MixInv'
  BY <1>2 DEF TypeOK, MixInv, SaveInput, InGraph
<1>3. ASSUME NEW t \in Turns, AgentNode(t) \/ ToolsNode(t)
      PROVE  MixInv'
  <2>1. PICK new \in Seq(Message) : Extends(t, new)
    BY <1>3, NodeStep
  <2> DEFINE h == messages[t] \o new
  <2>2. InGraph(t)
    BY <1>3, NodeStep
  <2>3. /\ messages[t] \in Seq(Message) /\ messages[t] # <<>>
        /\ Together(messages[t]) /\ messages[t][Len(messages[t])].turn = t
    BY <2>2 DEF TypeOK, MixInv
  <2>4. /\ Together(h) /\ h[Len(h)].turn = t
        /\ \A u \in Turns : u # t /\ Absent(u, messages[t]) => Absent(u, h)
    BY <2>1, <2>3, AddOwn DEF Extends
  <2>5. messages' = [messages EXCEPT ![t] = h] /\ saved' = h
    BY <2>1 DEF Extends
  <2> HIDE DEF h
  <2>6. \A u \in Turns : InGraph(u)' => Together(messages'[u])
                                        /\ messages'[u][Len(messages'[u])].turn = u
    BY <2>1, <2>4, <2>5 DEF TypeOK, MixInv, Extends, InGraph
  <2>7. ASSUME NEW u \in Turns, pc'[u] = "new"
        PROVE  /\ Absent(u, h)
               /\ \A v \in Turns : InGraph(v)' => Absent(u, messages'[v])
    <3>1. u # t /\ pc[u] = "new"
      BY <2>1, <2>7 DEF Extends
    <3>2. Absent(u, h)
      BY <2>2, <2>4, <3>1 DEF MixInv
    <3>3. ASSUME NEW v \in Turns, InGraph(v)'
          PROVE  Absent(u, messages'[v])
      BY <2>1, <2>5, <3>1, <3>2, <3>3 DEF TypeOK, MixInv, Extends, InGraph
    <3> QED
      BY <3>2, <3>3
  <2> QED
    BY <2>4, <2>5, <2>6, <2>7 DEF MixInv
<1>4. ASSUME NEW t \in Turns, CutTurn(t)
      PROVE  MixInv'
  BY <1>4 DEF TypeOK, MixInv, CutTurn, InGraph
<1>5. CASE UNCHANGED vars
  BY <1>5 DEF MixInv, vars, InGraph
<1> QED
  BY <1>1, <1>2, <1>3, <1>4, <1>5 DEF Next

\* Whatever turns overlap, the messages of one turn stay together in the thread.
THEOREM TurnsStayTogether == Spec => []TurnsDoNotMix
<1>1. Init => MixInv
  BY DEF Init, MixInv, Together, Absent, InGraph
<1>2. MixInv => TurnsDoNotMix
  BY DEF MixInv, Together, TurnsDoNotMix
<1> QED
  BY <1>1, <1>2, TypeInit, TypeStep, MixInvStep, PTL DEF Spec

-----------------------------------------------------------------------------
\* Until two turns overlap, one runs at most, on a copy of the thread as it is.
AloneInv ==
    ~ overlapped =>
        /\ \A t, u \in Turns : InGraph(t) /\ InGraph(u) => t = u
        /\ \A t \in Turns : pc[t] = "input" => messages[t] = saved \o <<Human(t)>>
        /\ \A t \in Turns : pc[t] \in {"agent", "tools"} => messages[t] = saved

\* The thread either stays or gets more messages at its end.
Grows == \E new \in Seq(Message) : saved' = saved \o new

\* AloneInv is inductive, and with it every step lets the thread grow.
LEMMA AloneInvStep ==
  TypeOK /\ AloneInv /\ [Next]_vars => AloneInv' /\ (~ overlapped' => Grows)
<1> SUFFICES ASSUME TypeOK, AloneInv, [Next]_vars, ~ overlapped'
             PROVE  AloneInv' /\ Grows
  BY DEF AloneInv
<1>t. /\ \A t \in Turns : messages[t] \in Seq(Message) /\ Human(t) \in Message
      /\ saved \in Seq(Message)
  BY RoundsAssumption, MessageTypes DEF TypeOK
<1>stay. saved' = saved => Grows
  BY <1>t, EmptySeq, ConcatEmptySeq DEF Grows
<1>0. ~ overlapped
  BY NodeStep DEF Next, OpenTurn, SaveInput, Extends, CutTurn, vars
<1>1. ASSUME NEW t \in Turns, OpenTurn(t)
      PROVE  AloneInv' /\ Grows
  <2>1. \A u \in Turns : ~ InGraph(u)
    BY <1>1 DEF OpenTurn
  <2>2. saved' = saved /\ messages'[t] = saved \o <<Human(t)>>
    BY <1>1, <1>t, AppendIsConcat DEF OpenTurn, TypeOK
  <2>3. pc' = [pc EXCEPT ![t] = "input"]
    BY <1>1 DEF OpenTurn
  <2> QED
    BY <1>stay, <2>1, <2>2, <2>3 DEF AloneInv, InGraph, TypeOK
<1>2. ASSUME NEW t \in Turns, SaveInput(t)
      PROVE  AloneInv' /\ Grows
  <2>1. saved' = saved \o <<Human(t)>> /\ saved' = messages'[t]
    BY <1>0, <1>2 DEF AloneInv, SaveInput
  <2>2. <<Human(t)>> \in Seq(Message)
    BY <1>t
  <2>3. \A u \in Turns : InGraph(u)' <=> InGraph(u)
    BY <1>2 DEF SaveInput, InGraph, TypeOK
  <2>4. InGraph(t)
    BY <1>2 DEF SaveInput, InGraph
  <2>5. \A u \in Turns : InGraph(u)' => u = t
    BY <1>0, <2>3, <2>4 DEF AloneInv
  <2>6. pc'[t] = "agent"
    BY <1>2 DEF SaveInput, TypeOK
  <2> QED
    BY <2>1, <2>2, <2>5, <2>6 DEF AloneInv, Grows, InGraph
<1>3. ASSUME NEW t \in Turns, AgentNode(t) \/ ToolsNode(t)
      PROVE  AloneInv' /\ Grows
  <2>1. PICK new \in Seq(Message) : Extends(t, new)
    BY <1>3, NodeStep
  <2>2. InGraph(t) /\ pc[t] \in {"agent", "tools"}
    BY <1>3, NodeStep DEF InGraph
  <2>3. messages[t] = saved
    BY <1>0, <2>2 DEF AloneInv
  <2>4. saved' = saved \o new /\ messages'[t] = saved'
    BY <1>t, <2>1, <2>3 DEF Extends, TypeOK
  <2>5. \A u \in Turns : InGraph(u)' => u = t
    BY <1>0, <2>1, <2>2 DEF AloneInv, Extends, InGraph
  <2>6. pc'[t] # "input"
    BY <2>1 DEF Extends
  <2> QED
    BY <2>4, <2>5, <2>6 DEF AloneInv, Grows, InGraph
<1>4. ASSUME NEW t \in Turns, CutTurn(t)
      PROVE  AloneInv' /\ Grows
  BY <1>0, <1>4, <1>stay DEF AloneInv, CutTurn, InGraph, TypeOK
<1>5. CASE UNCHANGED vars
  BY <1>0, <1>5, <1>stay DEF AloneInv, vars, InGraph
<1> QED
  BY <1>1, <1>2, <1>3, <1>4, <1>5 DEF Next

\* While turns come one after the other, nothing is taken back from the thread.
THEOREM ThreadOnlyGrows == Spec => ThreadGrows
<1>1. Init => AloneInv
  BY DEF Init, AloneInv, InGraph
<1> DEFINE Kept == ~ overlapped' =>
                      /\ Len(saved') >= Len(saved)
                      /\ SubSeq(saved', 1, Len(saved)) = saved
<1>2. TypeOK /\ AloneInv /\ [Next]_vars => [Kept]_vars
  <2> SUFFICES ASSUME TypeOK, AloneInv, [Next]_vars, ~ overlapped'
               PROVE  /\ Len(saved') >= Len(saved)
                      /\ SubSeq(saved', 1, Len(saved)) = saved
    OBVIOUS
  <2>1. PICK new \in Seq(Message) : saved' = saved \o new
    BY AloneInvStep DEF Grows
  <2>2. saved \in Seq(Message)
    BY DEF TypeOK
  <2>3. Len(saved') = Len(saved) + Len(new) /\ Len(saved) \in Nat /\ Len(new) \in Nat
    BY <2>1, <2>2, ConcatProperties
  <2>4. SubSeq(saved \o new, 1, Len(saved)) = SubSeq(saved, 1, Len(saved))
    BY <2>2, <2>3, SubSeqOfConcat1
  <2>5. SubSeq(saved, 1, Len(saved)) = saved
    BY <2>2, SubSeqFull
  <2> QED
    BY <2>1, <2>3, <2>4, <2>5
<1>3. TypeOK /\ AloneInv /\ [Next]_vars => AloneInv'
  BY AloneInvStep
<1> QED
  BY <1>1, <1>2, <1>3, TypeInit, TypeStep, PTL DEF Spec, ThreadGrows

-----------------------------------------------------------------------------
(***************************************************************************)
(* Rounds and chains.  A reply that goes on to the tools node has a round  *)
(* within the limit, as counted in the copy it is added to (AgentFacts);   *)
(* the results carry that round (RoundsInv).  In a running copy only the   *)
(* calls of the last message are without a result (ChainInv), so that a    *)
(* turn which ends leaves none behind.                                     *)
(***************************************************************************)
\* A reply that asks for tools is one more round of the turn.
LEMMA OneRoundMore ==
  ASSUME NEW h \in Seq(Message), NEW m \in Message, m.kind = "ai", m.n > 0
  PROVE  ToolRoundsThisTurn(Append(h, m)) = ToolRoundsThisTurn(h) + 1
<1> DEFINE g == Append(h, m)
           S == {i \in DOMAIN h : /\ h[i].kind = "ai" /\ h[i].n > 0
                                  /\ \A j \in i .. Len(h) : h[j].kind # "human"}
           T == {i \in DOMAIN g : /\ g[i].kind = "ai" /\ g[i].n > 0
                                  /\ \A j \in i .. Len(g) : g[j].kind # "human"}
<1>1. /\ Len(h) \in Nat /\ Len(g) = Len(h) + 1 /\ DOMAIN h = 1 .. Len(h)
      /\ DOMAIN g = 1 .. Len(h) + 1 /\ g[Len(h) + 1] = m
      /\ \A i \in 1 .. Len(h) : g[i] = h[i]
  BY AppendProperties
<1> HIDE DEF g
<1>2. T = S \cup {Len(h) + 1}
  <2>1. Len(h) + 1 \in T
    BY <1>1
  <2>2. ASSUME NEW i \in 1 .. Len(h)
        PROVE  i \in T <=> i \in S
    <3>1. /\ i \in DOMAIN g /\ i \in DOMAIN h /\ g[i] = h[i]
          /\ i .. Len(g) = (i .. Len(h)) \cup {Len(h) + 1}
      BY <1>1
    <3>2. \A j \in i .. Len(h) : g[j] = h[j]
      BY <1>1
    <3> QED
      BY <1>1, <3>1, <3>2
  <2>3. T \subseteq 1 .. Len(h) + 1 /\ S \subseteq 1 .. Len(h)
    BY <1>1
  <2>4. 1 .. Len(h) + 1 = (1 .. Len(h)) \cup {Len(h) + 1}
    BY <1>1
  <2> HIDE DEF S, T
  <2>5. \A i \in T : i \in S \/ i = Len(h) + 1
    BY <2>2, <2>3, <2>4
  <2>6. \A i \in S : i \in T
    BY <2>2, <2>3
  <2> QED
    BY <2>1, <2>5, <2>6
<1>3. IsFiniteSet(S) /\ Len(h) + 1 \notin S
  <2>1. S \subseteq 1 .. Len(h) /\ Len(h) \in Int
    BY <1>1
  <2> HIDE DEF S
  <2>2. IsFiniteSet(1 .. Len(h))
    BY <2>1, FS_Interval
  <2>3. Len(h) + 1 \notin 1 .. Len(h)
    BY <2>1
  <2>4. IsFiniteSet(S)
    BY <2>1, <2>2, FS_Subset
  <2> QED
    BY <2>1, <2>3, <2>4
<1>4. Cardinality(T) = Cardinality(S) + 1
  <2> HIDE DEF S, T
  <2> QED
    BY <1>2, <1>3, FS_AddElement
<1> QED
  BY <1>4 DEF ToolRoundsThisTurn, g

\* What the agent node does.
LEMMA AgentFacts ==
  ASSUME TypeOK, NEW t \in Turns, AgentNode(t)
  PROVE  \E n \in Nat, r \in Nat :
           /\ r > 0 /\ n <= MaxCalls
           /\ r = ToolRoundsThisTurn(messages[t]) + 1
           /\ messages' = [messages EXCEPT ![t] = messages[t] \o <<Ai(t, r, n)>>]
           /\ saved' = messages[t] \o <<Ai(t, r, n)>>
           /\ overlapped' = overlapped
           /\ \/ pc' = [pc EXCEPT ![t] = "tools"] /\ r <= MaxToolRounds /\ n > 0
              \/ pc' = [pc EXCEPT ![t] = "done"] /\ (n = 0 \/ r > MaxToolRounds)
<1> DEFINE r == ToolRoundsThisTurn(messages[t]) + 1
<1>1. messages[t] \in Seq(Message) /\ r \in Nat /\ r > 0
  BY RoundsAreNat DEF TypeOK
<1>r. r = ToolRoundsThisTurn(messages[t]) + 1
  OBVIOUS
<1>2. PICK n \in 0 .. MaxCalls :
        LET reply == Ai(t, r, n)
        IN  Checkpoint(t, <<reply>>,
                       IF ShouldContinue(Append(messages[t], reply)) THEN "tools" ELSE "done")
  BY DEF AgentNode
<1> HIDE DEF r
<1>3. n \in Nat /\ n <= MaxCalls
  BY CallsAssumption
<1> DEFINE reply == Ai(t, r, n)
           g == Append(messages[t], reply)
<1>4. /\ messages' = [messages EXCEPT ![t] = messages[t] \o <<reply>>]
      /\ saved' = messages[t] \o <<reply>>
      /\ overlapped' = overlapped
      /\ pc' = [pc EXCEPT ![t] = IF ShouldContinue(g) THEN "tools" ELSE "done"]
  BY <1>2 DEF Checkpoint, TypeOK
<1>5. reply \in Message /\ reply.n = n /\ reply.kind = "ai"
  BY <1>1, <1>3, MessageTypes DEF Ai
<1>6. g[Len(g)] = reply
  <2> HIDE DEF reply
  <2> QED
    BY <1>1, <1>5, AppendProperties
<1>7. n > 0 => ToolRoundsThisTurn(g) = r
  <2> HIDE DEF reply
  <2> QED
    BY <1>1, <1>5, OneRoundMore DEF r
<1>8. ShouldContinue(g) <=> n > 0 /\ r <= MaxToolRounds
  <2> HIDE DEF reply, g
  <2> QED
    BY <1>5, <1>6, <1>7 DEF ShouldContinue
<1>9. n = 0 \/ n > 0
  BY <1>3
<1>10. r <= MaxToolRounds \/ r > MaxToolRounds
  BY <1>1, RoundsAssumption
<1> HIDE DEF g
<1>11. CASE ShouldContinue(g)
  BY <1>1, <1>r, <1>3, <1>4, <1>8, <1>11
<1>12. CASE ~ ShouldContinue(g)
  BY <1>1, <1>r, <1>3, <1>4, <1>8, <1>9, <1>10, <1>12
<1> QED
  BY <1>11, <1>12

\* What the tools node does.
LEMMA ToolsFacts ==
  ASSUME TypeOK, NEW t \in Turns, ToolsNode(t)
  PROVE  LET last == messages[t][Len(messages[t])]
             new == Results(t, last.round, last.n)
         IN  /\ pc[t] = "tools" /\ messages[t] \in Seq(Message)
             /\ last \in Message /\ last.round \in Nat /\ last.n \in Nat
             /\ new \in Seq(Message)
             /\ messages' = [messages EXCEPT ![t] = messages[t] \o new]
             /\ saved' = messages[t] \o new
             /\ overlapped' = overlapped
             /\ pc' = [pc EXCEPT ![t] = "agent"]
<1> DEFINE last == messages[t][Len(messages[t])]
           new == Results(t, last.round, last.n)
<1>1. pc[t] = "tools" /\ messages[t] \in Seq(Message) /\ messages[t] # <<>>
  BY DEF ToolsNode, TypeOK, InGraph
<1>2. last \in Message
  BY <1>1
<1>3. last.round \in Nat /\ last.n \in Nat
  BY <1>2 DEF Message
<1>4. new \in Seq(Message)
  <2> HIDE DEF last
  <2> QED
    BY <1>3, MessageTypes
<1>5. Checkpoint(t, new, "agent")
  BY DEF ToolsNode
<1> HIDE DEF new
<1>6. /\ messages' = [messages EXCEPT ![t] = messages[t] \o new]
      /\ saved' = messages[t] \o new
      /\ overlapped' = overlapped
      /\ pc' = [pc EXCEPT ![t] = "agent"]
  BY <1>5 DEF Checkpoint, TypeOK
<1> QED
  BY <1>1, <1>2, <1>3, <1>4, <1>6 DEF new

\* The results in h are of rounds within the limit.
RoundsOk(h) == \A i \in DOMAIN h : h[i].kind = "tool" => h[i].round \in 1 .. MaxToolRounds

RoundsInv ==
    /\ RoundsOk(saved)
    /\ \A t \in Turns : RoundsOk(messages[t])
    /\ \A t \in Turns :
         pc[t] = "tools" => messages[t][Len(messages[t])].round \in 1 .. MaxToolRounds

\* A message of h \o new is one of h or one of new.
LEMMA PartsOfConcat ==
  ASSUME NEW h \in Seq(Message), NEW new \in Seq(Message)
  PROVE  /\ h \o new \in Seq(Message)
         /\ \A i \in DOMAIN (h \o new) :
              \/ i \in DOMAIN h /\ (h \o new)[i] = h[i]
              \/ i - Len(h) \in DOMAIN new /\ (h \o new)[i] = new[i - Len(h)]
         /\ \A i \in DOMAIN h : i \in DOMAIN (h \o new) /\ (h \o new)[i] = h[i]
         /\ \A i \in DOMAIN new :
              Len(h) + i \in DOMAIN (h \o new) /\ (h \o new)[Len(h) + i] = new[i]
<1>1. /\ h \o new \in Seq(Message) /\ Len(h \o new) = Len(h) + Len(new)
      /\ Len(h) \in Nat /\ Len(new) \in Nat
      /\ DOMAIN h = 1 .. Len(h) /\ DOMAIN new = 1 .. Len(new)
      /\ DOMAIN (h \o new) = 1 .. Len(h) + Len(new)
  BY ConcatProperties
<1>2. \A i \in 1 .. Len(h) + Len(new) :
         (h \o new)[i] = IF i <= Len(h) THEN h[i] ELSE new[i - Len(h)]
  BY <1>1, ConcatProperties
<1>3. ASSUME NEW i \in DOMAIN (h \o new)
      PROVE  \/ i \in DOMAIN h /\ (h \o new)[i] = h[i]
             \/ i - Len(h) \in DOMAIN new /\ (h \o new)[i] = new[i - Len(h)]
  BY <1>1, <1>2
<1>4. ASSUME NEW i \in DOMAIN new
      PROVE  Len(h) + i \in DOMAIN (h \o new) /\ (h \o new)[Len(h) + i] = new[i]
  <2>1. /\ Len(h) + i \in 1 .. Len(h) + Len(new) /\ ~ (Len(h) + i <= Len(h))
        /\ Len(h) + i - Len(h) = i
    BY <1>1
  <2> QED
    BY <1>1, <1>2, <2>1
<1>5. ASSUME NEW i \in DOMAIN h
      PROVE  i \in DOMAIN (h \o new) /\ (h \o new)[i] = h[i]
  BY <1>1, <1>2
<1> QED
  BY <1>1, <1>3, <1>4, <1>5

LEMMA RoundsOfConcat ==
  ASSUME NEW h \in Seq(Message), NEW new \in Seq(Message), RoundsOk(h), RoundsOk(new)
  PROVE  RoundsOk(h \o new)
BY PartsOfConcat DEF RoundsOk

LEMMA KindsOfMessages ==
  ASSUME NEW t \in Turns, NEW r \in Nat, NEW n \in Nat
  PROVE  /\ RoundsOk(<<Human(t)>>) /\ RoundsOk(<<Ai(t, r, n)>>)
         /\ r \in 1 .. MaxToolRounds => RoundsOk(Results(t, r, n))
         /\ <<Human(t)>> \in Seq(Message) /\ <<Ai(t, r, n)>> \in Seq(Message)
<1>1. Human(t) \in Message /\ Ai(t, r, n) \in Message
  BY MessageTypes
<1>2. Human(t).kind = "human" /\ Ai(t, r, n).kind = "ai"
  BY DEF Human, Ai
<1>3. \A i \in DOMAIN Results(t, r, n) : Results(t, r, n)[i].round = r
  BY DEF Results
<1>4. RoundsOk(<<Human(t)>>) /\ RoundsOk(<<Ai(t, r, n)>>)
  BY <1>2 DEF RoundsOk
<1> QED
  BY <1>1, <1>3, <1>4 DEF RoundsOk

LEMMA RoundsStep == TypeOK /\ RoundsInv /\ [Next]_vars => RoundsInv'
<1> SUFFICES ASSUME TypeOK, RoundsInv, [Next]_vars
             PROVE  RoundsInv'
  OBVIOUS
<1>0. \A t \in Turns : messages[t] \in Seq(Message)
  BY DEF TypeOK
<1>1. ASSUME NEW t \in Turns, OpenTurn(t)
      PROVE  RoundsInv'
  <2>1. Human(t) \in Message /\ <<Human(t)>> \in Seq(Message) /\ RoundsOk(<<Human(t)>>)
    BY RoundsAssumption, KindsOfMessages, MessageTypes
  <2>2. RoundsOk(saved \o <<Human(t)>>) /\ Append(saved, Human(t)) = saved \o <<Human(t)>>
    BY <2>1, RoundsOfConcat, AppendIsConcat DEF RoundsInv, TypeOK
  <2> QED
    BY <1>1, <2>2 DEF OpenTurn, RoundsInv, TypeOK
<1>2. ASSUME NEW t \in Turns, SaveInput(t)
      PROVE  RoundsInv'
  BY <1>2 DEF SaveInput, RoundsInv, TypeOK
<1>3. ASSUME NEW t \in Turns, AgentNode(t)
      PROVE  RoundsInv'
  <2>1. PICK n \in Nat, r \in Nat :
           /\ r > 0
           /\ messages' = [messages EXCEPT ![t] = messages[t] \o <<Ai(t, r, n)>>]
           /\ saved' = messages[t] \o <<Ai(t, r, n)>>
           /\ \/ pc' = [pc EXCEPT ![t] = "tools"] /\ r <= MaxToolRounds
              \/ pc' = [pc EXCEPT ![t] = "done"]
    BY <1>3, AgentFacts
  <2> DEFINE new == <<Ai(t, r, n)>>
             h == messages[t] \o new
  <2>2. new \in Seq(Message) /\ RoundsOk(new) /\ new # <<>>
    BY KindsOfMessages
  <2>3. new[Len(new)].round = r
    BY DEF Ai
  <2> HIDE DEF new
  <2>4. RoundsOk(h) /\ h[Len(h)] = new[Len(new)]
    BY <1>0, <2>2, RoundsOfConcat, LastOfConcat DEF RoundsInv
  <2>5. messages' = [messages EXCEPT ![t] = h] /\ saved' = h
    BY <2>1 DEF new
  <2> HIDE DEF h
  <2>6. r <= MaxToolRounds => r \in 1 .. MaxToolRounds
    BY <2>1, RoundsAssumption
  <2> QED
    BY <2>1, <2>3, <2>4, <2>5, <2>6 DEF RoundsInv, TypeOK
<1>4. ASSUME NEW t \in Turns, ToolsNode(t)
      PROVE  RoundsInv'
  <2> DEFINE last == messages[t][Len(messages[t])]
             new == Results(t, last.round, last.n)
             h == messages[t] \o new
  <2>1. /\ pc[t] = "tools" /\ last.round \in Nat /\ last.n \in Nat /\ new \in Seq(Message)
        /\ messages' = [messages EXCEPT ![t] = h] /\ saved' = h
        /\ pc' = [pc EXCEPT ![t] = "agent"]
    BY <1>4, ToolsFacts
  <2>2. RoundsOk(new)
    <3>1. last.round \in 1 .. MaxToolRounds
      BY <2>1 DEF RoundsInv
    <3> HIDE DEF last
    <3> QED
      BY <2>1, <3>1, KindsOfMessages
  <2> HIDE DEF new
  <2>3. RoundsOk(h)
    BY <1>0, <2>1, <2>2, RoundsOfConcat DEF RoundsInv
  <2> HIDE DEF h
  <2> QED
    BY <2>1, <2>3 DEF RoundsInv, TypeOK
<1>5. ASSUME NEW t \in Turns, CutTurn(t)
      PROVE  RoundsInv'
  BY <1>5 DEF CutTurn, RoundsInv, TypeOK
<1>6. CASE UNCHANGED vars
  BY <1>6 DEF vars, RoundsInv
<1> QED
  BY <1>1, <1>2, <1>3, <1>4, <1>5, <1>6 DEF Next

\* However turns overlap, none runs its tools more often than the limit says.
THEOREM RoundLimit == Spec => []RoundsBounded
<1>1. Init => RoundsInv
  BY DEF Init, RoundsInv, RoundsOk
<1>2. RoundsInv => RoundsBounded
  <2> SUFFICES ASSUME RoundsInv, NEW t \in Turns
               PROVE  Cardinality({saved[i].round : i \in {j \in DOMAIN saved :
                         saved[j].turn = t /\ saved[j].kind = "tool"}}) <= MaxToolRounds
    BY DEF RoundsBounded
  <2> DEFINE R == {saved[i].round : i \in {j \in DOMAIN saved :
                         saved[j].turn = t /\ saved[j].kind = "tool"}}
  <2>1. R \subseteq 1 .. MaxToolRounds
    BY DEF RoundsInv, RoundsOk
  <2>2. IsFiniteSet(1 .. MaxToolRounds) /\ Cardinality(1 .. MaxToolRounds) = MaxToolRounds
    BY RoundsAssumption, FS_Interval
  <2> HIDE DEF R
  <2>3. Cardinality(R) <= Cardinality(1 .. MaxToolRounds)
    BY <2>1, <2>2, FS_Subset
  <2> QED
    BY <2>2, <2>3 DEF R
<1> QED
  BY <1>1, <1>2, TypeInit, TypeStep, RoundsStep, PTL DEF Spec

-----------------------------------------------------------------------------
\* What Calls and Answered hold.
LEMMA MembersOfCalls ==
  ASSUME NEW h, NEW c
  PROVE  /\ c \in Calls(h) <=> \E i \in DOMAIN h : /\ h[i].kind = "ai"
                                                   /\ \E k \in 1 .. h[i].n :
                                                        c = <<h[i].turn, h[i].round, k>>
         /\ c \in Answered(h) <=> \E i \in DOMAIN h : /\ h[i].kind = "tool"
                                                      /\ c = <<h[i].turn, h[i].round, h[i].n>>
BY DEF Calls, Answered

LEMMA CallsOfConcat ==
  ASSUME NEW h \in Seq(Message), NEW new \in Seq(Message)
  PROVE  /\ Calls(h \o new) \subseteq Calls(h) \cup Calls(new)
         /\ Answered(h) \cup Answered(new) \subseteq Answered(h \o new)
<1> DEFINE g == h \o new
<1>1. /\ \A i \in DOMAIN g : \/ i \in DOMAIN h /\ g[i] = h[i]
                             \/ i - Len(h) \in DOMAIN new /\ g[i] = new[i - Len(h)]
      /\ \A i \in DOMAIN h : i \in DOMAIN g /\ g[i] = h[i]
      /\ \A i \in DOMAIN new : Len(h) + i \in DOMAIN g /\ g[Len(h) + i] = new[i]
  BY PartsOfConcat
<1> HIDE DEF g
<1>2. ASSUME NEW c \in Calls(g)
      PROVE  c \in Calls(h) \cup Calls(new)
  <2>1. PICK i \in DOMAIN g : /\ g[i].kind = "ai"
                              /\ \E k \in 1 .. g[i].n : c = <<g[i].turn, g[i].round, k>>
    BY MembersOfCalls
  <2>2. CASE i \in DOMAIN h /\ g[i] = h[i]
    BY <2>1, <2>2, MembersOfCalls
  <2>3. CASE i - Len(h) \in DOMAIN new /\ g[i] = new[i - Len(h)]
    BY <2>1, <2>3, MembersOfCalls
  <2> QED
    BY <1>1, <2>2, <2>3
<1>3. ASSUME NEW c \in Answered(h)
      PROVE  c \in Answered(g)
  BY <1>1, MembersOfCalls
<1>4. ASSUME NEW c \in Answered(new)
      PROVE  c \in Answered(g)
  BY <1>1, MembersOfCalls
<1> QED
  BY <1>2, <1>3, <1>4 DEF g

LEMMA CallsOfMessages ==
  ASSUME NEW t \in Turns, NEW r \in Nat, NEW n \in Nat
  PROVE  /\ Calls(<<Human(t)>>) = {} /\ Calls(Results(t, r, n)) = {}
         /\ \A c \in Calls(<<Ai(t, r, n)>>) : \E k \in 1 .. n : c = <<t, r, k>>
         /\ \A k \in 1 .. n : <<t, r, k>> \in Answered(Results(t, r, n))
<1>1. <<Human(t)>>[1].kind = "human" /\ DOMAIN <<Human(t)>> = {1}
  BY DEF Human
<1>2. /\ DOMAIN <<Ai(t, r, n)>> = {1}
      /\ <<Ai(t, r, n)>>[1].turn = t /\ <<Ai(t, r, n)>>[1].round = r /\ <<Ai(t, r, n)>>[1].n = n
  BY DEF Ai
<1>3. /\ DOMAIN Results(t, r, n) = 1 .. n
      /\ \A k \in 1 .. n : /\ Results(t, r, n)[k].kind = "tool"
                           /\ Results(t, r, n)[k].turn = t
                           /\ Results(t, r, n)[k].round = r /\ Results(t, r, n)[k].n = k
  BY DEF Results
<1>4. Calls(<<Human(t)>>) = {}
  BY <1>1, MembersOfCalls
<1>5. Calls(Results(t, r, n)) = {}
  BY <1>3, MembersOfCalls
<1>6. \A c \in Calls(<<Ai(t, r, n)>>) : \E k \in 1 .. n : c = <<t, r, k>>
  BY <1>2, MembersOfCalls
<1>7. \A k \in 1 .. n : <<t, r, k>> \in Answered(Results(t, r, n))
  BY <1>3, MembersOfCalls
<1> QED
  BY <1>4, <1>5, <1>6, <1>7

\* In the copy h of turn t all calls of t have results, but for those of its last message.
Complete(t, h) == \A c \in Calls(h) : c[1] = t => c \in Answered(h)
CompleteButLast(t, h) ==
    LET last == h[Len(h)]
    IN  \A c \in Calls(h) : c[1] = t =>
            c \in Answered(h) \/ \E k \in 1 .. last.n : c = <<t, last.round, k>>

ChainInv ==
    \A t \in Turns :
        /\ pc[t] \in {"input", "agent"} => Complete(t, messages[t])
        /\ pc[t] = "tools" => CompleteButLast(t, messages[t])

\* One round: a reply that asks leaves its own calls open, the results close them.
LEMMA ReplyOpens ==
  ASSUME NEW t \in Turns, NEW r \in Nat, NEW n \in Nat, NEW h \in Seq(Message), Complete(t, h)
  PROVE  CompleteButLast(t, h \o <<Ai(t, r, n)>>)
<1> DEFINE new == <<Ai(t, r, n)>>
           g == h \o new
<1>1. new \in Seq(Message) /\ new # <<>>
  BY KindsOfMessages
<1>2. new[Len(new)].n = n /\ new[Len(new)].round = r
  BY DEF Ai
<1>3. \A c \in Calls(new) : \E k \in 1 .. n : c = <<t, r, k>>
  BY CallsOfMessages
<1> HIDE DEF new
<1>4. g[Len(g)] = new[Len(new)]
  BY <1>1, LastOfConcat
<1>5. Calls(g) \subseteq Calls(h) \cup Calls(new) /\ Answered(h) \subseteq Answered(g)
  BY <1>1, CallsOfConcat
<1> HIDE DEF g
<1>6. CompleteButLast(t, g)
  BY <1>2, <1>3, <1>4, <1>5 DEF Complete, CompleteButLast
<1> QED
  BY <1>6 DEF g, new

LEMMA ResultsClose ==
  ASSUME NEW t \in Turns, NEW h \in Seq(Message), CompleteButLast(t, h),
         h[Len(h)].round \in Nat, h[Len(h)].n \in Nat
  PROVE  Complete(t, h \o Results(t, h[Len(h)].round, h[Len(h)].n))
<1> DEFINE r == h[Len(h)].round
           n == h[Len(h)].n
           new == Results(t, r, n)
           g == h \o new
<1> HIDE DEF r, n
<1>1. r \in Nat /\ n \in Nat
  BY DEF r, n
<1>2. /\ new \in Seq(Message) /\ Calls(new) = {}
      /\ \A k \in 1 .. n : <<t, r, k>> \in Answered(new)
  BY <1>1, MessageTypes, CallsOfMessages
<1> HIDE DEF new
<1>3. Calls(g) \subseteq Calls(h) /\ Answered(h) \cup Answered(new) \subseteq Answered(g)
  BY <1>2, CallsOfConcat
<1> HIDE DEF g
<1>4. \A c \in Calls(h) : c[1] = t =>
          c \in Answered(h) \/ \E k \in 1 .. n : c = <<t, r, k>>
  BY DEF CompleteButLast, r, n
<1>5. Complete(t, g)
  BY <1>2, <1>3, <1>4 DEF Complete
<1> QED
  BY <1>5 DEF g, new, r, n

\* A turn that has no message in a history has no call in it.
LEMMA AbsentHasNoCalls ==
  ASSUME NEW t \in Turns, NEW h, Absent(t, h)
  PROVE  Complete(t, h)
<1> SUFFICES ASSUME NEW c \in Calls(h)
             PROVE  c[1] # t
  BY DEF Complete
<1>1. PICK i \in DOMAIN h : \E k \in 1 .. h[i].n : c = <<h[i].turn, h[i].round, k>>
  BY MembersOfCalls
<1> QED
  BY <1>1 DEF Absent

LEMMA ChainStep == TypeOK /\ MixInv /\ ChainInv /\ [Next]_vars => ChainInv'
<1> SUFFICES ASSUME TypeOK, MixInv, ChainInv, [Next]_vars
             PROVE  ChainInv'
  OBVIOUS
<1>0. \A t \in Turns : messages[t] \in Seq(Message)
  BY DEF TypeOK
<1>1. ASSUME NEW t \in Turns, OpenTurn(t)
      PROVE  ChainInv'
  <2> DEFINE new == <<Human(t)>>
             h == saved \o new
  <2>1. new \in Seq(Message) /\ Calls(new) = {} /\ Append(saved, Human(t)) = h
    <3>1. Human(t) \in Message /\ saved \in Seq(Message)
      BY RoundsAssumption, MessageTypes DEF TypeOK
    <3>2. Append(saved, Human(t)) = h
      BY <3>1, AppendIsConcat
    <3>3. new \in Seq(Message) /\ Calls(new) = {}
      BY RoundsAssumption, KindsOfMessages, CallsOfMessages
    <3> QED
      BY <3>2, <3>3
  <2>2. Complete(t, saved)
    BY <1>1, AbsentHasNoCalls DEF OpenTurn, MixInv
  <2> HIDE DEF new
  <2>3. Calls(h) \subseteq Calls(saved) /\ Answered(saved) \subseteq Answered(h)
    BY <2>1, CallsOfConcat DEF TypeOK
  <2> HIDE DEF h
  <2>4. Complete(t, h)
    BY <2>2, <2>3 DEF Complete
  <2>5. messages' = [messages EXCEPT ![t] = h] /\ pc' = [pc EXCEPT ![t] = "input"]
    BY <1>1, <2>1 DEF OpenTurn
  <2> QED
    BY <2>4, <2>5 DEF ChainInv, TypeOK, Complete, CompleteButLast
<1>2. ASSUME NEW t \in Turns, SaveInput(t)
      PROVE  ChainInv'
  <2>1. pc[t] = "input" /\ pc' = [pc EXCEPT ![t] = "agent"] /\ messages' = messages
    BY <1>2 DEF SaveInput
  <2> QED
    BY <2>1 DEF ChainInv, TypeOK
<1>3. ASSUME NEW t \in Turns, AgentNode(t)
      PROVE  ChainInv'
  <2>1. PICK n \in Nat, r \in Nat :
           /\ messages' = [messages EXCEPT ![t] = messages[t] \o <<Ai(t, r, n)>>]
           /\ \/ pc' = [pc EXCEPT ![t] = "tools"]
              \/ pc' = [pc EXCEPT ![t] = "done"]
    BY <1>3, AgentFacts
  <2> DEFINE h == messages[t] \o <<Ai(t, r, n)>>
  <2>2. CompleteButLast(t, h)
    BY <1>0, <1>3, ReplyOpens DEF AgentNode, ChainInv
  <2>3. messages' = [messages EXCEPT ![t] = h]
    BY <2>1
  <2> HIDE DEF h
  <2> QED
    BY <2>1, <2>2, <2>3 DEF ChainInv, TypeOK
<1>4. ASSUME NEW t \in Turns, ToolsNode(t)
      PROVE  ChainInv'
  <2> DEFINE last == messages[t][Len(messages[t])]
             h == messages[t] \o Results(t, last.round, last.n)
  <2>1. /\ pc[t] = "tools" /\ last.round \in Nat /\ last.n \in Nat
        /\ messages' = [messages EXCEPT ![t] = h] /\ pc' = [pc EXCEPT ![t] = "agent"]
    BY <1>4, ToolsFacts
  <2>2. Complete(t, h)
    BY <1>0, <2>1, ResultsClose DEF ChainInv
  <2> HIDE DEF h
  <2> QED
    BY <2>1, <2>2 DEF ChainInv, TypeOK, Complete, CompleteButLast
<1>5. ASSUME NEW t \in Turns, CutTurn(t)
      PROVE  ChainInv'
  BY <1>5 DEF CutTurn, ChainInv, TypeOK, Complete, CompleteButLast
<1>6. CASE UNCHANGED vars
  BY <1>6 DEF vars, ChainInv, Complete, CompleteButLast
<1> QED
  BY <1>1, <1>2, <1>3, <1>4, <1>5, <1>6 DEF Next

\* A turn may leave a call open while it runs, once it is cut, or beyond the limit.
MayBeOpen(c) == InGraph(c[1]) \/ pc[c[1]] = "cut" \/ OverLimit(c)

\* A node of t that leaves no call of t behind but those it may keeps the thread so.
LEMMA NodeKeepsChains ==
  ASSUME TypeOK, UnansweredOnlyWhereCut, ~ overlapped, NEW t \in Turns,
         NEW new \in Seq(Message), saved' = saved \o new, NEW to, pc' = [pc EXCEPT ![t] = to],
         \A c \in Calls(new) : c[1] = t /\ MayBeOpen(c)',
         to \in {"input", "agent", "tools"} \/ Complete(t, saved)
  PROVE  UnansweredOnlyWhereCut'
<1> SUFFICES ASSUME NEW c \in Calls(saved'), c \notin Answered(saved')
             PROVE  MayBeOpen(c)'
  BY DEF UnansweredOnlyWhereCut, MayBeOpen
<1>1. c \in Calls(saved) \cup Calls(new) /\ c \notin Answered(saved)
  BY CallsOfConcat DEF TypeOK
<1>2. CASE c \in Calls(new)
  BY <1>2
<1>3. CASE c \in Calls(saved) /\ c[1] = t
  BY <1>1, <1>3 DEF Complete, MayBeOpen, InGraph, TypeOK
<1>4. CASE c \in Calls(saved) /\ c[1] # t
  <2>1. MayBeOpen(c)
    BY <1>1, <1>4 DEF UnansweredOnlyWhereCut, MayBeOpen
  <2>2. c[1] \in Turns
    <3>1. PICK i \in DOMAIN saved : \E k \in 1 .. saved[i].n :
                 c = <<saved[i].turn, saved[i].round, k>>
      BY <1>4, MembersOfCalls
    <3>2. saved[i] \in Message
      BY DEF TypeOK
    <3>3. saved[i].turn \in Turns
      BY <3>2 DEF Message
    <3> QED
      BY <3>1, <3>3
  <2>3. pc'[c[1]] = pc[c[1]]
    BY <1>4, <2>2 DEF TypeOK
  <2> QED
    BY <2>1, <2>3 DEF MayBeOpen, InGraph, OverLimit
<1> QED
  BY <1>1, <1>2, <1>3, <1>4

LEMMA UnansweredStep ==
  TypeOK /\ AloneInv /\ ChainInv /\ UnansweredOnlyWhereCut /\ [Next]_vars
    => UnansweredOnlyWhereCut'
<1> SUFFICES ASSUME TypeOK, AloneInv, ChainInv, UnansweredOnlyWhereCut, [Next]_vars,
                    ~ overlapped'
             PROVE  UnansweredOnlyWhereCut'
  BY DEF UnansweredOnlyWhereCut
<1>0. ~ overlapped
  BY NodeStep DEF Next, OpenTurn, SaveInput, Extends, CutTurn, vars
<1>s. saved \in Seq(Message) /\ <<>> \in Seq(Message) /\ saved \o <<>> = saved /\ Calls(<<>>) = {}
  BY EmptySeq, ConcatEmptySeq DEF TypeOK, Calls
<1>1. ASSUME NEW t \in Turns, OpenTurn(t)
      PROVE  UnansweredOnlyWhereCut'
  <2>1. pc' = [pc EXCEPT ![t] = "input"] /\ saved' = saved \o <<>>
    BY <1>s, <1>1 DEF OpenTurn
  <2> QED
    BY <1>0, <1>s, <2>1, NodeKeepsChains
<1>2. ASSUME NEW t \in Turns, SaveInput(t)
      PROVE  UnansweredOnlyWhereCut'
  <2>1. pc' = [pc EXCEPT ![t] = "agent"] /\ saved' = saved \o <<Human(t)>>
    BY <1>0, <1>2 DEF SaveInput, AloneInv
  <2>2. <<Human(t)>> \in Seq(Message) /\ Calls(<<Human(t)>>) = {}
    BY RoundsAssumption, KindsOfMessages, CallsOfMessages
  <2> QED
    BY <1>0, <2>1, <2>2, NodeKeepsChains
<1>3. ASSUME NEW t \in Turns, AgentNode(t)
      PROVE  UnansweredOnlyWhereCut'
  <2>1. PICK n \in Nat, r \in Nat :
           /\ r > 0
           /\ saved' = messages[t] \o <<Ai(t, r, n)>>
           /\ \/ pc' = [pc EXCEPT ![t] = "tools"] /\ r <= MaxToolRounds
              \/ pc' = [pc EXCEPT ![t] = "done"] /\ (n = 0 \/ r > MaxToolRounds)
    BY <1>3, AgentFacts
  <2> DEFINE new == <<Ai(t, r, n)>>
  <2>2. messages[t] = saved /\ Complete(t, saved)
    BY <1>0, <1>3 DEF AgentNode, AloneInv, ChainInv
  <2>3. new \in Seq(Message)
    BY KindsOfMessages
  <2>4. \A c \in Calls(new) : \E k \in 1 .. n : c = <<t, r, k>>
    BY CallsOfMessages
  <2> HIDE DEF new
  <2>5. \A c \in Calls(new) : c[1] = t /\ MayBeOpen(c)'
    <3> SUFFICES ASSUME NEW c \in Calls(new)
                 PROVE  c[1] = t /\ MayBeOpen(c)'
      OBVIOUS
    <3>1. c[1] = t /\ c[2] = r /\ n # 0
      BY <2>4
    <3>2. CASE pc' = [pc EXCEPT ![t] = "tools"]
      BY <3>1, <3>2 DEF MayBeOpen, InGraph, TypeOK
    <3>3. CASE r > MaxToolRounds
      BY <3>1, <3>3 DEF MayBeOpen, OverLimit
    <3> QED
      BY <2>1, <3>1, <3>2, <3>3
  <2>6. saved' = saved \o new
    BY <2>1, <2>2 DEF new
  <2>7. \E to : pc' = [pc EXCEPT ![t] = to]
    BY <2>1
  <2> QED
    BY <1>0, <2>2, <2>3, <2>5, <2>6, <2>7, NodeKeepsChains
<1>4. ASSUME NEW t \in Turns, ToolsNode(t)
      PROVE  UnansweredOnlyWhereCut'
  <2> DEFINE last == messages[t][Len(messages[t])]
             new == Results(t, last.round, last.n)
  <2>1. /\ pc[t] = "tools" /\ last.round \in Nat /\ last.n \in Nat /\ new \in Seq(Message)
        /\ saved' = messages[t] \o new /\ pc' = [pc EXCEPT ![t] = "agent"]
    BY <1>4, ToolsFacts
  <2>2. messages[t] = saved
    BY <1>0, <2>1 DEF AloneInv
  <2>3. Calls(new) = {}
    <3> HIDE DEF last
    <3> QED
      BY <2>1, CallsOfMessages
  <2> HIDE DEF new
  <2> QED
    BY <1>0, <2>1, <2>2, <2>3, NodeKeepsChains
<1>5. ASSUME NEW t \in Turns, CutTurn(t)
      PROVE  UnansweredOnlyWhereCut'
  <2> SUFFICES ASSUME NEW c \in Calls(saved'), c \notin Answered(saved')
               PROVE  MayBeOpen(c)'
    BY DEF UnansweredOnlyWhereCut, MayBeOpen
  <2>1. MayBeOpen(c)
    BY <1>0, <1>5 DEF CutTurn, UnansweredOnlyWhereCut, MayBeOpen
  <2>2. pc' = [pc EXCEPT ![t] = "cut"] /\ DOMAIN pc = Turns
    BY <1>5 DEF CutTurn, TypeOK
  <2>3. pc'[c[1]] = pc[c[1]] \/ pc'[c[1]] = "cut"
    BY <2>2
  <2> QED
    BY <2>1, <2>3 DEF MayBeOpen, InGraph, OverLimit
<1>6. CASE UNCHANGED vars
  BY <1>6 DEF vars, UnansweredOnlyWhereCut, InGraph, OverLimit
<1> QED
  BY <1>1, <1>2, <1>3, <1>4, <1>5, <1>6 DEF Next

\* A turn that ends normally, alone, leaves a result for every call it made.
THEOREM CompleteChains == Spec => []UnansweredOnlyWhereCut
<1>1. Init => MixInv /\ AloneInv /\ ChainInv /\ UnansweredOnlyWhereCut
  BY DEF Init, MixInv, AloneInv, ChainInv, UnansweredOnlyWhereCut, Together, Absent, InGraph, Calls
<1>2. TypeOK /\ AloneInv /\ [Next]_vars => AloneInv'
  BY AloneInvStep
<1> QED
  BY <1>1, <1>2, TypeInit, TypeStep, MixInvStep, ChainStep, UnansweredStep, PTL DEF Spec

-----------------------------------------------------------------------------
(***************************************************************************)
(* The thread is a TurnLog while turns do not overlap.  What the nodes     *)
(* take from the copy they work on, the log has in its last message: whose *)
(* turn it is, and how many rounds that turn has asked for (LastInv).      *)
(***************************************************************************)
\* The messages that ToolRoundsThisTurn counts.
RoundsOf(h) ==
    {i \in DOMAIN h : /\ h[i].kind = "ai" /\ h[i].n > 0
                      /\ \A j \in i .. Len(h) : h[j].kind # "human"}

\* A new message of the user starts the count again.
LEMMA HumanStartsCount ==
  ASSUME NEW h \in Seq(Message), NEW m \in Message, m.kind = "human"
  PROVE  ToolRoundsThisTurn(h \o <<m>>) = 0
<1> DEFINE g == h \o <<m>>
<1>1. <<m>> \in Seq(Message) /\ <<m>> # <<>>
  OBVIOUS
<1>2. g \in Seq(Message) /\ g[Len(g)] = m /\ g # <<>>
  BY <1>1, LastOfConcat
<1> HIDE DEF g
<1>3. RoundsOf(g) = {}
  <2> SUFFICES ASSUME NEW i \in RoundsOf(g)
               PROVE  FALSE
    OBVIOUS
  <2>1. i \in 1 .. Len(g) /\ Len(g) \in Nat
    BY <1>2 DEF RoundsOf
  <2>2. Len(g) \in i .. Len(g)
    BY <2>1
  <2> QED
    BY <1>2, <2>2 DEF RoundsOf
<1> QED
  BY <1>3, FS_EmptySet DEF ToolRoundsThisTurn, RoundsOf, g

\* Results do not count.
LEMMA ResultsKeepCount ==
  ASSUME NEW h \in Seq(Message), NEW new \in Seq(Message),
         \A i \in DOMAIN new : new[i].kind = "tool"
  PROVE  ToolRoundsThisTurn(h \o new) = ToolRoundsThisTurn(h)
<1> DEFINE g == h \o new
<1>1. /\ Len(h) \in Nat /\ Len(new) \in Nat /\ Len(g) = Len(h) + Len(new)
      /\ DOMAIN h = 1 .. Len(h) /\ DOMAIN g = 1 .. Len(g)
  BY ConcatProperties
<1>2. /\ \A i \in DOMAIN g :
            \/ i \in DOMAIN h /\ g[i] = h[i]
            \/ i - Len(h) \in DOMAIN new /\ g[i] = new[i - Len(h)]
      /\ \A i \in DOMAIN h : i \in DOMAIN g /\ g[i] = h[i]
  BY PartsOfConcat
<1> HIDE DEF g
<1>3. \A i \in DOMAIN g : (i \in DOMAIN h /\ g[i] = h[i]) \/ g[i].kind = "tool"
  BY <1>2
<1>4. ASSUME NEW i \in RoundsOf(g)
      PROVE  i \in RoundsOf(h)
  <2>1. i \in DOMAIN g /\ i \in DOMAIN h /\ g[i] = h[i]
    BY <1>3 DEF RoundsOf
  <2>2. \A j \in i .. Len(h) : j \in DOMAIN h /\ j \in i .. Len(g)
    BY <1>1, <2>1
  <2> QED
    BY <1>2, <2>1, <2>2 DEF RoundsOf
<1>5. ASSUME NEW i \in RoundsOf(h)
      PROVE  i \in RoundsOf(g)
  <2>1. i \in DOMAIN h /\ i \in DOMAIN g /\ g[i] = h[i]
    BY <1>2 DEF RoundsOf
  <2>2. \A j \in i .. Len(g) : j \in DOMAIN g /\ (j \in DOMAIN h => j \in i .. Len(h))
    BY <1>1, <2>1
  <2>3. \A j \in i .. Len(g) : g[j].kind # "human"
    BY <1>3, <2>2 DEF RoundsOf
  <2> QED
    BY <2>1, <2>3 DEF RoundsOf
<1>6. RoundsOf(g) = RoundsOf(h)
  BY <1>4, <1>5
<1> QED
  BY <1>6 DEF ToolRoundsThisTurn, RoundsOf, g

\* Where a run stands shows in the last message of its copy.
Standing(h, p, t) ==
    LET last == h[Len(h)] IN
    /\ p = "input" => h # <<>> /\ last = Human(t) /\ ToolRoundsThisTurn(h) = 0
    /\ p = "agent" => last.kind \in {"human", "tool"}
    /\ p = "tools" => last.kind = "ai"
    /\ p \in {"agent", "tools"} => last.turn = t /\ last.round = ToolRoundsThisTurn(h)

LastInv ==
    \A t \in Turns :
        /\ Standing(messages[t], pc[t], t)
        /\ pc[t] = "input" /\ ~ overlapped => Absent(t, saved)

LEMMA LastStep ==
  TypeOK /\ MixInv /\ AloneInv /\ LastInv /\ [Next]_vars => LastInv'
<1> SUFFICES ASSUME TypeOK, MixInv, AloneInv, LastInv, [Next]_vars
             PROVE  LastInv'
  OBVIOUS
<1>0. \A t \in Turns : messages[t] \in Seq(Message) /\ saved \in Seq(Message)
  BY DEF TypeOK
<1>1. ASSUME NEW t \in Turns, OpenTurn(t)
      PROVE  LastInv'
  <2> DEFINE new == <<Human(t)>>
             h == saved \o new
  <2>1. Human(t) \in Message /\ Human(t).kind = "human" /\ new \in Seq(Message) /\ new # <<>>
    BY RoundsAssumption, MessageTypes DEF Human
  <2>2. Append(saved, Human(t)) = h
    BY <1>0, <2>1, AppendIsConcat
  <2>3. ToolRoundsThisTurn(h) = 0
    BY <1>0, <2>1, HumanStartsCount
  <2>4. h # <<>> /\ h[Len(h)] = new[Len(new)] /\ new[Len(new)] = Human(t)
    BY <1>0, <2>1, LastOfConcat
  <2>5. /\ pc[t] = "new" /\ messages' = [messages EXCEPT ![t] = h] /\ saved' = saved
        /\ pc' = [pc EXCEPT ![t] = "input"] /\ (overlapped => overlapped')
    BY <1>1, <2>2 DEF OpenTurn
  <2>6. Absent(t, saved)
    BY <2>5 DEF MixInv
  <2> HIDE DEF h, new
  <2>7. Standing(h, "input", t)
    BY <2>3, <2>4 DEF Standing
  <2> QED
    BY <2>5, <2>6, <2>7 DEF TypeOK, LastInv
<1>2. ASSUME NEW t \in Turns, SaveInput(t)
      PROVE  LastInv'
  <2>1. /\ pc[t] = "input" /\ pc' = [pc EXCEPT ![t] = "agent"]
        /\ messages' = messages /\ overlapped' = overlapped /\ saved' = messages[t]
    BY <1>2 DEF SaveInput
  <2>2. Standing(messages[t], "agent", t)
    <3>1. Human(t).kind = "human" /\ Human(t).turn = t /\ Human(t).round = 0
      BY DEF Human
    <3>2. Standing(messages[t], "input", t)
      BY <2>1 DEF LastInv
    <3> QED
      BY <3>1, <3>2 DEF Standing
  <2>3. ~ overlapped => \A u \in Turns \ {t} : pc[u] # "input"
    BY <2>1 DEF AloneInv, InGraph
  <2> QED
    BY <2>1, <2>2, <2>3 DEF TypeOK, LastInv
<1>3. ASSUME NEW t \in Turns, AgentNode(t)
      PROVE  LastInv'
  <2>1. PICK n \in Nat, r \in Nat :
           /\ r = ToolRoundsThisTurn(messages[t]) + 1
           /\ messages' = [messages EXCEPT ![t] = messages[t] \o <<Ai(t, r, n)>>]
           /\ overlapped' = overlapped
           /\ \/ pc' = [pc EXCEPT ![t] = "tools"] /\ n > 0
              \/ pc' = [pc EXCEPT ![t] = "done"]
    BY <1>3, AgentFacts
  <2> DEFINE m == Ai(t, r, n)
             new == <<m>>
             h == messages[t] \o new
  <2>2. m \in Message /\ m.kind = "ai" /\ m.n = n /\ m.turn = t /\ m.round = r
    BY MessageTypes DEF Ai
  <2>3. h = Append(messages[t], m)
    <3> HIDE DEF m
    <3> QED
      BY <1>0, <2>2, AppendIsConcat
  <2>4. n > 0 => ToolRoundsThisTurn(h) = r
    <3> HIDE DEF m
    <3> QED
      BY <1>0, <2>1, <2>2, <2>3, OneRoundMore
  <2>5. h[Len(h)] = m
    <3> HIDE DEF m
    <3>1. new \in Seq(Message) /\ new # <<>> /\ new[Len(new)] = m
      BY <2>2
    <3> QED
      BY <1>0, <3>1, LastOfConcat
  <2>6. messages' = [messages EXCEPT ![t] = h]
    BY <2>1
  <2> HIDE DEF h, m
  <2>7. Standing(h, "done", t) /\ (n > 0 => Standing(h, "tools", t))
    BY <2>2, <2>4, <2>5 DEF Standing
  <2>8. pc[t] = "agent"
    BY <1>3 DEF AgentNode
  <2>9. ~ overlapped => \A u \in Turns \ {t} : pc[u] # "input"
    BY <2>8 DEF AloneInv, InGraph
  <2> QED
    BY <2>1, <2>6, <2>7, <2>9 DEF TypeOK, LastInv
<1>4. ASSUME NEW t \in Turns, ToolsNode(t)
      PROVE  LastInv'
  <2> DEFINE last == messages[t][Len(messages[t])]
             new == Results(t, last.round, last.n)
             h == messages[t] \o new
  <2>1. /\ pc[t] = "tools" /\ last.round \in Nat /\ last.n \in Nat /\ new \in Seq(Message)
        /\ messages' = [messages EXCEPT ![t] = h]
        /\ overlapped' = overlapped
        /\ pc' = [pc EXCEPT ![t] = "agent"]
    BY <1>4, ToolsFacts
  <2>2. last.n > 0 /\ last.turn = t /\ last.round = ToolRoundsThisTurn(messages[t])
    BY <2>1 DEF TypeOK, LastInv, Standing
  <2>3. /\ Len(new) = last.n /\ DOMAIN new = 1 .. last.n
        /\ \A i \in DOMAIN new :
              new[i].kind = "tool" /\ new[i].turn = t /\ new[i].round = last.round
    <3> HIDE DEF last
    <3> QED
      BY <2>1, MessageTypes DEF Results
  <2> HIDE DEF new
  <2>4. new # <<>> /\ Len(new) \in DOMAIN new
    BY <2>1, <2>2, <2>3
  <2>5. ToolRoundsThisTurn(h) = ToolRoundsThisTurn(messages[t])
    <3> HIDE DEF last
    <3> QED
      BY <1>0, <2>1, <2>3, ResultsKeepCount
  <2>6. h[Len(h)] = new[Len(new)]
    BY <1>0, <2>1, <2>4, LastOfConcat
  <2> HIDE DEF h, last
  <2>7. Standing(h, "agent", t)
    BY <2>2, <2>3, <2>4, <2>5, <2>6 DEF Standing
  <2>8. ~ overlapped => \A u \in Turns \ {t} : pc[u] # "input"
    BY <2>1 DEF AloneInv, InGraph
  <2> QED
    BY <2>1, <2>7, <2>8 DEF TypeOK, LastInv
<1>5. ASSUME NEW t \in Turns, CutTurn(t)
      PROVE  LastInv'
  <2>1. \A h : Standing(h, "cut", t)
    BY DEF Standing
  <2> QED
    BY <1>5, <2>1 DEF CutTurn, TypeOK, LastInv
<1>6. CASE UNCHANGED vars
  BY <1>6 DEF vars, LastInv
<1> QED
  BY <1>1, <1>2, <1>3, <1>4, <1>5, <1>6 DEF Next

\* Every write of a run that is alone is a step of the TurnLog.
LEMMA WritesAreLogged ==
  ASSUME TypeOK, AloneInv, RoundsInv, LastInv, [Next]_vars, ~ overlapped'
  PROVE  Log!LogNext \/ saved' = saved
<1>0. \A t \in Turns : messages[t] \in Seq(Message) /\ saved \in Seq(Message)
  BY DEF TypeOK
<1>1. ~ overlapped
  BY NodeStep DEF Next, OpenTurn, SaveInput, Extends, CutTurn, vars
<1>2. ASSUME NEW t \in Turns, SaveInput(t)
      PROVE  Log!Say(t)
  <2>1. pc[t] = "input" /\ saved' = messages[t]
    BY <1>2 DEF SaveInput
  <2>2. saved' = saved \o <<Human(t)>> /\ Absent(t, saved)
    BY <1>1, <2>1 DEF AloneInv, LastInv
  <2>3. Human(t) \in Message
    BY RoundsAssumption, MessageTypes
  <2>4. saved' = Append(saved, Human(t))
    BY <1>0, <2>2, <2>3, AppendIsConcat
  <2> QED
    BY <2>2, <2>4 DEF Log!Say, Absent, Human
<1>3. ASSUME NEW t \in Turns, pc[t] \in {"agent", "tools"}
      PROVE  messages[t] = saved /\ saved # <<>> /\ Log!Last = saved[Len(saved)]
  BY <1>1, <1>3 DEF AloneInv, TypeOK, InGraph, Log!Last
<1>4. ASSUME NEW t \in Turns, AgentNode(t)
      PROVE  \E n \in 0 .. MaxCalls : Log!Reply(n)
  <2>1. PICK n \in Nat, r \in Nat :
           /\ n <= MaxCalls
           /\ r = ToolRoundsThisTurn(messages[t]) + 1
           /\ saved' = messages[t] \o <<Ai(t, r, n)>>
    BY <1>4, AgentFacts
  <2>2. pc[t] = "agent"
    BY <1>4 DEF AgentNode
  <2>3. /\ Log!Last.kind \in {"human", "tool"}
        /\ Log!Last.turn = t /\ Log!Last.round = ToolRoundsThisTurn(saved)
    BY <1>3, <2>2 DEF LastInv, Standing
  <2>4. Ai(t, r, n) = [kind |-> "ai", turn |-> Log!Last.turn, round |-> Log!Last.round + 1,
                       n |-> n]
    BY <1>3, <2>1, <2>2, <2>3 DEF Ai
  <2>5. saved' = Append(saved, Ai(t, r, n))
    <3>1. Ai(t, r, n) \in Message
      BY MessageTypes
    <3> QED
      BY <1>0, <1>3, <2>1, <2>2, <3>1, AppendIsConcat
  <2>6. Log!Reply(n)
    BY <1>3, <2>2, <2>3, <2>4, <2>5 DEF Log!Reply
  <2>7. n \in 0 .. MaxCalls
    BY <2>1, CallsAssumption
  <2> QED
    BY <2>6, <2>7
<1>5. ASSUME NEW t \in Turns, ToolsNode(t)
      PROVE  Log!Return
  <2>1. pc[t] = "tools"
    BY <1>5 DEF ToolsNode
  <2>2. /\ Log!Last.kind = "ai" /\ Log!Last.turn = t /\ Log!Last.n > 0
        /\ Log!Last.round \in 1 .. MaxToolRounds
    BY <1>3, <2>1 DEF LastInv, Standing, TypeOK, RoundsInv
  <2>3. saved' = saved \o Results(t, Log!Last.round, Log!Last.n)
    BY <1>3, <1>5, <2>1, ToolsFacts
  <2>4. Log!Last.round <= MaxToolRounds
    BY <2>2, RoundsAssumption
  <2> QED
    BY <1>3, <2>1, <2>2, <2>3, <2>4 DEF Log!Return, Results
<1>6. ASSUME NEW t \in Turns, OpenTurn(t) \/ CutTurn(t)
      PROVE  saved' = saved
  BY <1>6 DEF OpenTurn, CutTurn
<1> QED
  BY <1>2, <1>4, <1>5, <1>6 DEF Next, vars, Log!LogNext

\* While turns come one after the other, ChatThread implements the TurnLog.
THEOREM ThreadImplementsTurnLog == Spec => ImplementsTurnLog
<1>1. Init => Log!LogInit
  BY DEF Init, Log!LogInit
<1>2. Init => MixInv /\ AloneInv /\ RoundsInv /\ LastInv
  BY EmptySeq DEF Init, MixInv, AloneInv, RoundsInv, LastInv, Standing, RoundsOk, Together,
     Absent, InGraph
<1>3. TypeOK /\ AloneInv /\ RoundsInv /\ LastInv /\ [Next]_vars
        => [Log!LogNext \/ overlapped']_saved
  BY WritesAreLogged
<1>4. TypeOK /\ AloneInv /\ [Next]_vars => AloneInv'
  BY AloneInvStep
<1> QED
  BY <1>1, <1>2, <1>3, <1>4, TypeInit, TypeStep, MixInvStep, RoundsStep, LastStep, PTL
     DEF Spec, ImplementsTurnLog

(***************************************************************************)
(* The order of a history.                                                 *)
(***************************************************************************)
InOrder(h) == \A i \in DOMAIN h : Fits(h, i)

\* What is appended disturbs nothing before it.
LEMMA FitsStays ==
  ASSUME NEW h \in Seq(Message), NEW new \in Seq(Message), NEW i \in DOMAIN h, Fits(h, i)
  PROVE  Fits(h \o new, i)
<1> DEFINE g == h \o new
<1>1. /\ Len(h) \in Nat /\ Len(new) \in Nat /\ Len(g) = Len(h) + Len(new)
      /\ DOMAIN h = 1 .. Len(h) /\ \A m \in Message : m.n \in Nat
  BY ConcatProperties DEF Message
<1>2. \A j \in DOMAIN h : g[j] = h[j]
  BY PartsOfConcat
<1> HIDE DEF g
<1>3. i \in 1 .. Len(h) /\ g[i] = h[i] /\ (i > 1 => i - 1 \in DOMAIN h)
  BY <1>1, <1>2
<1>4. CASE h[i].kind = "human"
  BY <1>3, <1>4 DEF Fits, g
<1>5. CASE h[i].kind = "ai"
  <2>1. i > 1 /\ g[i - 1] = h[i - 1]
    BY <1>2, <1>3, <1>5 DEF Fits
  <2> QED
    BY <1>3, <1>5, <2>1 DEF Fits, g
<1>6. CASE h[i].kind = "tool"
  <2>1. PICK j \in 1 .. i - 1 :
           /\ h[j].kind = "ai" /\ i <= j + h[j].n /\ j + h[j].n <= Len(h)
           /\ \A k \in 1 .. h[j].n :
                 h[j + k] = Results(h[j].turn, h[j].round, h[j].n)[k]
    BY <1>6 DEF Fits
  <2>2. j \in DOMAIN h /\ g[j] = h[j] /\ h[j].n \in Nat
    BY <1>1, <1>2, <1>3
  <2>3. \A k \in 1 .. h[j].n : j + k \in DOMAIN h
    BY <1>1, <2>1, <2>2
  <2>4. \A k \in 1 .. g[j].n : g[j + k] = Results(g[j].turn, g[j].round, g[j].n)[k]
    BY <1>2, <2>1, <2>2, <2>3
  <2>5. j + g[j].n <= Len(g)
    BY <1>1, <2>1, <2>2
  <2> QED
    BY <1>3, <1>6, <2>1, <2>2, <2>4, <2>5 DEF Fits, g
<1> QED
  BY <1>4, <1>5, <1>6 DEF Fits

\* One message that fits.
LEMMA OneMoreFits ==
  ASSUME NEW h \in Seq(Message), NEW m \in Message, InOrder(h),
         \/ m.kind = "human"
         \/ /\ m.kind = "ai" /\ h # <<>>
            /\ h[Len(h)].kind \in {"human", "tool"}
            /\ m.turn = h[Len(h)].turn /\ m.round = h[Len(h)].round + 1
  PROVE  InOrder(h \o <<m>>)
<1> DEFINE new == <<m>>
           g == h \o new
<1>1. /\ new \in Seq(Message) /\ Len(new) = 1 /\ new[1] = m
      /\ Len(h) \in Nat /\ Len(g) = Len(h) + 1 /\ DOMAIN h = 1 .. Len(h)
      /\ DOMAIN g = 1 .. Len(h) + 1
  BY ConcatProperties
<1>2. (\A j \in DOMAIN h : g[j] = h[j]) /\ g[Len(h) + 1] = m
  <2> HIDE DEF new
  <2>1. 1 \in DOMAIN new
    BY <1>1
  <2> QED
    BY <1>1, <2>1, PartsOfConcat
<1>3. \A i \in DOMAIN h : Fits(g, i)
  BY <1>1, FitsStays DEF InOrder
<1> HIDE DEF g, new
<1>4. Fits(g, Len(h) + 1)
  <2>1. CASE m.kind = "human"
    BY <1>2, <2>1 DEF Fits
  <2>2. CASE m.kind = "ai"
    <3>1. Len(h) \in DOMAIN h /\ Len(h) + 1 > 1 /\ Len(h) + 1 - 1 = Len(h)
      BY <1>1, <2>2, EmptySeq
    <3>2. g[Len(h) + 1 - 1] = h[Len(h)]
      BY <1>2, <3>1
    <3> QED
      BY <1>2, <2>2, <3>1, <3>2 DEF Fits
  <2> QED
    BY <2>1, <2>2
<1>5. \A i \in DOMAIN g : i \in DOMAIN h \/ i = Len(h) + 1
  BY <1>1
<1> QED
  BY <1>3, <1>4, <1>5 DEF InOrder, g, new

\* The results of the reply at the end fit.
LEMMA ResultsFit ==
  ASSUME NEW h \in Seq(Message), h # <<>>, InOrder(h), h[Len(h)].kind = "ai"
  PROVE  InOrder(h \o Results(h[Len(h)].turn, h[Len(h)].round, h[Len(h)].n))
<1> DEFINE last == h[Len(h)]
           new == Results(last.turn, last.round, last.n)
           g == h \o new
<1>1. Len(h) \in Nat /\ Len(h) \in DOMAIN h /\ DOMAIN h = 1 .. Len(h) /\ last \in Message
  BY EmptySeq
<1>2. last.turn \in Turns /\ last.round \in Nat /\ last.n \in Nat
  BY <1>1 DEF Message
<1>3. new \in Seq(Message) /\ Len(new) = last.n /\ DOMAIN new = 1 .. last.n
  <2> HIDE DEF last
  <2> QED
    BY <1>2, MessageTypes DEF Results
<1>4. \A k \in DOMAIN new : new[k].kind = "tool"
  BY DEF Results
<1> HIDE DEF new, last
<1>5. Len(g) = Len(h) + last.n /\ DOMAIN g = 1 .. Len(h) + last.n
  BY <1>1, <1>2, <1>3, ConcatProperties
<1>9. \A j \in DOMAIN h : g[j] = h[j]
  BY <1>3, PartsOfConcat
<1>10. \A k \in 1 .. last.n : g[Len(h) + k] = new[k]
  BY <1>3, PartsOfConcat
<1>6. \A i \in DOMAIN h : Fits(g, i)
  BY <1>3, FitsStays DEF InOrder
<1>7. g[Len(h)] = last /\ last.kind = "ai"
  BY <1>1, <1>9 DEF last
<1> HIDE DEF g
<1>8. ASSUME NEW i \in DOMAIN g, i \notin DOMAIN h
      PROVE  Fits(g, i)
  <2>1. i \in Nat /\ i > Len(h) /\ i <= Len(h) + last.n /\ i - Len(h) \in 1 .. last.n
    BY <1>1, <1>2, <1>5, <1>8
  <2>2. g[i] = new[i - Len(h)]
    <3>1. Len(h) + (i - Len(h)) = i
      BY <1>1, <2>1
    <3> QED
      BY <1>10, <2>1, <3>1
  <2>3. g[i].kind = "tool"
    BY <1>3, <1>4, <2>1, <2>2
  <2>4. Len(h) \in 1 .. i - 1 /\ i <= Len(h) + last.n /\ Len(h) + last.n <= Len(g)
    <3>1. Len(h) >= 1
      BY <1>1
    <3> QED
      BY <1>1, <1>2, <1>5, <2>1, <3>1
  <2>5. \A k \in 1 .. last.n :
           g[Len(h) + k] = Results(last.turn, last.round, last.n)[k]
    BY <1>10 DEF new
  <2> QED
    BY <1>7, <2>3, <2>4, <2>5 DEF Fits
<1> QED
  BY <1>6, <1>8 DEF InOrder, g, new, last

OrderInv ==
    /\ InOrder(saved)
    /\ \A t \in Turns : InGraph(t) => InOrder(messages[t])

LEMMA OrderStep == TypeOK /\ LastInv /\ OrderInv /\ [Next]_vars => OrderInv'
<1> SUFFICES ASSUME TypeOK, LastInv, OrderInv, [Next]_vars
             PROVE  OrderInv'
  OBVIOUS
<1>0. \A t \in Turns : messages[t] \in Seq(Message) /\ saved \in Seq(Message)
  BY DEF TypeOK
<1>1. ASSUME NEW t \in Turns, OpenTurn(t)
      PROVE  OrderInv'
  <2>1. Human(t) \in Message /\ Human(t).kind = "human"
    BY RoundsAssumption, MessageTypes DEF Human
  <2>2. InOrder(saved \o <<Human(t)>>) /\ Append(saved, Human(t)) = saved \o <<Human(t)>>
    BY <1>0, <2>1, OneMoreFits, AppendIsConcat DEF OrderInv
  <2> DEFINE h == saved \o <<Human(t)>>
  <2>3. messages' = [messages EXCEPT ![t] = h] /\ saved' = saved
        /\ pc' = [pc EXCEPT ![t] = "input"]
    BY <1>1, <2>2 DEF OpenTurn
  <2>4. InOrder(h)
    BY <2>2
  <2> HIDE DEF h
  <2> QED
    BY <2>3, <2>4 DEF TypeOK, OrderInv, InGraph
<1>2. ASSUME NEW t \in Turns, SaveInput(t)
      PROVE  OrderInv'
  BY <1>2 DEF SaveInput, OrderInv, InGraph, TypeOK
<1>3. ASSUME NEW t \in Turns, AgentNode(t)
      PROVE  OrderInv'
  <2>1. PICK n \in Nat, r \in Nat :
           /\ r = ToolRoundsThisTurn(messages[t]) + 1
           /\ messages' = [messages EXCEPT ![t] = messages[t] \o <<Ai(t, r, n)>>]
           /\ saved' = messages[t] \o <<Ai(t, r, n)>>
           /\ \E p : pc' = [pc EXCEPT ![t] = p]
    BY <1>3, AgentFacts
  <2> DEFINE h == messages[t] \o <<Ai(t, r, n)>>
             last == messages[t][Len(messages[t])]
  <2>2. pc[t] = "agent" /\ messages[t] # <<>> /\ InOrder(messages[t])
    BY <1>3 DEF AgentNode, TypeOK, InGraph, OrderInv
  <2>3. last.kind \in {"human", "tool"} /\ last.turn = t /\ last.round + 1 = r
    BY <2>1, <2>2 DEF LastInv, Standing
  <2>4. /\ Ai(t, r, n) \in Message /\ Ai(t, r, n).kind = "ai"
        /\ Ai(t, r, n).turn = t /\ Ai(t, r, n).round = r
    BY MessageTypes DEF Ai
  <2>5. InOrder(h)
    BY <1>0, <2>2, <2>3, <2>4, OneMoreFits
  <2>6. messages' = [messages EXCEPT ![t] = h] /\ saved' = h
    BY <2>1
  <2> HIDE DEF h
  <2> QED
    BY <2>1, <2>5, <2>6, <2>2 DEF TypeOK, OrderInv, InGraph
<1>4. ASSUME NEW t \in Turns, ToolsNode(t)
      PROVE  OrderInv'
  <2> DEFINE last == messages[t][Len(messages[t])]
             h == messages[t] \o Results(t, last.round, last.n)
  <2>1. /\ pc[t] = "tools" /\ messages' = [messages EXCEPT ![t] = h] /\ saved' = h
        /\ pc' = [pc EXCEPT ![t] = "agent"]
    BY <1>4, ToolsFacts
  <2>2. messages[t] # <<>> /\ InOrder(messages[t])
    BY <2>1 DEF TypeOK, InGraph, OrderInv
  <2>3. last.kind = "ai" /\ last.turn = t
    BY <2>1 DEF LastInv, Standing
  <2>4. InOrder(h)
    BY <1>0, <2>2, <2>3, ResultsFit
  <2> HIDE DEF h
  <2> QED
    BY <2>1, <2>4 DEF TypeOK, OrderInv, InGraph
<1>5. ASSUME NEW t \in Turns, CutTurn(t)
      PROVE  OrderInv'
  BY <1>5 DEF CutTurn, OrderInv, InGraph, TypeOK
<1>6. CASE UNCHANGED vars
  BY <1>6 DEF vars, OrderInv, InGraph
<1> QED
  BY <1>1, <1>2, <1>3, <1>4, <1>5, <1>6 DEF Next

\* However turns overlap and wherever they are cut, the thread is a sequence of turns,
\* each a sequence of rounds, each a reply with all of its results behind it or none.
THEOREM HistoriesStayInOrder == Spec => []HistoryInOrder
<1>1. Init => MixInv /\ AloneInv /\ LastInv /\ OrderInv
  BY EmptySeq DEF Init, MixInv, AloneInv, LastInv, Standing, OrderInv, InOrder, Together,
     Absent, InGraph
<1>2. TypeOK /\ AloneInv /\ [Next]_vars => AloneInv'
  BY AloneInvStep
<1>3. MixInv /\ OrderInv => HistoryInOrder
  BY DEF MixInv, Together, OrderInv, InOrder, HistoryInOrder, TurnsDoNotMix
<1> QED
  BY <1>1, <1>2, <1>3, TypeInit, TypeStep, MixInvStep, LastStep, OrderStep, PTL DEF Spec
=============================================================================
