------------------------------ MODULE TurnLog ------------------------------
(***************************************************************************)
(* What a conversation is to whoever reads it: one list of messages that   *)
(* only gets longer, and whose last message says what may come next.       *)
(*   - a turn begins with the user's message, once;                        *)
(*   - the model replies to that message or to the results of its last     *)
(*     round, and the rounds of a turn are numbered from 1;                *)
(*   - the calls of a reply get their results together, all of them and in *)
(*     order, if the round is within the limit;                            *)
(*   - a turn may be given up anywhere; the next one begins behind it.     *)
(* There are no copies, nodes or checkpoints.  Module ChatThread           *)
(* implements this specification while turns do not overlap.               *)
(***************************************************************************)
EXTENDS Naturals, Sequences

CONSTANTS
    Turns,
    MaxToolRounds,
    MaxCalls

VARIABLE log

Last == log[Len(log)]

LogInit == log = <<>>

\* The user says something.
Say(t) ==
    /\ \A i \in DOMAIN log : log[i].turn # t
    /\ log' = Append(log, [kind |-> "human", turn |-> t, round |-> 0, n |-> 0])

\* The model replies and asks for n tools.
Reply(n) ==
    /\ log # <<>>
    /\ Last.kind \in {"human", "tool"}
    /\ log' = Append(log, [kind |-> "ai", turn |-> Last.turn, round |-> Last.round + 1,
                           n |-> n])

\* The tools that the last message asks for answer.
Return ==
    /\ log # <<>>
    /\ Last.kind = "ai"
    /\ Last.n > 0
    /\ Last.round <= MaxToolRounds
    /\ log' = log \o [k \in 1 .. Last.n |->
                        [kind |-> "tool", turn |-> Last.turn, round |-> Last.round, n |-> k]]

LogNext ==
    \/ \E t \in Turns : Say(t)
    \/ \E n \in 0 .. MaxCalls : Reply(n)
    \/ Return
=============================================================================
