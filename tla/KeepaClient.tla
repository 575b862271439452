----------------------------- MODULE KeepaClient -----------------------------
(***************************************************************************)
(* The Keepa client of app/keepa/client.py: one KeepaClient per process    *)
(* (get_keepa_client is cached), whose _key_index all requests of the      *)
(* process share.  A request is a coroutine: others run while it awaits    *)
(* Keepa's answer or sleeps before a retry, and only then, so handling one *)
(* answer is one step.  In the api process UPC lookups overlap; a Celery   *)
(* worker and the ETL run one request at a time.                           *)
(*                                                                         *)
(* Keepa itself is external: it charges the key when it serves a call, and *)
(* the answer reaches the client later.                                    *)
(***************************************************************************)
EXTENDS Integers, FiniteSets

CONSTANTS
    Requests,   \* get_products calls that can be in progress together
    NumKeys,    \* configured API keys
    Attempts,   \* calls with one key before a 429 is final; 4 in the code
    MaxChunks,  \* bound: batches of 100 ASINs in one get_products call
    MaxTokens,  \* bound: calls a key can pay for
    MaxRefills  \* bound: times Keepa refills a key

\* An empty key list is refused by the constructor.
ASSUME KeysAssumption == NumKeys \in Nat \ {0}
ASSUME AttemptsAssumption == Attempts \in Nat \ {0}
ASSUME BoundsAssumption == MaxChunks \in Nat /\ MaxTokens \in Nat /\ MaxRefills \in Nat

Keys == 0 .. NumKeys - 1

VARIABLES
    keyIndex,   \* KeepaClient._key_index
    pc,         \* "idle", "sent" (awaiting Keepa) or "answered"
    key,        \* the key a request captured at the top of the while loop
    tried,      \* keys_tried
    attempt,    \* which of the Attempts calls with this key is in progress
    chunks,     \* batches still to be fetched, this one included
    reply,      \* Keepa's answer to the call in progress
    outcome,    \* how the last request ended
    tokens,     \* Keepa: calls left on each key
    refills,    \* refills so far; bounds the instance
    seenOut,    \* history: keys an answer has reported out
    overlapped  \* history: two requests have been in progress together

clientVars == <<keyIndex, pc, key, tried, attempt, chunks, reply, outcome>>
keepaVars == <<tokens, refills>>
historyVars == <<seenOut, overlapped>>
vars == <<clientVars, keepaVars, historyVars>>

Statuses == {"200", "402", "429", "400", "failed"}
Reply == [status : Statuses, tokensLeft : Nat]
NoReply == [status |-> "failed", tokensLeft |-> 0]
Outcomes == {"none", "ok", "exhausted", "rate_limited", "error"}

Init ==
    /\ keyIndex = 0
    /\ pc = [r \in Requests |-> "idle"]
    /\ key = [r \in Requests |-> 0]
    /\ tried = [r \in Requests |-> 0]
    /\ attempt = [r \in Requests |-> 1]
    /\ chunks = [r \in Requests |-> 0]
    /\ reply = [r \in Requests |-> NoReply]
    /\ outcome = [r \in Requests |-> "none"]
    /\ tokens \in [Keys -> 0 .. MaxTokens]
    /\ refills = 0
    /\ seenOut = {}
    /\ overlapped = FALSE

\* get_products with n batches; the first captures the current key.
GetProducts(r, n) ==
    /\ pc[r] = "idle"
    /\ pc' = [pc EXCEPT ![r] = "sent"]
    /\ key' = [key EXCEPT ![r] = keyIndex]
    /\ tried' = [tried EXCEPT ![r] = 0]
    /\ attempt' = [attempt EXCEPT ![r] = 1]
    /\ chunks' = [chunks EXCEPT ![r] = n]
    /\ outcome' = [outcome EXCEPT ![r] = "none"]
    /\ overlapped' = (overlapped \/ \E s \in Requests : pc[s] # "idle")
    /\ UNCHANGED <<keyIndex, reply, keepaVars, seenOut>>

(***************************************************************************)
(* Keepa.                                                                  *)
(***************************************************************************)
Answer(r, status, left) ==
    /\ pc' = [pc EXCEPT ![r] = "answered"]
    /\ reply' = [reply EXCEPT ![r] = [status |-> status, tokensLeft |-> left]]
    /\ UNCHANGED <<keyIndex, key, tried, attempt, chunks, outcome, refills, historyVars>>

\* A key with tokens pays and gets data; a key without gets 402.  Any call may be
\* rate limited, refused, or lost (a 5xx, a broken connection, the 30 s timeout).
Serve(r) ==
    /\ pc[r] = "sent"
    /\ LET left == tokens[key[r]] IN
         \/ /\ left > 0
            /\ tokens' = [tokens EXCEPT ![key[r]] = left - 1]
            /\ Answer(r, "200", left - 1)
         \/ /\ left = 0
            /\ Answer(r, "402", 0)
            /\ UNCHANGED tokens
         \/ /\ \/ Answer(r, "400", left)
               \/ Answer(r, "429", 0)
               \/ Answer(r, "failed", 0)
            /\ UNCHANGED tokens

Refill(k) ==
    /\ refills < MaxRefills
    /\ refills' = refills + 1
    /\ tokens' = [tokens EXCEPT ![k] = MaxTokens]
    /\ UNCHANGED <<clientVars, historyVars>>

(***************************************************************************)
(* _request, from one answer to the next await.                            *)
(***************************************************************************)
\* 429 is looked at first, and an exception from httpx has no body.
LooksTokenExhausted(answer) ==
    \/ answer.status = "402"
    \/ answer.status \in {"200", "400"} /\ answer.tokensLeft = 0

\* The call returns or raises; its locals are gone.
End(r, how) ==
    /\ pc' = [pc EXCEPT ![r] = "idle"]
    /\ outcome' = [outcome EXCEPT ![r] = how]
    /\ key' = [key EXCEPT ![r] = 0]
    /\ tried' = [tried EXCEPT ![r] = 0]
    /\ attempt' = [attempt EXCEPT ![r] = 1]
    /\ chunks' = [chunks EXCEPT ![r] = 0]

\* The next call: a retry with the same key, another key, or the next batch.
Send(r, k, t, a, n) ==
    /\ pc' = [pc EXCEPT ![r] = "sent"]
    /\ key' = [key EXCEPT ![r] = k]
    /\ tried' = [tried EXCEPT ![r] = t]
    /\ attempt' = [attempt EXCEPT ![r] = a]
    /\ chunks' = [chunks EXCEPT ![r] = n]
    /\ UNCHANGED outcome

\* Faulty variant: the attempts are not counted.
SameAttempt(a) == a
NextAttempt(a) == a + 1

RateLimited(r) ==
    /\ reply[r].status = "429"
    /\ \/ /\ attempt[r] < Attempts
          /\ Send(r, key[r], tried[r], NextAttempt(attempt[r]), chunks[r])
       \/ attempt[r] = Attempts /\ End(r, "rate_limited")
    /\ UNCHANGED <<keyIndex, seenOut>>

\* Faulty variants: runs off the list; stays where it is; begins again.
RotateBeyond(i) == i + 1
RotateInPlace(i) == i
RotateRound(i) == IF i + 1 >= NumKeys THEN 0 ELSE i + 1

\* _rotate_key: the new index, or the old one when this was the last key.
RotateKey(i) == IF i + 1 >= NumKeys THEN i ELSE i + 1

\* Faulty variant: keys_tried counts one key too many.
OneFewer(i, t) == i + 1 < NumKeys /\ t + 1 < NumKeys

\* _rotate_key found a next key, and the while loop goes round again.
GoesOn(i, t) == i + 1 < NumKeys /\ t < NumKeys

\* The index moves from wherever other requests have left it.
TokenExhausted(r) ==
    /\ LooksTokenExhausted(reply[r])
    /\ keyIndex' = RotateKey(keyIndex)
    /\ seenOut' = seenOut \cup {key[r]}
    /\ \/ /\ GoesOn(keyIndex, tried[r] + 1)
          /\ Send(r, keyIndex', tried[r] + 1, 1, chunks[r])
       \/ ~ GoesOn(keyIndex, tried[r] + 1) /\ End(r, "exhausted")

\* A 400, or whatever raise_for_status or httpx raised; earlier batches are lost.
Refused(r) ==
    /\ reply[r].status \in {"400", "failed"}
    /\ ~ LooksTokenExhausted(reply[r])
    /\ End(r, "error")
    /\ UNCHANGED <<keyIndex, seenOut>>

Served(r) ==
    /\ reply[r].status = "200"
    /\ ~ LooksTokenExhausted(reply[r])
    /\ \/ /\ chunks[r] > 1
          /\ Send(r, keyIndex, 0, 1, chunks[r] - 1)
       \/ chunks[r] = 1 /\ End(r, "ok")
    /\ UNCHANGED <<keyIndex, seenOut>>

Handle(r) ==
    /\ pc[r] = "answered"
    /\ \/ RateLimited(r)
       \/ TokenExhausted(r)
       \/ Refused(r)
       \/ Served(r)
    /\ reply' = [reply EXCEPT ![r] = NoReply]
    /\ UNCHANGED <<keepaVars, overlapped>>

Next ==
    \/ \E r \in Requests :
         \/ \E n \in 1 .. MaxChunks : GetProducts(r, n)
         \/ Serve(r)
         \/ Handle(r)
    \/ \E k \in Keys : Refill(k)

Spec == Init /\ [][Next]_vars

\* httpx gives up after 30 s, so every call is answered; the event loop runs
\* every coroutine that is ready.
Fairness == \A r \in Requests : WF_vars(Serve(r)) /\ WF_vars(Handle(r))

FairSpec == Spec /\ Fairness

-----------------------------------------------------------------------------
(***************************************************************************)
(* Properties.                                                             *)
(***************************************************************************)
\* Every variable stays in its type.
TypeOK ==
    /\ keyIndex \in Keys
    /\ pc \in [Requests -> {"idle", "sent", "answered"}]
    /\ key \in [Requests -> Keys]
    /\ tried \in [Requests -> Nat]
    /\ attempt \in [Requests -> 1 .. Attempts]
    /\ chunks \in [Requests -> Nat]
    /\ reply \in [Requests -> Reply]
    /\ outcome \in [Requests -> Outcomes]
    /\ tokens \in [Keys -> Nat]
    /\ refills \in Nat
    /\ seenOut \in SUBSET Keys
    /\ overlapped \in BOOLEAN

\* The loop of _request never asks a key again that has told this very request
\* that it is out, although other requests move _key_index while it waits.
NeverBackToAnEmptyKey ==
    [][\A r \in Requests :
         /\ pc[r] = "answered" /\ LooksTokenExhausted(reply[r])
         /\ pc'[r] = "sent"
         => key'[r] > key[r]]_vars

\* The calls a request can still make after the one in progress: Attempts with each
\* key it has not reached and for each batch that waits, and the rest with this key.
CallsLeft(r) ==
    (chunks[r] - 1 + NumKeys - 1 - key[r]) * Attempts + Attempts - attempt[r]

\* Every further call uses one of them up, so that get_products with n batches costs
\* at most (n + NumKeys - 1) * Attempts calls: backoff begins again with each key and
\* keys_tried with each batch, but for no request does the shared index move back.
CallsBounded ==
    [][\A r \in Requests :
         pc[r] # "idle" /\ pc'[r] # "idle" =>
            /\ CallsLeft(r)' \in 0 .. CallsLeft(r)
            /\ pc[r] = "answered" /\ pc'[r] = "sent" => CallsLeft(r)' < CallsLeft(r)]_vars

\* KeepaKeysExhaustedError is raised only when _key_index stands on the last key:
\* however requests interleave, the keys_tried counter (which counts a request's
\* own rotations) does not end the loop before the shared index does.
GivesUpOnLastKey ==
    \A r \in Requests : outcome[r] = "exhausted" => keyIndex = NumKeys - 1

EveryKeyWasOut == \A k \in Keys : k \in seenOut

\* A process that has run one request at a time (a Celery worker, the ETL) gives
\* up only after every configured key has answered that it is out.
AloneGivesUpHonestly ==
    ~ overlapped =>
        \A r \in Requests : outcome[r] = "exhausted" => EveryKeyWasOut

\* Every get_products call ends, with data or with an error: rotation and backoff
\* do not go round for ever, whatever Keepa answers and the other requests do.
EveryRequestEnds == \A r \in Requests : pc[r] # "idle" ~> pc[r] = "idle"

\* What the module docstring, the KeepaKeysExhaustedError class and its message
\* say: it is raised if every key is out.  False for overlapping requests: the
\* second one to hear that a key is out rotates past the key the first has just
\* moved to, or finds no key left.
ExhaustedMeansEveryKeyOut ==
    \A r \in Requests : outcome[r] = "exhausted" => EveryKeyWasOut
=============================================================================
