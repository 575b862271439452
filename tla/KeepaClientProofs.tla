-------------------------- MODULE KeepaClientProofs --------------------------
(***************************************************************************)
(* Theorems about KeepaClient for every number of keys, requests, attempts *)
(* and batches.  The argument: _key_index never moves back and a request's *)
(* key is never ahead of it, so a rotation always leads to a later key     *)
(* (KeyInv); and a request that is alone finds the index where it left it, *)
(* so the keys behind the index are exactly those it saw run out           *)
(* (AloneInv).  As keys and batches only go forward, the calls a request   *)
(* has left only go down (CallsAreBounded).                                *)
(***************************************************************************)
EXTENDS KeepaClient, TLAPS

USE DEF RotateKey, GoesOn, NextAttempt

Busy(r) == pc[r] # "idle"

\* A request that is in progress holds a key at or behind the index and has
\* rotated at most as many times as it has keys behind it.
KeyInv ==
    /\ \A r \in Requests : Busy(r) => key[r] <= keyIndex /\ tried[r] <= key[r]
    /\ GivesUpOnLastKey

\* Until two requests overlap, the one in progress holds the key of the index,
\* and every key behind the index has run out.
AloneInv ==
    ~ overlapped =>
        /\ \A r, s \in Requests : Busy(r) /\ Busy(s) => r = s
        /\ \A r \in Requests : Busy(r) => key[r] = keyIndex
        /\ \A k \in Keys : k < keyIndex => k \in seenOut
        /\ \A r \in Requests : outcome[r] = "exhausted" => EveryKeyWasOut

-----------------------------------------------------------------------------
\* The initial states have the right types.
LEMMA TypeInit == Init => TypeOK
<1> SUFFICES ASSUME Init PROVE TypeOK
  OBVIOUS
<1>1. tokens \in [Keys -> Nat]
  BY BoundsAssumption DEF Init
<1>2. 0 \in Keys /\ 1 \in 1 .. Attempts
  BY KeysAssumption, AttemptsAssumption DEF Keys
<1>3. NoReply \in Reply
  BY DEF NoReply, Reply, Statuses
<1> QED
  BY <1>1, <1>2, <1>3 DEF Init, TypeOK, Outcomes

\* What a request keeps between two awaits.
LocalsType ==
    /\ pc \in [Requests -> {"idle", "sent", "answered"}]
    /\ key \in [Requests -> Keys]
    /\ tried \in [Requests -> Nat]
    /\ attempt \in [Requests -> 1 .. Attempts]
    /\ chunks \in [Requests -> Nat]
    /\ outcome \in [Requests -> Outcomes]

\* What a request sends next keeps the types of its locals.
LEMMA SendType ==
  ASSUME TypeOK, NEW r \in Requests, NEW k \in Keys, NEW t \in Nat,
         NEW a \in 1 .. Attempts, NEW n \in Nat, Send(r, k, t, a, n)
  PROVE  LocalsType'
  BY DEF TypeOK, Send, LocalsType

\* The same for a request that ends.
LEMMA EndType ==
  ASSUME TypeOK, NEW r \in Requests, NEW how \in Outcomes, End(r, how)
  PROVE  LocalsType'
  BY KeysAssumption, AttemptsAssumption DEF TypeOK, End, Keys, LocalsType

\* Handling an answer keeps the types.
LEMMA HandleType ==
  ASSUME TypeOK, NEW r \in Requests, Handle(r)
  PROVE  TypeOK'
<1>1. /\ key[r] \in Keys
      /\ tried[r] \in Nat
      /\ attempt[r] \in 1 .. Attempts
      /\ chunks[r] \in Nat
      /\ keyIndex \in Keys
      /\ 1 \in 1 .. Attempts
  BY AttemptsAssumption DEF TypeOK
<1>2. {"ok", "exhausted", "rate_limited", "error"} \subseteq Outcomes
  BY DEF Outcomes
<1>3. keyIndex' \in Keys /\ seenOut' \in SUBSET Keys
  <2>1. CASE UNCHANGED <<keyIndex, seenOut>>
    BY <2>1 DEF TypeOK
  <2>2. CASE TokenExhausted(r)
    <3>1. seenOut' \in SUBSET Keys
      BY <1>1, <2>2 DEF TokenExhausted, TypeOK
    <3>2. RotateKey(keyIndex) \in Keys
      BY <1>1, KeysAssumption DEF Keys
    <3> QED
      BY <2>2, <3>1, <3>2 DEF TokenExhausted
  <2> QED
    BY <2>1, <2>2 DEF Handle, RateLimited, Refused, Served
<1>4. LocalsType'
  <2>1. CASE RateLimited(r)
    <3>1. attempt[r] < Attempts => attempt[r] + 1 \in 1 .. Attempts
      BY <1>1, AttemptsAssumption
    <3> QED
      BY <1>1, <1>2, <2>1, <3>1, SendType, EndType DEF RateLimited
  <2>2. CASE TokenExhausted(r)
    <3>1. tried[r] + 1 \in Nat
      BY <1>1
    <3> QED
      BY <1>1, <1>2, <1>3, <2>2, <3>1, SendType, EndType DEF TokenExhausted
  <2>3. CASE Refused(r)
    BY <1>2, <2>3, EndType DEF Refused
  <2>4. CASE Served(r)
    <3>1. chunks[r] > 1 => chunks[r] - 1 \in Nat
      BY <1>1
    <3> QED
      BY <1>1, <1>2, <2>4, <3>1, SendType, EndType DEF Served
  <2> QED
    BY <2>1, <2>2, <2>3, <2>4 DEF Handle
<1>5. reply' \in [Requests -> Reply] /\ UNCHANGED <<keepaVars, overlapped>>
  BY DEF Handle, NoReply, Reply, Statuses, TypeOK
<1> QED
  BY <1>3, <1>4, <1>5 DEF TypeOK, LocalsType, keepaVars

\* So does every step.
LEMMA TypeStep == TypeOK /\ [Next]_vars => TypeOK'
<1> SUFFICES ASSUME TypeOK, [Next]_vars
             PROVE  TypeOK'
  OBVIOUS
<1>1. ASSUME NEW r \in Requests, NEW n \in 1 .. MaxChunks, GetProducts(r, n)
      PROVE  TypeOK'
  BY <1>1, AttemptsAssumption, BoundsAssumption
     DEF TypeOK, GetProducts, keepaVars, Outcomes
<1>2. ASSUME NEW r \in Requests, Serve(r)
      PROVE  TypeOK'
  <2>1. \A status \in Statuses, left \in Nat : Answer(r, status, left) =>
          /\ pc' \in [Requests -> {"idle", "sent", "answered"}]
          /\ reply' \in [Requests -> Reply]
          /\ UNCHANGED <<keyIndex, key, tried, attempt, chunks, outcome, refills,
                         seenOut, overlapped>>
    BY DEF TypeOK, Answer, Reply, historyVars
  <2>2. tokens[key[r]] \in Nat
    BY DEF TypeOK
  <2>3. tokens[key[r]] > 0 => tokens[key[r]] - 1 \in Nat
    BY <2>2
  <2>4. tokens' \in [Keys -> Nat]
    BY <1>2, <2>2, <2>3 DEF TypeOK, Serve
  <2>5. \E status \in Statuses, left \in Nat : Answer(r, status, left)
    BY <1>2, <2>2, <2>3 DEF Serve, Statuses
  <2> QED
    BY <2>1, <2>4, <2>5 DEF TypeOK
<1>3. ASSUME NEW r \in Requests, Handle(r)
      PROVE  TypeOK'
  BY <1>3, HandleType
<1>4. ASSUME NEW k \in Keys, Refill(k)
      PROVE  TypeOK'
  BY <1>4, BoundsAssumption DEF TypeOK, Refill, clientVars, historyVars
<1>5. CASE UNCHANGED vars
  BY <1>5 DEF TypeOK, vars, clientVars, keepaVars, historyVars
<1> QED
  BY <1>1, <1>2, <1>3, <1>4, <1>5 DEF Next

\* Every variable keeps its type; in particular _key_index always names a key.
THEOREM TypeCorrect == Spec => []TypeOK
<1>1. Init => TypeOK
  BY TypeInit
<1>2. TypeOK /\ [Next]_vars => TypeOK'
  BY TypeStep
<1> QED
  BY <1>1, <1>2, PTL DEF Spec

-----------------------------------------------------------------------------
\* Sending or ending touches the locals of one request only.
LEMMA OthersUntouched ==
  ASSUME TypeOK, NEW r \in Requests, Handle(r)
  PROVE  \A s \in Requests \ {r} :
            /\ pc'[s] = pc[s] /\ key'[s] = key[s] /\ tried'[s] = tried[s]
            /\ outcome'[s] = outcome[s]
  BY DEF TypeOK, Handle, RateLimited, TokenExhausted, Refused, Served, Send, End

\* The four things an answer can lead to, seen by the request itself: another call
\* with the same key, a rotation, the next batch with the key of the index, or the
\* end.
LEMMA HandleCases ==
  ASSUME TypeOK, NEW r \in Requests, Handle(r)
  PROVE  \/ /\ UNCHANGED <<keyIndex, seenOut>>
            /\ ~ LooksTokenExhausted(reply[r])
            /\ pc'[r] = "sent" /\ key'[r] = key[r] /\ tried'[r] = tried[r]
            /\ outcome'[r] = outcome[r]
         \/ /\ keyIndex + 1 < NumKeys /\ keyIndex' = keyIndex + 1
            /\ seenOut' = seenOut \cup {key[r]}
            /\ pc'[r] = "sent" /\ key'[r] = keyIndex' /\ tried'[r] = tried[r] + 1
            /\ outcome'[r] = outcome[r]
         \/ /\ UNCHANGED <<keyIndex, seenOut>>
            /\ ~ LooksTokenExhausted(reply[r])
            /\ pc'[r] = "sent" /\ key'[r] = keyIndex /\ tried'[r] = 0
            /\ outcome'[r] = outcome[r]
         \/ /\ UNCHANGED <<keyIndex, seenOut>>
            /\ pc'[r] = "idle" /\ outcome'[r] # "exhausted"
         \/ /\ ~ GoesOn(keyIndex, tried[r] + 1)
            /\ keyIndex' = RotateKey(keyIndex)
            /\ seenOut' = seenOut \cup {key[r]}
            /\ pc'[r] = "idle" /\ outcome'[r] = "exhausted"
<1>1. CASE RateLimited(r)
  <2>1. ~ LooksTokenExhausted(reply[r])
    BY <1>1 DEF RateLimited, LooksTokenExhausted
  <2> QED
    BY <1>1, <2>1 DEF TypeOK, RateLimited, Send, End
<1>2. CASE TokenExhausted(r)
  <2>1. keyIndex \in Nat
    BY DEF TypeOK, Keys
  <2>2. CASE GoesOn(keyIndex, tried[r] + 1)
    BY <1>2, <2>1, <2>2, KeysAssumption DEF TypeOK, TokenExhausted, Send
  <2>3. CASE ~ GoesOn(keyIndex, tried[r] + 1)
    BY <1>2, <2>3 DEF TypeOK, TokenExhausted, End
  <2> QED
    BY <2>2, <2>3
<1>3. CASE Refused(r)
  BY <1>3 DEF TypeOK, Refused, End
<1>4. CASE Served(r)
  BY <1>4 DEF TypeOK, Served, Send, End
<1> QED
  BY <1>1, <1>2, <1>3, <1>4 DEF Handle

\* KeyInv is inductive.
LEMMA KeyInvStep == TypeOK /\ KeyInv /\ [Next]_vars => KeyInv'
<1> SUFFICES ASSUME TypeOK, KeyInv, [Next]_vars
             PROVE  KeyInv'
  OBVIOUS
<1>t. /\ keyIndex \in Nat /\ keyIndex < NumKeys /\ NumKeys \in Nat
      /\ \A s \in Requests : key[s] \in Nat /\ tried[s] \in Nat
  BY KeysAssumption DEF TypeOK, Keys
<1>1. ASSUME NEW r \in Requests, NEW n \in 1 .. MaxChunks, GetProducts(r, n)
      PROVE  KeyInv'
  BY <1>1, <1>t DEF TypeOK, KeyInv, GivesUpOnLastKey, Busy, GetProducts
<1>2. ASSUME NEW r \in Requests, Serve(r)
      PROVE  KeyInv'
  <2>1. UNCHANGED <<keyIndex, key, tried, outcome>>
    BY <1>2 DEF Serve, Answer
  <2>2. \A s \in Requests : Busy(s)' => Busy(s)
    BY <1>2 DEF TypeOK, Serve, Answer, Busy
  <2> QED
    BY <2>1, <2>2 DEF KeyInv, GivesUpOnLastKey
<1>3. ASSUME NEW r \in Requests, Handle(r)
      PROVE  KeyInv'
  <2>0. Busy(r)
    BY <1>3 DEF Handle, Busy
  <2>1. key[r] <= keyIndex /\ tried[r] <= key[r]
    BY <2>0 DEF KeyInv
  <2>2. keyIndex' \in {keyIndex, keyIndex + 1} /\ keyIndex' < NumKeys
    BY <1>3, <1>t, HandleCases
  <2>3. ASSUME NEW s \in Requests, Busy(s)'
        PROVE  key'[s] <= keyIndex' /\ tried'[s] <= key'[s]
    <3>1. CASE s = r
      <4>1. pc'[r] # "idle"
        BY <2>3, <3>1 DEF Busy
      <4> QED
        BY <1>3, <1>t, <2>1, <3>1, <4>1, HandleCases
    <3>2. CASE s # r
      BY <1>3, <1>t, <2>2, <2>3, <3>2, OthersUntouched DEF Busy, KeyInv
    <3> QED
      BY <3>1, <3>2
  <2>4. ASSUME NEW s \in Requests, outcome'[s] = "exhausted"
        PROVE  keyIndex' = NumKeys - 1
    <3>1. CASE outcome[s] = "exhausted"
      BY <1>t, <2>2, <3>1 DEF KeyInv, GivesUpOnLastKey
    <3>2. CASE outcome[s] # "exhausted"
      <4>1. s = r
        BY <1>3, <2>4, <3>2, OthersUntouched
      <4>2. ~ GoesOn(keyIndex, tried[r] + 1)
        BY <1>3, <2>4, <3>2, <4>1, HandleCases
      <4>3. keyIndex = NumKeys - 1
        BY <1>t, <2>1, <4>2
      <4> QED
        BY <1>t, <2>2, <4>3
    <3> QED
      BY <3>1, <3>2
  <2> QED
    BY <2>3, <2>4 DEF KeyInv, GivesUpOnLastKey
<1>4. ASSUME NEW k \in Keys, Refill(k)
      PROVE  KeyInv'
  BY <1>4 DEF Refill, clientVars, KeyInv, GivesUpOnLastKey, Busy
<1>5. CASE UNCHANGED vars
  BY <1>5 DEF vars, clientVars, KeyInv, GivesUpOnLastKey, Busy
<1> QED
  BY <1>1, <1>2, <1>3, <1>4, <1>5 DEF Next

\* Both hold in every behaviour.
LEMMA KeyInvariant == Spec => [](TypeOK /\ KeyInv)
<1>1. Init => TypeOK /\ KeyInv
  <2>1. Init => KeyInv
    BY DEF Init, KeyInv, GivesUpOnLastKey, Busy
  <2> QED
    BY <2>1, TypeInit
<1>2. (TypeOK /\ KeyInv) /\ [Next]_vars => (TypeOK /\ KeyInv)'
  BY TypeStep, KeyInvStep
<1> QED
  BY <1>1, <1>2, PTL DEF Spec

\* A request gives up only on the last key, whatever other requests do to the
\* index meanwhile.
THEOREM GivesUpLast == Spec => []GivesUpOnLastKey
<1>1. KeyInv => GivesUpOnLastKey
  BY DEF KeyInv
<1> QED
  BY <1>1, KeyInvariant, PTL

\* A request never asks again a key that has told it that it is out.
THEOREM NeverBack == Spec => NeverBackToAnEmptyKey
<1> DEFINE Advances == \A r \in Requests :
                          /\ pc[r] = "answered" /\ LooksTokenExhausted(reply[r])
                          /\ pc'[r] = "sent"
                          => key'[r] > key[r]
<1>1. TypeOK /\ KeyInv /\ [Next]_vars => [Advances]_vars
  <2> SUFFICES ASSUME TypeOK, KeyInv, Next, NEW r \in Requests,
                      pc[r] = "answered", LooksTokenExhausted(reply[r]), pc'[r] = "sent"
               PROVE  key'[r] > key[r]
    BY DEF KeyInv
  <2>1. key[r] \in Nat /\ keyIndex \in Nat /\ key[r] <= keyIndex
    BY DEF TypeOK, Keys, KeyInv, Busy
  <2>2. Handle(r)
    <3>1. \A s \in Requests, n \in 1 .. MaxChunks : ~ (GetProducts(s, n) /\ pc'[r] = "sent")
      BY DEF TypeOK, GetProducts
    <3>2. \A s \in Requests : Serve(s) => pc'[r] # "sent"
      BY DEF TypeOK, Serve, Answer
    <3>3. \A k \in Keys : ~ Refill(k)
      BY DEF Refill, clientVars
    <3>4. \A s \in Requests : Handle(s) => s = r
      BY OthersUntouched
    <3> QED
      BY <3>1, <3>2, <3>3, <3>4 DEF Next
  <2>3. key'[r] = keyIndex + 1
    BY <2>2, HandleCases
  <2> QED
    BY <2>1, <2>3
<1> QED
  BY <1>1, KeyInvariant, PTL DEF Spec, NeverBackToAnEmptyKey

-----------------------------------------------------------------------------
\* AloneInv is inductive, on top of KeyInv.
LEMMA AloneInvStep == TypeOK /\ KeyInv /\ AloneInv /\ [Next]_vars => AloneInv'
<1> SUFFICES ASSUME TypeOK, KeyInv, AloneInv, [Next]_vars, ~ overlapped'
             PROVE  /\ \A r, s \in Requests : Busy(r)' /\ Busy(s)' => r = s
                    /\ \A r \in Requests : Busy(r)' => key'[r] = keyIndex'
                    /\ \A k \in Keys : k < keyIndex' => k \in seenOut'
                    /\ \A r \in Requests : outcome'[r] = "exhausted" => EveryKeyWasOut'
  BY DEF AloneInv
<1>t. keyIndex \in Nat /\ keyIndex < NumKeys /\ NumKeys \in Nat
  BY KeysAssumption DEF TypeOK, Keys
<1>0. ~ overlapped
  BY DEF Next, GetProducts, Serve, Answer, Handle, Refill, historyVars, vars
<1> USE <1>0 DEF AloneInv, EveryKeyWasOut
<1>1. ASSUME NEW q \in Requests, NEW n \in 1 .. MaxChunks, GetProducts(q, n)
      PROVE  /\ \A r, s \in Requests : Busy(r)' /\ Busy(s)' => r = s
             /\ \A r \in Requests : Busy(r)' => key'[r] = keyIndex'
             /\ \A k \in Keys : k < keyIndex' => k \in seenOut'
             /\ \A r \in Requests : outcome'[r] = "exhausted" => EveryKeyWasOut'
  <2>1. \A r \in Requests : ~ Busy(r)
    BY <1>1 DEF GetProducts, Busy
  <2>2. \A r \in Requests : Busy(r)' => r = q
    BY <1>1, <2>1 DEF GetProducts, Busy, TypeOK
  <2> QED
    BY <1>1, <2>2 DEF GetProducts, TypeOK
<1>2. ASSUME NEW q \in Requests, Serve(q)
      PROVE  /\ \A r, s \in Requests : Busy(r)' /\ Busy(s)' => r = s
             /\ \A r \in Requests : Busy(r)' => key'[r] = keyIndex'
             /\ \A k \in Keys : k < keyIndex' => k \in seenOut'
             /\ \A r \in Requests : outcome'[r] = "exhausted" => EveryKeyWasOut'
  <2>1. UNCHANGED <<keyIndex, key, outcome, seenOut>>
    BY <1>2 DEF Serve, Answer, historyVars
  <2>2. \A s \in Requests : Busy(s)' => Busy(s)
    BY <1>2 DEF TypeOK, Serve, Answer, Busy
  <2> QED
    BY <2>1, <2>2
<1>3. ASSUME NEW q \in Requests, Handle(q)
      PROVE  /\ \A r, s \in Requests : Busy(r)' /\ Busy(s)' => r = s
             /\ \A r \in Requests : Busy(r)' => key'[r] = keyIndex'
             /\ \A k \in Keys : k < keyIndex' => k \in seenOut'
             /\ \A r \in Requests : outcome'[r] = "exhausted" => EveryKeyWasOut'
  <2>1. Busy(q) /\ key[q] = keyIndex
    BY <1>3 DEF Handle, Busy
  <2>2. \A r \in Requests : Busy(r)' => r = q
    BY <1>3, <2>1, OthersUntouched DEF Busy
  <2>3. Busy(q)' => key'[q] = keyIndex'
    BY <1>3, <2>1, HandleCases DEF Busy
  <2>4. seenOut \subseteq seenOut'
    BY <1>3, HandleCases
  <2>5. \/ keyIndex' = keyIndex
        \/ keyIndex' = keyIndex + 1 /\ keyIndex \in seenOut'
    BY <1>3, <1>t, <2>1, HandleCases
  <2>6. ASSUME NEW k \in Keys, k < keyIndex'
        PROVE  k \in seenOut'
    <3>1. k \in Nat
      BY DEF Keys
    <3>2. CASE keyIndex' = keyIndex
      BY <2>4, <2>6, <3>2
    <3>3. CASE keyIndex' = keyIndex + 1 /\ keyIndex \in seenOut'
      <4>1. k < keyIndex \/ k = keyIndex
        BY <1>t, <2>6, <3>1, <3>3
      <4> QED
        BY <2>4, <3>3, <4>1
    <3> QED
      BY <2>5, <3>2, <3>3
  <2>7. ASSUME NEW r \in Requests, outcome'[r] = "exhausted", NEW k \in Keys
        PROVE  k \in seenOut'
    <3>1. CASE outcome[r] = "exhausted"
      BY <2>4, <3>1
    <3>2. CASE outcome[r] # "exhausted"
      <4>1. r = q
        BY <1>3, <2>7, <3>2, OthersUntouched
      <4>2. seenOut' = seenOut \cup {key[q]}
        BY <1>3, <2>7, <3>2, <4>1, HandleCases
      <4>3. keyIndex = NumKeys - 1
        <5>1. ~ GoesOn(keyIndex, tried[q] + 1)
          BY <1>3, <2>7, <3>2, <4>1, HandleCases
        <5>2. key[q] \in Nat /\ tried[q] \in Nat /\ tried[q] <= keyIndex
          BY <2>1 DEF TypeOK, Keys, KeyInv
        <5> QED
          BY <1>t, <5>1, <5>2
      <4>4. k < keyIndex \/ k = key[q]
        BY <1>t, <2>1, <4>3 DEF Keys
      <4> QED
        BY <4>2, <4>4
    <3> QED
      BY <3>1, <3>2
  <2> QED
    BY <2>2, <2>3, <2>6, <2>7
<1>4. ASSUME NEW k \in Keys, Refill(k)
      PROVE  UNCHANGED <<pc, key, keyIndex, seenOut, outcome>>
  BY <1>4 DEF Refill, clientVars, historyVars
<1>5. CASE UNCHANGED vars
  BY <1>5 DEF vars, clientVars, historyVars, Busy
<1>6. CASE UNCHANGED <<pc, key, keyIndex, seenOut, outcome>>
  BY <1>6 DEF Busy
<1> QED
  BY <1>1, <1>2, <1>3, <1>4, <1>5, <1>6 DEF Next

\* In a process that runs one request at a time, KeepaKeysExhaustedError is raised
\* only after every key has said that it is out.
THEOREM AloneHonest == Spec => []AloneGivesUpHonestly
<1>1. Init => AloneInv
  BY DEF Init, AloneInv, Busy, Keys
<1>2. AloneInv => AloneGivesUpHonestly
  BY DEF AloneInv, AloneGivesUpHonestly
<1> QED
  BY <1>1, <1>2, AloneInvStep, KeyInvariant, PTL DEF Spec

-----------------------------------------------------------------------------
\* One key or batch less is worth more than all attempts.
LEMMA FewerKeys ==
  ASSUME NEW b \in Nat, NEW c \in Nat, c < b, NEW p \in 1 .. Attempts, NEW q \in 1 .. Attempts
  PROVE  c * Attempts + Attempts - q < b * Attempts + Attempts - p
<1>1. Attempts \in Nat /\ Attempts >= 1
  BY AttemptsAssumption
<1> DEFINE d == b - c - 1
<1>2. d \in Nat /\ b = c + 1 + d
  OBVIOUS
<1> HIDE DEF d
<1>3. d * Attempts \in Nat /\ c * Attempts \in Nat
  BY <1>1, <1>2
<1>4. b * Attempts = c * Attempts + Attempts + d * Attempts
  BY <1>1, <1>2
<1> QED
  BY <1>1, <1>3, <1>4

\* A request in progress has a batch to fetch.
BatchInv == \A r \in Requests : Busy(r) => chunks[r] >= 1

\* Keys and batches that wait.
KeysLeft(r) == chunks[r] - 1 + NumKeys - 1 - key[r]

\* What the next call of a request costs: an attempt with the same key, or a key, or
\* a batch.
LEMMA SendCosts ==
  ASSUME TypeOK, KeyInv, BatchInv, NEW r \in Requests, Handle(r), pc'[r] # "idle"
  PROVE  /\ pc'[r] = "sent" /\ chunks'[r] >= 1
         /\ \/ /\ key'[r] = key[r] /\ chunks'[r] = chunks[r]
               /\ attempt'[r] = attempt[r] + 1 /\ attempt[r] < Attempts
            \/ /\ key'[r] \in Keys /\ key'[r] >= key[r] /\ key'[r] - chunks'[r] > key[r] - chunks[r]
               /\ attempt'[r] = 1
<1>1. /\ key[r] \in Nat /\ keyIndex \in Nat /\ keyIndex \in Keys /\ NumKeys \in Nat
      /\ key[r] <= keyIndex /\ chunks[r] \in Nat /\ chunks[r] >= 1
      /\ attempt[r] \in Nat
  BY KeysAssumption DEF TypeOK, Keys, KeyInv, BatchInv, Busy, Handle
<1>2. CASE RateLimited(r)
  BY <1>1, <1>2 DEF TypeOK, RateLimited, Send, End
<1>3. CASE TokenExhausted(r)
  <2>1. Send(r, keyIndex', tried[r] + 1, 1, chunks[r]) /\ keyIndex + 1 < NumKeys
    BY <1>3 DEF TokenExhausted, End, TypeOK
  <2>2. keyIndex' = keyIndex + 1 /\ keyIndex' \in Keys
    BY <1>1, <1>3, <2>1 DEF TokenExhausted, Keys
  <2> QED
    BY <1>1, <2>1, <2>2 DEF TypeOK, Send
<1>4. CASE Refused(r)
  BY <1>4 DEF TypeOK, Refused, End
<1>5. CASE Served(r)
  BY <1>1, <1>5 DEF TypeOK, Served, Send, End
<1> QED
  BY <1>2, <1>3, <1>4, <1>5 DEF Handle

LEMMA BatchInvStep == TypeOK /\ KeyInv /\ BatchInv /\ [Next]_vars => BatchInv'
<1> SUFFICES ASSUME TypeOK, KeyInv, BatchInv, [Next]_vars, NEW s \in Requests, Busy(s)'
             PROVE  chunks'[s] >= 1
  BY DEF BatchInv
<1>1. ASSUME NEW r \in Requests, NEW n \in 1 .. MaxChunks, GetProducts(r, n)
      PROVE  chunks'[s] >= 1
  BY <1>1, BoundsAssumption DEF TypeOK, BatchInv, Busy, GetProducts
<1>2. ASSUME NEW r \in Requests, Serve(r)
      PROVE  chunks'[s] >= 1
  BY <1>2 DEF TypeOK, BatchInv, Busy, Serve, Answer
<1>3. ASSUME NEW r \in Requests, Handle(r)
      PROVE  chunks'[s] >= 1
  <2>1. CASE s = r
    BY <1>3, <2>1, SendCosts DEF Busy
  <2>2. CASE s # r
    BY <1>3, <2>2 DEF TypeOK, BatchInv, Busy, Handle, RateLimited, TokenExhausted, Refused,
                      Served, Send, End
  <2> QED
    BY <2>1, <2>2
<1>4. CASE UNCHANGED <<pc, chunks>>
  BY <1>4 DEF BatchInv, Busy
<1> QED
  BY <1>1, <1>2, <1>3, <1>4 DEF Next, Refill, vars, clientVars

\* Every call after the first uses up an attempt, a key or a batch, of which get_products
\* has finitely many: it cannot call Keepa for ever, whatever the answers are and
\* whatever other requests do to the index.
THEOREM CallsAreBounded == Spec => CallsBounded
<1> DEFINE Uses == \A r \in Requests :
                     pc[r] # "idle" /\ pc'[r] # "idle" =>
                        /\ CallsLeft(r)' \in 0 .. CallsLeft(r)
                        /\ pc[r] = "answered" /\ pc'[r] = "sent" => CallsLeft(r)' < CallsLeft(r)
<1>1. TypeOK /\ KeyInv /\ BatchInv /\ [Next]_vars => [Uses]_vars
  <2> SUFFICES ASSUME TypeOK, KeyInv, BatchInv, Next, NEW r \in Requests,
                      pc[r] # "idle", pc'[r] # "idle"
               PROVE  /\ CallsLeft(r)' \in 0 .. CallsLeft(r)
                      /\ pc[r] = "answered" /\ pc'[r] = "sent" => CallsLeft(r)' < CallsLeft(r)
    OBVIOUS
  <2>1. /\ key[r] \in Nat /\ key[r] <= NumKeys - 1 /\ NumKeys \in Nat
        /\ chunks[r] \in Nat /\ chunks[r] >= 1 /\ Attempts \in Nat /\ attempt[r] \in 1 .. Attempts
    BY KeysAssumption, AttemptsAssumption DEF TypeOK, Keys, BatchInv, Busy
  <2>2. KeysLeft(r) \in Nat /\ CallsLeft(r) = KeysLeft(r) * Attempts + Attempts - attempt[r]
    BY <2>1 DEF KeysLeft, CallsLeft
  <2>3. CallsLeft(r) \in Nat
    <3>1. KeysLeft(r) * Attempts \in Nat
      BY <2>1, <2>2
    <3> QED
      BY <2>1, <2>2, <3>1
  <2>4. CASE UNCHANGED <<key, attempt, chunks>> /\ ~ (pc[r] = "answered" /\ pc'[r] = "sent")
    BY <2>3, <2>4 DEF CallsLeft
  <2>5. ASSUME NEW q \in Requests, NEW n \in 1 .. MaxChunks, GetProducts(q, n)
        PROVE  /\ q # r
               /\ key'[r] = key[r] /\ attempt'[r] = attempt[r] /\ chunks'[r] = chunks[r]
               /\ pc'[r] = pc[r]
    BY <2>5 DEF TypeOK, GetProducts
  <2>6. ASSUME NEW q \in Requests, Serve(q)
        PROVE  UNCHANGED <<key, attempt, chunks>> /\ ~ (pc[r] = "answered" /\ pc'[r] = "sent")
    BY <2>6 DEF TypeOK, Serve, Answer
  <2>7. ASSUME NEW q \in Requests, q # r, Handle(q)
        PROVE  /\ key'[r] = key[r] /\ attempt'[r] = attempt[r] /\ chunks'[r] = chunks[r]
               /\ pc'[r] = pc[r]
    BY <2>7 DEF TypeOK, Handle, RateLimited, TokenExhausted, Refused, Served, Send, End
  <2>8. ASSUME Handle(r)
        PROVE  CallsLeft(r)' \in 0 .. CallsLeft(r) /\ CallsLeft(r)' < CallsLeft(r)
    <3>1. CASE /\ key'[r] = key[r] /\ chunks'[r] = chunks[r]
               /\ attempt'[r] = attempt[r] + 1 /\ attempt[r] < Attempts
      <4>1. KeysLeft(r) * Attempts \in Nat
        BY <2>1, <2>2
      <4>2. CallsLeft(r)' = KeysLeft(r) * Attempts + Attempts - (attempt[r] + 1)
        BY <2>1, <3>1 DEF CallsLeft, KeysLeft
      <4> QED
        BY <2>1, <2>2, <3>1, <4>1, <4>2
    <3>2. CASE /\ key'[r] \in Keys /\ key'[r] >= key[r] /\ chunks'[r] >= 1
               /\ key'[r] - chunks'[r] > key[r] - chunks[r]
               /\ attempt'[r] = 1
      <4>1. chunks'[r] \in Nat
        BY TypeStep DEF TypeOK
      <4>2. KeysLeft(r)' \in Nat /\ KeysLeft(r)' < KeysLeft(r)
        BY <2>1, <2>2, <3>2, <4>1 DEF KeysLeft, Keys
      <4>3. CallsLeft(r)' = KeysLeft(r)' * Attempts + Attempts - 1
        BY <3>2 DEF CallsLeft, KeysLeft
      <4>4. KeysLeft(r)' * Attempts + Attempts - 1 < KeysLeft(r) * Attempts + Attempts - attempt[r]
        BY <2>1, <2>2, <4>2, FewerKeys
      <4>5. KeysLeft(r)' * Attempts \in Nat
        BY <2>1, <4>2
      <4> QED
        BY <2>1, <2>2, <2>3, <4>3, <4>4, <4>5
    <3> QED
      BY <2>8, <3>1, <3>2, SendCosts
  <2>9. CASE /\ key'[r] = key[r] /\ attempt'[r] = attempt[r] /\ chunks'[r] = chunks[r]
             /\ pc'[r] = pc[r]
    <3>1. CallsLeft(r)' = CallsLeft(r)
      BY <2>9 DEF CallsLeft
    <3> QED
      BY <2>3, <2>9, <3>1
  <2>10. ASSUME NEW k \in Keys, Refill(k)
         PROVE  UNCHANGED <<key, attempt, chunks, pc>>
    BY <2>10 DEF Refill, clientVars
  <2> QED
    BY <2>4, <2>5, <2>6, <2>7, <2>8, <2>9, <2>10 DEF Next
<1>2. Init => BatchInv
  BY DEF Init, BatchInv, Busy
<1> QED
  BY <1>1, <1>2, BatchInvStep, KeyInvariant, PTL DEF Spec, CallsBounded
=============================================================================
