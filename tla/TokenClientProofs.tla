------------------------- MODULE TokenClientProofs -------------------------
(* The safety properties of TokenClient, for every set of callers, tokens  *)
(* and lease durations, and every margin.                                  *)
EXTENDS TokenClient, TLAPS

USE AuthAssumption, CallersAssumption, TokensAssumption, TimeAssumption,
    BudgetAssumption
USE DEF sharedVars, callVars, histVars

----------------------------------------------------------------------------
(* The kinds of step *)

(* The caller's request is over, whichever way; it may have held the lock. *)
Ends(c) ==
    /\ c \in Callers /\ pc[c] \in {"credentials", "login", "send"}
    /\ End(c) /\ Remember(served)
    /\ UNCHANGED <<auth, token, lease, skew>>
    /\ IF pc[c] = "send" THEN UNCHANGED <<tokenMu, answer>> ELSE Unlock
    /\ budget' \in 0 .. FaultBudget

(* The first attempt was refused. *)
Refused(c) ==
    /\ c \in Callers /\ Step(c, "send", "invalidate") /\ attempt[c] = 1 /\ usesDynamicAuth
    /\ refused' = [refused EXCEPT ![c] = held[c]]
    /\ Forget(c) /\ Remember(served)
    /\ UNCHANGED <<auth, token, lease, tokenMu, answer, skew, attempt, permitted, budget>>

(* The server renews or issues a token, and the answer is on its way. *)
Replies(c, t, d, r) ==
    /\ c \in Callers /\ t \in Tokens /\ d \in Durations /\ r \in BOOLEAN
    /\ answer' = [token |-> t, duration |-> d, renewable |-> r, age |-> 0]
    /\ served' = [served EXCEPT ![t] = newTokenLease(d, r).left]
    /\ \/ Step(c, "renew", "answer") /\ t = token
       \/ Step(c, "login", "answer") /\ t \notin InUse
    /\ UNCHANGED <<auth, token, lease, tokenMu, attempt, permitted, held, refused,
                   budget, histVars>>

(* The renewal fails, or its answer is lost. *)
Unrenewed(c) ==
    /\ c \in Callers /\ Step(c, "renew", "credentials") /\ budget' \in 0 .. FaultBudget
    /\ \/ UNCHANGED <<served, altered>>
       \/ /\ token \in Tokens
          /\ \E d \in Durations, r \in BOOLEAN :
               served' = [served EXCEPT ![token] = newTokenLease(d, r).left]
          /\ altered' = altered \cup {token}
    /\ UNCHANGED <<auth, token, lease, tokenMu, answer, attempt, permitted, held,
                   refused, skew, delay, emptied>>

(* The credentials have been read. *)
Reads(c) ==
    /\ c \in Callers /\ Step(c, "credentials", "login")
    /\ UNCHANGED <<auth, sharedVars, attempt, permitted, held, refused, served,
                   budget, histVars>>

(* Every step is one of these. *)
LEMMA StepCases ==
    ASSUME TypeOK, Next
    PROVE  \/ \E c \in Callers : \/ Request(c) \/ Ensure(c) \/ Answer(c) \/ Fetch(c)
                                 \/ Invalidate(c) \/ Ends(c) \/ Refused(c)
                                 \/ Unrenewed(c) \/ Reads(c)
                                 \/ \E t \in Tokens, d \in Durations, r \in BOOLEAN :
                                      Replies(c, t, d, r)
           \/ Tick \/ Revoke
<1>1. ASSUME NEW c \in Callers, LoginFails(c), pc[c] \in {"credentials", "login"}
      PROVE  Ends(c)
  BY <1>1 DEF LoginFails, Ends, Spend, TypeOK
<1>2. ASSUME NEW c \in Callers, Credentials(c) PROVE Ends(c) \/ Reads(c)
  BY <1>1, <1>2 DEF Credentials, Reads
<1>3. ASSUME NEW c \in Callers, Renew(c)
      PROVE  \/ Unrenewed(c)
             \/ \E t \in Tokens, d \in Durations, r \in BOOLEAN : Replies(c, t, d, r)
  <2>1. CASE Accepts(token) /\ Step(c, "renew", "answer")
    <3>1. PICK d \in Durations, r \in BOOLEAN :
            /\ answer' = [token |-> token, duration |-> d, renewable |-> r, age |-> 0]
            /\ served' = [served EXCEPT ![token] = newTokenLease(d, r).left]
      BY <1>3, <2>1 DEF Renew, Step, TypeOK
    <3>2. Replies(c, token, d, r)
      BY <1>3, <2>1, <3>1 DEF Replies, Renew, Accepts, Step, TypeOK
    <3>. QED  BY <2>1, <3>2 DEF Accepts
  <2>2. CASE Step(c, "renew", "credentials")
    BY <1>3, <2>2 DEF Renew, Unrenewed, Spend, Accepts, Step, TypeOK
  <2>. QED  BY <1>3, <2>1, <2>2 DEF Renew
<1>4. ASSUME NEW c \in Callers, Login(c)
      PROVE  \/ Ends(c)
             \/ \E t \in Tokens, d \in Durations, r \in BOOLEAN : Replies(c, t, d, r)
  BY <1>1, <1>4 DEF Login, Replies, Step
<1>5. ASSUME NEW c \in Callers, Send(c) PROVE Ends(c) \/ Refused(c)
  BY <1>5 DEF Send, Ends, Refused, Spend, Step, TypeOK
<1>. QED  BY <1>2, <1>3, <1>4, <1>5 DEF Next, Call

----------------------------------------------------------------------------
(* Facts about leases and delays *)

(* What a new lease holds. *)
LEMMA NewLease ==
    ASSUME NEW d \in 0 .. MaxDuration, NEW r \in BOOLEAN
    PROVE  /\ newTokenLease(d, r) \in Leases
           /\ newTokenLease(d, r).duration = d /\ newTokenLease(d, r).renewable = r
           /\ newTokenLease(d, r).left \in Lifetimes
           /\ newTokenLease(d, r).left = IF d > 0 THEN d ELSE Forever
  BY DEF newTokenLease, Leases, Lifetimes, Forever

(* The zero lease is a lease, and no answer is an answer. *)
LEMMA NoLeaseTyped == NoLease \in Leases /\ NoAnswer \in Answers
<1>1. NoLease \in Leases
  BY DEF NoLease, newTokenLease, Leases, Lifetimes, Forever
<1>2. NoAnswer \in Answers
  BY DEF NoAnswer, Answers, Delays
<1>. QED  BY <1>1, <1>2

(* The passing of one unit of time. *)
LEMMA OneUnit ==
    /\ \A n \in Lifetimes : /\ Less(n) \in Lifetimes
                            /\ Less(n) = Forever <=> n = Forever
                            /\ n > 1 => Less(n) > 0
    /\ \A m, n \in Lifetimes : m = n => Less(m) = Less(n)
    /\ \A n \in Delays : More(n) \in Delays /\ More(n) > 0 /\ More(n) >= n
  BY DEF Less, More, Least, Lifetimes, Forever, Delays

(* Remember keeps what the server knows of the tokens that can be sent. *)
LEMMA RememberKeeps ==
    ASSUME TypeOK, Remember(served)
    PROVE  /\ served' \in [Tokens -> Lifetimes] /\ altered' \subseteq Tokens
           /\ \A t \in Tokens : t \in Sendable'
                => served'[t] = served[t] /\ (t \in altered' <=> t \in altered)
<1>1. 0 \in Lifetimes
  BY DEF Lifetimes, Forever
<1>. QED  BY <1>1 DEF Remember, TypeOK

----------------------------------------------------------------------------
(* Type correctness *)

(* The client starts with variables of their types. *)
LEMMA InitTypeOK == Init => TypeOK
<1>1. ASSUME Init PROVE served \in [Tokens -> Lifetimes]
  BY <1>1 DEF Init, Lifetimes, Forever
<1>2. 0 \in Delays
  BY DEF Delays
<1>. QED  BY <1>1, <1>2, NoLeaseTyped DEF Init, TypeOK, Steps

(* Every step of a caller, of time or of the server keeps the types. *)
LEMMA StepTypeOK ==
    ASSUME TypeOK, Next
    PROVE  TypeOK'
<1>1. ASSUME NEW c \in Callers, Request(c) PROVE TypeOK'
  BY <1>1 DEF Request, Step, TypeOK, Steps
<1>2. ASSUME NEW c \in Callers, Ensure(c) PROVE TypeOK'
  <2>1. CASE token # NoToken /\ ~tokenNeedsRefresh(lease)
    <3>1. /\ pc' = [pc EXCEPT ![c] = "fetch"] /\ delay' = [delay EXCEPT ![c] = skew]
          /\ emptied' = [emptied EXCEPT ![c] = FALSE]
          /\ UNCHANGED <<auth, sharedVars, attempt, permitted, held, refused,
                         served, budget, skew, altered>>
      BY <1>2, <2>1 DEF Ensure, Step
    <3>. QED  BY <3>1 DEF TypeOK, Steps
  <2>2. CASE ~(token # NoToken /\ ~tokenNeedsRefresh(lease))
    BY <1>2, <2>2 DEF Ensure, Step, TypeOK, Steps
  <2>. QED  BY <2>1, <2>2
<1>3. ASSUME NEW c \in Callers, Answer(c) PROVE TypeOK'
  <2>1. answer.age \in Delays /\ answer.token \in Tokens \cup {NoToken}
        /\ newTokenLease(answer.duration, answer.renewable) \in Leases
    BY NewLease DEF TypeOK, Answers
  <2>2. served' \in [Tokens -> Lifetimes] /\ altered' \subseteq Tokens
    BY <1>3, RememberKeeps DEF Answer
  <2>. QED  BY <1>3, <2>1, <2>2, NoLeaseTyped DEF Answer, Step, Unlock, TypeOK, Steps
<1>4. ASSUME NEW c \in Callers, Fetch(c) PROVE TypeOK'
  BY <1>4 DEF Fetch, Step, TypeOK, Steps
<1>5. ASSUME NEW c \in Callers, Invalidate(c) PROVE TypeOK'
  <2>1. served' \in [Tokens -> Lifetimes] /\ altered' \subseteq Tokens
    BY <1>5, RememberKeeps DEF Invalidate
  <2>2. 0 \in Delays
    BY DEF Delays
  <2>. QED  BY <1>5, <2>1, <2>2, NoLeaseTyped DEF Invalidate, Step, TypeOK, Steps
<1>6. ASSUME NEW c \in Callers, Ends(c) PROVE TypeOK'
  <2>1. served' \in [Tokens -> Lifetimes] /\ altered' \subseteq Tokens
    BY <1>6, RememberKeeps DEF Ends
  <2>2. 0 \in Delays
    BY DEF Delays
  <2>. QED  BY <1>6, <2>1, <2>2, NoLeaseTyped DEF Ends, End, Forget, Unlock, TypeOK, Steps
<1>7. ASSUME NEW c \in Callers, Refused(c) PROVE TypeOK'
  <2>1. served' \in [Tokens -> Lifetimes] /\ altered' \subseteq Tokens
    BY <1>7, RememberKeeps DEF Refused
  <2>2. 0 \in Delays
    BY DEF Delays
  <2>. QED  BY <1>7, <2>1, <2>2 DEF Refused, Step, Forget, TypeOK, Steps
<1>8. ASSUME NEW c \in Callers, Unrenewed(c) PROVE TypeOK'
  <2>1. served' \in [Tokens -> Lifetimes] /\ altered' \subseteq Tokens
    <3>1. \A d \in Durations, r \in BOOLEAN : newTokenLease(d, r).left \in Lifetimes
      BY NewLease, TimeAssumption
    <3>. QED  BY <1>8, <3>1 DEF Unrenewed, TypeOK
  <2>. QED  BY <1>8, <2>1 DEF Unrenewed, Step, TypeOK, Steps
<1>9. ASSUME NEW c \in Callers, Reads(c) PROVE TypeOK'
  BY <1>9 DEF Reads, Step, TypeOK, Steps
<1>10. ASSUME NEW c \in Callers, NEW t \in Tokens, NEW d \in Durations, NEW r \in BOOLEAN,
              Replies(c, t, d, r)
       PROVE  TypeOK'
  <2>1. d \in 0 .. MaxDuration
    OBVIOUS
  <2>2. served' \in [Tokens -> Lifetimes]
    BY <1>10, <2>1, NewLease DEF Replies, TypeOK
  <2>3. answer' \in Answers
    BY <1>10, <2>1 DEF Replies, Answers, Delays
  <2>. QED  BY <1>10, <2>2, <2>3 DEF Replies, Step, TypeOK, Steps
<1>11. ASSUME Tick PROVE TypeOK'
  <2>1. lease' \in Leases
    BY <1>11, OneUnit DEF Tick, TypeOK, Leases
  <2>2. served' \in [Tokens -> Lifetimes]
    BY <1>11, OneUnit DEF Tick, TypeOK
  <2>3. answer' \in Answers
    <3>1. 0 \in Delays
      BY DEF Delays
    <3>. QED  BY <1>11, <3>1, OneUnit DEF Tick, TypeOK, Answers
  <2>4. delay' \in [Callers -> Delays]
    BY <1>11, OneUnit DEF Tick, TypeOK
  <2>. QED  BY <1>11, <2>1, <2>2, <2>3, <2>4 DEF Tick, TypeOK
<1>12. ASSUME Revoke PROVE TypeOK'
  BY <1>12 DEF Revoke, Spend, TypeOK, Lifetimes, Forever
<1>. QED
  BY StepCases, <1>1, <1>2, <1>3, <1>4, <1>5, <1>6, <1>7, <1>8, <1>9, <1>10, <1>11, <1>12

----------------------------------------------------------------------------
(* The lock *)

(* Every way out of a renewal or a login releases the lock. *)
LEMMA StepLock ==
    ASSUME TypeOK, LockHolderIsBusy, Next
    PROVE  LockHolderIsBusy'
<1>. USE DEF LockHolderIsBusy, Busy, TypeOK
<1>1. ASSUME NEW c \in Callers, Request(c) PROVE LockHolderIsBusy'
  BY <1>1 DEF Request, Step
<1>2. ASSUME NEW c \in Callers, Ensure(c) PROVE LockHolderIsBusy'
  BY <1>2 DEF Ensure, Step
<1>3. ASSUME NEW c \in Callers, Answer(c) PROVE LockHolderIsBusy'
  BY <1>3 DEF Answer, Step, Unlock
<1>4. ASSUME NEW c \in Callers, Fetch(c) PROVE LockHolderIsBusy'
  BY <1>4 DEF Fetch, Step
<1>5. ASSUME NEW c \in Callers, Invalidate(c) PROVE LockHolderIsBusy'
  BY <1>5 DEF Invalidate, Step
<1>6. ASSUME NEW c \in Callers, Ends(c) PROVE LockHolderIsBusy'
  BY <1>6 DEF Ends, End, Unlock
<1>7. ASSUME NEW c \in Callers, Refused(c) PROVE LockHolderIsBusy'
  BY <1>7 DEF Refused, Step
<1>8. ASSUME NEW c \in Callers, Unrenewed(c) PROVE LockHolderIsBusy'
  BY <1>8 DEF Unrenewed, Step
<1>9. ASSUME NEW c \in Callers, Reads(c) PROVE LockHolderIsBusy'
  BY <1>9 DEF Reads, Step
<1>10. ASSUME NEW c \in Callers, NEW t \in Tokens, NEW d \in Durations, NEW r \in BOOLEAN,
              Replies(c, t, d, r)
       PROVE  LockHolderIsBusy'
  BY <1>10 DEF Replies, Step
<1>11. ASSUME Tick \/ Revoke PROVE LockHolderIsBusy'
  BY <1>11 DEF Tick, Revoke
<1>. HIDE DEF LockHolderIsBusy, TypeOK
<1>. QED
  BY StepCases, <1>1, <1>2, <1>3, <1>4, <1>5, <1>6, <1>7, <1>8, <1>9, <1>10, <1>11

(* One caller holds the lock at most. *)
LEMMA OneHolder ==
    ASSUME LockHolderIsBusy, NEW c \in Callers, Busy(c)
    PROVE  tokenMu = c /\ \A d \in Callers : Busy(d) => d = c
  BY DEF LockHolderIsBusy

----------------------------------------------------------------------------
(* The answer on its way *)

(* No answer is under way while nobody holds the lock. *)
LEMMA Unlocked ==
    ASSUME LockHolderIsBusy, AnswerInv, tokenMu = NoCaller
    PROVE  answer = NoAnswer /\ answer.token = NoToken /\ \A c \in Callers : ~Busy(c)
<1>1. \A c \in Callers : ~Busy(c)
  BY DEF LockHolderIsBusy
<1>2. answer = NoAnswer
  BY <1>1 DEF AnswerInv, Busy
<1>. QED  BY <1>1, <1>2 DEF NoAnswer

(* Nor while the holder of the lock does not wait for one. *)
LEMMA NotAnswered ==
    ASSUME LockHolderIsBusy, AnswerInv, NEW c \in Callers, Busy(c), pc[c] # "answer"
    PROVE  answer = NoAnswer /\ answer.token = NoToken /\ \A d \in Callers : pc[d] # "answer"
<1>1. \A d \in Callers : pc[d] # "answer"
  BY OneHolder DEF Busy
<1>. QED  BY <1>1 DEF AnswerInv, NoAnswer

(* An answer belongs to the holder of the lock and brings a renewed token, *)
(* or one that nobody sends.                                               *)
LEMMA StepAnswer ==
    ASSUME TypeOK, LockHolderIsBusy, AnswerInv, Next
    PROVE  AnswerInv'
<1>1. ASSUME NEW c \in Callers, Request(c) PROVE AnswerInv'
  BY <1>1 DEF Request, Step, AnswerInv, TypeOK
<1>2. ASSUME NEW c \in Callers, Ensure(c) PROVE AnswerInv'
  <2>1. tokenMu = NoCaller /\ answer' = answer /\ \E s \in Steps \ {"answer"} : pc' = [pc EXCEPT ![c] = s]
    BY <1>2 DEF Ensure, Step, Steps
  <2>2. answer = NoAnswer /\ \A d \in Callers : pc[d] # "answer"
    BY <2>1, Unlocked DEF Busy
  <2>. QED  BY <2>1, <2>2 DEF AnswerInv, TypeOK
<1>3. ASSUME NEW c \in Callers, Answer(c) PROVE AnswerInv'
  <2>1. \A d \in Callers : d # c => pc[d] # "answer"
    BY <1>3, OneHolder DEF Answer, Step, Busy
  <2>. QED  BY <1>3, <2>1 DEF Answer, Step, Unlock, AnswerInv, TypeOK
<1>4. ASSUME NEW c \in Callers, Fetch(c) \/ Invalidate(c) PROVE AnswerInv'
  <2>1. tokenMu = NoCaller /\ answer' = answer /\ \E s \in Steps \ {"answer"} : pc' = [pc EXCEPT ![c] = s]
    BY <1>4 DEF Fetch, Invalidate, Step, Steps
  <2>2. answer = NoAnswer /\ \A d \in Callers : pc[d] # "answer"
    BY <2>1, Unlocked DEF Busy
  <2>. QED  BY <2>1, <2>2 DEF AnswerInv, TypeOK
<1>5. ASSUME NEW c \in Callers, Ends(c) PROVE AnswerInv'
  <2>1. CASE pc[c] = "send"
    BY <1>5, <2>1 DEF Ends, End, Forget, AnswerInv, TypeOK
  <2>2. CASE pc[c] # "send"
    <3>1. Busy(c) /\ pc[c] # "answer" /\ answer' = NoAnswer /\ pc' = [pc EXCEPT ![c] = "idle"]
      BY <1>5, <2>2 DEF Ends, End, Unlock, Busy
    <3>2. \A d \in Callers : pc[d] # "answer"
      BY <3>1, NotAnswered
    <3>. QED  BY <3>1, <3>2 DEF AnswerInv, TypeOK
  <2>. QED  BY <2>1, <2>2
<1>6. ASSUME NEW c \in Callers, Refused(c) PROVE AnswerInv'
  BY <1>6 DEF Refused, Step, Forget, AnswerInv, TypeOK
<1>7. ASSUME NEW c \in Callers, Unrenewed(c) \/ Reads(c) PROVE AnswerInv'
  <2>1. Busy(c) /\ pc[c] # "answer" /\ answer' = answer /\ \E s \in Steps \ {"answer"} : pc' = [pc EXCEPT ![c] = s]
    BY <1>7 DEF Unrenewed, Reads, Step, Busy, Steps
  <2>2. answer = NoAnswer /\ \A d \in Callers : pc[d] # "answer"
    BY <2>1, NotAnswered
  <2>. QED  BY <2>1, <2>2 DEF AnswerInv, TypeOK
<1>8. ASSUME NEW c \in Callers, NEW t \in Tokens, NEW d \in Durations, NEW r \in BOOLEAN,
              Replies(c, t, d, r)
      PROVE  AnswerInv'
  <2>1. /\ answer'.token = t /\ pc' = [pc EXCEPT ![c] = "answer"]
        /\ UNCHANGED <<token, held>>
        /\ t # token => \A e \in Callers : held[e] # t
    BY <1>8 DEF Replies, Step, InUse, Sendable
  <2>. QED  BY <2>1 DEF AnswerInv, TypeOK
<1>9. ASSUME Tick PROVE AnswerInv'
  <2>1. answer'.token = answer.token /\ (answer = NoAnswer => answer' = NoAnswer)
    <3>1. answer' = [answer EXCEPT !.age = IF answer = NoAnswer THEN 0 ELSE More(answer.age)]
      BY <1>9 DEF Tick
    <3>2. answer'.token = answer.token
      BY <3>1 DEF TypeOK, Answers
    <3>3. CASE answer = NoAnswer
      BY <3>1, <3>3 DEF NoAnswer
    <3>. QED  BY <3>2, <3>3
  <2>. QED  BY <1>9, <2>1 DEF Tick, AnswerInv
<1>10. ASSUME Revoke PROVE AnswerInv'
  BY <1>10 DEF Revoke, AnswerInv
<1>. QED
  BY StepCases, <1>1, <1>2, <1>3, <1>4, <1>5, <1>6, <1>7, <1>8, <1>9, <1>10

----------------------------------------------------------------------------
(* The retry *)

(* A refused token does not come back: invalidateToken clears it, and a    *)
(* login brings another.                                                   *)
LEMMA StepRetry ==
    ASSUME TypeOK, LockHolderIsBusy, AnswerInv, RetryInv, Next
    PROVE  RetryInv'
<1>1. ASSUME NEW c \in Callers, Request(c) PROVE RetryInv'
  BY <1>1 DEF Request, Step, RetryInv, usesDynamicAuth, TypeOK
<1>2. ASSUME NEW c \in Callers, Ensure(c) PROVE RetryInv'
  <2>1. pc[c] = "ensure" /\ \E s \in Steps \ {"invalidate"} : pc' = [pc EXCEPT ![c] = s]
    BY <1>2 DEF Ensure, Step, Steps
  <2>. QED  BY <1>2, <2>1 DEF Ensure, RetryInv, usesDynamicAuth, TypeOK
<1>3. ASSUME NEW c \in Callers, Answer(c) PROVE RetryInv'
  BY <1>3 DEF Answer, Step, Unlock, NoAnswer, RetryInv, usesDynamicAuth, TypeOK
<1>4. ASSUME NEW c \in Callers, Fetch(c) PROVE RetryInv'
  BY <1>4 DEF Fetch, Step, RetryInv, usesDynamicAuth, TypeOK
<1>5. ASSUME NEW c \in Callers, Invalidate(c) PROVE RetryInv'
  <2>1. answer.token = NoToken
    BY <1>5, Unlocked DEF Invalidate
  <2>. QED  BY <1>5, <2>1 DEF Invalidate, Step, RetryInv, usesDynamicAuth, TypeOK
<1>6. ASSUME NEW c \in Callers, Ends(c) PROVE RetryInv'
  BY <1>6 DEF Ends, End, Forget, Unlock, NoAnswer, RetryInv, usesDynamicAuth, TypeOK
<1>7. ASSUME NEW c \in Callers, Refused(c) PROVE RetryInv'
  BY <1>7 DEF Refused, Step, Forget, RetryInv, usesDynamicAuth, TypeOK
<1>8. ASSUME NEW c \in Callers, Unrenewed(c) \/ Reads(c) PROVE RetryInv'
  BY <1>8 DEF Unrenewed, Reads, Step, RetryInv, usesDynamicAuth, TypeOK
<1>9. ASSUME NEW c \in Callers, NEW t \in Tokens, NEW d \in Durations, NEW r \in BOOLEAN,
              Replies(c, t, d, r)
      PROVE  RetryInv'
  <2>1. /\ answer'.token = t /\ pc' = [pc EXCEPT ![c] = "answer"] /\ pc[c] # "send"
        /\ UNCHANGED <<auth, token, attempt, held, refused>>
        /\ t # token => \A e \in Callers : refused[e] # t
    BY <1>9 DEF Replies, Step, InUse, Sendable
  <2>. QED  BY <2>1 DEF RetryInv, usesDynamicAuth, TypeOK
<1>10. ASSUME Tick PROVE RetryInv'
  <2>1. answer'.token = answer.token
    BY <1>10 DEF Tick, TypeOK, Answers
  <2>. QED  BY <1>10, <2>1 DEF Tick, RetryInv, usesDynamicAuth
<1>11. ASSUME Revoke PROVE RetryInv'
  BY <1>11 DEF Revoke, RetryInv, usesDynamicAuth
<1>. QED
  BY StepCases, <1>1, <1>2, <1>3, <1>4, <1>5, <1>6, <1>7, <1>8, <1>9, <1>10, <1>11

----------------------------------------------------------------------------
(* What the client believes of its token *)

(* A step of a kind that changes neither the token nor its lease, and      *)
(* leaves both alive as they are.                                          *)
Keeps ==
    /\ UNCHANGED <<auth, token, lease, answer, skew>>
    /\ \A t \in Tokens : t \in Sendable'
         => served'[t] = served[t] /\ (t \in altered' <=> t \in altered)

(* Most steps of a caller are of this kind. *)
LEMMA StepKeeps ==
    ASSUME TypeOK, LockHolderIsBusy, AnswerInv, NEW c \in Callers,
           Request(c) \/ Ensure(c) \/ Fetch(c) \/ Ends(c) \/ Refused(c) \/ Reads(c)
    PROVE  Keeps
<1>1. CASE Request(c) \/ Ensure(c) \/ Fetch(c) \/ Reads(c)
  BY <1>1 DEF Request, Ensure, Fetch, Reads, Keeps
<1>2. CASE Ends(c)
  <2>1. answer' = answer
    <3>1. CASE pc[c] = "send"
      BY <1>2, <3>1 DEF Ends
    <3>2. CASE pc[c] # "send"
      <4>1. Busy(c) /\ pc[c] # "answer" /\ answer' = NoAnswer
        BY <1>2, <3>2 DEF Ends, Busy, Unlock
      <4>. QED  BY <4>1, NotAnswered
    <3>. QED  BY <3>1, <3>2
  <2>. QED  BY <1>2, <2>1, RememberKeeps DEF Ends, Keeps
<1>3. CASE Refused(c)
  BY <1>3, RememberKeeps DEF Refused, Keeps
<1>. QED  BY <1>1, <1>2, <1>3

(* Time takes no more from the server's lifetime than it adds to the age.  *)
LEMMA HonestLater ==
    ASSUME NEW n \in Lifetimes, NEW d \in 0 .. MaxDuration, NEW l \in Lifetimes,
           NEW a \in Delays, Honest(n, d, l, a)
    PROVE  Honest(Less(n), d, Less(l), a) /\ Honest(Less(n), d, l, More(a))
  BY DEF Honest, Less, More, Least, Lifetimes, Forever, Delays

(* The client never believes in more of a lease than the server has, but   *)
(* for the time the answer was under way.                                  *)
LEMMA StepLease ==
    ASSUME TypeOK, LockHolderIsBusy, AnswerInv, LeaseInv, Next
    PROVE  LeaseInv'
<1>1. ASSUME NEW c \in Callers,
             Request(c) \/ Ensure(c) \/ Fetch(c) \/ Ends(c) \/ Refused(c) \/ Reads(c)
      PROVE  LeaseInv'
  <2>1. Keeps
    BY <1>1, StepKeeps
  <2>2. /\ token' \in Tokens => served'[token] = served[token] /\ (token \in altered' <=> token \in altered)
        /\ answer'.token \in Tokens
             => /\ served'[answer.token] = served[answer.token]
                /\ answer.token \in altered' <=> answer.token \in altered
    BY <2>1 DEF Keeps, Sendable
  <2>. QED  BY <2>1, <2>2 DEF Keeps, LeaseInv, Honest, usesDynamicAuth
<1>2. ASSUME NEW c \in Callers, Answer(c) PROVE LeaseInv'
  <2>1. /\ token' = answer.token /\ answer' = NoAnswer /\ answer'.token = NoToken
        /\ lease' = newTokenLease(answer.duration, answer.renewable)
        /\ skew' = answer.age /\ auth' = auth
    BY <1>2 DEF Answer, Unlock, NoAnswer
  <2>2. token' \in Tokens
          => served'[token'] = served[token'] /\ (token' \in altered' <=> token' \in altered)
    BY <1>2, RememberKeeps DEF Answer, Sendable
  <2>3. lease'.duration = answer.duration
    BY <2>1, NewLease DEF TypeOK, Answers
  <2>. QED  BY <2>1, <2>2, <2>3 DEF LeaseInv, Honest
<1>3. ASSUME NEW c \in Callers, Invalidate(c) PROVE LeaseInv'
  <2>1. answer'.token = NoToken /\ token' = NoToken
    BY <1>3, Unlocked DEF Invalidate
  <2>. QED  BY <2>1 DEF LeaseInv
<1>4. ASSUME NEW c \in Callers, Unrenewed(c) PROVE LeaseInv'
  <2>1. answer.token = NoToken
    BY <1>4, NotAnswered DEF Unrenewed, Step, Busy
  <2>. QED  BY <1>4, <2>1 DEF Unrenewed, LeaseInv, Honest, usesDynamicAuth
<1>5. ASSUME NEW c \in Callers, NEW t \in Tokens, NEW d \in Durations, NEW r \in BOOLEAN,
             Replies(c, t, d, r)
      PROVE  LeaseInv'
  <2>1. answer.token = NoToken
    BY <1>5, NotAnswered DEF Replies, Step, Busy
  <2>2. /\ answer'.token = t /\ answer'.duration = d /\ answer'.renewable = r /\ answer'.age = 0
        /\ served' = [served EXCEPT ![t] = newTokenLease(d, r).left]
        /\ UNCHANGED <<auth, token, lease, skew, altered>>
    BY <1>5 DEF Replies
  <2>3. Honest(served'[t], d, newTokenLease(d, r).left, 0)
    <3>1. served'[t] = newTokenLease(d, r).left
      BY <2>2 DEF TypeOK
    <3>. QED  BY <3>1, NewLease DEF Honest, Forever
  <2>4. ASSUME token \in Tokens \ altered, t # token, usesDynamicAuth
        PROVE  Honest(served'[token], lease.duration, lease.left, skew)
    <3>1. Honest(served[token], lease.duration, lease.left, skew)
      BY <2>1, <2>4 DEF LeaseInv
    <3>2. served'[token] = served[token]
      BY <2>2, <2>4 DEF TypeOK
    <3>. QED  BY <3>1, <3>2
  <2>. QED  BY <2>2, <2>3, <2>4 DEF LeaseInv, usesDynamicAuth
<1>6. ASSUME Tick PROVE LeaseInv'
  <2>1. /\ UNCHANGED <<auth, token, skew, altered>>
        /\ lease'.duration = lease.duration /\ lease'.left = Less(lease.left)
        /\ lease.duration \in 0 .. MaxDuration /\ lease.left \in Lifetimes
    BY <1>6 DEF Tick, TypeOK, Leases
  <2>2. /\ answer'.token = answer.token /\ answer'.duration = answer.duration
        /\ answer'.renewable = answer.renewable
        /\ answer.token \in Tokens => answer'.age = More(answer.age)
        /\ answer.duration \in 0 .. MaxDuration /\ answer.renewable \in BOOLEAN
        /\ answer.age \in Delays
    BY <1>6 DEF Tick, TypeOK, Answers, NoAnswer
  <2>3. newTokenLease(answer.duration, answer.renewable).left \in Lifetimes
    BY <2>2, NewLease
  <2>4. \A t \in Tokens : served'[t] = Less(served[t]) /\ served[t] \in Lifetimes
    BY <1>6 DEF Tick, TypeOK
  <2>5. ASSUME token \in Tokens \ altered, answer.token # token, usesDynamicAuth
        PROVE  Honest(served'[token], lease.duration, Less(lease.left), skew)
    <3>1. Honest(served[token], lease.duration, lease.left, skew) /\ skew \in Delays
      BY <2>5 DEF LeaseInv, TypeOK
    <3>. QED  BY <2>1, <2>4, <2>5, <3>1, HonestLater
  <2>6. ASSUME answer.token \in Tokens \ altered
        PROVE  Honest(served'[answer.token], answer.duration,
                      newTokenLease(answer.duration, answer.renewable).left, More(answer.age))
    <3>1. Honest(served[answer.token], answer.duration,
                 newTokenLease(answer.duration, answer.renewable).left, answer.age)
      BY <2>6 DEF LeaseInv
    <3>. QED  BY <2>2, <2>3, <2>4, <2>6, <3>1, HonestLater
  <2>. QED  BY <2>1, <2>2, <2>5, <2>6 DEF LeaseInv, usesDynamicAuth
<1>7. ASSUME Revoke PROVE LeaseInv'
  BY <1>7 DEF Revoke, LeaseInv, Honest, usesDynamicAuth, TypeOK
<1>. QED
  BY StepCases, <1>1, <1>2, <1>3, <1>4, <1>5, <1>6, <1>7

----------------------------------------------------------------------------
(* The margin *)

(* The margin of a lease, a number. *)
MarginOf(l) == IF l.renewable THEN Least(l.duration, 3 * Minute) ELSE 0

(* It exceeds neither the lease nor a minute (times three). *)
LEMMA MarginTyped ==
    ASSUME NEW l \in Leases
    PROVE  MarginOf(l) \in Nat /\ MarginOf(l) <= l.duration /\ MarginOf(l) <= 3 * Minute
  BY DEF MarginOf, Least, Leases

(* A lease that needs no refresh leaves more than the margin. *)
LEMMA FoundGood ==
    ASSUME NEW l \in Leases, NEW n \in Lifetimes, NEW a \in Delays,
           Honest(n, l.duration, l.left, a), ~tokenNeedsRefresh(l)
    PROVE  3 * (n + a) > MarginOf(l)
<1>1. /\ l.left \in Lifetimes /\ l.duration \in 0 .. MaxDuration /\ l.renewable \in BOOLEAN
  BY DEF Leases
<1>2. CASE a > Minute
  BY <1>1, <1>2, MarginTyped DEF Lifetimes, Forever, Delays
<1>3. CASE a <= Minute
  BY <1>1, <1>3 DEF Honest, tokenNeedsRefresh, MarginOf, Least, Lifetimes, Forever, Delays
<1>. QED  BY <1>2, <1>3 DEF Delays

(* So does a lease that has just arrived. *)
LEMMA JustArrived ==
    ASSUME NEW d \in 0 .. MaxDuration, NEW r \in BOOLEAN, NEW n \in Lifetimes,
           NEW a \in Delays, Honest(n, d, newTokenLease(d, r).left, a)
    PROVE  3 * (n + a) > MarginOf(newTokenLease(d, r))
<1>1. /\ MarginOf(newTokenLease(d, r)) \in Nat
      /\ MarginOf(newTokenLease(d, r)) <= d /\ MarginOf(newTokenLease(d, r)) <= 3 * Minute
  BY NewLease, MarginTyped
<1>. QED  BY <1>1, NewLease DEF Honest, Lifetimes, Forever, Delays

(* Time takes no more from the lifetime than it adds to the delay. *)
LEMMA MarginLater ==
    ASSUME NEW n \in Lifetimes, NEW a \in Delays, NEW m \in Nat, m <= 3 * Minute,
           3 * (n + a) > m
    PROVE  3 * (Less(n) + More(a)) > m
  BY DEF Less, More, Least, Lifetimes, Forever, Delays

(* A caller that found the token good has more than the margin left, less  *)
(* its delay, whatever the other callers and the clock do meanwhile.       *)
LEMMA StepMargin ==
    ASSUME TypeOK, LockHolderIsBusy, AnswerInv, LeaseInv, MarginInv, TypeOK', Next
    PROVE  MarginInv'
<1>. DEFINE Goal(c) ==
       Sending(c) /\ usesDynamicAuth /\ token \in Tokens \ altered
         => /\ answer.token # token => 3 * (served[token] + delay[c]) > MarginOf(lease)
            /\ answer.token = token /\ pc[c] = "send" => delay[c] >= answer.age
<1>a. /\ MarginInv <=> \A c \in Callers : Goal(c)
      /\ MarginInv' <=> \A c \in Callers : Goal(c)'
  BY DEF MarginInv, Margin, MarginOf
<1>. HIDE DEF Goal
<1>b. \A c \in Callers : Goal(c)
  BY <1>a
<1>1. ASSUME Keeps, NEW d \in Callers, delay'[d] = delay[d], Sending(d)' => Sending(d),
             pc'[d] = "send" => pc[d] = "send" \/ answer.token = NoToken
      PROVE  Goal(d)'
  <2>1. token' \in Tokens
          => served'[token] = served[token] /\ (token \in altered' <=> token \in altered)
    BY <1>1 DEF Keeps, Sendable
  <2>. QED  BY <1>1, <1>b, <2>1 DEF Goal, Keeps, usesDynamicAuth
<1>2. ASSUME NEW c \in Callers, Request(c), NEW d \in Callers PROVE Goal(d)'
  <2>1. Keeps /\ delay' = delay /\ held' = held /\ token' = token /\ auth' = auth
    BY <1>2, StepKeeps DEF Request
  <2>2. CASE usesDynamicAuth
    <3>1. Sending(d)' => Sending(d)
      BY <1>2, <2>1, <2>2 DEF Request, Step, Sending, TypeOK
    <3>2. pc'[d] = "send" => pc[d] = "send"
      BY <1>2, <2>2 DEF Request, Step, TypeOK
    <3>. QED  BY <1>1, <2>1, <3>1, <3>2
  <2>3. CASE ~usesDynamicAuth
    BY <2>1, <2>3 DEF Goal, usesDynamicAuth
  <2>. QED  BY <2>2, <2>3
<1>3. ASSUME NEW c \in Callers, Ensure(c), NEW d \in Callers PROVE Goal(d)'
  <2>1. Keeps /\ held' = held /\ token' = token /\ answer.token = NoToken /\ pc[c] = "ensure"
    BY <1>3, StepKeeps, Unlocked DEF Ensure
  <2>2. CASE c = d /\ token # NoToken /\ ~tokenNeedsRefresh(lease)
    <3>1. /\ delay'[c] = skew /\ pc'[c] = "fetch" /\ answer'.token = NoToken
          /\ UNCHANGED <<auth, token, lease, answer, served, altered>>
      BY <1>3, <2>1, <2>2 DEF Ensure, Step, TypeOK
    <3>2. ASSUME usesDynamicAuth, token \in Tokens \ altered
          PROVE  3 * (served[token] + skew) > MarginOf(lease)
      <4>1. Honest(served[token], lease.duration, lease.left, skew)
        BY <2>1, <3>2 DEF LeaseInv
      <4>. QED  BY <2>2, <3>2, <4>1, FoundGood DEF TypeOK
    <3>. QED  BY <2>2, <3>1, <3>2 DEF Goal, usesDynamicAuth
  <2>3. CASE ~(c = d /\ token # NoToken /\ ~tokenNeedsRefresh(lease))
    <3>1. delay'[d] = delay[d] /\ (pc'[d] = pc[d] \/ pc'[d] \in {"renew", "credentials"})
      BY <1>3, <2>3 DEF Ensure, Step, TypeOK
    <3>. QED  BY <1>1, <2>1, <3>1 DEF Sending
  <2>. QED  BY <2>2, <2>3
<1>4. ASSUME NEW c \in Callers, Answer(c), NEW d \in Callers PROVE Goal(d)'
  <2>. DEFINE l == newTokenLease(answer.duration, answer.renewable)
  <2>1. /\ token' = answer.token /\ answer'.token = NoToken /\ lease' = l /\ auth' = auth
        /\ held' = held /\ pc[c] = "answer" /\ pc' = [pc EXCEPT ![c] = "fetch"]
        /\ delay' = [e \in Callers |-> IF e = c \/ pc[e] = "fetch" THEN answer.age ELSE delay[e]]
    BY <1>4 DEF Answer, Step, Unlock, NoAnswer
  <2>2. answer.token \in Tokens
    BY <2>1 DEF AnswerInv
  <2>3. /\ served'[answer.token] = served[answer.token]
        /\ answer.token \in altered' <=> answer.token \in altered
    BY <1>4, <2>1, <2>2, RememberKeeps DEF Answer, Sendable
  <2>4. ASSUME answer.token \notin altered
        PROVE  3 * (served[answer.token] + answer.age) > MarginOf(l)
    <3>1. Honest(served[answer.token], answer.duration, l.left, answer.age)
      BY <2>2, <2>4 DEF LeaseInv
    <3>. QED  BY <2>2, <3>1, JustArrived DEF TypeOK, Answers
  <2>5. ASSUME Sending(d)', usesDynamicAuth, answer.token \notin altered
        PROVE  delay'[d] >= answer.age
    <3>1. answer.age \in Delays /\ delay[d] \in Delays
      BY DEF TypeOK, Answers
    <3>2. CASE d = c \/ pc[d] = "fetch"
      BY <2>1, <3>1, <3>2 DEF Delays
    <3>3. CASE ~(d = c \/ pc[d] = "fetch")
      <4>1. pc[d] = "send" /\ held[d] = answer.token /\ delay'[d] = delay[d]
        BY <2>1, <2>5, <3>3 DEF Sending, TypeOK
      <4>2. answer.token = token
        BY <2>1, <4>1 DEF AnswerInv
      <4>. QED  BY <1>b, <2>2, <2>5, <4>1, <4>2 DEF Goal, Sending
    <3>. QED  BY <3>2, <3>3
  <2>6. /\ answer.age \in Nat /\ delay'[d] \in Nat /\ served[answer.token] \in Nat
        /\ MarginOf(l) \in Nat
    BY <2>2, NewLease, MarginTyped DEF TypeOK, Answers, Delays, Lifetimes, Forever
  <2>7. ASSUME Sending(d)', usesDynamicAuth, answer.token \notin altered
        PROVE  3 * (served[answer.token] + delay'[d]) > MarginOf(l)
    BY <2>4, <2>5, <2>6, <2>7
  <2>. QED  BY <2>1, <2>2, <2>3, <2>7 DEF Goal, usesDynamicAuth
<1>5. ASSUME NEW c \in Callers, Fetch(c), NEW d \in Callers PROVE Goal(d)'
  <2>1. Keeps /\ answer.token = NoToken /\ delay' = delay
    BY <1>5, StepKeeps, Unlocked DEF Fetch
  <2>2. Sending(d)' => Sending(d)
    BY <1>5 DEF Fetch, Step, Sending, TypeOK
  <2>. QED  BY <1>1, <2>1, <2>2
<1>6. ASSUME NEW c \in Callers, Invalidate(c), NEW d \in Callers PROVE Goal(d)'
  BY <1>6 DEF Invalidate, Goal
<1>7. ASSUME NEW c \in Callers, Ends(c) \/ Refused(c) \/ Reads(c), NEW d \in Callers
      PROVE  Goal(d)'
  <2>1. Keeps
    BY <1>7, StepKeeps
  <2>2. CASE d = c
    <3>1. pc'[c] \notin {"fetch", "send"}
      BY <1>7 DEF Ends, End, Refused, Reads, Step, TypeOK
    <3>. QED  BY <2>2, <3>1 DEF Goal, Sending
  <2>3. CASE d # c
    <3>1. delay'[d] = delay[d] /\ pc'[d] = pc[d] /\ held'[d] = held[d] /\ token' = token
      BY <1>7, <2>3 DEF Ends, End, Refused, Reads, Step, Forget, TypeOK
    <3>. QED  BY <1>1, <2>1, <3>1 DEF Sending
  <2>. QED  BY <2>2, <2>3
<1>8. ASSUME NEW c \in Callers, Unrenewed(c), NEW d \in Callers PROVE Goal(d)'
  <2>1. Sending(d)' => Sending(d)
    BY <1>8 DEF Unrenewed, Step, Sending, TypeOK
  <2>2. pc'[d] = "send" => pc[d] = "send"
    BY <1>8 DEF Unrenewed, Step, TypeOK
  <2>. QED  BY <1>8, <1>b, <2>1, <2>2 DEF Unrenewed, Goal, usesDynamicAuth
<1>9. ASSUME NEW c \in Callers, NEW t \in Tokens, NEW m \in Durations, NEW r \in BOOLEAN,
             Replies(c, t, m, r), NEW d \in Callers
      PROVE  Goal(d)'
  <2>1. answer.token = NoToken
    BY <1>9, NotAnswered DEF Replies, Step, Busy
  <2>2. /\ answer'.token = t /\ answer'.age = 0
        /\ token \in Tokens /\ t # token => served'[token] = served[token]
        /\ UNCHANGED <<auth, token, lease, held, delay, altered>>
    BY <1>9 DEF Replies, TypeOK
  <2>3. (Sending(d)' => Sending(d)) /\ (pc'[d] = "send" => pc[d] = "send")
    BY <1>9 DEF Replies, Step, Sending, TypeOK
  <2>4. delay[d] >= 0
    BY DEF TypeOK, Delays
  <2>. QED  BY <1>b, <2>1, <2>2, <2>3, <2>4 DEF Goal, usesDynamicAuth
<1>10. ASSUME Tick, NEW d \in Callers PROVE Goal(d)'
  <2>1. /\ UNCHANGED <<auth, token, pc, held, altered>>
        /\ Sending(d) => delay'[d] = More(delay[d])
        /\ Sending(d)' <=> Sending(d)
        /\ token \in Tokens => served'[token] = Less(served[token])
    BY <1>10 DEF Tick, Sending, TypeOK
  <2>2. MarginOf(lease') = MarginOf(lease)
    BY <1>10 DEF Tick, MarginOf, TypeOK, Leases
  <2>3. answer'.token = answer.token /\ (answer.token \in Tokens => answer'.age = More(answer.age))
    BY <1>10 DEF Tick, TypeOK, Answers, NoAnswer
  <2>4. /\ token \in Tokens => served[token] \in Lifetimes
        /\ delay[d] \in Delays /\ answer.age \in Delays
        /\ MarginOf(lease) \in Nat /\ MarginOf(lease) <= 3 * Minute
    BY MarginTyped DEF TypeOK, Answers
  <2>5. ASSUME token \in Tokens, 3 * (served[token] + delay[d]) > MarginOf(lease)
        PROVE  3 * (Less(served[token]) + More(delay[d])) > MarginOf(lease)
    BY <2>4, <2>5, MarginLater
  <2>6. delay[d] >= answer.age => More(delay[d]) >= More(answer.age)
    BY <2>4 DEF More, Least, Delays
  <2>. QED  BY <1>b, <2>1, <2>2, <2>3, <2>5, <2>6 DEF Goal, usesDynamicAuth
<1>11. ASSUME Revoke, NEW d \in Callers PROVE Goal(d)'
  <2>1. /\ UNCHANGED <<auth, token, lease, answer, pc, held, delay>>
        /\ token \in Tokens \ altered' => token \notin altered /\ served'[token] = served[token]
    BY <1>11 DEF Revoke, TypeOK
  <2>. QED  BY <1>b, <2>1 DEF Goal, Sending, usesDynamicAuth
<1>. QED
  BY <1>a, StepCases, <1>2, <1>3, <1>4, <1>5, <1>6, <1>7, <1>8, <1>9, <1>10, <1>11

----------------------------------------------------------------------------
(* The token a request is sent with *)

(* A caller without a token lost it to another; one without delay has a    *)
(* token that is alive.                                                    *)
LEMMA StepAlive ==
    ASSUME TypeOK, LockHolderIsBusy, AnswerInv, LeaseInv, MarginInv, AliveInv, Next
    PROVE  AliveInv'
<1>. DEFINE Goal(c) ==
       usesDynamicAuth
         => /\ pc[c] = "fetch" /\ token = NoToken => emptied[c]
            /\ pc[c] = "send" /\ held[c] = NoToken => emptied[c]
            /\ pc[c] = "send" /\ held[c] \in Tokens \ altered /\ delay[c] = 0
                 => served[held[c]] > 0
<1>a. (AliveInv <=> \A c \in Callers : Goal(c)) /\ (AliveInv' <=> \A c \in Callers : Goal(c)')
  BY DEF AliveInv
<1>. HIDE DEF Goal
<1>b. \A c \in Callers : Goal(c)
  BY <1>a
<1>1. ASSUME NEW d \in Callers, auth' = auth,
             held[d] \in Tokens => served'[held[d]] = served[held[d]]
                                   /\ (held[d] \in altered' <=> held[d] \in altered),
             pc'[d] = pc[d], held'[d] = held[d], delay'[d] = delay[d],
             emptied[d] => emptied'[d], token' = token \/ pc'[d] # "fetch" \/ emptied'[d]
      PROVE  Goal(d)'
  BY <1>1, <1>b DEF Goal, usesDynamicAuth
<1>2. ASSUME NEW d \in Callers, usesDynamicAuth' => pc'[d] \notin {"fetch", "send"}
      PROVE  Goal(d)'
  BY <1>2 DEF Goal
<1>3. ASSUME NEW c \in Callers, NEW d \in Callers, d # c,
             Request(c) \/ Ensure(c) \/ Fetch(c) \/ Ends(c) \/ Refused(c) \/ Reads(c)
      PROVE  Goal(d)'
  <2>1. Keeps
    BY <1>3, StepKeeps
  <2>2. pc'[d] = pc[d] /\ held'[d] = held[d] /\ delay'[d] = delay[d] /\ emptied'[d] = emptied[d]
    BY <1>3 DEF Request, Ensure, Fetch, Ends, Refused, Reads, Step, End, Forget, TypeOK
  <2>3. held[d] \in Tokens => served'[held[d]] = served[held[d]]
                              /\ (held[d] \in altered' <=> held[d] \in altered)
    <3>1. held[d] \in Sendable'
      BY <2>2 DEF Sendable
    <3>. QED  BY <2>1, <3>1 DEF Keeps
  <2>. QED  BY <1>1, <2>1, <2>2, <2>3 DEF Keeps
<1>4. ASSUME NEW c \in Callers, Request(c) PROVE Goal(c)'
  <2>1. usesDynamicAuth' => pc'[c] = "ensure"
    BY <1>4 DEF Request, Step, usesDynamicAuth, TypeOK
  <2>. QED  BY <1>2, <2>1
<1>5. ASSUME NEW c \in Callers, Ensure(c) PROVE Goal(c)'
  <2>1. (pc'[c] = "fetch" /\ token' # NoToken) \/ pc'[c] \in {"renew", "credentials"}
    BY <1>5 DEF Ensure, Step, TypeOK
  <2>. QED  BY <2>1 DEF Goal
<1>6. ASSUME NEW c \in Callers, Ends(c) \/ Refused(c) \/ Reads(c) PROVE Goal(c)'
  <2>1. pc'[c] \in {"idle", "invalidate", "login"}
    BY <1>6 DEF Ends, End, Refused, Reads, Step, TypeOK
  <2>. QED  BY <1>2, <2>1
<1>7. ASSUME NEW c \in Callers, Fetch(c) PROVE Goal(c)'
  <2>1. /\ pc[c] = "fetch" /\ pc'[c] = "send" /\ held'[c] = token
        /\ UNCHANGED <<auth, token, lease, served, delay, emptied, altered>>
        /\ answer.token = NoToken
    BY <1>7, Unlocked DEF Fetch, Step, TypeOK
  <2>2. ASSUME usesDynamicAuth, token \in Tokens \ altered, delay[c] = 0
        PROVE  served[token] > 0
    <3>1. 3 * (served[token] + delay[c]) > MarginOf(lease)
      BY <2>1, <2>2 DEF MarginInv, Sending, Margin, MarginOf
    <3>2. MarginOf(lease) \in Nat /\ served[token] \in Nat
      BY <2>2, MarginTyped DEF TypeOK, Lifetimes, Forever
    <3>. QED  BY <2>2, <3>1, <3>2
  <2>. QED  BY <1>b, <2>1, <2>2 DEF Goal, usesDynamicAuth
<1>8. ASSUME NEW c \in Callers, Answer(c), NEW d \in Callers PROVE Goal(d)'
  <2>1. /\ token' = answer.token /\ pc[c] = "answer" /\ pc' = [pc EXCEPT ![c] = "fetch"]
        /\ held' = held /\ auth' = auth
        /\ delay' = [e \in Callers |-> IF e = c \/ pc[e] = "fetch" THEN answer.age ELSE delay[e]]
        /\ emptied' = [e \in Callers |-> emptied[e] /\ e # c /\ pc[e] # "fetch"]
    BY <1>8 DEF Answer, Step
  <2>2. token' # NoToken
    BY <2>1 DEF AnswerInv
  <2>3. CASE d = c \/ pc[d] = "fetch"
    <3>1. pc'[d] = "fetch"
      BY <2>1, <2>3 DEF TypeOK
    <3>. QED  BY <2>2, <3>1 DEF Goal
  <2>4. CASE ~(d = c \/ pc[d] = "fetch")
    <3>1. held[d] \in Tokens => served'[held[d]] = served[held[d]]
                                /\ (held[d] \in altered' <=> held[d] \in altered)
      BY <1>8, <2>1, RememberKeeps DEF Answer, Sendable
    <3>2. /\ pc'[d] = pc[d] /\ pc'[d] # "fetch" /\ delay'[d] = delay[d]
          /\ emptied[d] => emptied'[d]
      BY <2>1, <2>4 DEF TypeOK
    <3>. QED  BY <1>1, <2>1, <3>1, <3>2
  <2>. QED  BY <2>3, <2>4
<1>9. ASSUME NEW c \in Callers, Invalidate(c), NEW d \in Callers PROVE Goal(d)'
  <2>1. /\ pc' = [pc EXCEPT ![c] = "ensure"] /\ UNCHANGED <<auth, held, delay>>
        /\ emptied' = [e \in Callers |-> emptied[e] \/ (e # c /\ pc[e] = "fetch")]
    BY <1>9 DEF Invalidate, Step
  <2>2. CASE d = c
    BY <1>2, <2>1, <2>2 DEF TypeOK
  <2>3. CASE d # c
    <3>1. held[d] \in Tokens => served'[held[d]] = served[held[d]]
                                /\ (held[d] \in altered' <=> held[d] \in altered)
      BY <1>9, <2>1, RememberKeeps DEF Invalidate, Sendable
    <3>2. /\ pc'[d] = pc[d]
          /\ emptied[d] => emptied'[d]
          /\ pc'[d] # "fetch" \/ emptied'[d]
      BY <2>1, <2>3 DEF TypeOK
    <3>. QED  BY <1>1, <2>1, <3>1, <3>2
  <2>. QED  BY <2>2, <2>3
<1>10. ASSUME NEW c \in Callers, Unrenewed(c), NEW d \in Callers PROVE Goal(d)'
  <2>1. CASE d = c
    BY <1>2, <1>10, <2>1 DEF Unrenewed, Step, TypeOK
  <2>2. CASE d # c
    <3>1. /\ pc'[d] = pc[d] /\ UNCHANGED <<auth, token, held, delay, emptied>>
          /\ held[d] \in Tokens \ altered'
               => held[d] \notin altered /\ served'[held[d]] = served[held[d]]
      BY <1>10, <2>2 DEF Unrenewed, Step, TypeOK
    <3>. QED  BY <1>b, <3>1 DEF Goal, usesDynamicAuth
  <2>. QED  BY <2>1, <2>2
<1>11. ASSUME NEW c \in Callers, NEW t \in Tokens, NEW m \in Durations, NEW r \in BOOLEAN,
              Replies(c, t, m, r), NEW d \in Callers
       PROVE  Goal(d)'
  <2>1. CASE d = c
    BY <1>2, <1>11, <2>1 DEF Replies, Step, TypeOK
  <2>2. CASE d # c
    <3>1. pc'[d] = pc[d] /\ UNCHANGED <<auth, token, held, delay, emptied, altered>>
      BY <1>11, <2>2 DEF Replies, Step, TypeOK
    <3>2. ASSUME held[d] \in Tokens, served[held[d]] > 0 PROVE served'[held[d]] > 0
      <4>1. newTokenLease(m, r).left > 0
        BY NewLease DEF Forever
      <4>2. served' = [served EXCEPT ![t] = newTokenLease(m, r).left]
        BY <1>11 DEF Replies
      <4>. QED  BY <3>2, <4>1, <4>2 DEF TypeOK
    <3>. QED  BY <1>b, <3>1, <3>2 DEF Goal, usesDynamicAuth
  <2>. QED  BY <2>1, <2>2
<1>12. ASSUME Tick, NEW d \in Callers PROVE Goal(d)'
  <2>1. /\ UNCHANGED <<auth, token, pc, held, emptied>>
        /\ pc[d] = "send" => delay'[d] = More(delay[d]) /\ delay[d] \in Delays
    BY <1>12 DEF Tick, TypeOK
  <2>2. pc[d] = "send" => delay'[d] > 0
    BY <2>1, OneUnit
  <2>3. pc[d] = "send" => delay'[d] # 0
    BY <2>1, <2>2, OneUnit DEF Delays
  <2>. QED  BY <1>b, <2>1, <2>3 DEF Goal, usesDynamicAuth
<1>13. ASSUME Revoke, NEW d \in Callers PROVE Goal(d)'
  <2>1. /\ UNCHANGED <<auth, token, pc, held, delay, emptied>>
        /\ held[d] \in Tokens \ altered'
             => held[d] \notin altered /\ served'[held[d]] = served[held[d]]
    BY <1>13 DEF Revoke, TypeOK
  <2>. QED  BY <1>b, <2>1 DEF Goal, usesDynamicAuth
<1>. QED
  BY <1>a, StepCases, <1>3, <1>4, <1>5, <1>6, <1>7, <1>8, <1>9, <1>10, <1>11, <1>12, <1>13

----------------------------------------------------------------------------
(* The theorems *)

(* The invariant holds at the start ... *)
LEMMA InitInv == Init => IndInv
<1>. SUFFICES ASSUME Init PROVE IndInv
  OBVIOUS
<1>1. TypeOK
  BY InitTypeOK
<1>2. LockHolderIsBusy
  BY DEF Init, LockHolderIsBusy, Busy
<1>3. AnswerInv
  BY DEF Init, AnswerInv
<1>4. RetryInv
  BY DEF Init, RetryInv
<1>5. LeaseInv
  BY DEF Init, LeaseInv, NoAnswer, usesDynamicAuth
<1>6. MarginInv
  BY DEF Init, MarginInv, Sending
<1>7. AliveInv
  BY DEF Init, AliveInv
<1>. QED  BY <1>1, <1>2, <1>3, <1>4, <1>5, <1>6, <1>7 DEF IndInv

(* ... and every step keeps it. *)
LEMMA StepInv == IndInv /\ [Next]_vars => IndInv'
<1>1. ASSUME IndInv, Next PROVE IndInv'
  <2>1. TypeOK'
    BY <1>1, StepTypeOK DEF IndInv
  <2>. QED
    BY <1>1, <2>1, StepLock, StepAnswer, StepRetry, StepLease, StepMargin, StepAlive DEF IndInv
<1>2. ASSUME IndInv, UNCHANGED vars PROVE IndInv'
  <2>. USE <1>2 DEF IndInv, vars
  <2>1. TypeOK'
    BY DEF TypeOK
  <2>2. LockHolderIsBusy'
    BY DEF LockHolderIsBusy, Busy
  <2>3. AnswerInv' /\ RetryInv'
    BY DEF AnswerInv, RetryInv, usesDynamicAuth
  <2>4. LeaseInv'
    BY DEF LeaseInv, usesDynamicAuth
  <2>5. MarginInv'
    BY DEF MarginInv, Sending, Margin, usesDynamicAuth
  <2>6. AliveInv'
    BY DEF AliveInv, usesDynamicAuth
  <2>. QED  BY <2>1, <2>2, <2>3, <2>4, <2>5, <2>6
<1>. QED  BY <1>1, <1>2

(* ensureToken, currentToken, invalidateToken: in every reachable state,   *)
(* whatever the callers, the tokens, the leases and the margin, the lock   *)
(* has one holder and the client's lease, the callers' tokens and the      *)
(* server's agree as far as IndInv says.                                   *)
THEOREM Invariance == Spec => []IndInv
  BY InitInv, StepInv, PTL DEF Spec

(* ensureToken: the lock is held exactly for as long as its holder renews  *)
(* or logs in, whatever ends that.                                         *)
THEOREM LockCorrect == Spec => []LockHolderIsBusy
<1>1. IndInv => LockHolderIsBusy
  BY DEF IndInv
<1>. QED  BY <1>1, Invariance, PTL

(* doSegmentsQuery: a retry is never sent with the token that the first    *)
(* attempt was refused with.                                               *)
THEOREM RetryCorrect == Spec => []RetryUsesAnotherToken
<1>1. IndInv => RetryUsesAnotherToken
  BY DEF IndInv, RetryInv, RetryUsesAnotherToken, TypeOK
<1>. QED  BY <1>1, Invariance, PTL

(* tokenNeedsRefresh: the margin covers the time that the lease and the    *)
(* request are under way, for every length of a minute and of the leases.  *)
THEOREM MarginCorrect == Spec => []MarginCoversDelay
<1>1. ASSUME IndInv PROVE MarginCoversDelay
  <2>. SUFFICES ASSUME NEW c \in Callers, pc[c] = "send", usesDynamicAuth,
                       held[c] = token, token # NoToken, 3 * delay[c] <= Margin,
                       answer.token # token, token \notin altered
                PROVE  Accepts(token)
    BY DEF MarginCoversDelay
  <2>1. token \in Tokens /\ served[token] \in Nat /\ delay[c] \in Nat /\ lease \in Leases
    BY <1>1 DEF IndInv, TypeOK, Lifetimes, Forever, Delays
  <2>2. 3 * (served[token] + delay[c]) > Margin
    BY <1>1, <2>1 DEF IndInv, MarginInv, Sending
  <2>3. Margin \in Nat
    BY <2>1, MarginTyped DEF Margin, MarginOf
  <2>. QED  BY <2>1, <2>2, <2>3 DEF Accepts
<1>. QED  BY <1>1, Invariance, PTL

(* docs/architecture.md:45: a permitted retry that is going to be denied   *)
(* has a token that died on the way or was altered behind the client's     *)
(* back, or none because another caller threw it away.                     *)
THEOREM DenialCorrect == Spec => []DeniedForAReason
<1>1. ASSUME IndInv PROVE DeniedForAReason
  <2>. SUFFICES ASSUME NEW c \in Callers, pc[c] = "send", attempt[c] = 2, ~Accepts(held[c])
                PROVE  \/ held[c] = NoToken /\ emptied[c]
                       \/ held[c] \in altered
                       \/ held[c] # NoToken /\ delay[c] > 0
    BY DEF DeniedForAReason
  <2>1. usesDynamicAuth
    BY <1>1 DEF IndInv, RetryInv
  <2>2. CASE held[c] = NoToken
    BY <1>1, <2>1, <2>2 DEF IndInv, AliveInv
  <2>3. CASE held[c] \in Tokens \ altered
    <3>1. ~(delay[c] = 0)
      BY <1>1, <2>1, <2>3 DEF IndInv, AliveInv, Accepts
    <3>2. delay[c] \in Nat
      BY <1>1 DEF IndInv, TypeOK, Delays
    <3>. QED  BY <2>3, <3>1, <3>2
  <2>. QED  BY <1>1, <2>2, <2>3 DEF IndInv, TypeOK
<1>. QED  BY <1>1, Invariance, PTL
=============================================================================
