---------------------------- MODULE TokenClient ----------------------------
(***************************************************************************)
(* The OpenBao token of one HTTP client (internal/openbaoclient/client.go, *)
(* system.go) that several reconcilers use at the same time.               *)
(*                                                                         *)
(* With Kubernetes or AppRole auth the client logs in on demand, renews    *)
(* the token before its lease ends and, when a request is refused, throws  *)
(* the token away, logs in again and sends the request once more.          *)
(* tokenMu is held for as long as a renewal or a login takes, and for the  *)
(* moment of reading or clearing the token; it is not held while a request *)
(* is under way.                                                           *)
(*                                                                         *)
(* Simplifications.                                                        *)
(*  - time is what is left of a lease, in units; Tick takes one away.      *)
(*  - token names are used again once nobody has one any more.             *)
(*  - a request is what its answer depends on: whether the token's         *)
(*    policies permit it.  Path, body and answer are left out.             *)
(***************************************************************************)
EXTENDS Naturals, FiniteSets

CONSTANTS
    AuthMethods, \* ways to authenticate, of "token", "kubernetes", "approle"
    Callers,     \* goroutines that share the client
    NoCaller,
    Tokens,      \* names of tokens
    NoToken,     \* the empty string
    Durations,   \* lease durations the server hands out; 0 never expires
    Minute,      \* one minute, in units of time
    MaxDuration,
    FaultBudget  \* bound on lost answers, failing logins and revocations

ASSUME AuthAssumption == AuthMethods \subseteq {"token", "kubernetes", "approle"}
ASSUME CallersAssumption == NoCaller \notin Callers
ASSUME TokensAssumption == NoToken \notin Tokens
ASSUME TimeAssumption ==
    MaxDuration \in Nat /\ Durations \subseteq 0 .. MaxDuration /\ Minute \in Nat
ASSUME BudgetAssumption == FaultBudget \in Nat

VARIABLES
    auth,        \* how the client authenticates
    token,       \* Client.token
    lease,       \* Client.tokenLease
    tokenMu,     \* who holds the lock for longer than one step
    answer,      \* the token and lease on their way to the holder
    pc, attempt,
    permitted,   \* the policies of the client's role permit the request
    held,        \* the token the request is sent with
    refused,     \* the token the first attempt was refused with
    served,      \* what is left of each token at the server, 0 if it is dead
    budget,
    skew,        \* how long the last lease was under way (history)
    delay,       \* that, and the time since the token was found good (history)
    emptied,     \* the token was thrown away since (history)
    altered      \* tokens revoked, or renewed in a way the client never learns (history)

sharedVars == <<token, lease, tokenMu, answer>>
callVars   == <<pc, attempt, permitted, held, refused>>
histVars   == <<skew, delay, emptied, altered>>
vars == <<auth, sharedVars, callVars, served, budget, histVars>>

Forever == MaxDuration + 1
Lifetimes == 0 .. Forever
Delays == 0 .. Minute + 1   \* longer ones are alike: no margin exceeds a minute
Leases == [left : Lifetimes, duration : 0 .. MaxDuration, renewable : BOOLEAN]
Answers == [token : Tokens \cup {NoToken}, duration : 0 .. MaxDuration,
            renewable : BOOLEAN, age : Delays]
NoAnswer == [token |-> NoToken, duration |-> 0, renewable |-> FALSE, age |-> 0]
Steps == {"idle", "ensure", "renew", "credentials", "login", "answer",
          "fetch", "send", "invalidate"}

TypeOK ==
    /\ auth \in AuthMethods
    /\ token \in Tokens \cup {NoToken} /\ lease \in Leases
    /\ tokenMu \in Callers \cup {NoCaller} /\ answer \in Answers
    /\ pc \in [Callers -> Steps] /\ attempt \in [Callers -> {1, 2}]
    /\ permitted \in [Callers -> BOOLEAN]
    /\ held \in [Callers -> Tokens \cup {NoToken}]
    /\ refused \in [Callers -> Tokens \cup {NoToken}]
    /\ served \in [Tokens -> Lifetimes] /\ budget \in 0 .. FaultBudget
    /\ skew \in Delays /\ delay \in [Callers -> Delays]
    /\ emptied \in [Callers -> BOOLEAN] /\ altered \subseteq Tokens

----------------------------------------------------------------------------
(* newTokenLease, without the moment it is computed at. *)
\* Mutant: the margin is added to the expiry.
newTokenLeasePadded(d, r) ==
    [left |-> IF d > 0 THEN d + 3 * Minute ELSE Forever, duration |-> d, renewable |-> r]
newTokenLease(d, r) ==
    [left |-> IF d > 0 THEN d ELSE Forever, duration |-> d, renewable |-> r]

(* The zero tokenLease. *)
NoLease == newTokenLease(0, FALSE)

Least(m, n) == IF m < n THEN m ELSE n

(* A renewable token is renewed when a third of its lease is left, or one  *)
(* minute; another is given up when its lease is over.                     *)
\* Mutant: a renewable token is renewed when its lease is over.
NeedsRefreshTooLate(l) == l.left # Forever /\ l.left = 0
tokenNeedsRefresh(l) ==
    /\ l.left # Forever
    /\ IF l.renewable THEN 3 * l.left <= Least(l.duration, 3 * Minute)
                      ELSE l.left = 0

usesDynamicAuth == auth # "token"

(* What the server does with a request that carries token t. *)
Accepts(t) == t \in Tokens /\ served[t] > 0

Sendable == {token, answer.token} \cup {held[c] : c \in Callers}
InUse == Sendable \cup {refused[c] : c \in Callers}

Remember(lifetimes) ==
    /\ served' = [t \in Tokens |-> IF t \in Sendable' THEN lifetimes[t] ELSE 0]
    /\ altered' = altered \cap Sendable'

Init ==
    /\ auth \in AuthMethods
    /\ IF auth = "token" THEN token \in Tokens ELSE token = NoToken
    /\ lease = NoLease /\ tokenMu = NoCaller /\ answer = NoAnswer
    /\ pc = [c \in Callers |-> "idle"] /\ attempt = [c \in Callers |-> 1]
    /\ permitted = [c \in Callers |-> TRUE]
    /\ held = [c \in Callers |-> NoToken] /\ refused = [c \in Callers |-> NoToken]
    /\ served = [t \in Tokens |-> IF t = token THEN Forever ELSE 0]
    /\ budget = FaultBudget
    /\ skew = 0 /\ delay = [c \in Callers |-> 0]
    /\ emptied = [c \in Callers |-> FALSE] /\ altered = {}

Spend == budget > 0 /\ budget' = budget - 1

Step(c, from, to) == pc[c] = from /\ pc' = [pc EXCEPT ![c] = to]

(* The token the caller sent does not matter any more. *)
Forget(c) ==
    /\ held' = [held EXCEPT ![c] = NoToken]
    /\ delay' = [delay EXCEPT ![c] = 0] /\ emptied' = [emptied EXCEPT ![c] = FALSE]

(* The request has ended; the caller gets its result. *)
End(c) ==
    /\ pc' = [pc EXCEPT ![c] = "idle"]
    /\ attempt' = [attempt EXCEPT ![c] = 1]
    /\ permitted' = [permitted EXCEPT ![c] = TRUE]
    /\ refused' = [refused EXCEPT ![c] = NoToken]
    /\ Forget(c)

Unlock == tokenMu' = NoCaller /\ answer' = NoAnswer

----------------------------------------------------------------------------
(* doSegmentsQuery: one request *)

Request(c) ==
    /\ Step(c, "idle", IF usesDynamicAuth THEN "ensure" ELSE "fetch")
    /\ \E p \in BOOLEAN : permitted' = [permitted EXCEPT ![c] = p]
    /\ UNCHANGED <<auth, sharedVars, attempt, held, refused, served, budget, histVars>>

(* ensureToken up to the first call that leaves the process. *)
Ensure(c) ==
    /\ pc[c] = "ensure" /\ tokenMu = NoCaller
    /\ IF token # NoToken /\ ~tokenNeedsRefresh(lease)
         THEN /\ Step(c, "ensure", "fetch") /\ UNCHANGED tokenMu
              /\ delay' = [delay EXCEPT ![c] = skew]
              /\ emptied' = [emptied EXCEPT ![c] = FALSE]
         ELSE /\ tokenMu' = c
              /\ Step(c, "ensure", IF token # NoToken /\ lease.renewable
                                     THEN "renew" ELSE "credentials")
              /\ UNCHANGED <<delay, emptied>>
    /\ UNCHANGED <<auth, token, lease, answer, attempt, permitted, held, refused,
                   served, budget, skew, altered>>

(* renewToken: whatever goes wrong, a lost answer included, the client     *)
(* logs in instead.  The server means what the client reads: a duration of *)
(* 0 never ends, for a renewal as for a login.                             *)
Renew(c) ==
    /\ pc[c] = "renew"
    /\ \/ /\ Accepts(token)
          /\ \E d \in Durations, r \in BOOLEAN :
               /\ answer' = [token |-> token, duration |-> d, renewable |-> r, age |-> 0]
               /\ served' = [served EXCEPT ![token] = newTokenLease(d, r).left]
          /\ Step(c, "renew", "answer") /\ UNCHANGED <<budget, altered>>
       \/ /\ ~Accepts(token)
          /\ Step(c, "renew", "credentials") /\ UNCHANGED <<answer, served, budget, altered>>
       \/ /\ Spend /\ Step(c, "renew", "credentials") /\ UNCHANGED answer
          /\ \/ UNCHANGED <<served, altered>>
             \/ /\ Accepts(token)
                /\ \E d \in Durations, r \in BOOLEAN :
                     served' = [served EXCEPT ![token] = newTokenLease(d, r).left]
                /\ altered' = altered \cup {token}
    /\ UNCHANGED <<auth, token, lease, tokenMu, attempt, permitted, held, refused,
                   skew, delay, emptied>>

(* ensureToken returns an error: the request is not sent. *)
\* Mutant: the lock is not released.
LoginFailsLocked(c) ==
    /\ Spend /\ End(c)
    /\ UNCHANGED <<auth, sharedVars, skew>>
    /\ Remember(served)
\* Mutant: the request is sent all the same.
LoginFailsIgnored(c) ==
    /\ Spend /\ Unlock /\ pc' = [pc EXCEPT ![c] = "fetch"]
    /\ UNCHANGED <<auth, token, lease, attempt, permitted, held, refused, served, histVars>>
LoginFails(c) ==
    /\ Spend /\ End(c) /\ Unlock
    /\ UNCHANGED <<auth, token, lease, skew>>
    /\ Remember(served)

(* The ServiceAccount JWT, or the role ID and the secret ID. *)
Credentials(c) ==
    /\ pc[c] = "credentials"
    /\ \/ /\ Step(c, "credentials", "login")
          /\ UNCHANGED <<auth, sharedVars, attempt, permitted, held, refused,
                         served, budget, histVars>>
       \/ LoginFails(c)

(* loginKubernetes and loginAppRole; a login that gets through and whose   *)
(* answer is lost leaves a token that nobody knows.                        *)
Login(c) ==
    /\ pc[c] = "login"
    /\ \/ /\ \E t \in Tokens \ InUse, d \in Durations, r \in BOOLEAN :
               /\ answer' = [token |-> t, duration |-> d, renewable |-> r, age |-> 0]
               /\ served' = [served EXCEPT ![t] = newTokenLease(d, r).left]
          /\ Step(c, "login", "answer")
          /\ UNCHANGED <<auth, token, lease, tokenMu, attempt, permitted, held, refused,
                         budget, histVars>>
       \/ LoginFails(c)

(* The answer arrives, and the lease is counted from this moment. *)
Answer(c) ==
    /\ Step(c, "answer", "fetch")
    /\ token' = answer.token /\ lease' = newTokenLease(answer.duration, answer.renewable)
    /\ skew' = answer.age
    /\ delay' = [d \in Callers |-> IF d = c \/ pc[d] = "fetch" THEN answer.age ELSE delay[d]]
    /\ emptied' = [d \in Callers |-> emptied[d] /\ d # c /\ pc[d] # "fetch"]
    /\ Unlock
    /\ UNCHANGED <<auth, attempt, permitted, held, refused, budget>>
    /\ Remember(served)

(* currentToken *)
Fetch(c) ==
    /\ Step(c, "fetch", "send") /\ tokenMu = NoCaller
    /\ held' = [held EXCEPT ![c] = token]
    /\ UNCHANGED <<auth, sharedVars, attempt, permitted, refused, served,
                   budget, histVars>>

(* The request itself.  A refusal (401, 403) leads to one retry; any other *)
(* error is returned.                                                      *)
Send(c) ==
    /\ pc[c] = "send"
    /\ UNCHANGED <<auth, sharedVars, skew>>
    /\ \/ /\ Accepts(held[c]) /\ permitted[c]
          /\ End(c) /\ Remember(served) /\ UNCHANGED budget
       \/ /\ ~(Accepts(held[c]) /\ permitted[c])
          /\ attempt[c] = 1 /\ usesDynamicAuth
          /\ Step(c, "send", "invalidate")
          /\ refused' = [refused EXCEPT ![c] = held[c]]
          /\ Forget(c)
          /\ UNCHANGED <<attempt, permitted, budget>>
          /\ Remember(served)
       \/ /\ ~(Accepts(held[c]) /\ permitted[c])
          /\ attempt[c] = 2 \/ ~usesDynamicAuth
          /\ End(c) /\ Remember(served) /\ UNCHANGED budget
       \/ Spend /\ End(c) /\ Remember(served)

(* invalidateToken: whatever token the client has by now is gone. *)
\* Mutant: the token is kept.
InvalidateNothing(c) ==
    /\ Step(c, "invalidate", "ensure") /\ tokenMu = NoCaller
    /\ attempt' = [attempt EXCEPT ![c] = 2]
    /\ UNCHANGED <<auth, sharedVars, permitted, held, refused, served, budget, histVars>>
Invalidate(c) ==
    /\ Step(c, "invalidate", "ensure") /\ tokenMu = NoCaller
    /\ token' = NoToken /\ lease' = NoLease /\ skew' = 0
    /\ attempt' = [attempt EXCEPT ![c] = 2]
    /\ emptied' = [d \in Callers |-> emptied[d] \/ (d # c /\ pc[d] = "fetch")]
    /\ UNCHANGED <<auth, tokenMu, answer, permitted, held, refused, budget, delay>>
    /\ Remember(served)

----------------------------------------------------------------------------
(* Time and the server's administrators *)

Less(n) == IF n \in {0, Forever} THEN n ELSE n - 1
More(n) == Least(n + 1, Minute + 1)

Tick ==
    /\ lease' = [lease EXCEPT !.left = Less(@)]
    /\ served' = [t \in Tokens |-> Less(served[t])]
    /\ answer' = [answer EXCEPT !.age = IF answer = NoAnswer THEN 0 ELSE More(@)]
    /\ delay' = [c \in Callers |->
                   IF pc[c] \in {"fetch", "send"} THEN More(delay[c]) ELSE delay[c]]
    /\ UNCHANGED <<auth, token, tokenMu, callVars, budget, skew, emptied, altered>>

Revoke ==
    /\ Spend
    /\ \E t \in Tokens :
         /\ Accepts(t)
         /\ served' = [served EXCEPT ![t] = 0] /\ altered' = altered \cup {t}
    /\ UNCHANGED <<auth, sharedVars, callVars, skew, delay, emptied>>

----------------------------------------------------------------------------
Call(c) ==
    \/ Ensure(c) \/ Renew(c) \/ Credentials(c) \/ Login(c) \/ Answer(c)
    \/ Fetch(c) \/ Send(c) \/ Invalidate(c)

Next == (\E c \in Callers : Request(c) \/ Call(c)) \/ Tick \/ Revoke

Spec == Init /\ [][Next]_vars

----------------------------------------------------------------------------
(* Properties *)

(* ensureToken: the lock never outlives the renewal or login it was taken  *)
(* for, on whatever path that ends, and there is one of them at a time.    *)
Busy(c) == pc[c] \in {"renew", "credentials", "login", "answer"}
LockHolderIsBusy == \A c \in Callers : Busy(c) <=> tokenMu = c

(* doSegmentsQuery: whatever other callers do to the shared token, the     *)
(* retry is not sent with the token that the first attempt was refused     *)
(* with.                                                                   *)
RetryUsesAnotherToken ==
    \A c \in Callers : pc[c] = "send" /\ attempt[c] = 2 /\ held[c] # NoToken
                        => held[c] # refused[c]

(* tokenNeedsRefresh: a request is not sent with an expired token as long  *)
(* as the answer that brought the lease and the request itself were under  *)
(* way for no longer than the margin that a renewable token is renewed     *)
(* before its lease ends, and no renewal has given the token another lease *)
(* of which the client has not heard yet.                                  *)
Margin == IF lease.renewable THEN Least(lease.duration, 3 * Minute) ELSE 0
MarginCoversDelay ==
    \A c \in Callers :
      pc[c] = "send" /\ usesDynamicAuth /\ held[c] = token /\ token # NoToken
      /\ 3 * delay[c] <= Margin /\ answer.token # token
        => Accepts(token) \/ token \in altered

(* docs/architecture.md:45: a permitted request that will be denied has a  *)
(* retry whose token died, or another caller threw the token away after    *)
(* this one had found it to be good.                                       *)
DeniedForAReason ==
    \A c \in Callers :
      pc[c] = "send" /\ attempt[c] = 2 /\ permitted[c] /\ ~Accepts(held[c])
        => \/ held[c] = NoToken /\ emptied[c]
           \/ held[c] \in altered
           \/ held[c] # NoToken /\ delay[c] > 0

----------------------------------------------------------------------------
(* The inductive invariant behind these properties *)

(* Only the holder of the lock waits for an answer; a token that is on its *)
(* way is a renewed one, or one that nobody sends yet.                     *)
AnswerInv ==
    /\ (\A c \in Callers : pc[c] # "answer") => answer = NoAnswer
    /\ \A c \in Callers : pc[c] = "answer"
         => /\ answer.token \in Tokens
            /\ answer.token # token => \A d \in Callers : held[d] # answer.token

(* A retry's refused token is nowhere where the retry could get it from. *)
RetryInv ==
    \A c \in Callers :
      /\ pc[c] # "send" => held[c] = NoToken
      /\ attempt[c] = 2 \/ pc[c] = "invalidate" => usesDynamicAuth
      /\ attempt[c] = 2 /\ refused[c] # NoToken
           => refused[c] \notin {token, answer.token, held[c]}

(* A lease that was under way for age promises no more than the server has. *)
Honest(serves, duration, left, age) ==
    IF duration = 0 THEN left = Forever /\ serves = Forever
    ELSE left # Forever /\ (age <= Minute => serves + age >= left)

LeaseInv ==
    /\ token \in Tokens \ altered /\ answer.token # token /\ usesDynamicAuth
         => Honest(served[token], lease.duration, lease.left, skew)
    /\ answer.token \in Tokens \ altered
         => Honest(served[answer.token], answer.duration,
                   newTokenLease(answer.duration, answer.renewable).left, answer.age)

(* A caller that is about to send the client's token, or is sending it: it *)
(* found more than the margin left, or a renewal is younger than its delay.*)
Sending(c) == pc[c] = "fetch" \/ (pc[c] = "send" /\ held[c] = token)
MarginInv ==
    \A c \in Callers :
      Sending(c) /\ usesDynamicAuth /\ token \in Tokens \ altered
        => /\ answer.token # token => 3 * (served[token] + delay[c]) > Margin
           /\ answer.token = token /\ pc[c] = "send" => delay[c] >= answer.age

(* Without delay a token is alive when it is sent, and a request has no    *)
(* token only when another caller threw it away.                           *)
AliveInv ==
    \A c \in Callers :
      usesDynamicAuth
        => /\ pc[c] = "fetch" /\ token = NoToken => emptied[c]
           /\ pc[c] = "send" /\ held[c] = NoToken => emptied[c]
           /\ pc[c] = "send" /\ held[c] \in Tokens \ altered /\ delay[c] = 0
                => served[held[c]] > 0

(* ensureToken, currentToken, invalidateToken: what the state of the       *)
(* client, of its callers and of the server have to do with each other     *)
(* whenever the lock is taken or released.                                 *)
IndInv ==
    TypeOK /\ LockHolderIsBusy /\ AnswerInv /\ RetryInv /\ LeaseInv
      /\ MarginInv /\ AliveInv

=============================================================================
