------------------------------- MODULE Polling ------------------------------
(***************************************************************************)
(* WaitForCondition (testing/demo/pkg/utils/utils.go), with which the demo *)
(* tools wait for their transactions, and the two functions they give it:  *)
(* the one that asks for an EVM receipt, which reports every error as "not *)
(* yet", and the one that asks for a SimApp transaction, which passes      *)
(* errors on.  Time is counted in seconds; calls take none.                *)
(***************************************************************************)
EXTENDS Naturals

CONSTANTS
    Callers,           \* which functions are polled: "receipt", "tx", "any"
    TimeoutAfter, PollingInterval, MaxRetries,
    ConnectionErrors   \* whether the connection may break

ASSUME PollingAssumption ==
    /\ Callers \subseteq {"receipt", "tx", "any"}
    /\ TimeoutAfter \in Nat /\ PollingInterval \in Nat \ {0} /\ MaxRetries \in Nat \ {0}

VARIABLES
    fn,               \* the function that is polled
    included,         \* whether the transaction is in a block
    pc,               \* "wait", "call", or how WaitForCondition returned
    elapsed,          \* seconds since the call
    retries, lastErr, \* locals of one poll
    backoffDuration,  \* doubled for every connection error, never reset
    outcome           \* of the last call of fn

vars == <<fn, included, pc, elapsed, retries, lastErr, backoffDuration, outcome>>

Returned == {"nil", "error", "timeout"}
OutcomesOf == {"true", "false", "connection", "other"}

\* What a call returns.  QueryTx of a transaction that is not in a block is an
\* error, and not one that looks like a broken connection.
Outcomes ==
    CASE fn = "receipt" -> {IF included THEN "true" ELSE "false"}
                             \cup IF ConnectionErrors THEN {"false"} ELSE {}
      [] fn = "tx" -> {IF included THEN "true" ELSE "other"}
                             \cup IF ConnectionErrors THEN {"connection"} ELSE {}
      [] OTHER -> OutcomesOf \ IF included THEN {} ELSE {"true"}

Init ==
    /\ fn \in Callers
    /\ included = FALSE
    /\ pc = "wait"
    /\ elapsed = 0
    /\ retries = 0 /\ lastErr = FALSE
    /\ backoffDuration = 1
    /\ outcome = "none"

\* The chain includes the transaction.
Include ==
    /\ ~included
    /\ included' = TRUE
    /\ UNCHANGED <<fn, pc, elapsed, retries, lastErr, backoffDuration, outcome>>

\* select: the context is done before the timer fires, or both are ready.
ContextDone ==
    /\ pc = "wait"
    /\ elapsed + PollingInterval >= TimeoutAfter
    /\ elapsed' = IF elapsed > TimeoutAfter THEN elapsed ELSE TimeoutAfter
    /\ pc' = "timeout"
    /\ UNCHANGED <<fn, included, retries, lastErr, backoffDuration, outcome>>

\* Faulty variant of the next definition: the context is never looked at.
PollForever ==
    /\ pc = "wait"
    /\ elapsed' = IF elapsed + PollingInterval <= TimeoutAfter
                  THEN elapsed + PollingInterval ELSE elapsed
    /\ pc' = "call"
    /\ retries' = 0
    /\ lastErr' = FALSE
    /\ UNCHANGED <<fn, included, backoffDuration, outcome>>

\* select: the timer fires.
Poll ==
    /\ pc = "wait"
    /\ elapsed + PollingInterval <= TimeoutAfter
    /\ elapsed' = elapsed + PollingInterval
    /\ pc' = "call"
    /\ retries' = 0
    /\ lastErr' = FALSE
    /\ UNCHANGED <<fn, included, backoffDuration, outcome>>

\* err == nil: the condition is reached, or the retry loop is left, which
\* returns an earlier error of this poll if there was one.
NoError(o) ==
    /\ o \in {"true", "false"}
    /\ pc' = IF o = "true" THEN "nil" ELSE IF lastErr THEN "error" ELSE "wait"
    /\ UNCHANGED <<elapsed, retries, lastErr, backoffDuration>>

\* Faulty variant of the next definition: the retry loop is left for the next poll.
ConnectionErrorPollsOn(o) ==
    /\ o = "connection"
    /\ elapsed' = elapsed + backoffDuration
    /\ backoffDuration' = 2 * backoffDuration
    /\ pc' = "wait"
    /\ UNCHANGED <<retries, lastErr>>

\* A connection error: sleep and try again, MaxRetries times in all.
ConnectionError(o) ==
    /\ o = "connection"
    /\ lastErr' = TRUE
    /\ elapsed' = elapsed + backoffDuration
    /\ backoffDuration' = 2 * backoffDuration
    /\ retries' = retries + 1
    /\ pc' = IF retries + 1 < MaxRetries THEN "call" ELSE "error"

OtherError(o) ==
    /\ o = "other"
    /\ lastErr' = TRUE
    /\ pc' = "error"
    /\ UNCHANGED <<elapsed, retries, backoffDuration>>

Call ==
    /\ pc = "call"
    /\ \E o \in Outcomes :
         /\ outcome' = o
         /\ NoError(o) \/ ConnectionError(o) \/ OtherError(o)
    /\ UNCHANGED <<fn, included>>

WaitForCondition == ContextDone \/ Poll \/ Call

Next == Include \/ WaitForCondition

Spec == Init /\ [][Next]_vars

\* The function runs on; the chain promises nothing.
FairSpec == Spec /\ WF_vars(WaitForCondition)

-----------------------------------------------------------------------------
(* Properties.                                                             *)

\* What a backoff of one second has grown to after n connection errors.
Backoff[n \in 0..MaxRetries] == IF n = 0 THEN 1 ELSE 2 * Backoff[n - 1]

\* The deadline holds up to one series of retries: the context is not looked at
\* while the backoff sleeps, which double and are never reset, yet at most one
\* poll can contain connection errors, so they add 1 + 2 + ... + 2^(MaxRetries - 1)
\* at most.
DeadlineOverrunBounded ==
    /\ elapsed <= TimeoutAfter + Backoff[MaxRetries] - 1
    /\ pc = "wait" => elapsed <= TimeoutAfter

\* The wait ends, whatever the function answers.
WaitEnds == pc = "wait" ~> pc \in Returned
=============================================================================
