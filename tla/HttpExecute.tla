---------------------------- MODULE HttpExecute ----------------------------
(***************************************************************************)
(* HttpClient::execute: one call, its attempts and its retries             *)
(* (src/client/http_client.rs, src/client/internal/, and the eligibility   *)
(* rules of src/options/http_retry_options.rs).                            *)
(*                                                                         *)
(* A retry flow owns the caller's token: the executor of qubit_retry,      *)
(* which is external, watches it, and the attempts do not.  A token that   *)
(* an interceptor installs belongs to the attempt alone.  The interceptors *)
(* edit the attempt's clone of the request one after the other.  The       *)
(* delays, and the Retry-After hint that lengthens them, are left out.     *)
(***************************************************************************)
EXTENDS Integers, Sequences

CONSTANTS
  MaxAttempts,   \* retry.max_attempts
  HasBudget,     \* retry.max_duration is configured
  Kinds,         \* error kinds an attempt may fail with, one per status class too
  RetryOn,       \* the kinds and statuses the options retry
  Clients,       \* client retry settings: [enabled : BOOLEAN, policy : Policies]
  Templates,     \* requests passed to execute
  Interceptors   \* how many request interceptors are registered

Methods == {"GET", "POST"}   \* one the IdempotentOnly policy allows, one it does not
Policies == {"IdempotentOnly", "AllMethods", "None"}
Tokens == {"none", "flow", "own"}

\* A body is the template's (0), the one attempt k's interceptors set (k), or
\* what is left once it was handed over.
TakenBody == -1
Bodies == TakenBody..MaxAttempts
Requests == [method : Methods, force : {"unset", "enable", "disable"},
             policy : Policies \union {"unset"}, token : Tokens, body : Bodies]

ASSUME AttemptAssumption == MaxAttempts \in Nat \ {0} /\ HasBudget \in BOOLEAN
ASSUME KindAssumption ==
  {"Timeout", "Cancelled"} \subseteq Kinds /\ "ok" \notin Kinds /\ RetryOn \subseteq Kinds
ASSUME ClientAssumption == Clients \subseteq [enabled : BOOLEAN, policy : Policies]
ASSUME TemplateAssumption ==
  Templates \subseteq {r \in Requests : r.body = 0 /\ r.token # "own"}
ASSUME InterceptorAssumption == Interceptors \in Nat

VARIABLES
  client,         \* the retry options of the executing client
  template,       \* the request given to execute
  mode,           \* "direct" or "retry", once chosen
  phase,          \* where the call is
  attempts,       \* attempts started
  request,        \* the current attempt's request
  interceptor,    \* the next interceptor to run
  allowed,        \* retry_allowed
  flowCancelled, ownCancelled,   \* the caller's and the interceptor's tokens
  sent,           \* history: [attempt, body] of every request handed over
  failures,       \* history: [kind, wanted] of every failed attempt
  result          \* [kind, termination, token] of the finished call

callVars == <<client, template, mode>>
attemptVars == <<attempts, request, interceptor, allowed>>
tokenVars == <<flowCancelled, ownCancelled>>
vars == <<callVars, phase, attemptVars, tokenVars, sent, failures, result>>

NoResult == [kind |-> "none", termination |-> "none", token |-> "none"]
Terminations == {"none", "Aborted", "AttemptsExhausted", "DurationExceeded", "Cancelled"}

TypeOK ==
  /\ client \in Clients /\ template \in Templates
  /\ mode \in {"none", "direct", "retry"}
  /\ phase \in {"start", "admit", "attempt", "intercepting", "ready", "preparing",
                "sending", "received", "waiting", "done"}
  /\ attempts \in 0..MaxAttempts
  /\ request \in Requests
  /\ interceptor \in 1..(Interceptors + 1)
  /\ allowed \in BOOLEAN /\ flowCancelled \in BOOLEAN /\ ownCancelled \in BOOLEAN
  /\ sent \in Seq([attempt : 1..MaxAttempts, body : Bodies])
  /\ failures \in Seq([kind : Kinds, wanted : BOOLEAN])
  /\ result \in [kind : Kinds \union {"none", "ok", "RetryBudgetExceeded"},
                 termination : Terminations, token : Tokens]

Init ==
  /\ client \in Clients /\ template \in Templates
  /\ mode = "none" /\ phase = "start" /\ attempts = 0
  /\ request = template /\ interceptor = 1 /\ allowed = FALSE
  /\ flowCancelled = FALSE /\ ownCancelled = FALSE
  /\ sent = <<>> /\ failures = <<>> /\ result = NoResult

-----------------------------------------------------------------------------
(* Eligibility: HttpRetryOptions::resolve and should_retry.                *)

Enabled(r) == r.force = "enable" \/ (r.force = "unset" /\ client.enabled)
Policy(r) == IF r.policy = "unset" THEN client.policy ELSE r.policy
PolicyAllows(r) == \/ Policy(r) = "AllMethods"
                   \/ Policy(r) = "IdempotentOnly" /\ r.method = "GET"
ShouldRetry(r) == MaxAttempts > 1 /\ Enabled(r) /\ PolicyAllows(r)

\* retry_flow_owns_current_token: the attempt still carries the caller's token.
FlowOwns(r) == mode = "retry" /\ template.token = "flow" /\ r.token = "flow"

\* io_cancellation_token
IoToken(r) == IF FlowOwns(r) THEN "none" ELSE r.token

Fired(token) == (token = "flow" /\ flowCancelled) \/ (token = "own" /\ ownCancelled)
IoCancelled == Fired(IoToken(request))
ExecutorCancelled == mode = "retry" /\ Fired(template.token)

-----------------------------------------------------------------------------
(* How a call ends.                                                        *)

Finish(kind, termination, token) ==
  /\ phase' = "done"
  /\ result' = [kind |-> kind, termination |-> termination, token |-> token]

\* Fault: the attempt limit is not consulted.
FailUncounted(kind, permitted) ==
  /\ failures' = Append(failures, [kind |-> kind, wanted |-> ShouldRetry(request')])
  /\ IF mode = "retry" /\ permitted /\ kind \in RetryOn
       THEN phase' = "waiting" /\ UNCHANGED result
       ELSE Finish(kind, IF mode = "retry" THEN "Aborted" ELSE "none", "none")

\* The attempt fails.  In a retry flow HttpRetryRule::decide aborts unless the
\* attempt's request permits a retry and the error is a retryable one; the
\* executor then admits another attempt, within its limits.
Fail(kind, permitted) ==
  /\ failures' = Append(failures, [kind |-> kind, wanted |-> ShouldRetry(request')])
  /\ \/ mode = "direct" /\ Finish(kind, "none", "none")
     \/ /\ mode = "retry" /\ ~(permitted /\ kind \in RetryOn)
        /\ Finish(kind, "Aborted", "none")
     \/ /\ mode = "retry" /\ permitted /\ kind \in RetryOn
        /\ \/ attempts = MaxAttempts /\ Finish(kind, "AttemptsExhausted", "none")
           \/ HasBudget /\ Finish(kind, "DurationExceeded", "none")
           \/ attempts < MaxAttempts /\ phase' = "waiting" /\ UNCHANGED result

-----------------------------------------------------------------------------
(* execute and execute_with_retry.                                         *)

\* Fault: the method policy is left to the attempts.
ExecuteByEnabledOnly ==
  /\ phase = "start"
  /\ IF MaxAttempts > 1 /\ Enabled(template)
       THEN mode' = "retry" /\ phase' = "admit" /\ UNCHANGED attempts
       ELSE mode' = "direct" /\ phase' = "attempt" /\ attempts' = 1
  /\ allowed' = ShouldRetry(template)
  /\ UNCHANGED <<client, template, request, interceptor, tokenVars, sent, failures, result>>

Execute ==
  /\ phase = "start"
  /\ IF ShouldRetry(template)
       THEN mode' = "retry" /\ phase' = "admit" /\ UNCHANGED attempts
       ELSE mode' = "direct" /\ phase' = "attempt" /\ attempts' = 1
  /\ allowed' = ShouldRetry(template)
  /\ UNCHANGED <<client, template, request, interceptor, tokenVars, sent, failures, result>>

\* Fault: the next attempt continues with the request of the last one.
AdmitLastRequest ==
  /\ phase = "admit" /\ ~ExecutorCancelled /\ attempts < MaxAttempts
  /\ attempts' = attempts + 1 /\ phase' = "attempt"
  /\ interceptor' = 1 /\ allowed' = ShouldRetry(request)
  /\ UNCHANGED <<callVars, request, tokenVars, sent, failures, result>>

\* The executor starts an attempt on a fresh clone of the request.
Admit ==
  /\ phase = "admit" /\ ~ExecutorCancelled
  /\ attempts' = attempts + 1 /\ phase' = "attempt"
  /\ request' = template /\ interceptor' = 1 /\ allowed' = ShouldRetry(template)
  /\ UNCHANGED <<callVars, tokenVars, sent, failures, result>>

\* Fault: an elapsed budget hides the failure that was being retried.
OutOfBudgetUnexplained ==
  /\ phase = "admit" /\ HasBudget
  /\ Finish("RetryBudgetExceeded", "DurationExceeded", "none")
  /\ UNCHANGED <<callVars, attemptVars, tokenVars, sent, failures>>

\* The time budget has run out: the last failure is reported if there is one.
OutOfBudget ==
  /\ phase = "admit" /\ HasBudget
  /\ Finish(IF failures = <<>> THEN "RetryBudgetExceeded" ELSE failures[Len(failures)].kind,
            "DurationExceeded", "none")
  /\ UNCHANGED <<callVars, attemptVars, tokenVars, sent, failures>>

\* The executor notices the caller's token between attempts and whenever the
\* attempt it polls is pending, and drops that attempt.
ExecutorCancels ==
  /\ phase \in {"admit", "waiting", "preparing", "sending"} /\ ExecutorCancelled
  /\ Finish("Cancelled", "Cancelled", "none")
  /\ UNCHANGED <<callVars, attemptVars, tokenVars, sent, failures>>

WaitElapses ==
  /\ phase = "waiting" /\ phase' = "admit"
  /\ UNCHANGED <<callVars, attemptVars, tokenVars, sent, failures, result>>

-----------------------------------------------------------------------------
(* execute_once_with_context: one attempt.                                 *)

FirstCheck ==
  /\ phase = "attempt"
  /\ UNCHANGED request
  /\ IF IoCancelled THEN Fail("Cancelled", allowed)
                    ELSE phase' = "intercepting" /\ UNCHANGED <<failures, result>>
  /\ UNCHANGED <<callVars, attempts, interceptor, allowed, tokenVars, sent>>

\* What one interceptor may make of a request.
Edits(r) ==
  {r} \union {[r EXCEPT !.method = m] : m \in Methods}
      \union {[r EXCEPT !.force = f] : f \in {"unset", "enable", "disable"}}
      \union {[r EXCEPT !.policy = p] : p \in Policies \union {"unset"}}
      \union {[r EXCEPT !.token = t] : t \in {"none", "own", template.token}}
      \union {[r EXCEPT !.body = attempts]}

Intercept ==
  /\ phase = "intercepting" /\ interceptor <= Interceptors
  /\ request' \in Edits(request) /\ interceptor' = interceptor + 1
  /\ UNCHANGED <<callVars, phase, attempts, allowed, tokenVars, sent, failures, result>>

\* An interceptor fails after its edit: the ones behind it do not run, and
\* eligibility is still read from the request as they left it.
InterceptorFails ==
  /\ phase = "intercepting" /\ interceptor <= Interceptors
  /\ request' \in Edits(request)
  /\ allowed' = ShouldRetry(request')
  /\ \E kind \in Kinds : Fail(kind, allowed')
  /\ UNCHANGED <<callVars, attempts, interceptor, tokenVars, sent>>

\* Fault: eligibility stays what it was before the interceptors.
InterceptedKeepingEligibility ==
  /\ phase = "intercepting" /\ interceptor > Interceptors
  /\ phase' = "ready"
  /\ UNCHANGED <<callVars, attemptVars, tokenVars, sent, failures, result>>

Intercepted ==
  /\ phase = "intercepting" /\ interceptor > Interceptors
  /\ allowed' = ShouldRetry(request)
  /\ phase' = "ready"
  /\ UNCHANGED <<callVars, attempts, request, interceptor, tokenVars, sent, failures, result>>

\* prepare_and_send_once checks the attempt's token again before preparing.
SecondCheck ==
  /\ phase = "ready"
  /\ UNCHANGED request
  /\ IF IoCancelled THEN Fail("Cancelled", allowed)
                    ELSE phase' = "preparing" /\ UNCHANGED <<failures, result>>
  /\ UNCHANGED <<callVars, attempts, interceptor, allowed, tokenVars, sent>>

\* Headers are computed and the request goes to the backend with its body.
Send ==
  /\ phase = "preparing"
  /\ sent' = Append(sent, [attempt |-> attempts, body |-> request.body])
  /\ request' = [request EXCEPT !.body = TakenBody]
  /\ phase' = "sending"
  /\ UNCHANGED <<callVars, attempts, interceptor, allowed, tokenVars, failures, result>>

\* An invalid URL, an injector's error, a transport error or an unsuccessful
\* status; the attempt's token may also stop the preparation, the send and the
\* capture of an error body.
AttemptFails ==
  /\ phase \in {"preparing", "sending"}
  /\ UNCHANGED request
  /\ \E kind \in Kinds : (kind = "Cancelled" => IoCancelled) /\ Fail(kind, allowed)
  /\ UNCHANGED <<callVars, attempts, interceptor, allowed, tokenVars, sent>>

\* Fault: the timer runs only in the branch that watches no token.
TimesOutWithoutToken ==
  /\ phase \in {"preparing", "sending"} /\ IoToken(request) = "none"
  /\ UNCHANGED request
  /\ Fail("Timeout", allowed)
  /\ UNCHANGED <<callVars, attempts, interceptor, allowed, tokenVars, sent>>

\* response_header_timeout bounds preparation and send together.
TimesOut ==
  /\ phase \in {"preparing", "sending"}
  /\ UNCHANGED request
  /\ Fail("Timeout", allowed)
  /\ UNCHANGED <<callVars, attempts, interceptor, allowed, tokenVars, sent>>

Receive ==
  /\ phase = "sending" /\ phase' = "received"
  /\ UNCHANGED <<callVars, attemptVars, tokenVars, sent, failures, result>>

ResponseInterceptorFails ==
  /\ phase = "received"
  /\ UNCHANGED request
  /\ \E kind \in Kinds : Fail(kind, allowed)
  /\ UNCHANGED <<callVars, attempts, interceptor, allowed, tokenVars, sent>>

\* Fault: the response keeps the token its attempt was driven by.
SucceedUnrestored ==
  /\ phase = "received"
  /\ Finish("ok", "none", IoToken(request))
  /\ UNCHANGED <<callVars, attemptVars, tokenVars, sent, failures>>

\* The response carries the attempt's token; a flow that owned the token puts
\* it back.  A success wins over a cancellation the executor has not polled.
Succeed ==
  /\ phase = "received"
  /\ Finish("ok", "none", IF FlowOwns(request) THEN template.token ELSE IoToken(request))
  /\ UNCHANGED <<callVars, attemptVars, tokenVars, sent, failures>>

-----------------------------------------------------------------------------

CancelFlow ==
  /\ template.token = "flow" /\ ~flowCancelled /\ flowCancelled' = TRUE
  /\ UNCHANGED <<callVars, phase, attemptVars, ownCancelled, sent, failures, result>>

CancelOwn ==
  /\ request.token = "own" /\ ~ownCancelled /\ ownCancelled' = TRUE
  /\ UNCHANGED <<callVars, phase, attemptVars, flowCancelled, sent, failures, result>>

\* What happens without help from the server.
Local ==
  \/ Execute \/ Admit \/ OutOfBudget \/ ExecutorCancels \/ WaitElapses
  \/ FirstCheck \/ Intercept \/ InterceptorFails \/ Intercepted \/ SecondCheck
  \/ Send \/ TimesOut \/ ResponseInterceptorFails \/ Succeed

Next == Local \/ AttemptFails \/ Receive \/ CancelFlow \/ CancelOwn

Spec == Init /\ [][Next]_vars /\ WF_vars(Local)

-----------------------------------------------------------------------------
(* Properties.                                                             *)

\* Every attempt that was followed by another had failed with an error the
\* options retry, while the request as its own interceptors left it was
\* eligible: an interceptor's change of method or override binds at once.
RetriesAreJustified ==
  \A i \in 1..Len(failures) :
    (i < attempts \/ phase \in {"admit", "waiting"})
      => failures[i].kind \in RetryOn /\ failures[i].wanted

\* An interceptor cannot start a retry flow that execute did not admit.
OnlyAdmittedFlowsRepeat == attempts > 1 => ShouldRetry(template)

\* Whichever path drove it, a response is guarded by the token that its own
\* attempt's interceptors left: the caller's, a replacement or none.
ResponseCarriesToken == result.kind = "ok" => result.token = request.token

\* Each attempt sends at most once, and sends the template's body or the one
\* its own interceptors set: never a body that an earlier attempt used up.
EachAttemptSendsItsBody ==
  /\ \A i \in 1..Len(sent) : sent[i].body \in {0, sent[i].attempt}
  /\ \A i, j \in 1..Len(sent) : i < j => sent[i].attempt < sent[j].attempt

\* The error of a call is the failure of its last attempt, except that a
\* cancelled flow says so, and a budget that admitted no attempt has none.
ReportsLastFailure ==
  (phase = "done" /\ result.kind # "ok") =>
    \/ result.termination = "Cancelled" /\ ExecutorCancelled
    \/ result.kind = "RetryBudgetExceeded" /\ attempts = 0
    \/ /\ Len(failures) = attempts /\ attempts > 0
       /\ result.kind = failures[attempts].kind

\* The call returns even if the server never answers.
Returns == <>(phase = "done")

\* Stated by doc/user_guide.en.md and doc/design.md: the token is checked
\* before the send, so a token that fired before the attempt was prepared
\* keeps the request from the backend.
CancellationCheckedBeforeSend ==
  [][(phase = "ready" /\ Fired(request.token)) => phase' # "preparing"]_vars
=============================================================================
