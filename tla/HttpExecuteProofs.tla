-------------------------- MODULE HttpExecuteProofs --------------------------
(***************************************************************************)
(* Proofs about HttpExecute for all attempt limits, error kinds, retry      *)
(* settings, requests and numbers of interceptors.                         *)
(***************************************************************************)
EXTENDS HttpExecute, SequenceTheorems, TLAPS

Between == {"admit", "waiting"}
Preparing == {"attempt", "intercepting", "ready", "preparing"}
Attempting == Preparing \union {"sending", "received"}

\* Which loop drives the call, and how many attempts it has left.
FlowInv ==
  /\ phase = "start" => attempts = 0 /\ request = template
  /\ mode = "none" <=> phase = "start"
  /\ mode = "direct" => attempts = 1 /\ phase \notin Between
  /\ mode = "retry" => ShouldRetry(template)
  /\ phase \in Between => attempts < MaxAttempts
  /\ phase \in Attempting => attempts > 0

\* The flag that decides about a retry is what the request itself would say, but
\* for the time its interceptors are at work.
AllowedIsTrue ==
  phase \in Attempting \ {"intercepting"} => (allowed <=> ShouldRetry(request))

\* Every attempt but the one under way has failed, or the call is over.
FailuresInv ==
  /\ phase \in Attempting => Len(failures) = attempts - 1
  /\ phase \in Between \union {"start"} => Len(failures) = attempts

\* No attempt has sent twice, and one that has not sent yet has a body of its own.
BodyInv ==
  /\ EachAttemptSendsItsBody
  /\ \A i \in 1..Len(sent) : sent[i].attempt <= attempts
  /\ phase \in Preparing =>
       /\ request.body \in {0, attempts}
       /\ \A i \in 1..Len(sent) : sent[i].attempt < attempts

\* A call has no result before it is over.
ResultInv ==
  /\ phase # "done" => result = NoResult
  /\ ResponseCarriesToken /\ ReportsLastFailure

IInv ==
  /\ TypeOK /\ FlowInv /\ AllowedIsTrue /\ FailuresInv
  /\ RetriesAreJustified /\ BodyInv /\ ResultInv

-----------------------------------------------------------------------------
(* How an attempt fails.                                                   *)

\* Taking the body of a request leaves its eligibility alone (should_retry).
LEMMA BodyIsNoMatter ==
  ASSUME NEW r \in Requests, NEW b
  PROVE ShouldRetry([r EXCEPT !.body = b]) = ShouldRetry(r)
BY DEF Requests, ShouldRetry, Enabled, PolicyAllows, Policy

\* Nor does anything but the client's options and the request decide it.
LEMMA EligibilityFrame ==
  /\ UNCHANGED <<client, template>> => ShouldRetry(template)' = ShouldRetry(template)
  /\ UNCHANGED client => ShouldRetry(request)' = ShouldRetry(request')
BY DEF ShouldRetry, Enabled, PolicyAllows, Policy

\* An interceptor makes a request of a request, whose body is this attempt's
\* own if it was so before.
LEMMA EditsAreRequests ==
  ASSUME TypeOK, attempts > 0, NEW r \in Edits(request)
  PROVE r \in Requests /\ (request.body \in {0, attempts} => r.body \in {0, attempts})
<1>. USE AttemptAssumption DEF TypeOK, Requests, Methods, Tokens, Bodies, TakenBody
<1>1. CASE r = request BY <1>1
<1>2. CASE \E m \in Methods : r = [request EXCEPT !.method = m] BY <1>2
<1>3. CASE \E f \in {"unset", "enable", "disable"} : r = [request EXCEPT !.force = f] BY <1>3
<1>4. CASE \E p \in Policies \union {"unset"} : r = [request EXCEPT !.policy = p] BY <1>4
<1>5. CASE \E t \in {"none", "own", template.token} : r = [request EXCEPT !.token = t]
  <2>1. template.token \in Tokens BY TemplateAssumption
  <2>. QED BY <1>5, <2>1
<1>6. CASE r = [request EXCEPT !.body = attempts]
  <2>1. attempts \in Bodies OBVIOUS
  <2>. HIDE DEF Bodies
  <2>. QED BY <1>6, <2>1
<1>. QED BY <1>1, <1>2, <1>3, <1>4, <1>5, <1>6 DEF Edits

\* What the two histories hold.
LEMMA HistoriesTyped ==
  ASSUME TypeOK
  PROVE /\ \A i \in 1..Len(sent) : sent[i].attempt \in Nat
        /\ \A i \in 1..Len(failures) : failures[i].kind \in Kinds
        /\ Len(sent) \in Nat /\ Len(failures) \in Nat
<1>1. ASSUME NEW i \in 1..Len(sent) PROVE sent[i].attempt \in Nat
  <2>. DEFINE Handed == [attempt : 1..MaxAttempts, body : Bodies]
  <2>1. sent \in Seq(Handed) BY DEF TypeOK
  <2>2. sent[i] \in Handed
    <3>. HIDE DEF Handed
    <3>. QED BY <2>1, ElementOfSeq
  <2>. QED BY <2>2, AttemptAssumption
<1>2. ASSUME NEW i \in 1..Len(failures) PROVE failures[i].kind \in Kinds
  <2>. DEFINE Failure == [kind : Kinds, wanted : BOOLEAN]
  <2>1. failures \in Seq(Failure) BY DEF TypeOK
  <2>2. failures[i] \in Failure
    <3>. HIDE DEF Failure
    <3>. QED BY <2>1, ElementOfSeq
  <2>. QED BY <2>2
<1>. QED BY <1>1, <1>2 DEF TypeOK

\* A failed attempt is recorded, and either the call is over with its error or
\* the executor waits, because the attempt may be repeated and one is left
\* (HttpRetryRule::decide).
LEMMA FailStep ==
  ASSUME TypeOK, FlowInv, phase \in Attempting, NEW kind \in Kinds, NEW permitted \in BOOLEAN,
         Fail(kind, permitted)
  PROVE LET failure == [kind |-> kind, wanted |-> ShouldRetry(request')] IN
        /\ failures' = Append(failures, failure)
        /\ \/ /\ phase' = "done"
              /\ result' \in [kind : {kind}, termination : Terminations, token : {"none"}]
           \/ /\ phase' = "waiting" /\ UNCHANGED result
              /\ mode = "retry" /\ attempts < MaxAttempts
              /\ permitted /\ kind \in RetryOn
<1>. DEFINE failure == [kind |-> kind, wanted |-> ShouldRetry(request')]
<1>1. failures' = Append(failures, failure) BY DEF Fail
<1>2. CASE \E termination \in Terminations : Finish(kind, termination, "none")
  BY <1>1, <1>2 DEF Finish
<1>3. CASE /\ mode = "retry" /\ permitted /\ kind \in RetryOn
          /\ attempts < MaxAttempts /\ phase' = "waiting" /\ UNCHANGED result
  BY <1>1, <1>3
<1>. QED BY <1>2, <1>3 DEF Fail, Terminations

\* What a failure leaves unchanged beside request and retry_allowed.
failFrame == <<callVars, attempts, interceptor, tokenVars, sent>>

\* Every failure keeps the invariant, whichever step of the attempt it ends.
LEMMA FailKeeps ==
  ASSUME IInv, phase \in Attempting, NEW kind \in Kinds,
         request' \in Requests, allowed' \in BOOLEAN, allowed' <=> ShouldRetry(request'),
         Fail(kind, allowed'), UNCHANGED failFrame
  PROVE IInv'
<1>. DEFINE failure == [kind |-> kind, wanted |-> ShouldRetry(request')]
<1>1. /\ UNCHANGED <<client, template, mode, attempts, interceptor, flowCancelled, ownCancelled, sent>>
      /\ TypeOK /\ FlowInv /\ FailuresInv /\ RetriesAreJustified /\ BodyInv /\ ResultInv
  BY DEF failFrame, callVars, tokenVars, IInv
<1>2. /\ failures' = Append(failures, failure)
      /\ \/ /\ phase' = "done"
            /\ result' \in [kind : {kind}, termination : Terminations, token : {"none"}]
         \/ /\ phase' = "waiting" /\ UNCHANGED result
            /\ mode = "retry" /\ attempts < MaxAttempts
            /\ allowed' /\ kind \in RetryOn
  BY <1>1, FailStep
<1>3. ShouldRetry(request') \in BOOLEAN BY DEF ShouldRetry
<1>4. /\ failures \in Seq([kind : Kinds, wanted : BOOLEAN])
      /\ failure \in [kind : Kinds, wanted : BOOLEAN]
      /\ attempts \in Nat /\ Len(failures) = attempts - 1 /\ attempts > 0
  BY <1>1, <1>3, AttemptAssumption DEF TypeOK, FailuresInv, FlowInv
<1>5. /\ failures' \in Seq([kind : Kinds, wanted : BOOLEAN]) /\ Len(failures') = attempts
      /\ failures'[attempts] = failure
      /\ \A i \in 1..(attempts - 1) : failures'[i] = failures[i]
  BY <1>2, <1>4
<1>6. TypeOK'
  <2>1. result' \in [kind : Kinds \union {"none", "ok", "RetryBudgetExceeded"},
                     termination : Terminations, token : Tokens]
    BY <1>1, <1>2 DEF TypeOK, Tokens
  <2>. QED BY <1>1, <1>2, <1>5, <2>1 DEF TypeOK
<1>7. FlowInv' BY <1>1, <1>2 DEF FlowInv, Between, Attempting, Preparing, ShouldRetry, Enabled, PolicyAllows, Policy
<1>8. AllowedIsTrue' /\ FailuresInv'
  BY <1>1, <1>2, <1>5 DEF AllowedIsTrue, FailuresInv, Between, Attempting, Preparing
<1>9. RetriesAreJustified'
  BY <1>1, <1>2, <1>4, <1>5 DEF RetriesAreJustified
<1>10. BodyInv' BY <1>1, <1>2 DEF BodyInv, EachAttemptSendsItsBody, Preparing
<1>11. ResultInv'
  BY <1>1, <1>2, <1>4, <1>5, KindAssumption DEF ResultInv, NoResult, ResponseCarriesToken, ReportsLastFailure, Attempting, Preparing
<1>. QED BY <1>6, <1>7, <1>8, <1>9, <1>10, <1>11 DEF IInv

-----------------------------------------------------------------------------
(* The inductive invariant.                                                *)

\* No call has started.
LEMMA InitIInv == Init => IInv
<1>. SUFFICES ASSUME Init PROVE IInv
  OBVIOUS
<1>1. TypeOK
  <2>1. template \in Requests BY TemplateAssumption DEF Init
  <2>2. /\ sent \in Seq([attempt : 1..MaxAttempts, body : Bodies])
        /\ failures \in Seq([kind : Kinds, wanted : BOOLEAN])
        /\ result \in [kind : Kinds \union {"none", "ok", "RetryBudgetExceeded"},
                       termination : Terminations, token : Tokens]
    BY DEF Init, NoResult, Terminations, Tokens
  <2>3. attempts \in 0..MaxAttempts /\ interceptor \in 1..(Interceptors + 1)
    BY AttemptAssumption, InterceptorAssumption DEF Init
  <2>. QED BY <2>1, <2>2, <2>3 DEF Init, TypeOK
<1>2. FlowInv /\ AllowedIsTrue /\ FailuresInv /\ RetriesAreJustified
  BY AttemptAssumption
     DEF Init, FlowInv, AllowedIsTrue, FailuresInv, RetriesAreJustified, Between, Attempting, Preparing
<1>3. BodyInv /\ ResultInv
  BY DEF Init, BodyInv, EachAttemptSendsItsBody, ResultInv, ResponseCarriesToken, ReportsLastFailure,
         NoResult, Preparing
<1>. QED BY <1>1, <1>2, <1>3 DEF IInv

\* execute and what the executor does between two attempts.
LEMMA ExecutorKeeps ==
  ASSUME IInv, Execute \/ Admit \/ OutOfBudget \/ ExecutorCancels \/ WaitElapses
  PROVE IInv'
<1>0. /\ TypeOK /\ FlowInv /\ AllowedIsTrue /\ FailuresInv /\ RetriesAreJustified /\ BodyInv /\ ResultInv
      /\ attempts \in Nat /\ MaxAttempts \in Nat \ {0}
  BY AttemptAssumption DEF IInv, TypeOK
<1>1. CASE Execute
  <2>1. /\ phase = "start" /\ attempts = 0 /\ request = template
        /\ UNCHANGED <<client, template, request, interceptor, flowCancelled, ownCancelled, sent, failures, result>>
        /\ allowed' = ShouldRetry(template)
        /\ \/ ShouldRetry(template) /\ mode' = "retry" /\ phase' = "admit" /\ attempts' = 0
           \/ mode' = "direct" /\ phase' = "attempt" /\ attempts' = 1
    BY <1>0, <1>1 DEF Execute, FlowInv, tokenVars
  <2>2. ShouldRetry(template) \in BOOLEAN BY DEF ShouldRetry
  <2>3. TypeOK' BY <1>0, <2>1, <2>2 DEF TypeOK
  <2>4. ShouldRetry(template)' = ShouldRetry(template) /\ ShouldRetry(request)' = ShouldRetry(template)
    BY <2>1, EligibilityFrame
  <2>5. FlowInv' /\ AllowedIsTrue'
    BY <1>0, <2>1, <2>4 DEF FlowInv, AllowedIsTrue, Between, Attempting, Preparing
  <2>6. FailuresInv' /\ RetriesAreJustified'
    BY <1>0, <2>1 DEF TypeOK, FailuresInv, RetriesAreJustified, Between, Attempting, Preparing
  <2>7. BodyInv'
    <3>1. request.body = 0 BY <1>0, <2>1, TemplateAssumption DEF TypeOK
    <3>2. \A i \in 1..Len(sent) : sent[i].attempt \in Nat /\ sent[i].attempt <= 0
      BY <1>0, <2>1, HistoriesTyped DEF BodyInv
    <3>. QED BY <1>0, <2>1, <3>1, <3>2 DEF BodyInv, EachAttemptSendsItsBody, Preparing
  <2>8. ResultInv' BY <1>0, <2>1 DEF ResultInv, NoResult, ResponseCarriesToken, ReportsLastFailure
  <2>. QED BY <2>3, <2>5, <2>6, <2>7, <2>8 DEF IInv
<1>2. CASE Admit
  <2>1. /\ phase = "admit" /\ phase' = "attempt" /\ attempts' = attempts + 1
        /\ UNCHANGED <<client, template, mode, flowCancelled, ownCancelled, sent, failures, result>>
        /\ request' = template /\ interceptor' = 1 /\ allowed' = ShouldRetry(template)
    BY <1>2 DEF Admit, callVars, tokenVars
  <2>2. attempts < MaxAttempts /\ mode = "retry" /\ ShouldRetry(template)
    BY <1>0, <2>1 DEF FlowInv, Between, TypeOK
  <2>3. template \in Requests /\ template.body = 0 BY <1>0, TemplateAssumption DEF TypeOK
  <2>4. TypeOK' BY <1>0, <2>1, <2>2, <2>3, InterceptorAssumption DEF TypeOK
  <2>e. ShouldRetry(template)' = ShouldRetry(template) /\ ShouldRetry(request)' = ShouldRetry(template)
    BY <2>1, EligibilityFrame
  <2>5. FlowInv' /\ AllowedIsTrue'
    BY <1>0, <2>1, <2>2, <2>e DEF FlowInv, AllowedIsTrue, Between, Attempting, Preparing
  <2>6. FailuresInv' /\ RetriesAreJustified'
    BY <1>0, <2>1 DEF TypeOK, FailuresInv, RetriesAreJustified, Between, Attempting, Preparing
  <2>7. BodyInv'
    <3>1. \A i \in 1..Len(sent) : sent[i].attempt \in Nat /\ sent[i].attempt < attempts'
      BY <1>0, <2>1, HistoriesTyped DEF BodyInv
    <3>. QED BY <1>0, <2>1, <2>3, <3>1 DEF BodyInv, EachAttemptSendsItsBody, Preparing
  <2>8. ResultInv' BY <1>0, <2>1 DEF ResultInv, NoResult, ResponseCarriesToken, ReportsLastFailure
  <2>. QED BY <2>4, <2>5, <2>6, <2>7, <2>8 DEF IInv
<1>3. CASE OutOfBudget \/ ExecutorCancels
  <2>1. /\ phase # "done" /\ phase # "start" /\ phase' = "done"
        /\ UNCHANGED <<client, template, mode, attempts, request, interceptor, allowed, flowCancelled, ownCancelled,
                       sent, failures>>
    BY <1>3 DEF OutOfBudget, ExecutorCancels, Finish, callVars, attemptVars, tokenVars
  <2>2. /\ result' \in [kind : Kinds \union {"RetryBudgetExceeded"}, termination : Terminations, token : {"none"}]
        /\ \/ result'.termination = "Cancelled" /\ ExecutorCancelled
           \/ result'.kind = "RetryBudgetExceeded" /\ attempts = 0
           \/ Len(failures) = attempts /\ attempts > 0 /\ result'.kind = failures[attempts].kind
    <3>1. CASE OutOfBudget
      <4>1. Len(failures) = attempts /\ failures \in Seq([kind : Kinds, wanted : BOOLEAN])
        BY <1>0, <3>1 DEF OutOfBudget, FailuresInv, Between, TypeOK
      <4>2. CASE attempts = 0
        BY <3>1, <4>1, <4>2 DEF OutOfBudget, Finish, Terminations
      <4>3. CASE attempts > 0
        <5>1. failures # <<>> /\ failures[attempts].kind \in Kinds BY <1>0, <4>1, <4>3, HistoriesTyped
        <5>. QED BY <3>1, <4>1, <4>3, <5>1 DEF OutOfBudget, Finish, Terminations
      <4>. QED BY <1>0, <4>2, <4>3
    <3>2. CASE ExecutorCancels
      BY <3>2, KindAssumption DEF ExecutorCancels, Finish, Terminations
    <3>. QED BY <1>3, <3>1, <3>2
  <2>3. TypeOK' BY <1>0, <2>1, <2>2 DEF TypeOK, Tokens
  <2>4. FlowInv' /\ AllowedIsTrue'
    BY <1>0, <2>1
       DEF FlowInv, AllowedIsTrue, Between, Attempting, Preparing, ShouldRetry, Enabled, PolicyAllows, Policy
  <2>5. FailuresInv' /\ RetriesAreJustified'
    BY <1>0, <2>1 DEF TypeOK, FailuresInv, RetriesAreJustified, Between, Attempting, Preparing
  <2>6. BodyInv' BY <1>0, <2>1 DEF BodyInv, EachAttemptSendsItsBody, Preparing
  <2>7. ResultInv'
    BY <1>0, <2>1, <2>2, KindAssumption
       DEF ResultInv, ResponseCarriesToken, ReportsLastFailure, ExecutorCancelled, Fired
  <2>. QED BY <2>3, <2>4, <2>5, <2>6, <2>7 DEF IInv
<1>4. CASE WaitElapses
  <2>1. /\ phase = "waiting" /\ phase' = "admit"
        /\ UNCHANGED <<client, template, mode, attempts, request, interceptor, allowed, flowCancelled, ownCancelled,
                       sent, failures, result>>
    BY <1>4 DEF WaitElapses, callVars, attemptVars, tokenVars
  <2>2. TypeOK' BY <1>0, <2>1 DEF TypeOK
  <2>3. FlowInv' /\ AllowedIsTrue'
    BY <1>0, <2>1
       DEF FlowInv, AllowedIsTrue, Between, Attempting, Preparing, ShouldRetry, Enabled, PolicyAllows, Policy
  <2>4. FailuresInv' /\ RetriesAreJustified'
    BY <1>0, <2>1 DEF TypeOK, FailuresInv, RetriesAreJustified, Between, Attempting, Preparing
  <2>5. BodyInv' /\ ResultInv'
    BY <1>0, <2>1 DEF BodyInv, EachAttemptSendsItsBody, Preparing, ResultInv, ResponseCarriesToken, ReportsLastFailure
  <2>. QED BY <2>2, <2>3, <2>4, <2>5 DEF IInv
<1>. QED BY <1>1, <1>2, <1>3, <1>4

\* The steps of an attempt that fail it (execute_once_with_context).
LEMMA FailingKeeps ==
  ASSUME IInv,
         \/ (FirstCheck \/ SecondCheck) /\ IoCancelled
         \/ InterceptorFails \/ AttemptFails \/ TimesOut \/ ResponseInterceptorFails
  PROVE IInv'
<1>1. TypeOK /\ FlowInv /\ AllowedIsTrue BY DEF IInv
<1>2. ShouldRetry(request') \in BOOLEAN BY DEF ShouldRetry
<1>3. CASE InterceptorFails
  <2>1. phase \in Attempting /\ attempts > 0 BY <1>1, <1>3 DEF InterceptorFails, FlowInv, Attempting, Preparing
  <2>2. request' \in Requests BY <1>1, <1>3, <2>1, EditsAreRequests DEF InterceptorFails
  <2>3. allowed' = ShouldRetry(request') BY <1>3 DEF InterceptorFails
  <2>4. PICK kind \in Kinds : Fail(kind, allowed') BY <1>3 DEF InterceptorFails
  <2>. QED BY <1>2, <1>3, <2>1, <2>2, <2>3, <2>4, FailKeeps DEF InterceptorFails, failFrame
<1>4. CASE ~InterceptorFails
  <2>1. phase \in Attempting \ {"intercepting"} /\ UNCHANGED <<request, allowed>> /\ UNCHANGED failFrame
    BY <1>4 DEF FirstCheck, SecondCheck, AttemptFails, TimesOut, ResponseInterceptorFails, Attempting,
                Preparing, failFrame
  <2>2. \E kind \in Kinds : Fail(kind, allowed)
    BY <1>4, KindAssumption DEF FirstCheck, SecondCheck, AttemptFails, TimesOut, ResponseInterceptorFails
  <2>3. request' \in Requests /\ allowed' \in BOOLEAN /\ (allowed' <=> ShouldRetry(request'))
    BY <1>1, <2>1 DEF TypeOK, AllowedIsTrue
  <2>4. PICK kind \in Kinds : Fail(kind, allowed') BY <2>1, <2>2
  <2>5. phase \in Attempting BY <2>1
  <2>. QED BY <2>1, <2>3, <2>4, <2>5, FailKeeps
<1>. QED BY <1>3, <1>4

\* An attempt that gets further keeps the invariant, given that its request is
\* still a request with a body of its own.
LEMMA MovesOn ==
  ASSUME IInv, phase \in Attempting, phase' \in Attempting \ {"attempt"},
         phase' \in Preparing => phase \in Preparing,
         request' \in Requests, allowed' \in BOOLEAN, interceptor' \in 1..(Interceptors + 1),
         phase' # "intercepting" => (allowed' <=> ShouldRetry(request')),
         phase' \in Preparing => request'.body \in {0, attempts},
         UNCHANGED <<callVars, attempts, tokenVars, sent, failures, result>>
  PROVE IInv'
<1>1. /\ UNCHANGED <<client, template, mode, attempts, flowCancelled, ownCancelled, sent, failures, result>>
      /\ TypeOK /\ FlowInv /\ FailuresInv /\ RetriesAreJustified /\ BodyInv /\ ResultInv
  BY DEF callVars, tokenVars, IInv
<1>2. /\ phase \notin Between \union {"start", "done"}
      /\ phase' \notin Between \union {"start", "done"}
  BY DEF Between, Attempting, Preparing
<1>3. TypeOK' BY <1>1 DEF TypeOK, Attempting, Preparing
<1>4. FlowInv'
  BY <1>1, <1>2 DEF FlowInv, ShouldRetry, Enabled, PolicyAllows, Policy
<1>5. AllowedIsTrue'
  BY <1>1 DEF AllowedIsTrue, ShouldRetry, Enabled, PolicyAllows, Policy
<1>6. FailuresInv' /\ RetriesAreJustified'
  BY <1>1, <1>2 DEF FailuresInv, RetriesAreJustified, Between
<1>7. BodyInv' BY <1>1 DEF BodyInv, EachAttemptSendsItsBody
<1>8. ResultInv' BY <1>1, <1>2 DEF ResultInv, NoResult, ResponseCarriesToken, ReportsLastFailure
<1>. QED BY <1>3, <1>4, <1>5, <1>6, <1>7, <1>8 DEF IInv

\* The request of an attempt goes out once, with the body it has then.
LEMMA SendKeeps == ASSUME IInv, Send PROVE IInv'
<1>. DEFINE last == [attempt |-> attempts, body |-> request.body]
            Handed == [attempt : 1..MaxAttempts, body : Bodies]
<1>1. /\ TypeOK /\ FlowInv /\ AllowedIsTrue /\ FailuresInv /\ RetriesAreJustified /\ BodyInv /\ ResultInv
      /\ phase = "preparing" /\ phase' = "sending" /\ sent' = Append(sent, last)
      /\ request' = [request EXCEPT !.body = TakenBody]
      /\ UNCHANGED <<client, template, mode, attempts, interceptor, allowed, flowCancelled, ownCancelled, failures, result>>
  BY DEF IInv, Send, callVars, tokenVars
<1>2. /\ request \in Requests /\ attempts \in 1..MaxAttempts
      /\ sent \in Seq(Handed) /\ last \in Handed
  BY <1>1, AttemptAssumption DEF TypeOK, FlowInv, Attempting, Preparing, Requests
<1>3. /\ sent' \in Seq(Handed) /\ Len(sent') = Len(sent) + 1 /\ sent'[Len(sent) + 1] = last
      /\ \A i \in 1..Len(sent) : sent'[i] = sent[i]
  BY <1>1, <1>2
<1>4. request' \in Requests
  <2>1. TakenBody \in Bodies BY AttemptAssumption DEF Bodies, TakenBody
  <2>. QED BY <1>1, <1>2, <2>1 DEF Requests
<1>5. ShouldRetry(request') = ShouldRetry(request)
  BY <1>1, <1>2, BodyIsNoMatter
<1>6. TypeOK' BY <1>1, <1>3, <1>4 DEF TypeOK
<1>7. FlowInv'
  BY <1>1 DEF FlowInv, Between, Attempting, Preparing, ShouldRetry, Enabled, PolicyAllows, Policy
<1>8. AllowedIsTrue'
  <2>1. ShouldRetry(request)' = ShouldRetry(request')
    BY <1>1 DEF ShouldRetry, Enabled, PolicyAllows, Policy
  <2>. QED BY <1>1, <1>5, <2>1 DEF AllowedIsTrue, Attempting, Preparing
<1>9. FailuresInv' /\ RetriesAreJustified'
  BY <1>1 DEF FailuresInv, RetriesAreJustified, Between, Attempting, Preparing
<1>10. BodyInv'
  <2>1. /\ last.attempt = attempts /\ last.body \in {0, attempts}
        /\ \A i \in 1..Len(sent) : sent[i].attempt < attempts /\ sent[i].body \in {0, sent[i].attempt}
        /\ \A i, j \in 1..Len(sent) : i < j => sent[i].attempt < sent[j].attempt
    BY <1>1 DEF BodyInv, EachAttemptSendsItsBody, Preparing
  <2>2. Len(sent) \in Nat BY <1>2
  <2>3. \A i \in 1..Len(sent') : i \in 1..Len(sent) \/ i = Len(sent) + 1
    BY <1>3, <2>2
  <2>4. \A i \in 1..Len(sent) : sent[i].attempt \in Nat BY <1>1, HistoriesTyped
  <2>5. \A i \in 1..Len(sent') : sent'[i].attempt <= attempts /\ sent'[i].body \in {0, sent'[i].attempt}
    <3>1. ASSUME NEW i \in 1..Len(sent)
          PROVE sent'[i].attempt <= attempts /\ sent'[i].body \in {0, sent'[i].attempt}
      <4>1. sent'[i] = sent[i] /\ sent[i].attempt < attempts BY <1>3, <2>1
      <4>. QED BY <1>2, <2>1, <2>4, <4>1
    <3>2. sent'[Len(sent) + 1] = last BY <1>3
    <3>. QED BY <1>2, <2>1, <2>3, <3>1, <3>2
  <2>6. \A i, j \in 1..Len(sent') : i < j => sent'[i].attempt < sent'[j].attempt
    <3>. SUFFICES ASSUME NEW i \in 1..Len(sent'), NEW j \in 1..Len(sent'), i < j
                  PROVE sent'[i].attempt < sent'[j].attempt
      OBVIOUS
    <3>1. i \in 1..Len(sent) BY <1>3, <2>2
    <3>2. CASE j \in 1..Len(sent) BY <1>3, <2>1, <3>1, <3>2
    <3>3. CASE j = Len(sent) + 1 BY <1>3, <2>1, <3>1, <3>3
    <3>. QED BY <2>3, <3>2, <3>3
  <2>. QED BY <1>1, <2>5, <2>6 DEF BodyInv, EachAttemptSendsItsBody, Preparing
<1>11. ResultInv'
  BY <1>1 DEF ResultInv, NoResult, ResponseCarriesToken, ReportsLastFailure
<1>. QED BY <1>6, <1>7, <1>8, <1>9, <1>10, <1>11 DEF IInv

\* A success ends the call with the token its attempt was left with.
LEMMA SucceedKeeps == ASSUME IInv, Succeed PROVE IInv'
<1>1. /\ TypeOK /\ FlowInv /\ FailuresInv /\ RetriesAreJustified /\ BodyInv
      /\ phase = "received" /\ phase' = "done"
      /\ UNCHANGED <<client, template, mode, attempts, request, interceptor, allowed, flowCancelled, ownCancelled,
                     sent, failures>>
      /\ result' = [kind |-> "ok", termination |-> "none", token |-> request.token]
  BY DEF IInv, Succeed, Finish, FlowOwns, IoToken, callVars, attemptVars, tokenVars
<1>2. TypeOK' BY <1>1 DEF TypeOK, Requests, Terminations
<1>3. FlowInv' /\ AllowedIsTrue'
  BY <1>1 DEF FlowInv, AllowedIsTrue, Between, Attempting, Preparing, ShouldRetry, Enabled, PolicyAllows, Policy
<1>4. FailuresInv' /\ RetriesAreJustified'
  BY <1>1 DEF FailuresInv, RetriesAreJustified, Between, Attempting, Preparing
<1>5. BodyInv' /\ ResultInv'
  BY <1>1 DEF BodyInv, EachAttemptSendsItsBody, Preparing, ResultInv, ResponseCarriesToken, ReportsLastFailure
<1>. QED BY <1>2, <1>3, <1>4, <1>5 DEF IInv

\* The steps of an attempt that get it further.
LEMMA ProgressKeeps ==
  ASSUME IInv,
         \/ (FirstCheck \/ SecondCheck) /\ ~IoCancelled
         \/ Intercept \/ Intercepted \/ Send \/ Receive \/ Succeed
  PROVE IInv'
<1>0. /\ TypeOK /\ AllowedIsTrue /\ attempts \in Nat
      /\ phase \in Attempting => attempts > 0
      /\ phase \in Preparing => request.body \in {0, attempts}
      /\ request \in Requests /\ allowed \in BOOLEAN /\ interceptor \in 1..(Interceptors + 1)
  BY AttemptAssumption DEF IInv, TypeOK, FlowInv, BodyInv
<1>1. CASE (FirstCheck \/ SecondCheck) /\ ~IoCancelled
  BY <1>0, <1>1, MovesOn DEF FirstCheck, SecondCheck, AllowedIsTrue, Attempting, Preparing
<1>2. CASE Intercept
  <2>1. request' \in Requests /\ request'.body \in {0, attempts}
    BY <1>0, <1>2, EditsAreRequests DEF Intercept, Attempting, Preparing
  <2>2. interceptor' \in 1..(Interceptors + 1) BY <1>0, <1>2, InterceptorAssumption DEF Intercept
  <2>. QED BY <1>0, <1>2, <2>1, <2>2, MovesOn DEF Intercept, Attempting, Preparing
<1>3. CASE Intercepted
  <2>1. ShouldRetry(request) \in BOOLEAN BY DEF ShouldRetry
  <2>. QED BY <1>0, <1>3, <2>1, MovesOn DEF Intercepted, Attempting, Preparing
<1>4. CASE Receive
  BY <1>0, <1>4, MovesOn DEF Receive, AllowedIsTrue, Attempting, Preparing, attemptVars
<1>. QED BY <1>1, <1>2, <1>3, <1>4, SendKeeps, SucceedKeeps

\* A token that fires takes nothing back.
LEMMA EnvironmentKeeps ==
  ASSUME IInv, CancelFlow \/ CancelOwn \/ UNCHANGED vars
  PROVE IInv'
<1>1. /\ TypeOK /\ FlowInv /\ AllowedIsTrue /\ FailuresInv /\ RetriesAreJustified /\ BodyInv /\ ResultInv
      /\ UNCHANGED <<client, template, mode, phase, attempts, request, interceptor, allowed, sent, failures, result>>
      /\ flowCancelled' \in {flowCancelled, TRUE} /\ ownCancelled' \in {ownCancelled, TRUE}
  BY DEF IInv, CancelFlow, CancelOwn, vars, callVars, attemptVars, tokenVars
<1>2. TypeOK'
  <2>1. /\ client' = client /\ template' = template /\ mode' = mode /\ phase' = phase /\ attempts' = attempts
        /\ request' = request /\ interceptor' = interceptor /\ allowed' = allowed /\ sent' = sent
        /\ failures' = failures /\ result' = result
    BY <1>1
  <2>2. flowCancelled' \in BOOLEAN /\ ownCancelled' \in BOOLEAN BY <1>1 DEF TypeOK
  <2>3. TypeOK BY <1>1
  <2>. QED BY <2>1, <2>2, <2>3 DEF TypeOK
<1>3. FlowInv' /\ AllowedIsTrue'
  BY <1>1 DEF FlowInv, AllowedIsTrue, ShouldRetry, Enabled, PolicyAllows, Policy
<1>4. FailuresInv' /\ RetriesAreJustified' BY <1>1 DEF FailuresInv, RetriesAreJustified
<1>5. BodyInv' BY <1>1 DEF BodyInv, EachAttemptSendsItsBody
<1>6. ExecutorCancelled => ExecutorCancelled' BY <1>1 DEF ExecutorCancelled, Fired, TypeOK
<1>7. ResultInv' BY <1>1, <1>6 DEF ResultInv, NoResult, ResponseCarriesToken, ReportsLastFailure
<1>. QED BY <1>2, <1>3, <1>4, <1>5, <1>7 DEF IInv

\* Every step keeps the invariant.
LEMMA StepIInv == IInv /\ [Next]_vars => IInv'
BY EnvironmentKeeps, ExecutorKeeps, FailingKeeps, ProgressKeeps DEF Next, Local

\* IInv holds in every reachable state (HttpClient::execute).
THEOREM Inductive == Spec => []IInv
BY InitIInv, StepIInv, PTL DEF Spec

-----------------------------------------------------------------------------
(* The properties.                                                         *)

\* Every state of a call has the types TypeOK gives it.
THEOREM TypeCorrect == Spec => []TypeOK
BY Inductive, PTL DEF IInv

\* Whatever interceptors do, an attempt is followed by another only if its error
\* is a retried one and its request, as they left it, may be retried
\* (HttpRetryRule::decide, should_retry).
THEOREM Justified == Spec => []RetriesAreJustified
BY Inductive, PTL DEF IInv

\* There is no second attempt unless execute chose to retry (HttpClient::execute).
THEOREM OnlyAdmitted == Spec => []OnlyAdmittedFlowsRepeat
<1>1. IInv => OnlyAdmittedFlowsRepeat
  BY DEF IInv, TypeOK, FlowInv, OnlyAdmittedFlowsRepeat
<1>. QED BY <1>1, Inductive, PTL

\* A response is guarded by the token its attempt ended with, whether a retry
\* flow owned that token or not (restore of the token in execute_once_with_context).
THEOREM CarriesToken == Spec => []ResponseCarriesToken
BY Inductive, PTL DEF IInv, ResultInv

\* No attempt sends a body that an earlier one took (the fresh clone of an attempt).
THEOREM OwnBody == Spec => []EachAttemptSendsItsBody
BY Inductive, PTL DEF IInv, BodyInv

\* A call that fails reports the failure of its last attempt, a cancellation, or a
\* budget that admitted none (the mapping of the executor's error).
THEOREM LastFailure == Spec => []ReportsLastFailure
BY Inductive, PTL DEF IInv, ResultInv
=============================================================================
