-------------------------- MODULE ClientSetupProofs --------------------------
(***************************************************************************)
(* Proofs about ClientSetup: every client is usable and redirects stay      *)
(* inside, for all configurations, options, URLs and bounds.               *)
(***************************************************************************)
EXTENDS ClientSetup, TLAPS

TypeInv ==
  /\ config \in Configs /\ options \in Options /\ clients \in Seq(Options)
  /\ chain \in Seq(Urls)

\* A client has passed all of configure_backend, whatever came before.
ClientsAreBuildable == \A i \in DOMAIN clients : Buildable(clients[i])

\* An execution visits its first URL by the builder's rules, later ones by the
\* executor's, and there is no new client while it lasts.
ChainIsAdmitted ==
  /\ phase \in {"executing", "ended"} <=> chain # <<>>
  /\ chain # <<>> =>
       /\ builder \in DOMAIN clients /\ executor \in DOMAIN clients
       /\ Admits(clients[builder], chain[1])
       /\ Len(chain) <= clients[executor].redirects + 1
       /\ \A k \in 2..Len(chain) :
            /\ clients[executor].origin = "same" => SameOrigin(chain[1], chain[k])
            /\ clients[executor].ipv4 => chain[k].host # "v6"

\* A refused hop is refused by a rule of the executor.
OutcomeIsTrue ==
  /\ outcome = "OriginPolicy" => clients[executor].origin = "same"
  /\ outcome = "InvalidUrl" => clients[executor].ipv4
  /\ phase # "ended" => outcome = "none"

IInv == TypeInv /\ ClientsAreBuildable /\ ChainIsAdmitted /\ OutcomeIsTrue

-----------------------------------------------------------------------------
(* Options.                                                                *)

\* The default options are options (HttpClientOptions::default).
LEMMA DefaultIsOptions == Default \in Options
BY DEF Default, Options, Proxies, NoUrl

\* What a section overrides with options is options.
LEMMA OverrideIsOptions ==
  ASSUME NEW o \in Options, NEW c \in Options, NEW names
  PROVE [f \in DOMAIN o |-> IF f \in names THEN c[f] ELSE o[f]] \in Options
BY DEF Options

\* So is what a configuration asks for.
LEMMA GivenIsOptions == config \in Configs => config.options \in Options
BY OptionsAssumption

\* The options of a client limit its redirects.
LEMMA LimitIsNat ==
  ASSUME TypeInv, NEW i \in DOMAIN clients
  PROVE clients[i] \in Options /\ clients[i].redirects \in Nat
<1>1. clients[i] \in Options BY DEF TypeInv
<1>. QED BY <1>1 DEF Options

\* A section changes the options and how far they are read, or refuses them.
LEMMA SectionStep ==
  ASSUME TypeInv, NEW s, NEW valid, NEW names, ReadSection(s, valid, names)
  PROVE /\ options' \in Options /\ phase = "options" /\ phase' \in {"options", "refused"}
        /\ UNCHANGED rest
<1>1. CASE s \in config.flaws \/ ~valid
  BY <1>1 DEF ReadSection, Refuse, TypeInv
<1>2. CASE ~(s \in config.flaws \/ ~valid)
  <2>1. options' = Override(names) /\ phase' = phase
    BY <1>2 DEF ReadSection
  <2>2. Override(names) \in Options
    BY OverrideIsOptions, GivenIsOptions DEF TypeInv, Override
  <2>. QED BY <2>1, <2>2 DEF ReadSection
<1>. QED BY <1>1, <1>2

\* Reading a configuration builds nothing.
LEMMA ReadStep ==
  ASSUME TypeInv, Read
  PROVE /\ options' \in Options /\ phase = "options" /\ phase' \in {"options", "refused", "build"}
        /\ UNCHANGED rest
<1>1. CASE ReadAll BY <1>1 DEF ReadAll, Refuse, TypeInv
<1>2. CASE ReadRoot BY <1>2, SectionStep DEF ReadRoot
<1>3. CASE ReadJson BY <1>3, SectionStep DEF ReadJson
<1>4. CASE ReadTimeouts BY <1>4, SectionStep DEF ReadTimeouts
<1>5. CASE ReadProxy BY <1>5, SectionStep DEF ReadProxy
<1>6. CASE ReadLogging BY <1>6, SectionStep DEF ReadLogging
<1>7. CASE ReadRetry BY <1>7, SectionStep DEF ReadRetry
<1>8. CASE ReadSse BY <1>8, SectionStep DEF ReadSse
<1>9. CASE ReadLogRedaction BY <1>9, SectionStep DEF ReadLogRedaction
<1>10. CASE ReadDefaultHeaders BY <1>10, SectionStep DEF ReadDefaultHeaders
<1>. QED BY <1>1, <1>2, <1>3, <1>4, <1>5, <1>6, <1>7, <1>8, <1>9, <1>10 DEF Read

-----------------------------------------------------------------------------
(* The inductive invariant.                                                *)

\* A program starts without clients.
LEMMA InitIInv == Init => IInv
BY DefaultIsOptions
   DEF Init, IInv, TypeInv, ClientsAreBuildable, ChainIsAdmitted, OutcomeIsTrue

\* Every step keeps the invariant: only Build makes a client, and only Execute and
\* Redirect visit a URL.
LEMMA StepIInv == IInv /\ [Next]_vars => IInv'
<1>. SUFFICES ASSUME IInv, [Next]_vars PROVE IInv'
  OBVIOUS
<1>. USE DEF IInv
<1>1. CASE Read
  <2>1. options' \in Options /\ phase = "options" /\ phase' \in {"options", "refused", "build"} /\ UNCHANGED rest
    BY <1>1, ReadStep
  <2>. QED BY <2>1 DEF rest, TypeInv, ClientsAreBuildable, ChainIsAdmitted, OutcomeIsTrue
<1>2. CASE SetOptions
  <2>1. options' \in Options BY <1>2, OptionsAssumption DEF SetOptions
  <2>. QED BY <1>2, <2>1 DEF SetOptions, rest, TypeInv, ClientsAreBuildable, ChainIsAdmitted, OutcomeIsTrue
<1>3. CASE Build
  <2>1. TypeInv' BY <1>3 DEF Build, TypeInv
  <2>2. ClientsAreBuildable'
    <3>1. CASE Buildable(options)
      <4>1. clients' = Append(clients, options) BY <1>3, <3>1 DEF Build
      <4>2. ASSUME NEW i \in DOMAIN clients' PROVE Buildable(clients'[i])
        BY <3>1, <4>1, <4>2 DEF TypeInv, ClientsAreBuildable
      <4>. QED BY <4>2 DEF ClientsAreBuildable, Buildable
    <3>2. CASE ~Buildable(options)
      BY <1>3, <3>2 DEF Build, ClientsAreBuildable
    <3>. QED BY <3>1, <3>2
  <2>3. ChainIsAdmitted' /\ OutcomeIsTrue'
    BY <1>3 DEF Build, ChainIsAdmitted, OutcomeIsTrue
  <2>. QED BY <2>1, <2>2, <2>3
<1>4. CASE Execute
  <2>1. PICK url \in Urls : Admits(clients[builder'], url) /\ chain' = <<url>>
    BY <1>4 DEF Execute
  <2>2. /\ phase = "clients" /\ phase' = "executing" /\ builder' \in DOMAIN clients /\ executor' \in DOMAIN clients
        /\ UNCHANGED <<config, options, section, clients, outcome>>
    BY <1>4 DEF Execute
  <2>3. TypeInv' /\ ClientsAreBuildable' BY <2>1, <2>2 DEF TypeInv, ClientsAreBuildable
  <2>4. chain' # <<>> /\ Len(chain') = 1 /\ chain'[1] = url BY <2>1
  <2>5. clients[executor'].redirects \in Nat BY <2>2, LimitIsNat
  <2>6. ChainIsAdmitted' BY <2>1, <2>2, <2>4, <2>5 DEF ChainIsAdmitted, Admits, SameOrigin, KnownPort
  <2>7. OutcomeIsTrue' BY <2>2 DEF OutcomeIsTrue
  <2>. QED BY <2>3, <2>6, <2>7
<1>5. CASE Redirect
  <2>1. PICK url \in Urls :
          IF Follows(RedirectPolicy, url)
            THEN chain' = Append(chain, url) /\ UNCHANGED <<phase, outcome>>
            ELSE phase' = "ended" /\ outcome' = RedirectError(RedirectPolicy, url) /\ UNCHANGED chain
    BY <1>5 DEF Redirect
  <2>2. phase = "executing" /\ UNCHANGED <<config, options, section, clients, builder, executor>>
    BY <1>5 DEF Redirect
  <2>3. ClientsAreBuildable' BY <2>2 DEF ClientsAreBuildable
  <2>4. chain # <<>> /\ executor \in DOMAIN clients BY <2>2 DEF ChainIsAdmitted
  <2>5. CASE Follows(RedirectPolicy, url)
    <3>0. clients[executor].redirects \in Nat /\ Len(chain) \in Nat
      BY <2>4, LimitIsNat DEF TypeInv
    <3>1. chain' = Append(chain, url) /\ phase' = phase /\ outcome' = outcome BY <2>1, <2>5
    <3>2. /\ chain' # <<>> /\ Len(chain') = Len(chain) + 1 /\ chain'[1] = chain[1]
          /\ chain'[Len(chain) + 1] = url
          /\ \A k \in 1..Len(chain) : chain'[k] = chain[k]
      BY <2>4, <3>1 DEF TypeInv
    <3>3. /\ clients[executor].origin = "same" => SameOrigin(chain[1], url)
          /\ clients[executor].ipv4 => url.host # "v6"
          /\ Len(chain) <= clients[executor].redirects
      BY <2>5, <3>0 DEF Follows, RedirectError, RedirectPolicy
    <3>4. TypeInv' BY <2>2, <3>1 DEF TypeInv
    <3>6. ASSUME NEW k \in 2..Len(chain')
          PROVE /\ clients[executor].origin = "same" => SameOrigin(chain'[1], chain'[k])
                /\ clients[executor].ipv4 => chain'[k].host # "v6"
      <4>1. CASE k = Len(chain) + 1 BY <3>2, <3>3, <4>1
      <4>2. CASE k \in 2..Len(chain) BY <2>4, <3>2, <3>0, <4>2 DEF ChainIsAdmitted
      <4>. QED BY <3>2, <3>0, <3>6, <4>1, <4>2
    <3>7. Admits(clients[builder], chain'[1]) BY <2>4, <3>2 DEF ChainIsAdmitted
    <3>8. ChainIsAdmitted'
      BY <2>2, <2>4, <3>1, <3>2, <3>3, <3>0, <3>6, <3>7 DEF ChainIsAdmitted, Admits, SameOrigin, KnownPort
    <3>9. OutcomeIsTrue' BY <2>2, <3>1 DEF OutcomeIsTrue
    <3>. QED BY <2>3, <3>4, <3>8, <3>9
  <2>6. CASE ~Follows(RedirectPolicy, url)
    <3>1. phase' = "ended" /\ chain' = chain /\ outcome' = RedirectError(RedirectPolicy, url) BY <2>1, <2>6
    <3>2. TypeInv' BY <2>2, <3>1 DEF TypeInv
    <3>3. ChainIsAdmitted'
      BY <2>2, <2>4, <3>1 DEF ChainIsAdmitted, Admits, SameOrigin, KnownPort
    <3>4. OutcomeIsTrue' BY <2>2, <3>1 DEF OutcomeIsTrue, RedirectError, RedirectPolicy
    <3>. QED BY <2>3, <3>2, <3>3, <3>4
  <2>. QED BY <2>5, <2>6
<1>6. CASE Answer
  BY <1>6 DEF Answer, TypeInv, ClientsAreBuildable, ChainIsAdmitted, OutcomeIsTrue, Admits, SameOrigin, KnownPort
<1>7. CASE UNCHANGED vars
  BY <1>7 DEF vars, TypeInv, ClientsAreBuildable, ChainIsAdmitted, OutcomeIsTrue, Admits, SameOrigin, KnownPort
<1>. QED BY <1>1, <1>2, <1>3, <1>4, <1>5, <1>6, <1>7 DEF Next

\* IInv holds in every reachable state (HttpClientBuilder, HttpClient::execute).
THEOREM Inductive == Spec => []IInv
BY InitIInv, StepIInv, PTL DEF Spec

-----------------------------------------------------------------------------
(* The properties.                                                         *)

\* Options a backend was built from can do what the operations of a client take
\* for granted (HttpClientOptions::validate, configure_backend).
LEMMA BuildableIsUsable == TypeInv /\ ClientsAreBuildable => ClientsAreUsable
<1>. SUFFICES ASSUME TypeInv, ClientsAreBuildable, NEW i \in DOMAIN clients
              PROVE LET o == clients[i] IN
                /\ o.attempts >= 1 /\ o.timeout = "some" /\ o.limit >= 1 /\ o.lineLimit >= 1
                /\ o.base # NoUrl => o.base.scheme \in {"http", "https"}
                /\ o.proxy.enabled => o.proxy.port = "some" /\ o.proxy.host \in (IF o.ipv4 THEN {"named"} ELSE {"named", "v6"})
                /\ o.completion = "RequireDoneMarker" => o.marker \notin {"disabled", "blank"}
                /\ o.logBodies => o.logLimit >= 1
  BY DEF ClientsAreUsable
<1>. DEFINE o == clients[i]
<1>1. o \in Options /\ Buildable(o) BY DEF TypeInv, ClientsAreBuildable
<1>. HIDE DEF o
<1>2. /\ o.attempts >= 1 /\ o.timeout = "some" /\ o.limit >= 1 /\ o.lineLimit >= 1
      /\ o.logBodies => o.logLimit >= 1
  BY <1>1 DEF Options, Buildable, Valid, ValidRetry, ValidTimeouts, ValidLogging
<1>3. o.base # NoUrl => o.base.scheme \in {"http", "https"}
  <2>1. o.base \in Urls \union {NoUrl} BY <1>1 DEF Options
  <2>. QED BY <1>1, <2>1, UrlAssumption DEF Buildable, Valid, ValidBase
<1>4. o.proxy.enabled => o.proxy.port = "some" /\ o.proxy.host \in (IF o.ipv4 THEN {"named"} ELSE {"named", "v6"})
  BY <1>1 DEF Buildable, Valid, ValidProxy
<1>5. o.completion = "RequireDoneMarker" => o.marker \notin {"disabled", "blank"}
  BY <1>1 DEF Buildable, Valid, ValidCompletion, UsableMarker
<1>. QED BY <1>2, <1>3, <1>4, <1>5 DEF o

\* Every client is usable, whatever way its options came about
\* (HttpClientOptions::validate, configure_backend).
THEOREM Usable == Spec => []ClientsAreUsable
BY Inductive, BuildableIsUsable, PTL DEF IInv

\* What the invariant says of an execution is what the property asks.
LEMMA AdmittedStaysInside == TypeInv /\ ChainIsAdmitted /\ OutcomeIsTrue => RedirectsStayInside
<1>. SUFFICES ASSUME TypeInv, ChainIsAdmitted, OutcomeIsTrue, chain # <<>> PROVE RedirectsStayInside
  BY DEF RedirectsStayInside
<1>. DEFINE b == clients[builder] e == clients[executor]
<1>1. /\ Admits(b, chain[1]) /\ e.redirects \in Nat /\ Len(chain) \in Nat
      /\ Len(chain) <= e.redirects + 1
  BY LimitIsNat DEF ChainIsAdmitted, TypeInv
<1>2. ASSUME NEW k \in DOMAIN chain, k > 1
      PROVE /\ e.origin = "same" => Origin(chain[k]) = Origin(chain[1])
            /\ e.ipv4 => chain[k].host # "v6"
  <2>1. k \in 2..Len(chain) BY <1>2 DEF TypeInv
  <2>. QED BY <2>1 DEF ChainIsAdmitted, SameOrigin, Origin
<1>3. b.origin = "same" /\ b.base # NoUrl => Origin(chain[1]) = Origin(b.base)
  BY <1>1 DEF Admits, SameOrigin, Origin
<1>4. b.ipv4 => chain[1].host # "v6" BY <1>1 DEF Admits
<1>5. Len(chain) - 1 <= e.redirects BY <1>1
<1>6. /\ outcome = "OriginPolicy" => e.origin = "same"
      /\ outcome = "InvalidUrl" => e.ipv4
  BY DEF OutcomeIsTrue
<1>. QED BY <1>2, <1>3, <1>4, <1>5, <1>6 DEF RedirectsStayInside

\* No chain of redirects leaves the rules of the clients it runs under
\* (the redirect policy of configure_backend, validate_origin_policy).
THEOREM StaysInside == Spec => []RedirectsStayInside
BY Inductive, AdmittedStaysInside, PTL DEF IInv
=============================================================================
