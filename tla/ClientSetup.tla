----------------------------- MODULE ClientSetup -----------------------------
(***************************************************************************)
(* From a configuration to a client, and the redirects that client follows *)
(* (src/options/http_client_options.rs and its sections,                   *)
(* src/client/http_client_builder.rs).                                     *)
(*                                                                         *)
(* Options come from a configuration, read section by section, or are set   *)
(* by the caller field by field; either way a client is built from them.   *)
(* A client may be rebuilt with other options; a request built by one      *)
(* client may be executed by another.                                      *)
(*                                                                         *)
(* A configuration is the options it asks for and the sections that do not *)
(* parse at all: an unknown key, a value of the wrong type, a word that is *)
(* none of the setting's.  Settings that nothing here depends on, and the   *)
(* path an error names, are left out.                                      *)
(***************************************************************************)
EXTENDS Integers, Sequences

CONSTANTS
  Configs,      \* [options, flaws]: configurations
  Direct,       \* options a caller may set field by field
  Urls,         \* URLs of requests and redirects: [scheme, host, port]
  MaxClients,   \* clients built
  MaxHops       \* redirects a server sends

NoUrl == [scheme |-> "none", host |-> "none", port |-> 0]
Sections == <<"root", "json", "timeouts", "proxy", "logging", "retry", "sse", "log_redaction", "default_headers">>

Proxies == [enabled : BOOLEAN, host : {"none", "invalid", "named", "v6"}, port : {"none"} \union {"zero", "some"},
            user : {"none", "blank", "named"}, password : BOOLEAN]
Options ==
  [base : Urls \union {NoUrl}, origin : {"same", "any"}, ipv4 : BOOLEAN, limit : Nat,
   agent : {"none", "blank", "named"}, redirects : Nat,
   timeout : {"zero", "some", "unrepresentable"}, proxy : Proxies,
   logBodies : BOOLEAN, logLimit : Nat, attempts : Nat,
   marker : {"default", "disabled", "custom", "blank"},
   completion : {"AllowEof", "RequireDoneMarker"}, lineLimit : Nat,
   certificates : {"valid", "invalid"}]

ASSUME OptionsAssumption ==
  /\ \A c \in Configs : c.options \in Options /\ \A s \in c.flaws : \E i \in DOMAIN Sections : s = Sections[i]
  /\ Direct \subseteq Options
ASSUME UrlAssumption ==
  Urls \subseteq [scheme : {"http", "https", "ftp"}, host : {"named", "v6"}, port : Nat]
ASSUME BoundAssumption == MaxClients \in Nat /\ MaxHops \in Nat

VARIABLES
  config,    \* the configuration given
  options,   \* the options under construction
  section,   \* the next section to read, 0 when none is
  clients,   \* options of the clients built
  builder, executor,   \* the clients that built and execute the request
  chain,     \* the URLs the execution has visited
  outcome,   \* how the execution ended: "answered" or an error's kind
  phase

vars == <<config, options, section, clients, builder, executor, chain, outcome, phase>>

\* HttpClientOptions::default
Default ==
  [base |-> NoUrl, origin |-> "same", ipv4 |-> FALSE, limit |-> 1, agent |-> "none", redirects |-> 10,
   timeout |-> "some",
   proxy |-> [enabled |-> FALSE, host |-> "none", port |-> "none", user |-> "none", password |-> FALSE],
   logBodies |-> TRUE, logLimit |-> 1, attempts |-> 3, marker |-> "default", completion |-> "AllowEof",
   lineLimit |-> 1, certificates |-> "valid"]

Init ==
  /\ config \in Configs /\ options = Default /\ section = 1
  /\ clients = <<>> /\ builder = 0 /\ executor = 0 /\ chain = <<>> /\ outcome = "none" /\ phase = "options"

-----------------------------------------------------------------------------
(* Options: from_config_impl and validate.                                 *)

ValidBase(o) == o.base.scheme \in {"none", "http", "https"}
ValidTimeouts(o) == o.timeout = "some"

\* ProxyOptions::validate_arguments: the credentials count for a disabled proxy too.
ValidProxy(o) ==
  /\ o.proxy.enabled => o.proxy.host \in {"named", "v6"} /\ o.proxy.port = "some"
  /\ o.proxy.user # "blank"
  /\ o.proxy.password => o.proxy.user # "none"

ValidLogging(o) == o.logBodies => o.logLimit > 0
ValidRetry(o) == o.attempts > 0
UsableMarker(o) == o.marker \in {"default", "custom"}
ValidCompletion(o) == o.completion = "RequireDoneMarker" => UsableMarker(o)

\* Fault: what relates two settings of a section is left to the section's reader.
ValidOneByOne(o) ==
  /\ ValidBase(o) /\ ValidTimeouts(o) /\ ValidProxy(o) /\ ValidLogging(o) /\ ValidRetry(o)
  /\ o.limit > 0 /\ o.agent # "blank" /\ o.lineLimit > 0

\* HttpClientOptions::validate
Valid(o) ==
  /\ ValidBase(o) /\ ValidTimeouts(o) /\ ValidProxy(o) /\ ValidLogging(o) /\ ValidRetry(o)
  /\ o.limit > 0 /\ o.agent # "blank" /\ o.lineLimit > 0
  /\ ValidCompletion(o)

rest == <<config, clients, builder, executor, chain, outcome>>
Refuse == phase' = "refused" /\ UNCHANGED <<options, section>>

\* A section's reader refuses it before the next section is read; else it
\* overrides the options the section names and leaves the others alone.
Override(names) == [f \in DOMAIN options |-> IF f \in names THEN config.options[f] ELSE options[f]]
ReadSection(s, valid, names) ==
  /\ phase = "options" /\ section \in DOMAIN Sections /\ s = Sections[section]
  /\ IF s \in config.flaws \/ ~valid
       THEN Refuse
       ELSE options' = Override(names) /\ section' = section + 1 /\ UNCHANGED phase
  /\ UNCHANGED rest

Given == config.options
ReadRoot ==
  ReadSection("root", ValidBase(Given) /\ Given.limit > 0,
              {"base", "origin", "ipv4", "limit", "agent", "redirects"})
ReadJson == ReadSection("json", TRUE, {})
ReadTimeouts == ReadSection("timeouts", ValidTimeouts(Given), {"timeout"})
ReadProxy == ReadSection("proxy", ValidProxy(Given), {"proxy"})
ReadLogging == ReadSection("logging", ValidLogging(Given), {"logBodies", "logLimit"})
ReadRetry == ReadSection("retry", ValidRetry(Given), {"attempts"})
ReadSse ==
  ReadSection("sse", Given.marker # "blank" /\ Given.lineLimit > 0, {"marker", "completion", "lineLimit"})
ReadLogRedaction == ReadSection("log_redaction", TRUE, {})
ReadDefaultHeaders == ReadSection("default_headers", TRUE, {})

ReadAll ==
  /\ phase = "options" /\ section = Len(Sections) + 1
  /\ IF Valid(options) THEN phase' = "build" /\ section' = 0 /\ UNCHANGED options ELSE Refuse
  /\ UNCHANGED rest

\* The caller sets the public fields instead, for a first client or a rebuild.
SetOptions ==
  /\ \/ phase = "options" /\ section = 1
     \/ phase = "clients" /\ Len(clients) < MaxClients
  /\ options' \in Direct /\ phase' = "build" /\ section' = 0
  /\ UNCHANGED rest

\* configure_backend: what only the backend can tell is refused here.
Buildable(o) ==
  /\ Valid(o) /\ o.certificates = "valid"
  /\ ~(o.proxy.enabled /\ o.ipv4 /\ o.proxy.host = "v6")

\* build and rebuild_with_options: a failure leaves the clients there are alone.
Build ==
  /\ phase = "build"
  /\ IF Buildable(options)
       THEN clients' = Append(clients, options) /\ phase' = "clients"
       ELSE phase' = (IF clients = <<>> THEN "refused" ELSE "clients") /\ UNCHANGED clients
  /\ UNCHANGED <<config, options, section, builder, executor, chain, outcome>>

-----------------------------------------------------------------------------
(* A request and its redirects.                                            *)

KnownPort(url) == IF url.port # 0 THEN url.port ELSE IF url.scheme = "https" THEN 443 ELSE 80
SameOrigin(left, right) ==
  left.scheme = right.scheme /\ left.host = right.host /\ KnownPort(left) = KnownPort(right)

\* validate_resolved_url and validate_origin_policy, by the snapshot the request
\* took of the client that built it.
Admits(o, url) ==
  /\ url.scheme \in {"http", "https"}
  /\ ~(o.ipv4 /\ url.host = "v6")
  /\ o.origin = "same" /\ o.base # NoUrl => SameOrigin(o.base, url)

Execute ==
  /\ phase = "clients" /\ phase' = "executing"
  /\ builder' \in DOMAIN clients /\ executor' \in DOMAIN clients
  /\ \E url \in Urls : Admits(clients[builder'], url) /\ chain' = <<url>>
  /\ UNCHANGED <<config, options, section, clients, outcome>>

\* Fault: redirects follow the policies of the request.
PolicyOfRequest == clients[builder]

\* The policies the executing backend was built with.
RedirectPolicy == clients[executor]

\* Why a hop is refused, by the first rule it breaks; last is the backend, which
\* speaks HTTP only.
RedirectError(o, url) ==
  IF o.origin = "same" /\ ~SameOrigin(chain[1], url) THEN "OriginPolicy"
  ELSE IF o.ipv4 /\ url.host = "v6" THEN "InvalidUrl"
  ELSE IF Len(chain) > o.redirects \/ url.scheme \notin {"http", "https"} THEN "Transport" ELSE "none"
Follows(o, url) == RedirectError(o, url) = "none"

Redirect ==
  /\ phase = "executing" /\ Len(chain) <= MaxHops
  /\ \E url \in Urls :
       IF Follows(RedirectPolicy, url)
         THEN chain' = Append(chain, url) /\ UNCHANGED <<phase, outcome>>
         ELSE /\ phase' = "ended" /\ outcome' = RedirectError(RedirectPolicy, url)
              /\ UNCHANGED chain
  /\ UNCHANGED <<config, options, section, clients, builder, executor>>

Answer ==
  /\ phase = "executing" /\ phase' = "ended" /\ outcome' = "answered"
  /\ UNCHANGED <<config, options, section, clients, builder, executor, chain>>

Read ==
  \/ ReadRoot \/ ReadJson \/ ReadTimeouts \/ ReadProxy \/ ReadLogging \/ ReadRetry \/ ReadSse
  \/ ReadLogRedaction \/ ReadDefaultHeaders \/ ReadAll

Next == Read \/ SetOptions \/ Build \/ Execute \/ Redirect \/ Answer

Spec == Init /\ [][Next]_vars

-----------------------------------------------------------------------------
(* Properties.                                                             *)

\* Whatever way its options came about, a client that exists can do what its
\* operations take for granted: convert its retry options and its proxy without
\* a panic (to_executor_policy, to_proxy_url), set a deadline, resolve against
\* its base URL, keep to IPv4 behind its proxy, and end a JSON stream at a marker.
ClientsAreUsable ==
  \A i \in DOMAIN clients : LET o == clients[i] IN
    /\ o.attempts >= 1 /\ o.timeout = "some" /\ o.limit >= 1 /\ o.lineLimit >= 1
    /\ o.base # NoUrl => o.base.scheme \in {"http", "https"}
    /\ o.proxy.enabled => o.proxy.port = "some" /\ o.proxy.host \in (IF o.ipv4 THEN {"named"} ELSE {"named", "v6"})
    /\ o.completion = "RequireDoneMarker" => o.marker \notin {"disabled", "blank"}
    /\ o.logBodies => o.logLimit >= 1

\* An execution visits its first URL by the rules of the client that built the
\* request and every further one by the rules of the client that executes it: a
\* chain of redirects never leaves the first URL's origin, reaches an IPv6
\* literal or grows beyond the limit of the executing client, and if both demand
\* one origin it is that of the request's base URL throughout; and a client that
\* has no such rule never ends an execution in its name.
Origin(url) == <<url.scheme, url.host, KnownPort(url)>>
RedirectsStayInside ==
  chain # <<>> => LET b == clients[builder] e == clients[executor] IN
    /\ b.origin = "same" /\ b.base # NoUrl => Origin(chain[1]) = Origin(b.base)
    /\ b.ipv4 => chain[1].host # "v6"
    /\ Len(chain) - 1 <= e.redirects
    /\ \A k \in DOMAIN chain : k > 1 =>
         /\ e.origin = "same" => Origin(chain[k]) = Origin(chain[1])
         /\ e.ipv4 => chain[k].host # "v6"
         /\ b.origin = "same" /\ e.origin = "same" /\ b.base # NoUrl => Origin(chain[k]) = Origin(b.base)
    /\ outcome = "OriginPolicy" => e.origin = "same"
    /\ outcome = "InvalidUrl" => e.ipv4
=============================================================================
