----------------------------- MODULE HttpRequest -----------------------------
(***************************************************************************)
(* A request from its builder to the wire                                  *)
(* (src/request/http_request_builder.rs, src/request/http_request.rs, and   *)
(* the snapshots src/client/http_client.rs hands to a builder).            *)
(*                                                                         *)
(* A client is configured, a builder takes a snapshot of it, the built     *)
(* request is edited by its owner, and every attempt edits and sends a     *)
(* clone.  Header names, hosts and bodies are members of small sets.  A    *)
(* header value says where it comes from, and a multipart media type its   *)
(* boundary.  Query parameters, which no cache holds, and logging are left *)
(* out, and so are timeouts that no deadline can represent, which the       *)
(* setters refuse, and the cache of effective headers: a send discards it   *)
(* first, and only the logger reads it afterwards.                         *)
(***************************************************************************)
EXTENDS Integers, Sequences, FiniteSets, FiniteSetsExt

CONSTANTS
  Options,       \* client options: [base, ipv4, sameOrigin, timeout]
  Paths,         \* request paths: [absolute, host, page]
  Bases,         \* hosts of the base URLs a caller may set
  Typed,         \* body helpers that bring a media type, multipart apart
  Boundaries,    \* multipart boundaries
  Injectors,     \* header injectors a client may register: [name, sets]
  Timeouts,      \* response_header_timeout, in ticks
  MaxEdits,      \* edits to the client, the builder, the request and the attempts'
                 \* clones, all together, of a request that is sent
  MaxHelpers,    \* edits of a builder, sent or not
  MaxAttempts    \* attempts one request makes

\* "v6" is an IPv6 literal and "ftp" a URL that is not an HTTP one.
Hosts == {"a", "b", "v6", "ftp"}
Names == {"content-type", "last-event-id", "other"}
Value(from, n) == [from |-> from, n |-> n]
Absent == Value("absent", 0)
NoUrl == [host |-> "none", page |-> "none"]
NoHeaders == [n \in Names |-> Absent]

Values ==
  {Absent, Value("reset", 0), Value("default", 0), Value("local", 0), Value("multipart", 0)}
    \union [from : Typed, n : {0}] \union [from : {"multipart"}, n : Boundaries]
    \union [from : {"injected", "cursor"}, n : 1..MaxAttempts]
Headers == [Names -> Values]
Urls == [host : Hosts, page : {"p", "q"}]
Bodies == {"empty", "opaque", "multipart", "edited"} \union Typed

ASSUME OptionsAssumption ==
  Options \subseteq [base : Hosts \union {"none"}, ipv4 : BOOLEAN, sameOrigin : BOOLEAN, timeout : Timeouts]
ASSUME PathAssumption ==
  /\ Paths \subseteq [absolute : BOOLEAN, host : Hosts \union {"none"}, page : {"p", "q"}]
  /\ \A path \in Paths : path.absolute => path.host # "none"
ASSUME HostAssumption == Bases \subseteq Hosts
ASSUME TypedAssumption == Typed \cap {"absent", "multipart"} = {}
ASSUME BoundaryAssumption == Boundaries \subseteq Nat \ {0}
ASSUME InjectorAssumption == Injectors \subseteq [name : Names, sets : BOOLEAN]
ASSUME BoundAssumption ==
  MaxEdits \in Nat /\ MaxHelpers \in Nat /\ MaxAttempts \in Nat \ {0} /\ Timeouts \subseteq Nat \ {0}

VARIABLES
  options,    \* the client's options but its default headers
  client,     \* [headers, sync, async]: what the owner of the client may still change
  snapshot,   \* history: client when the builder was made
  edits,      \* edits made so far
  log,        \* history: media types the builder was given, [op, value]
  auto,       \* the builder's auto_content_type
  phase,
  template,   \* the request under construction, then the built one
  request,    \* the attempt's clone
  attempt,    \* attempts started
  token,      \* the cancellation token of the attempt's I/O; without one, it never fires
  wanted,     \* history: the Last-Event-ID the reconnect loop gave this attempt
  draft,      \* the headers under computation
  next,       \* the next injector
  clock,      \* ticks since send_impl began
  due,        \* when the timer of the pending stage fires
  wire,       \* [url, headers, body] handed to the backend
  result      \* how the last attempt ended

clientVars == <<options, client, snapshot>>
builderVars == <<log, auto>>
sendVars == <<draft, next, clock, due>>
vars == <<clientVars, edits, builderVars, phase, template, request, attempt, token, wanted,
          sendVars, wire, result>>

NoWire == [url |-> NoUrl, headers |-> NoHeaders, body |-> "empty"]

Clients == [headers : Headers, sync : Seq(Injectors), async : Seq(Injectors)]
Requests == [path : Paths, base : Hosts \union {"none"}, ipv4 : BOOLEAN, sameOrigin : BOOLEAN,
             timeout : Timeouts, headers : Headers, body : Bodies, streaming : BOOLEAN,
             context : Clients, url : Urls \union {NoUrl}, cursor : Values]

TypeOK ==
  /\ options \in Options /\ client \in Clients /\ snapshot \in Clients
  /\ edits \in 0..(MaxEdits + MaxHelpers) /\ attempt \in 0..MaxAttempts
  /\ log \in Seq([op : {"header", "body"}, value : Values]) /\ auto \in BOOLEAN
  /\ phase \in {"client", "building", "owned", "attempt", "injecting", "resolving", "factory", "sending", "failed"}
  /\ \A r \in {template, request} : r \in Requests /\ (r.streaming => r.body = "empty")
  /\ token \in {"none", "live", "cancelled"}
  /\ wanted \in Values /\ draft \in Headers
  /\ next \in Nat /\ clock \in Nat /\ due \in Nat
  /\ wire \in [url : Urls \union {NoUrl}, headers : Headers, body : Bodies \union {"stream"}]
  /\ result \in {"none", "sent", "Injector", "InvalidUrl", "OriginPolicy", "Transport",
                 "Timeout", "Cancelled"}

-----------------------------------------------------------------------------
(* The resolved URL.                                                       *)

\* compute_resolved_url: an absolute path is the URL, another is joined to the
\* base URL, which it may leave ("//b/p").
Target(r) == [host |-> IF r.path.absolute \/ r.path.host # "none" THEN r.path.host ELSE r.base,
              page |-> r.path.page]
Resolvable(r) ==
  /\ r.path.absolute \/ r.base # "none"
  /\ Target(r).host # "ftp"
  /\ ~(r.ipv4 /\ Target(r).host = "v6")
ComputeUrl(r) == IF Resolvable(r) THEN Target(r) ELSE NoUrl

Refresh(r) == [r EXCEPT !.url = ComputeUrl(r)]

\* resolved_base_url: the cached URL, else one computed now.
ResolvedUrl(r) == IF r.url # NoUrl THEN r.url ELSE ComputeUrl(r)

OriginAllows(r) == r.sameOrigin => r.base \in {"none", ResolvedUrl(r).host}

-----------------------------------------------------------------------------
(* The setters of a built request: its owner and every interceptor use      *)
(* them.  A refused header value or timeout changes nothing.               *)

SetPath(r, path) == Refresh([r EXCEPT !.path = path])
SetBaseUrl(r, host) == Refresh([r EXCEPT !.base = host])

\* Fault: the URL resolved before is kept.
SetIpv4OnlyUnchecked(r, enabled) == [r EXCEPT !.ipv4 = enabled]

SetIpv4Only(r, enabled) == Refresh([r EXCEPT !.ipv4 = enabled])
SetHeader(r, name, value) == [r EXCEPT !.headers[name] = value]
ClearHeaders(r) == [r EXCEPT !.headers = NoHeaders]
SetBody(r, body) == [r EXCEPT !.body = body, !.streaming = FALSE]

\* Fault: the body set before is kept beside the stream.
SetStreamingBodyOnly(r) == [r EXCEPT !.streaming = TRUE]

SetStreamingBody(r) == [r EXCEPT !.body = "empty", !.streaming = TRUE]
SetTimeout(r, timeout) == [r EXCEPT !.timeout = timeout]

Edited(r) ==
  {SetPath(r, path) : path \in Paths}
    \union {SetBaseUrl(r, host) : host \in Bases \union {"none"}}
    \union {SetIpv4Only(r, enabled) : enabled \in BOOLEAN}
    \union {SetHeader(r, name, value) : name \in Names, value \in {Absent, Value("local", 0)}}
    \union {ClearHeaders(r), SetBody(r, "edited"), SetStreamingBody(r)}
    \union {SetTimeout(r, timeout) : timeout \in Timeouts}

\* suppress_sse_last_event_id and set_sse_last_event_id
SuppressCursor(r) ==
  [r EXCEPT !.cursor = Value("reset", 0), !.headers["last-event-id"] = Absent]
SetCursor(r, id) == [r EXCEPT !.cursor = id, !.headers["last-event-id"] = id]

-----------------------------------------------------------------------------
(* The client and the builder.                                             *)

NewBuilder(path) ==
  [path |-> path, base |-> options.base, ipv4 |-> options.ipv4, sameOrigin |-> options.sameOrigin,
   timeout |-> options.timeout, headers |-> NoHeaders, body |-> "empty", streaming |-> FALSE,
   context |-> client, url |-> NoUrl, cursor |-> Absent]

NoClient == [headers |-> NoHeaders, sync |-> <<>>, async |-> <<>>]
Init ==
  /\ options \in Options
  /\ client = NoClient /\ snapshot = NoClient
  /\ edits = 0 /\ log = <<>> /\ auto = FALSE /\ phase = "client"
  /\ \E path \in Paths : template = NewBuilder(path) /\ request = template
  /\ attempt = 0 /\ token = "none" /\ wanted = Absent
  /\ draft = NoHeaders /\ next = 1 /\ clock = 0 /\ due = 0
  /\ wire = NoWire /\ result = "none"

EditWithin(bound) == edits < bound /\ edits' = edits + 1
Edit == EditWithin(MaxEdits)

\* add_header, add_header_injector, add_async_header_injector and the two clear
\* operations, at any time: a builder that exists does not notice.
ConfigureClient ==
  /\ Edit
  /\ \/ \E name \in Names : client' = [client EXCEPT !.headers[name] = Value("default", 0)]
     \/ \E injector \in Injectors : client' = [client EXCEPT !.sync = Append(@, injector)]
     \/ \E injector \in Injectors : client' = [client EXCEPT !.async = Append(@, injector)]
     \/ client' = [client EXCEPT !.sync = <<>>]
     \/ client' = [client EXCEPT !.async = <<>>]
  /\ UNCHANGED <<options, snapshot, builderVars, phase, template, request, attempt, token, wanted,
                 sendVars, wire, result>>

\* HttpClient::request
StartBuilder ==
  /\ phase = "client" /\ phase' = "building"
  /\ template' = NewBuilder(template.path) /\ snapshot' = client
  /\ UNCHANGED <<options, client, edits, builderVars, request, attempt, token, wanted,
                 sendVars, wire, result>>

builds == <<clientVars, phase, request, attempt, token, wanted, sendVars, wire, result>>
Building == phase = "building" /\ EditWithin(MaxHelpers)
ContentType == template.headers["content-type"]

\* base_url, clear_base_url, ipv4_only, response_header_timeout
BuilderOption ==
  /\ Building
  /\ \/ \E host \in Bases \union {"none"} : template' = [template EXCEPT !.base = host]
     \/ \E enabled \in BOOLEAN : template' = [template EXCEPT !.ipv4 = enabled]
     \/ \E timeout \in Timeouts : template' = SetTimeout(template, timeout)
  /\ UNCHANGED <<builds, builderVars>>

\* Fault: an explicit media type does not claim the header.
BuilderHeaderStaysAutomatic(name, value) ==
  /\ Building
  /\ template' = SetHeader(template, name, value)
  /\ log' = IF name = "content-type" THEN Append(log, [op |-> "header", value |-> value]) ELSE log
  /\ UNCHANGED <<builds, auto>>

\* header and headers: a media type given by the caller is no longer automatic.
\* A header keeps one value here; a second one in a map for headers is left out.
BuilderHeader(name, value) ==
  /\ Building
  /\ template' = SetHeader(template, name, value)
  /\ auto' = (auto /\ name # "content-type")
  /\ log' = IF name = "content-type" THEN Append(log, [op |-> "header", value |-> value]) ELSE log
  /\ UNCHANGED builds

\* The body helpers but multipart: replace_auto_content_type leaves a media type
\* of the caller's alone and replaces or removes any other.
Explicit == ~auto /\ ContentType # Absent
GiveBody(r, type) ==
  /\ IF Explicit
       THEN template' = r /\ UNCHANGED auto
       ELSE template' = SetHeader(r, "content-type", type) /\ auto' = (type # Absent)
  /\ log' = Append(log, [op |-> "body", value |-> type])
  /\ UNCHANGED builds
TypedBody == Building /\ \E kind \in Typed : GiveBody(SetBody(template, kind), Value(kind, 0))
OpaqueBody ==
  /\ Building
  /\ \/ GiveBody(SetBody(template, "opaque"), Absent)
     \/ GiveBody(SetStreamingBody(template), Absent)

\* multipart_body: a media type of the caller's must be multipart and is given
\* the boundary it lacks.
MultipartBody(boundary) ==
  /\ Building
  /\ Explicit => ContentType \in {Value("multipart", 0), Value("multipart", boundary)}
  /\ template' = SetHeader(SetBody(template, "multipart"), "content-type", Value("multipart", boundary))
  /\ auto' = ~Explicit
  /\ log' = Append(log, [op |-> "body", value |-> Value("multipart", boundary)])
  /\ UNCHANGED builds

\* A helper that fails consumes the builder: a value that does not parse or
\* encode, or a media type that multipart_body refuses.
HelperFails ==
  /\ phase = "building" /\ phase' = "failed"
  /\ UNCHANGED <<clientVars, edits, builderVars, template, request, attempt, token, wanted,
                 sendVars, wire, result>>

\* HttpRequest::new
Build ==
  /\ phase = "building" /\ phase' = "owned"
  /\ template' = Refresh(template) /\ log' = <<>>
  /\ UNCHANGED <<clientVars, edits, auto, request, attempt, token, wanted, sendVars, wire, result>>

OwnerEdits ==
  /\ phase = "owned" /\ attempt = 0 /\ Edit
  /\ template' \in Edited(template)
  /\ UNCHANGED <<clientVars, builderVars, phase, request, attempt, token, wanted,
                 sendVars, wire, result>>

-----------------------------------------------------------------------------
(* An attempt: a clone, edited by the interceptors, then send_impl.         *)

\* An HttpClient attempt sends the clone as it is; the reconnect loop first
\* suppresses or sets the identifier to resume from.
StartAttempt ==
  /\ phase = "owned" /\ attempt < MaxAttempts /\ edits <= MaxEdits
  /\ phase' = "attempt" /\ attempt' = attempt + 1
  /\ \/ request' = template /\ wanted' = Absent
     \/ request' = SuppressCursor(template) /\ wanted' = Value("reset", 0)
     \/ /\ wanted' = Value("cursor", attempt')
        /\ request' = SetCursor(template, wanted')
  /\ token' = "live" /\ result' = "none"
  /\ UNCHANGED <<clientVars, edits, builderVars, template, sendVars, wire>>

sends == <<clientVars, edits, builderVars, template, attempt, wanted>>

InterceptorEdits ==
  /\ phase = "attempt" /\ Edit
  /\ request' \in Edited(request)
  /\ UNCHANGED <<clientVars, builderVars, phase, template, attempt, token, wanted,
                 sendVars, wire, result>>

Cancel ==
  /\ token = "live" /\ token' = "cancelled"
  /\ UNCHANGED <<sends, phase, request, sendVars, wire, result>>

\* The attempt ends, and its clone with it.
Finish(how) ==
  /\ phase' = "owned" /\ result' = how
  /\ request' = template /\ token' = "none" /\ wire' = NoWire
  /\ draft' = NoHeaders /\ next' = 1 /\ clock' = 0 /\ due' = 0
  /\ UNCHANGED sends

\* Fault: every stage is given the whole timeout.
FullStageTimeout == request.timeout

\* What is left of the one deadline.
StageTimeout == IF request.timeout > clock THEN request.timeout - clock ELSE 0

InjectorsOf(r) == r.context.sync \o r.context.async

\* The attempt resolves the URL before it sends, so send_impl finds one.
Unresolvable == phase = "attempt" /\ ResolvedUrl(request) = NoUrl /\ Finish("InvalidUrl")

BeginSend ==
  /\ phase = "attempt" /\ ResolvedUrl(request) # NoUrl /\ phase' = "injecting"
  /\ draft' = request.context.headers /\ next' = 1
  /\ clock' = 0 /\ due' = request.timeout
  /\ UNCHANGED <<sends, request, token, wire, result>>

Inject ==
  /\ phase = "injecting" /\ next <= Len(InjectorsOf(request))
  /\ LET injector == InjectorsOf(request)[next] IN
       draft' = [draft EXCEPT ![injector.name] =
                   IF injector.sets THEN Value("injected", attempt) ELSE Absent]
  /\ next' = next + 1
  /\ UNCHANGED <<sends, phase, request, token, clock, due, wire, result>>

InjectorFails ==
  /\ phase = "injecting" /\ next <= Len(InjectorsOf(request))
  /\ Finish("Injector")

\* Fault: the request's own headers are merged over the cursor.
CursorFirst(r, headers) ==
  LET resumed == IF r.cursor = Absent THEN headers
                 ELSE [headers EXCEPT !["last-event-id"] = IF r.cursor.from = "cursor" THEN r.cursor ELSE Absent]
  IN [name \in Names |-> IF r.headers[name] # Absent THEN r.headers[name] ELSE resumed[name]]

\* The tail of compute_effective_headers: the request's own headers, then the
\* identifier to resume from.
Merged(r, headers) ==
  LET own == [name \in Names |-> IF r.headers[name] # Absent THEN r.headers[name] ELSE headers[name]]
  IN IF r.cursor = Absent THEN own
     ELSE [own EXCEPT !["last-event-id"] = IF r.cursor.from = "cursor" THEN r.cursor ELSE Absent]

HeadersReady ==
  /\ phase = "injecting" /\ next > Len(InjectorsOf(request))
  /\ phase' = "resolving" /\ draft' = Merged(request, draft)
  /\ UNCHANGED <<sends, request, token, next, clock, due, wire, result>>

\* The request goes to the backend; a body that is not streamed is taken.
HandOver(body) ==
  /\ phase' = "sending" /\ due' = clock + StageTimeout
  /\ wire' = [url |-> ResolvedUrl(request), headers |-> draft, body |-> body]
  /\ request' = IF request.streaming THEN request ELSE [request EXCEPT !.body = "empty"]
  /\ UNCHANGED <<sends, token, draft, next, clock, result>>

OriginRefused == phase = "resolving" /\ ~OriginAllows(request) /\ Finish("OriginPolicy")

Resolved ==
  /\ phase = "resolving" /\ OriginAllows(request)
  /\ \/ /\ request.streaming /\ phase' = "factory" /\ due' = clock + StageTimeout
        /\ UNCHANGED <<sends, request, token, draft, next, clock, wire, result>>
     \/ ~request.streaming /\ HandOver(request.body)

FactoryReady == phase = "factory" /\ HandOver("stream")

Answered == phase = "sending" /\ Finish("sent")
TransportFails == phase = "sending" /\ Finish("Transport")

\* An injector that is not asynchronous ends in the poll that starts it.
Pending ==
  \/ phase = "injecting" /\ Len(request.context.sync) < next /\ next <= Len(InjectorsOf(request))
  \/ phase \in {"factory", "sending"}

\* Timers are punctual; the future under a timeout is polled before its timer.
Tick ==
  /\ Pending /\ clock < due /\ clock' = clock + 1
  /\ UNCHANGED <<sends, phase, request, token, draft, next, due, wire, result>>
TimesOut == Pending /\ clock = due /\ Finish("Timeout")

\* Each select polls in an order of its own: a token that has fired may win.
CancelSeen ==
  /\ phase \in {"injecting", "factory", "sending"} /\ token = "cancelled"
  /\ Finish("Cancelled")

Builder ==
  \/ BuilderOption \/ TypedBody \/ OpaqueBody \/ HelperFails \/ Build
  \/ \E name \in Names : BuilderHeader(name, Value("local", 0))
  \/ \E boundary \in Boundaries \union {0} : BuilderHeader("content-type", Value("multipart", boundary))
  \/ \E boundary \in Boundaries : MultipartBody(boundary)

Send ==
  \/ BeginSend \/ Inject \/ InjectorFails \/ HeadersReady \/ Unresolvable \/ OriginRefused
  \/ Resolved \/ FactoryReady \/ Answered \/ TransportFails \/ TimesOut \/ CancelSeen

Next ==
  \/ ConfigureClient \/ StartBuilder \/ Builder \/ OwnerEdits
  \/ StartAttempt \/ InterceptorEdits \/ Cancel \/ Tick \/ Send

Spec == Init /\ [][Next]_vars

-----------------------------------------------------------------------------
(* Properties.                                                             *)

\* What a header is by the documented order of its sources: the identifier the
\* reconnect loop resumes from, the request's own value, the last injector that
\* touches it, run for this attempt, and the client's default; the client as it
\* was when the builder was made.
Injected(name) ==
  LET all == snapshot.sync \o snapshot.async
      touching == {i \in DOMAIN all : all[i].name = name}
  IN CASE touching = {} -> snapshot.headers[name]
       [] touching # {} /\ all[Max(touching)].sets -> Value("injected", attempt)
       [] OTHER -> Absent
Layered(name) ==
  CASE name = "last-event-id" /\ wanted.from = "cursor" -> wanted
    [] name = "last-event-id" /\ wanted.from = "reset" -> Absent
    [] OTHER -> IF request.headers[name] # Absent THEN request.headers[name] ELSE Injected(name)

\* Every header on the wire has the value of the highest source that gives one:
\* no value of an earlier attempt, of a client changed later, or of an
\* interceptor against the reconnect cursor reaches it (compute_effective_headers).
WireHeadersAreLayered ==
  wire # NoWire => \A name \in Names : wire.headers[name] = Layered(name)

\* The URL on the wire obeys the request as the interceptors left it, whichever
\* of its parts changed after the URL was first resolved: its path, HTTP, no
\* IPv6 literal under ipv4_only, and the base URL's origin under SameOrigin
\* (resolved_base_url, validate_origin_policy).
WireUrlIsAllowed ==
  wire # NoWire =>
    /\ wire.url.page = request.path.page
    /\ wire.url.host = (IF request.path.host = "none" THEN request.base ELSE request.path.host)
    /\ wire.url.host # "ftp"
    /\ ~(request.ipv4 /\ wire.url.host = "v6")
    /\ request.sameOrigin /\ request.base # "none" => wire.url.host = request.base

\* The media type of a request under construction: the one the caller gave last,
\* completed by the first multipart body after it if it is multipart without a
\* boundary, whatever bodies follow; else that of the last body, none for an
\* opaque one.  A multipart body given last is never sent under another boundary
\* (replace_auto_content_type, multipart_body).
DeclaredType ==
  LET given == {i \in DOMAIN log : log[i].op = "header"}
      parts == {i \in DOMAIN log : log[i].op = "body" /\ log[i].value.from = "multipart" /\ i > Max(given)}
  IN CASE log = <<>> -> Absent
       [] log # <<>> /\ given = {} -> log[Len(log)].value
       [] OTHER -> IF log[Max(given)].value = Value("multipart", 0) /\ parts # {}
                     THEN log[Min(parts)].value ELSE log[Max(given)].value
ContentTypeFitsBody ==
  phase = "building" =>
    /\ ContentType = DeclaredType
    /\ (log # <<>> /\ log[Len(log)].op = "body" /\ log[Len(log)].value.from = "multipart")
         => ContentType = log[Len(log)].value

\* Injectors, the streaming body's factory and the response headers share one
\* response_header_timeout: together they never take longer (send_impl).
OneDeadline == clock <= request.timeout
=============================================================================
