-------------------------- MODULE HttpRequestProofs --------------------------
(***************************************************************************)
(* Proofs about HttpRequest for all options, paths, bodies, injectors,      *)
(* timeouts and numbers of edits and attempts.  IInv says what the caches   *)
(* of a request are worth from one step to the next.                       *)
(***************************************************************************)
EXTENDS HttpRequest, SequenceTheorems, TLAPS

Sends == {"injecting", "resolving", "factory", "sending"}
Attempts == Sends \union {"attempt"}

\* The cached URL is the one the request computes, whatever was edited; it is
\* checked before the parts of the send that need it.
UrlInv ==
  /\ phase \in Attempts \union {"owned"} => template.url = ComputeUrl(template)
  /\ phase \in Attempts => request.url = ComputeUrl(request)
  /\ phase \in Sends => Resolvable(request)
  /\ phase \in {"factory", "sending"} => OriginAllows(request)

\* What is on the wire is what the send computed.
WireInv ==
  wire # NoWire => phase = "sending" /\ wire.url = Target(request) /\ wire.headers = draft

\* A request keeps the client it was built from, and an attempt the identifier it
\* was given.
ContextInv ==
  /\ template.context = snapshot /\ template.cursor = Absent
  /\ phase \in Attempts =>
       /\ attempt >= 1 /\ request.context = snapshot /\ request.cursor = wanted
       /\ wanted.from \in {"absent", "reset", "cursor"}

\* What the first k injectors of the snapshot leave of a header.
InjectedOf(all, k, name) ==
  LET touching == {i \in 1..k : all[i].name = name}
  IN \/ touching = {} /\ draft[name] = snapshot.headers[name]
     \/ \E last \in touching :
          /\ \A i \in touching : i <= last
          /\ draft[name] = IF all[last].sets THEN Value("injected", attempt) ELSE Absent
InjectedBy(k, name) == InjectedOf(snapshot.sync \o snapshot.async, k, name)

\* The headers under computation have the layers applied so far.
DraftInv ==
  /\ phase = "injecting" =>
       /\ next \in 1..(Len(snapshot.sync \o snapshot.async) + 1)
       /\ \A name \in Names : InjectedBy(next - 1, name)
  /\ phase \in {"resolving", "factory", "sending"} => \A name \in Names : draft[name] = Layered(name)

\* The stages of a send share the timeout of the request.
DeadlineInv ==
  IF phase \in Sends THEN clock <= request.timeout /\ due = request.timeout ELSE clock = 0

Multipart(k) == log[k].op = "body" /\ log[k].value.from = "multipart"
NoType == log = <<>> /\ ~auto /\ ContentType = Absent
AutomaticType ==
  /\ log # <<>> /\ \A k \in DOMAIN log : log[k].op = "body"
  /\ ContentType = log[Len(log)].value /\ auto = (ContentType # Absent)
ExplicitType ==
  /\ ~auto /\ ContentType # Absent
  /\ \E given \in DOMAIN log :
       /\ log[given].op = "header" /\ \A k \in DOMAIN log : k > given => log[k].op = "body"
       /\ \/ /\ \/ log[given].value # Value("multipart", 0)
                \/ \A k \in DOMAIN log : k > given => ~Multipart(k)
             /\ ContentType = log[given].value
          \/ /\ log[given].value = Value("multipart", 0)
             /\ \E part \in DOMAIN log :
                  /\ part > given /\ Multipart(part) /\ ContentType = log[part].value
                  /\ \A k \in DOMAIN log : k > given /\ Multipart(k) => part <= k

\* Where the media type of a request under construction comes from.
BuilderInv ==
  /\ phase = "client" => log = <<>> /\ ~auto
  /\ phase = "building" =>
       /\ NoType \/ AutomaticType \/ ExplicitType
       /\ \A k \in DOMAIN log : Multipart(k) => log[k].value.n # 0
       /\ (log # <<>> /\ Multipart(Len(log))) => ContentType = log[Len(log)].value

IInv ==
  TypeOK /\ UrlInv /\ WireInv /\ ContextInv /\ DraftInv /\ DeadlineInv /\ BuilderInv

-----------------------------------------------------------------------------
(* Requests: their URLs, setters and headers.                              *)

\* Paths, hosts and timeouts a request can have.
LEMMA PathsTyped ==
  ASSUME NEW path \in Paths
  PROVE /\ path.absolute \in BOOLEAN /\ path.host \in Hosts \union {"none"} /\ path.page \in {"p", "q"}
        /\ path.absolute => path.host # "none"
BY PathAssumption

\* The values a header is given.
LEMMA ValuesTyped ==
  /\ {Absent, Value("reset", 0), Value("default", 0), Value("local", 0), Value("multipart", 0)} \subseteq Values
  /\ \A kind \in Typed : Value(kind, 0) \in Values /\ kind \notin {"absent", "multipart"}
  /\ \A boundary \in Boundaries : Value("multipart", boundary) \in Values /\ boundary # 0
  /\ \A k \in 1..MaxAttempts : {Value("injected", k), Value("cursor", k)} \subseteq Values
  /\ NoHeaders \in Headers
<1>1. \A kind \in Typed : kind \notin {"absent", "multipart"} BY TypedAssumption
<1>2. \A boundary \in Boundaries : boundary # 0 BY BoundaryAssumption
<1>. QED BY <1>1, <1>2 DEF Values, Value, Absent, NoHeaders, Headers

\* A request that resolves computes a URL, any other none; the cache, when it is
\* fresh, is what is sent (compute_resolved_url, resolved_base_url).
LEMMA UrlTyped ==
  ASSUME NEW r \in Requests
  PROVE /\ ComputeUrl(r) \in Urls \union {NoUrl}
        /\ Resolvable(r) <=> ComputeUrl(r) # NoUrl
        /\ r.url = ComputeUrl(r) => ResolvedUrl(r) = ComputeUrl(r)
        /\ Resolvable(r) => ComputeUrl(r) = Target(r)
<1>1. /\ r.path \in Paths /\ r.base \in Hosts \union {"none"} /\ r.ipv4 \in BOOLEAN BY DEF Requests
<1>2. /\ r.path.absolute \in BOOLEAN /\ r.path.host \in Hosts \union {"none"} /\ r.path.page \in {"p", "q"}
      /\ r.path.absolute => r.path.host # "none"
  BY <1>1, PathsTyped
<1>3. Resolvable(r) => Target(r) \in Urls /\ Target(r) # NoUrl
  BY <1>1, <1>2 DEF Resolvable, Target, Urls, NoUrl
<1>. QED BY <1>3 DEF ComputeUrl, ResolvedUrl

\* A refreshed request has a fresh URL and is otherwise the same.
LEMMA Refreshed ==
  ASSUME NEW r \in Requests
  PROVE /\ Refresh(r) \in Requests /\ Refresh(r).url = ComputeUrl(Refresh(r))
        /\ Refresh(r).context = r.context /\ Refresh(r).cursor = r.cursor
        /\ Refresh(r).streaming = r.streaming /\ Refresh(r).body = r.body
        /\ Refresh(r).headers = r.headers
<1>1. ComputeUrl(r) \in Urls \union {NoUrl} BY UrlTyped
<1>2. /\ Refresh(r).path = r.path /\ Refresh(r).base = r.base /\ Refresh(r).ipv4 = r.ipv4
      /\ Refresh(r).url = ComputeUrl(r)
  BY DEF Refresh, Requests
<1>3. ComputeUrl(Refresh(r)) = ComputeUrl(r)
  BY <1>2 DEF ComputeUrl, Resolvable, Target
<1>. QED BY <1>1, <1>2, <1>3 DEF Refresh, Requests

\* A request a setter leaves: it has no two bodies and keeps its client and its
\* cursor.  A setter of a built request keeps its URL fresh, too.
Whole(r, e) ==
  /\ e \in Requests /\ (e.streaming => e.body = "empty")
  /\ e.context = r.context /\ e.cursor = r.cursor
Kept(r, e) == Whole(r, e) /\ (r.url = ComputeUrl(r) => e.url = ComputeUrl(e))

\* The header setters.
LEMMA HeaderKept ==
  ASSUME NEW r \in Requests, r.streaming => r.body = "empty", NEW headers \in Headers
  PROVE LET e == [r EXCEPT !.headers = headers] IN Kept(r, e) /\ e.headers = headers
<1>. DEFINE e == [r EXCEPT !.headers = headers]
<1>1. /\ e \in Requests /\ e.headers = headers /\ e.url = r.url
      /\ e.path = r.path /\ e.base = r.base /\ e.ipv4 = r.ipv4
      /\ e.streaming = r.streaming /\ e.body = r.body /\ e.context = r.context /\ e.cursor = r.cursor
  BY DEF Requests
<1>. HIDE DEF e
<1>2. ComputeUrl(e) = ComputeUrl(r) BY <1>1 DEF ComputeUrl, Resolvable, Target
<1>. QED BY <1>1, <1>2 DEF Kept, Whole, e

\* A header setter, as the other setters see it.
LEMMA SetHeaderKept ==
  ASSUME NEW r \in Requests, r.streaming => r.body = "empty", NEW name \in Names, NEW value \in Values
  PROVE /\ Kept(r, SetHeader(r, name, value))
        /\ SetHeader(r, name, value).headers = [r.headers EXCEPT ![name] = value]
<1>1. r.headers \in Headers BY DEF Requests
<1>2. [r.headers EXCEPT ![name] = value] \in Headers BY <1>1 DEF Headers
<1>3. SetHeader(r, name, value) = [r EXCEPT !.headers = [r.headers EXCEPT ![name] = value]]
  BY DEF SetHeader, Requests
<1>. QED BY <1>2, <1>3, HeaderKept

\* The body setters.
LEMMA BodyKept ==
  ASSUME NEW r \in Requests, NEW body \in Bodies, NEW streaming \in BOOLEAN, streaming => body = "empty"
  PROVE LET e == [r EXCEPT !.body = body, !.streaming = streaming] IN Kept(r, e) /\ e.headers = r.headers
<1>. DEFINE e == [r EXCEPT !.body = body, !.streaming = streaming]
<1>1. /\ e \in Requests /\ e.headers = r.headers /\ e.url = r.url
      /\ e.path = r.path /\ e.base = r.base /\ e.ipv4 = r.ipv4
      /\ e.streaming = streaming /\ e.body = body /\ e.context = r.context /\ e.cursor = r.cursor
  BY DEF Requests
<1>. HIDE DEF e
<1>2. ComputeUrl(e) = ComputeUrl(r) BY <1>1 DEF ComputeUrl, Resolvable, Target
<1>. QED BY <1>1, <1>2 DEF Kept, Whole, e

\* SetTimeout, and the edits of path, base URL and IPv4 restriction.
LEMMA TimeoutKept ==
  ASSUME NEW r \in Requests, r.streaming => r.body = "empty", NEW timeout \in Timeouts
  PROVE Kept(r, SetTimeout(r, timeout)) /\ SetTimeout(r, timeout).headers = r.headers
<1>. DEFINE e == SetTimeout(r, timeout)
<1>1. /\ e \in Requests /\ e.url = r.url /\ e.headers = r.headers
      /\ e.path = r.path /\ e.base = r.base /\ e.ipv4 = r.ipv4
      /\ e.streaming = r.streaming /\ e.body = r.body /\ e.context = r.context /\ e.cursor = r.cursor
  BY DEF Requests, SetTimeout
<1>. HIDE DEF e
<1>2. ComputeUrl(e) = ComputeUrl(r) BY <1>1 DEF ComputeUrl, Resolvable, Target
<1>. QED BY <1>1, <1>2 DEF Kept, Whole, e

\* Every edit of a built request, by its owner or an interceptor, keeps it whole.
LEMMA EditedKept ==
  ASSUME NEW r \in Requests, r.streaming => r.body = "empty", NEW e \in Edited(r)
  PROVE Kept(r, e)
<1>1. CASE \E path \in Paths : e = SetPath(r, path)
  <2>1. PICK path \in Paths : e = Refresh([r EXCEPT !.path = path]) BY <1>1 DEF SetPath
  <2>2. LET f == [r EXCEPT !.path = path] IN
          /\ f \in Requests /\ f.streaming = r.streaming /\ f.body = r.body
          /\ f.context = r.context /\ f.cursor = r.cursor
    BY DEF Requests
  <2>. QED BY <2>1, <2>2, Refreshed DEF Kept, Whole
<1>2. CASE \E host \in Bases \union {"none"} : e = SetBaseUrl(r, host)
  <2>1. PICK host \in Hosts \union {"none"} : e = Refresh([r EXCEPT !.base = host])
    BY <1>2, HostAssumption DEF SetBaseUrl
  <2>2. LET f == [r EXCEPT !.base = host] IN
          /\ f \in Requests /\ f.streaming = r.streaming /\ f.body = r.body
          /\ f.context = r.context /\ f.cursor = r.cursor
    BY DEF Requests
  <2>. QED BY <2>1, <2>2, Refreshed DEF Kept, Whole
<1>3. CASE \E enabled \in BOOLEAN : e = SetIpv4Only(r, enabled)
  <2>1. PICK enabled \in BOOLEAN : e = Refresh([r EXCEPT !.ipv4 = enabled]) BY <1>3 DEF SetIpv4Only
  <2>2. LET f == [r EXCEPT !.ipv4 = enabled] IN
          /\ f \in Requests /\ f.streaming = r.streaming /\ f.body = r.body
          /\ f.context = r.context /\ f.cursor = r.cursor
    BY DEF Requests
  <2>. QED BY <2>1, <2>2, Refreshed DEF Kept, Whole
<1>4. CASE \E name \in Names, value \in {Absent, Value("local", 0)} : e = SetHeader(r, name, value)
  <2>1. PICK name \in Names, value \in {Absent, Value("local", 0)} : e = SetHeader(r, name, value)
    BY <1>4
  <2>2. value \in Values BY ValuesTyped
  <2>. QED BY <2>1, <2>2, SetHeaderKept
<1>5. CASE e = ClearHeaders(r)
  BY <1>5, HeaderKept, ValuesTyped DEF ClearHeaders
<1>6. CASE e \in {SetBody(r, "edited"), SetStreamingBody(r)}
  <2>1. "edited" \in Bodies /\ "empty" \in Bodies BY DEF Bodies
  <2>. QED BY <1>6, <2>1, BodyKept DEF SetBody, SetStreamingBody
<1>7. CASE \E timeout \in Timeouts : e = SetTimeout(r, timeout)
  BY <1>7, TimeoutKept
<1>. QED BY <1>1, <1>2, <1>3, <1>4, <1>5, <1>6, <1>7 DEF Edited

\* The tail of the header computation gives every header its layer, from what the
\* injectors left (compute_effective_headers).
LEMMA MergedLayers ==
  ASSUME NEW r \in Requests, NEW headers \in Headers, NEW resume \in Values,
         r.cursor = resume, resume.from \in {"absent", "reset", "cursor"}
  PROVE /\ Merged(r, headers) \in Headers
        /\ \A name \in Names :
             Merged(r, headers)[name] =
               CASE name = "last-event-id" /\ resume.from = "cursor" -> resume
                 [] name = "last-event-id" /\ resume.from = "reset" -> Absent
                 [] OTHER -> IF r.headers[name] # Absent THEN r.headers[name] ELSE headers[name]
<1>. DEFINE own == [name \in Names |-> IF r.headers[name] # Absent THEN r.headers[name] ELSE headers[name]]
<1>1. r.headers \in Headers BY DEF Requests
<1>2. own \in Headers /\ \A name \in Names : own[name] = IF r.headers[name] # Absent THEN r.headers[name] ELSE headers[name]
  BY <1>1 DEF Headers
<1>3. Absent \in Values BY ValuesTyped
<1>4. resume = Absent <=> resume.from = "absent"
  <2>1. CASE resume.from = "absent"
    <3>1. resume.from \notin {"reset", "default", "local", "multipart", "injected", "cursor"} /\ resume.from \notin Typed
      BY <2>1, ValuesTyped
    <3>. QED BY <2>1, <3>1 DEF Values, Value, Absent
  <2>2. CASE resume.from # "absent" BY <2>2 DEF Absent, Value
  <2>. QED BY <2>1, <2>2
<1>. HIDE DEF own
<1>5. Merged(r, headers) = IF resume = Absent THEN own
        ELSE [own EXCEPT !["last-event-id"] = IF resume.from = "cursor" THEN resume ELSE Absent]
  BY DEF Merged, own
<1>6. "last-event-id" \in Names BY DEF Names
<1>7. CASE resume.from = "absent" BY <1>2, <1>4, <1>5, <1>7
<1>8. CASE resume.from # "absent"
  <2>1. Merged(r, headers) = [own EXCEPT !["last-event-id"] = IF resume.from = "cursor" THEN resume ELSE Absent]
    BY <1>4, <1>5, <1>8
  <2>2. Merged(r, headers) \in Headers BY <1>2, <1>3, <2>1 DEF Headers
  <2>3. ASSUME NEW name \in Names
        PROVE Merged(r, headers)[name] =
                IF name = "last-event-id" THEN (IF resume.from = "cursor" THEN resume ELSE Absent) ELSE own[name]
    BY <1>2, <2>1 DEF Headers
  <2>. QED BY <1>2, <1>8, <2>2, <2>3
<1>. QED BY <1>7, <1>8

\* Where the media type comes from is what the properties say it is.
LEMMA TypeIsDeclared ==
  ASSUME log \in Seq([op : {"header", "body"}, value : Values]), NoType \/ AutomaticType \/ ExplicitType
  PROVE ContentType = DeclaredType
<1>. DEFINE given == {i \in DOMAIN log : log[i].op = "header"}
            parts == {i \in DOMAIN log : log[i].op = "body" /\ log[i].value.from = "multipart" /\ i > Max(given)}
<1>1. DOMAIN log = 1..Len(log) /\ Len(log) \in Nat OBVIOUS
<1>2. DeclaredType =
        CASE log = <<>> -> Absent
          [] log # <<>> /\ given = {} -> log[Len(log)].value
          [] OTHER -> IF log[Max(given)].value = Value("multipart", 0) /\ parts # {}
                        THEN log[Min(parts)].value ELSE log[Max(given)].value
  BY DEF DeclaredType
<1>3. CASE NoType BY <1>2, <1>3 DEF NoType
<1>4. CASE AutomaticType
  <2>1. given = {} BY <1>4 DEF AutomaticType
  <2>. HIDE DEF given
  <2>. QED BY <1>2, <1>4, <2>1 DEF AutomaticType
<1>5. CASE ExplicitType
  <2>1. PICK m \in DOMAIN log :
          /\ log[m].op = "header" /\ \A k \in DOMAIN log : k > m => log[k].op = "body"
          /\ \/ /\ \/ log[m].value # Value("multipart", 0)
                   \/ \A k \in DOMAIN log : k > m => ~Multipart(k)
                /\ ContentType = log[m].value
             \/ /\ log[m].value = Value("multipart", 0)
                /\ \E part \in DOMAIN log :
                     /\ part > m /\ Multipart(part) /\ ContentType = log[part].value
                     /\ \A k \in DOMAIN log : k > m /\ Multipart(k) => part <= k
    BY <1>5 DEF ExplicitType
  <2>2. m \in given /\ m \in Nat /\ \A i \in given : i <= m /\ i \in Nat
    <3>1. \A i \in given : i \in Nat /\ ~(i > m) BY <1>1, <2>1
    <3>. QED BY <1>1, <2>1, <3>1
  <2>3. Max(given) = m
    <3>. HIDE DEF given
    <3>1. \A n \in given : (\A i \in given : n >= i) => n = m BY <2>2
    <3>2. \A i \in given : m >= i BY <2>2
    <3>. QED BY <2>2, <3>1, <3>2 DEF Max
  <2>4. log # <<>> /\ given # {} BY <1>1, <2>2
  <2>5. parts = {k \in DOMAIN log : Multipart(k) /\ k > m} BY <2>3 DEF Multipart
  <2>6. DeclaredType = IF log[m].value = Value("multipart", 0) /\ parts # {}
                         THEN log[Min(parts)].value ELSE log[m].value
    <3>. HIDE DEF given, parts
    <3>. QED BY <1>2, <2>3, <2>4
  <2>. HIDE DEF given, parts
  <2>7. CASE /\ \/ log[m].value # Value("multipart", 0)
                \/ \A k \in DOMAIN log : k > m => ~Multipart(k)
             /\ ContentType = log[m].value
    <3>1. log[m].value # Value("multipart", 0) \/ parts = {} BY <2>5, <2>7
    <3>. QED BY <2>6, <2>7, <3>1
  <2>8. ASSUME log[m].value = Value("multipart", 0), NEW p \in DOMAIN log, p > m, Multipart(p),
               ContentType = log[p].value, \A k \in DOMAIN log : k > m /\ Multipart(k) => p <= k
        PROVE ContentType = DeclaredType
    <3>1. p \in parts /\ p \in Nat /\ \A k \in parts : p <= k /\ k \in Nat BY <1>1, <2>5, <2>8
    <3>2. \A n \in parts : (\A k \in parts : n <= k) => n = p BY <3>1
    <3>3. Min(parts) = p BY <3>1, <3>2 DEF Min
    <3>. QED BY <2>6, <2>8, <3>1, <3>3
  <2>. QED BY <2>1, <2>7, <2>8
<1>. QED BY <1>3, <1>4, <1>5

\* All the injectors together leave what the properties say they do.
LEMMA AllInjected ==
  ASSUME NEW name, NEW all, all = snapshot.sync \o snapshot.async, DOMAIN all = 1..Len(all), Len(all) \in Nat,
         InjectedOf(all, Len(all), name)
  PROVE draft[name] = Injected(name)
<1>. DEFINE touching == {i \in DOMAIN all : all[i].name = name}
<1>1. Injected(name) = CASE touching = {} -> snapshot.headers[name]
                         [] touching # {} /\ all[Max(touching)].sets -> Value("injected", attempt)
                         [] OTHER -> Absent
  BY DEF Injected
<1>2. \A i \in touching : i \in Nat OBVIOUS
<1>3. \/ touching = {} /\ draft[name] = snapshot.headers[name]
      \/ \E last \in touching :
           /\ \A i \in touching : i <= last
           /\ draft[name] = IF all[last].sets THEN Value("injected", attempt) ELSE Absent
  BY DEF InjectedOf
<1>. HIDE DEF touching
<1>4. CASE touching = {} BY <1>1, <1>3, <1>4
<1>5. ASSUME NEW last \in touching, \A i \in touching : i <= last,
             draft[name] = IF all[last].sets THEN Value("injected", attempt) ELSE Absent
      PROVE draft[name] = Injected(name)
  <2>1. \A n \in touching : (\A i \in touching : n >= i) => n = last BY <1>2, <1>5
  <2>2. \A i \in touching : last >= i BY <1>2, <1>5
  <2>3. Max(touching) = last BY <1>5, <2>1, <2>2 DEF Max
  <2>. QED BY <1>1, <1>5, <2>3
<1>. QED BY <1>3, <1>4, <1>5

-----------------------------------------------------------------------------
(* The builder.                                                            *)

Logged == [op : {"header", "body"}, value : Values]

\* A log that grows keeps what it had.
LEMMA LogGrows ==
  ASSUME NEW l \in Seq(Logged), NEW e \in Logged
  PROVE /\ Append(l, e) \in Seq(Logged) /\ Append(l, e) # <<>>
        /\ Len(l) \in Nat /\ DOMAIN l = 1..Len(l) /\ (l = <<>> <=> Len(l) = 0)
        /\ Len(Append(l, e)) = Len(l) + 1 /\ DOMAIN Append(l, e) = 1..(Len(l) + 1)
        /\ Append(l, e)[Len(l) + 1] = e /\ \A k \in 1..Len(l) : Append(l, e)[k] = l[k]
<1>. HIDE DEF Logged
<1>1. Append(l, e) \in Seq(Logged) /\ Len(Append(l, e)) = Len(l) + 1 /\ Len(l) \in Nat
      /\ Append(l, e)[Len(l) + 1] = e /\ \A k \in 1..Len(l) : Append(l, e)[k] = l[k]
  OBVIOUS
<1>2. DOMAIN l = 1..Len(l) /\ DOMAIN Append(l, e) = 1..(Len(l) + 1) /\ Append(l, e) # <<>> BY <1>1
<1>3. l = <<>> <=> Len(l) = 0 OBVIOUS
<1>. QED BY <1>1, <1>2, <1>3

\* A media type of the caller's own is the declared one from then on.
LEMMA HeaderDeclares ==
  ASSUME BuilderInv, phase = "building", phase' = "building", log \in Seq(Logged),
         NEW value \in Values \ {Absent}, log' = Append(log, [op |-> "header", value |-> value]),
         ContentType' = value, ~auto'
  PROVE BuilderInv'
<1>. DEFINE e == [op |-> "header", value |-> value]
<1>. PICK last : last = Len(log) + 1 OBVIOUS
<1>1. e \in Logged /\ e.op = "header" /\ e.value = value BY DEF Logged
<1>. HIDE DEF e
<1>2. log' = Append(log, e) BY DEF e
<1>3. /\ Len(log) \in Nat /\ DOMAIN log = 1..Len(log)
      /\ Len(log') = last /\ DOMAIN log' = 1..last /\ log'[last] = e /\ \A k \in 1..Len(log) : log'[k] = log[k]
  BY <1>1, <1>2, LogGrows
<1>4. \A k \in DOMAIN log' : Multipart(k)' => k \in DOMAIN log /\ Multipart(k) /\ log'[k] = log[k]
  <2>1. \A k \in DOMAIN log' : k \in 1..Len(log) \/ k = last BY <1>3
  <2>. QED BY <1>1, <1>3, <2>1 DEF Multipart
<1>5. ExplicitType'
  <2>1. last \in DOMAIN log' /\ \A k \in DOMAIN log' : ~(k > last) BY <1>3
  <2>. QED BY <1>1, <1>3, <2>1 DEF ExplicitType
<1>6. ~Multipart(Len(log))' BY <1>1, <1>3 DEF Multipart
<1>. QED BY <1>4, <1>5, <1>6 DEF BuilderInv

\* A body leaves a media type of the caller's own alone, or completes it with its
\* boundary; any other it replaces (replace_auto_content_type, multipart_body).
LEMMA BodyDeclares ==
  ASSUME BuilderInv, phase = "building", phase' = "building", log \in Seq(Logged), auto \in BOOLEAN,
         NEW type \in Values, log' = Append(log, [op |-> "body", value |-> type]),
         type.from = "multipart" => type.n # 0,
         \/ /\ Explicit /\ ~auto'
            /\ IF type.from = "multipart"
                 THEN ContentType' = type /\ ContentType \in {Value("multipart", 0), type}
                 ELSE ContentType' = ContentType
         \/ ~Explicit /\ ContentType' = type /\ auto' = (type # Absent)
  PROVE BuilderInv'
<1>. DEFINE e == [op |-> "body", value |-> type]
<1>. PICK last : last = Len(log) + 1 OBVIOUS
<1>1. e \in Logged /\ e.op = "body" /\ e.value = type BY DEF Logged
<1>. HIDE DEF e
<1>2. log' = Append(log, e) BY DEF e
<1>3. /\ Len(log) \in Nat /\ DOMAIN log = 1..Len(log) /\ log' # <<>> /\ (log = <<>> <=> Len(log) = 0)
      /\ Len(log') = last /\ DOMAIN log' = 1..last /\ log'[last] = e /\ \A k \in 1..Len(log) : log'[k] = log[k]
  BY <1>1, <1>2, LogGrows
<1>4. /\ \A k \in DOMAIN log : k \in DOMAIN log' /\ k < last /\ (Multipart(k)' <=> Multipart(k))
      /\ Multipart(last)' <=> type.from = "multipart"
      /\ \A k \in DOMAIN log' : k \in DOMAIN log \/ k = last
  <2>1. \A k \in DOMAIN log : k \in DOMAIN log' /\ k < last BY <1>3
  <2>2. \A k \in DOMAIN log' : k \in DOMAIN log \/ k = last BY <1>3
  <2>. QED BY <1>1, <1>3, <2>1, <2>2 DEF Multipart
<1>5. \A k \in DOMAIN log' : Multipart(k)' => log'[k].value.n # 0
  BY <1>1, <1>3, <1>4 DEF BuilderInv
<1>6. Multipart(Len(log))' => ContentType' = log'[Len(log')].value
  BY <1>1, <1>3, <1>4
<1>7. CASE ~Explicit /\ ContentType' = type /\ auto' = (type # Absent)
  <2>1. \A k \in DOMAIN log : log[k].op = "body"
    <3>1. ~ExplicitType BY <1>7 DEF ExplicitType, Explicit
    <3>2. CASE NoType BY <1>3, <3>2 DEF NoType
    <3>3. CASE AutomaticType BY <3>3 DEF AutomaticType
    <3>. QED BY <3>1, <3>2, <3>3 DEF BuilderInv
  <2>2. \A k \in DOMAIN log' : log'[k].op = "body" BY <1>1, <1>3, <1>4, <2>1
  <2>3. AutomaticType' BY <1>1, <1>3, <1>7, <2>2 DEF AutomaticType
  <2>. QED BY <1>5, <1>6, <2>3 DEF BuilderInv
<1>8. CASE /\ Explicit /\ ~auto'
           /\ IF type.from = "multipart"
                THEN ContentType' = type /\ ContentType \in {Value("multipart", 0), type}
                ELSE ContentType' = ContentType
  <2>1. ExplicitType
    <3>1. ~NoType /\ ~AutomaticType BY <1>8 DEF NoType, AutomaticType, Explicit
    <3>. QED BY <3>1 DEF BuilderInv
  <2>2. PICK given \in DOMAIN log :
          /\ log[given].op = "header" /\ \A k \in DOMAIN log : k > given => log[k].op = "body"
          /\ \/ /\ \/ log[given].value # Value("multipart", 0)
                   \/ \A k \in DOMAIN log : k > given => ~Multipart(k)
                /\ ContentType = log[given].value
             \/ /\ log[given].value = Value("multipart", 0)
                /\ \E part \in DOMAIN log :
                     /\ part > given /\ Multipart(part) /\ ContentType = log[part].value
                     /\ \A k \in DOMAIN log : k > given /\ Multipart(k) => part <= k
    BY <2>1 DEF ExplicitType
  <2>3. /\ given \in DOMAIN log' /\ log'[given] = log[given] /\ last > given /\ last \in DOMAIN log'
        /\ log'[given].op = "header" /\ \A k \in DOMAIN log' : k > given => log'[k].op = "body"
    BY <1>1, <1>3, <1>4, <2>2
  <2>4. ContentType # Absent /\ ContentType' # Absent
    <3>1. type.from = "multipart" => type # Absent BY DEF Absent, Value
    <3>. QED BY <1>8, <3>1 DEF Explicit
  <2>5. CASE log[given].value # Value("multipart", 0) /\ ContentType = log[given].value
    <3>1. ContentType' = ContentType BY <1>8, <2>5
    <3>2. ExplicitType' BY <1>8, <2>3, <2>4, <2>5, <3>1 DEF ExplicitType
    <3>. QED BY <1>5, <1>6, <3>2 DEF BuilderInv
  <2>6. CASE /\ log[given].value = Value("multipart", 0) /\ ContentType = log[given].value
             /\ \A k \in DOMAIN log : k > given => ~Multipart(k)
    <3>1. ASSUME type.from = "multipart" PROVE ExplicitType'
      <4>1. \A k \in DOMAIN log' : k > given /\ Multipart(k)' => k = last BY <1>4, <2>6
      <4>2. /\ Multipart(last)' /\ ContentType' = log'[last].value
            /\ \A k \in DOMAIN log' : k > given /\ Multipart(k)' => last <= k
        BY <1>1, <1>3, <1>4, <1>8, <3>1, <4>1
      <4>. QED BY <1>8, <2>3, <2>4, <2>6, <4>2 DEF ExplicitType
    <3>2. ASSUME type.from # "multipart" PROVE ExplicitType'
      <4>1. \A k \in DOMAIN log' : k > given => ~Multipart(k)' BY <1>4, <2>6, <3>2
      <4>2. ContentType' = log'[given].value BY <1>8, <2>3, <2>6, <3>2
      <4>. QED BY <1>8, <2>3, <2>4, <4>1, <4>2 DEF ExplicitType
    <3>3. ExplicitType' BY <3>1, <3>2
    <3>. QED BY <1>5, <1>6, <3>3 DEF BuilderInv
  <2>7. ASSUME log[given].value = Value("multipart", 0), NEW part \in DOMAIN log, part > given, Multipart(part),
               ContentType = log[part].value,
               \A k \in DOMAIN log : k > given /\ Multipart(k) => part <= k
        PROVE BuilderInv'
    <3>1. ContentType # Value("multipart", 0) BY <2>7 DEF BuilderInv, Value
    <3>2. ContentType' = ContentType BY <1>8, <3>1
    <3>3. /\ part \in DOMAIN log' /\ Multipart(part)' /\ ContentType' = log'[part].value
          /\ \A k \in DOMAIN log' : k > given /\ Multipart(k)' => part <= k
      BY <1>3, <1>4, <2>7, <3>2
    <3>4. ExplicitType' BY <1>8, <2>3, <2>4, <2>7, <3>3 DEF ExplicitType
    <3>. QED BY <1>5, <1>6, <3>4 DEF BuilderInv
  <2>. QED BY <2>2, <2>5, <2>6, <2>7
<1>. QED BY <1>7, <1>8

\* What an action on the builder has to show.
LEMMA BuilderStep ==
  ASSUME IInv, phase = "building", UNCHANGED builds, edits' \in 0..(MaxEdits + MaxHelpers),
         Whole(template, template'), log' \in Seq(Logged), auto' \in BOOLEAN, BuilderInv'
  PROVE IInv'
<1>1. /\ TypeOK /\ UrlInv /\ WireInv /\ ContextInv /\ DraftInv /\ DeadlineInv
      /\ UNCHANGED <<options, client, snapshot, phase, request, attempt, token, wanted, draft, next, clock, due,
                     wire, result>>
  BY DEF IInv, builds, clientVars, sendVars
<1>2. TypeOK' BY <1>1 DEF TypeOK, Whole, Logged
<1>3. UrlInv' /\ WireInv' /\ ContextInv' /\ DraftInv' /\ DeadlineInv'
  BY <1>1 DEF UrlInv, WireInv, ContextInv, DraftInv, DeadlineInv, Sends, Attempts, Whole
<1>. QED BY <1>2, <1>3 DEF IInv

\* What is known while a builder is in use.
LEMMA BuildingFacts ==
  ASSUME IInv, Building
  PROVE /\ phase = "building" /\ edits' \in 0..(MaxEdits + MaxHelpers)
        /\ template \in Requests /\ (template.streaming => template.body = "empty")
        /\ log \in Seq(Logged) /\ auto \in BOOLEAN /\ BuilderInv
<1>1. MaxEdits \in Nat /\ MaxHelpers \in Nat /\ edits \in 0..(MaxEdits + MaxHelpers) BY BoundAssumption DEF IInv, TypeOK
<1>. QED BY <1>1 DEF IInv, TypeOK, Building, EditWithin, Logged

\* A setter that leaves the media type alone.
LEMMA OptionKeeps ==
  ASSUME IInv, Building, UNCHANGED <<builds, builderVars>>,
         Whole(template, template'), template'.headers = template.headers
  PROVE IInv'
<1>1. ContentType' = ContentType /\ log' = log /\ auto' = auto /\ phase' = phase
  BY DEF ContentType, builderVars, builds
<1>2. BuilderInv'
  BY <1>1, BuildingFacts DEF BuilderInv, NoType, AutomaticType, ExplicitType, Multipart
<1>. QED BY <1>1, <1>2, BuildingFacts, BuilderStep

\* The body helpers but multipart.
LEMMA GiveBodyKeeps ==
  ASSUME IInv, Building, NEW r, Whole(template, r), r.headers = template.headers,
         NEW type \in Values, type.from # "multipart", GiveBody(r, type)
  PROVE IInv'
<1>0. /\ log' = Append(log, [op |-> "body", value |-> type]) /\ UNCHANGED builds /\ phase' = phase
      /\ r \in Requests /\ (r.streaming => r.body = "empty") /\ "content-type" \in Names
  BY DEF GiveBody, builds, Whole, Names
<1>1. /\ Whole(template, template')
      /\ \/ Explicit /\ ~auto' /\ ContentType' = ContentType
         \/ ~Explicit /\ ContentType' = type /\ auto' = (type # Absent)
  <2>1. CASE Explicit
    <3>1. template' = r /\ auto' = auto BY <2>1 DEF GiveBody
    <3>. QED BY <2>1, <3>1 DEF ContentType, Explicit
  <2>2. CASE ~Explicit
    <3>1. template' = SetHeader(r, "content-type", type) /\ auto' = (type # Absent) BY <2>2 DEF GiveBody
    <3>2. Kept(r, template') /\ template'.headers = [r.headers EXCEPT !["content-type"] = type]
      BY <1>0, <3>1, SetHeaderKept
    <3>3. r.headers \in Headers BY <1>0 DEF Requests
    <3>4. template'.headers["content-type"] = type BY <1>0, <3>2, <3>3 DEF Headers
    <3>5. Whole(template, template') BY <3>2 DEF Kept, Whole
    <3>. QED BY <2>2, <3>1, <3>4, <3>5 DEF ContentType
  <2>. QED BY <2>1, <2>2
<1>2. auto' \in BOOLEAN
  <2>1. CASE Explicit BY <2>1, BuildingFacts DEF GiveBody
  <2>2. CASE ~Explicit BY <2>2 DEF GiveBody
  <2>. QED BY <2>1, <2>2
<1>3. log' \in Seq(Logged)
  <2>1. [op |-> "body", value |-> type] \in Logged BY DEF Logged
  <2>. QED BY <1>0, <2>1, BuildingFacts, LogGrows
<1>4. BuilderInv' BY <1>0, <1>1, BuildingFacts, BodyDeclares
<1>. QED BY <1>0, <1>1, <1>2, <1>3, <1>4, BuildingFacts, BuilderStep

\* Every operation of a builder that leaves one.
LEMMA BuilderKeeps ==
  ASSUME IInv, Builder, ~HelperFails, ~Build
  PROVE IInv'
<1>0. /\ "content-type" \in Names /\ "empty" \in Bodies /\ "opaque" \in Bodies /\ "multipart" \in Bodies
      /\ Typed \subseteq Bodies /\ FALSE \in BOOLEAN /\ TRUE \in BOOLEAN
  BY DEF Names, Bodies
<1>1. CASE BuilderOption
  <2>1. Building /\ UNCHANGED <<builds, builderVars>> BY <1>1 DEF BuilderOption
  <2>2. template \in Requests /\ (template.streaming => template.body = "empty") BY <2>1, BuildingFacts
  <2>3. Whole(template, template') /\ template'.headers = template.headers
    <3>1. CASE \E host \in Bases \union {"none"} : template' = [template EXCEPT !.base = host]
      <4>1. PICK host \in Hosts \union {"none"} : template' = [template EXCEPT !.base = host]
        BY <3>1, HostAssumption
      <4>. QED BY <2>2, <4>1 DEF Requests, Whole
    <3>2. CASE \E enabled \in BOOLEAN : template' = [template EXCEPT !.ipv4 = enabled]
      <4>1. PICK enabled \in BOOLEAN : template' = [template EXCEPT !.ipv4 = enabled] BY <3>2
      <4>. QED BY <2>2, <4>1 DEF Requests, Whole
    <3>3. CASE \E timeout \in Timeouts : template' = SetTimeout(template, timeout)
      BY <2>2, <3>3, TimeoutKept DEF Kept
    <3>. QED BY <1>1, <3>1, <3>2, <3>3 DEF BuilderOption
  <2>. QED BY <2>1, <2>3, OptionKeeps
<1>2. CASE TypedBody
  <2>1. PICK kind \in Typed : GiveBody(SetBody(template, kind), Value(kind, 0)) BY <1>2 DEF TypedBody
  <2>2. Building /\ template \in Requests BY <1>2, BuildingFacts DEF TypedBody
  <2>3. Value(kind, 0) \in Values /\ Value(kind, 0).from # "multipart" BY ValuesTyped DEF Value
  <2>4. kind \in Bodies BY <1>0
  <2>5. Kept(template, SetBody(template, kind)) /\ SetBody(template, kind).headers = template.headers
    BY <2>2, <2>4, BodyKept DEF SetBody
  <2>. QED BY <2>1, <2>2, <2>3, <2>5, GiveBodyKeeps DEF Kept
<1>3. CASE OpaqueBody
  <2>1. PICK r \in {SetBody(template, "opaque"), SetStreamingBody(template)} : GiveBody(r, Absent)
    BY <1>3 DEF OpaqueBody
  <2>2. Building /\ template \in Requests BY <1>3, BuildingFacts DEF OpaqueBody
  <2>3. Absent \in Values /\ Absent.from # "multipart" BY ValuesTyped DEF Value, Absent
  <2>4. Kept(template, r) /\ r.headers = template.headers
    <3>1. CASE r = SetBody(template, "opaque") BY <1>0, <2>2, <3>1, BodyKept DEF SetBody
    <3>2. CASE r = SetStreamingBody(template) BY <1>0, <2>2, <3>2, BodyKept DEF SetStreamingBody
    <3>. QED BY <2>1, <3>1, <3>2
  <2>. QED BY <2>1, <2>2, <2>3, <2>4, GiveBodyKeeps DEF Kept
<1>4. ASSUME NEW name \in Names, NEW value \in Values, value # Absent, BuilderHeader(name, value) PROVE IInv'
  <2>1. /\ Building /\ template \in Requests /\ (template.streaming => template.body = "empty")
        /\ template' = SetHeader(template, name, value) /\ UNCHANGED builds /\ phase' = phase
        /\ log \in Seq(Logged) /\ auto \in BOOLEAN /\ BuilderInv /\ phase = "building"
    BY <1>4, BuildingFacts DEF BuilderHeader, builds
  <2>2. Whole(template, template') /\ template'.headers = [template.headers EXCEPT ![name] = value]
    BY <2>1, SetHeaderKept DEF Kept
  <2>3. template.headers \in Headers BY <2>1 DEF Requests
  <2>4. CASE name = "content-type"
    <3>1. log' = Append(log, [op |-> "header", value |-> value]) /\ ~auto' /\ auto' \in BOOLEAN
      BY <1>4, <2>4 DEF BuilderHeader
    <3>2. ContentType' = value BY <1>0, <2>2, <2>3, <2>4 DEF ContentType, Headers
    <3>3. BuilderInv' BY <1>4, <2>1, <3>1, <3>2, HeaderDeclares
    <3>4. log' \in Seq(Logged)
      <4>1. [op |-> "header", value |-> value] \in Logged BY DEF Logged
      <4>. QED BY <2>1, <3>1, <4>1, LogGrows
    <3>. QED BY <2>1, <2>2, <3>1, <3>3, <3>4, BuildingFacts, BuilderStep
  <2>5. CASE name # "content-type"
    <3>1. log' = log /\ auto' = auto /\ ContentType' = ContentType
      BY <1>0, <1>4, <2>1, <2>2, <2>3, <2>5 DEF BuilderHeader, ContentType, Headers
    <3>2. BuilderInv'
      BY <2>1, <3>1 DEF BuilderInv, NoType, AutomaticType, ExplicitType, Multipart
    <3>. QED BY <2>1, <2>2, <3>1, <3>2, BuildingFacts, BuilderStep
  <2>. QED BY <2>4, <2>5
<1>5. ASSUME NEW boundary \in Boundaries, MultipartBody(boundary) PROVE IInv'
  <2>. DEFINE type == Value("multipart", boundary)
  <2>1. type \in Values /\ type.from = "multipart" /\ type.n # 0 /\ type # Absent
    BY ValuesTyped DEF Value, Absent
  <2>. HIDE DEF type
  <2>2. /\ Building /\ template \in Requests /\ UNCHANGED builds /\ phase' = phase
        /\ Explicit => ContentType \in {Value("multipart", 0), type}
        /\ template' = SetHeader(SetBody(template, "multipart"), "content-type", type)
        /\ auto' = ~Explicit /\ log' = Append(log, [op |-> "body", value |-> type])
    BY <1>5, BuildingFacts DEF MultipartBody, builds, type
  <2>3. Kept(template, SetBody(template, "multipart"))
    BY <1>0, <2>2, BodyKept DEF SetBody
  <2>4. /\ Kept(SetBody(template, "multipart"), template')
        /\ template'.headers = [SetBody(template, "multipart").headers EXCEPT !["content-type"] = type]
    BY <1>0, <2>1, <2>2, <2>3, SetHeaderKept DEF Kept, Whole
  <2>5. SetBody(template, "multipart").headers \in Headers BY <2>3 DEF Kept, Whole, Requests
  <2>6. ContentType' = type BY <1>0, <2>4, <2>5 DEF ContentType, Headers
  <2>7. Whole(template, template') BY <2>3, <2>4 DEF Kept, Whole
  <2>8. auto' \in BOOLEAN /\ (auto' <=> ~Explicit) BY <2>2 DEF Explicit
  <2>9. log' \in Seq(Logged)
    <3>1. [op |-> "body", value |-> type] \in Logged BY <2>1 DEF Logged
    <3>. QED BY <2>2, <3>1, BuildingFacts, LogGrows
  <2>10. \/ Explicit /\ ~auto' /\ ContentType' = type /\ ContentType \in {Value("multipart", 0), type}
         \/ ~Explicit /\ ContentType' = type /\ auto' = (type # Absent)
    BY <2>1, <2>2, <2>6, <2>8
  <2>11. BuilderInv' BY <2>1, <2>2, <2>10, BuildingFacts, BodyDeclares
  <2>. QED BY <2>2, <2>7, <2>8, <2>9, <2>11, BuildingFacts, BuilderStep
<1>6. \A boundary \in Boundaries \union {0} :
        Value("multipart", boundary) \in Values /\ Value("multipart", boundary) # Absent
  BY ValuesTyped DEF Value, Absent
<1>7. Value("local", 0) \in Values /\ Value("local", 0) # Absent BY ValuesTyped DEF Value, Absent
<1>. QED BY <1>0, <1>1, <1>2, <1>3, <1>4, <1>5, <1>6, <1>7 DEF Builder

\* The layers of a header are the same in two states that agree on them.
LEMMA LayersFrame ==
  ASSUME UNCHANGED <<snapshot, attempt>>
  PROVE /\ \A name : Injected(name)' = Injected(name)
        /\ (UNCHANGED <<wanted, request>>) => \A name : Layered(name)' = Layered(name)
<1>1. \A name : Injected(name)' = Injected(name) BY DEF Injected
<1>. QED BY <1>1 DEF Layered

\* So is what is known of the headers under computation.
LEMMA DraftFrame ==
  ASSUME DraftInv, UNCHANGED <<phase, snapshot, request, attempt, wanted, draft, next>>
  PROVE DraftInv'
<1>1. /\ phase = "injecting" =>
         /\ next \in 1..(Len(snapshot.sync \o snapshot.async) + 1)
         /\ \A name \in Names : InjectedBy(next - 1, name)
      /\ phase \in {"resolving", "factory", "sending"} => \A name \in Names : draft[name] = Layered(name)
  BY DEF DraftInv
<1>2. \A k, name : InjectedBy(k, name)' <=> InjectedBy(k, name) BY DEF InjectedBy, InjectedOf
<1>3. \A name : Layered(name)' = Layered(name) BY LayersFrame
<1>. QED BY <1>1, <1>2, <1>3 DEF DraftInv

\* Before and behind the builder: the client, which a builder does not notice, and
\* the request it makes (HttpClient::request, HttpRequest::new).
LEMMA ClientKeeps ==
  ASSUME IInv, ConfigureClient \/ StartBuilder \/ HelperFails \/ Build
  PROVE IInv'
<1>0. /\ TypeOK /\ UrlInv /\ WireInv /\ ContextInv /\ DraftInv /\ DeadlineInv /\ BuilderInv
      /\ template \in Requests /\ (template.streaming => template.body = "empty")
      /\ client \in Clients /\ edits \in 0..(MaxEdits + MaxHelpers) /\ MaxEdits \in Nat /\ MaxHelpers \in Nat
  BY BoundAssumption DEF IInv, TypeOK
<1>1. CASE ConfigureClient
  <2>1. /\ UNCHANGED <<options, snapshot, log, auto, phase, template, request, attempt, token, wanted,
                       draft, next, clock, due, wire, result>>
        /\ edits' \in 0..(MaxEdits + MaxHelpers)
    BY <1>0, <1>1 DEF ConfigureClient, Edit, EditWithin, builderVars, sendVars
  <2>2. client' \in Clients
    <3>1. /\ Value("default", 0) \in Values /\ client.headers \in Headers
          /\ client.sync \in Seq(Injectors) /\ client.async \in Seq(Injectors)
      BY <1>0, ValuesTyped DEF Clients
    <3>2. /\ \A name \in Names : [client.headers EXCEPT ![name] = Value("default", 0)] \in Headers
          /\ \A injector \in Injectors : /\ Append(client.sync, injector) \in Seq(Injectors)
                                         /\ Append(client.async, injector) \in Seq(Injectors)
          /\ <<>> \in Seq(Injectors)
      BY <3>1 DEF Headers
    <3>3. \/ \E headers \in Headers : client' = [client EXCEPT !.headers = headers]
          \/ \E injectors \in Seq(Injectors) : \/ client' = [client EXCEPT !.sync = injectors]
                                               \/ client' = [client EXCEPT !.async = injectors]
      <4>1. ASSUME NEW name \in Names, client' = [client EXCEPT !.headers[name] = Value("default", 0)]
            PROVE client' = [client EXCEPT !.headers = [client.headers EXCEPT ![name] = Value("default", 0)]]
        BY <1>0, <4>1 DEF Clients
      <4>2. ASSUME NEW injector \in Injectors, \/ client' = [client EXCEPT !.sync = Append(@, injector)]
                                               \/ client' = [client EXCEPT !.async = Append(@, injector)]
            PROVE \/ client' = [client EXCEPT !.sync = Append(client.sync, injector)]
                  \/ client' = [client EXCEPT !.async = Append(client.async, injector)]
        BY <1>0, <4>2 DEF Clients
      <4>. QED BY <1>1, <3>2, <4>1, <4>2 DEF ConfigureClient
    <3>. QED BY <1>0, <3>3 DEF Clients
  <2>3. TypeOK' BY <1>0, <2>1, <2>2 DEF TypeOK
  <2>4. UrlInv' /\ WireInv' /\ ContextInv' /\ DeadlineInv' /\ BuilderInv'
    BY <1>0, <2>1 DEF UrlInv, WireInv, ContextInv, DeadlineInv, BuilderInv, NoType, AutomaticType, ExplicitType,
                      Multipart, ContentType
  <2>5. DraftInv' BY <1>0, <2>1, DraftFrame
  <2>. QED BY <2>3, <2>4, <2>5 DEF IInv
<1>2. CASE StartBuilder
  <2>1. /\ UNCHANGED <<options, client, edits, log, auto, request, attempt, token, wanted,
                       draft, next, clock, due, wire, result>>
        /\ phase = "client" /\ phase' = "building" /\ template' = NewBuilder(template.path) /\ snapshot' = client
    BY <1>2 DEF StartBuilder, builderVars, sendVars
  <2>2. /\ template' \in Requests /\ ~template'.streaming /\ template'.context = client /\ template'.cursor = Absent
        /\ ContentType' = Absent
    <3>1. template.path \in Paths BY <1>0 DEF Requests
    <3>2. /\ options.base \in Hosts \union {"none"} /\ options.ipv4 \in BOOLEAN /\ options.sameOrigin \in BOOLEAN
          /\ options.timeout \in Timeouts
      BY <1>0, OptionsAssumption DEF TypeOK
    <3>3. NoHeaders \in Headers /\ Absent \in Values /\ "empty" \in Bodies BY ValuesTyped DEF Bodies
    <3>4. template' \in Requests
      BY <1>0, <2>1, <3>1, <3>2, <3>3 DEF NewBuilder, Requests
    <3>. QED BY <2>1, <3>4 DEF NewBuilder, ContentType, NoHeaders, Names
  <2>3. TypeOK' BY <1>0, <2>1, <2>2 DEF TypeOK
  <2>4. UrlInv' /\ WireInv' /\ ContextInv' /\ DraftInv' /\ DeadlineInv'
    BY <1>0, <2>1, <2>2 DEF UrlInv, WireInv, ContextInv, DraftInv, DeadlineInv, Sends, Attempts
  <2>5. BuilderInv' BY <1>0, <2>1, <2>2 DEF BuilderInv, NoType, Multipart
  <2>. QED BY <2>3, <2>4, <2>5 DEF IInv
<1>3. CASE HelperFails \/ Build
  <2>1. /\ UNCHANGED <<options, client, snapshot, edits, auto, request, attempt, token, wanted,
                       draft, next, clock, due, wire, result>>
        /\ phase = "building" /\ phase' \in {"failed", "owned"} /\ log' \in {log, <<>>}
        /\ IF phase' = "owned" THEN template' = Refresh(template) ELSE template' = template
    BY <1>3 DEF HelperFails, Build, clientVars, builderVars, sendVars
  <2>2. /\ Whole(template, template')
        /\ phase' = "owned" => template'.url = ComputeUrl(template')
    BY <1>0, <2>1, Refreshed DEF Whole
  <2>3. TypeOK'
    <3>1. log' \in Seq([op : {"header", "body"}, value : Values])
      <4>1. <<>> \in Seq([op : {"header", "body"}, value : Values]) OBVIOUS
      <4>. QED BY <1>0, <2>1, <4>1 DEF TypeOK
    <3>. QED BY <1>0, <2>1, <2>2, <3>1 DEF TypeOK, Whole
  <2>4. UrlInv' /\ WireInv' /\ ContextInv' /\ DraftInv' /\ DeadlineInv' /\ BuilderInv'
    BY <1>0, <2>1, <2>2 DEF UrlInv, WireInv, ContextInv, DraftInv, DeadlineInv, BuilderInv, Sends, Attempts, Whole
  <2>. QED BY <2>3, <2>4 DEF IInv
<1>. QED BY <1>1, <1>2, <1>3

-----------------------------------------------------------------------------
(* The owner's edits, and an attempt up to its send.                       *)

\* Two requests that agree on what the URL depends on.
LEMMA SameUrl ==
  ASSUME NEW r, NEW e, e.path = r.path, e.base = r.base, e.ipv4 = r.ipv4, e.url = r.url,
         e.sameOrigin = r.sameOrigin
  PROVE /\ ComputeUrl(e) = ComputeUrl(r) /\ (Resolvable(e) <=> Resolvable(r)) /\ Target(e) = Target(r)
        /\ OriginAllows(e) <=> OriginAllows(r)
BY DEF ComputeUrl, Resolvable, Target, OriginAllows, ResolvedUrl

\* Outside a send nothing is on the wire and no time is kept.
LEMMA EditsKeep ==
  ASSUME IInv, OwnerEdits \/ StartAttempt \/ InterceptorEdits
  PROVE IInv'
<1>0. /\ TypeOK /\ UrlInv /\ WireInv /\ ContextInv /\ DeadlineInv
      /\ template \in Requests /\ (template.streaming => template.body = "empty")
      /\ request \in Requests /\ (request.streaming => request.body = "empty")
      /\ edits \in 0..(MaxEdits + MaxHelpers) /\ MaxEdits \in Nat /\ MaxHelpers \in Nat
      /\ phase \in {"owned", "attempt"} /\ phase' \in {"owned", "attempt"}
      /\ UNCHANGED <<options, client, snapshot, log, auto, draft, next, clock, due, wire>>
  BY BoundAssumption DEF IInv, TypeOK, OwnerEdits, StartAttempt, InterceptorEdits, clientVars, builderVars, sendVars
<1>1. DraftInv' /\ DeadlineInv' /\ BuilderInv' /\ WireInv'
  BY <1>0 DEF DraftInv, DeadlineInv, BuilderInv, WireInv, Sends
<1>2. CASE OwnerEdits
  <2>1. /\ UNCHANGED <<phase, request, attempt, token, wanted, result>> /\ phase = "owned"
        /\ edits' \in 0..(MaxEdits + MaxHelpers) /\ Kept(template, template')
    BY <1>0, <1>2, EditedKept DEF OwnerEdits, Edit, EditWithin
  <2>2. TypeOK' BY <1>0, <2>1 DEF TypeOK, Kept, Whole
  <2>3. UrlInv' /\ ContextInv' BY <1>0, <2>1 DEF UrlInv, ContextInv, Sends, Attempts, Kept, Whole
  <2>. QED BY <1>1, <2>2, <2>3 DEF IInv
<1>3. CASE InterceptorEdits
  <2>1. /\ UNCHANGED <<phase, template, attempt, token, wanted, result>> /\ phase = "attempt"
        /\ edits' \in 0..(MaxEdits + MaxHelpers) /\ Kept(request, request')
    BY <1>0, <1>3, EditedKept DEF InterceptorEdits, Edit, EditWithin
  <2>2. TypeOK' BY <1>0, <2>1 DEF TypeOK, Kept, Whole
  <2>3. UrlInv' /\ ContextInv' BY <1>0, <2>1 DEF UrlInv, ContextInv, Sends, Attempts, Kept, Whole
  <2>. QED BY <1>1, <2>2, <2>3 DEF IInv
<1>4. CASE StartAttempt
  <2>1. /\ UNCHANGED <<edits, template>> /\ phase = "owned" /\ phase' = "attempt"
        /\ attempt' = attempt + 1 /\ attempt' \in 1..MaxAttempts /\ token' = "live" /\ result' = "none"
        /\ template.url = ComputeUrl(template) /\ template.cursor = Absent /\ template.context = snapshot
    BY <1>0, <1>4, BoundAssumption DEF StartAttempt, TypeOK, UrlInv, ContextInv
  <2>. DEFINE resumed(id, value) == [template EXCEPT !.cursor = id, !.headers["last-event-id"] = value]
  <2>2. ASSUME NEW id \in Values, NEW value \in Values
        PROVE LET e == resumed(id, value) IN
                /\ e \in Requests /\ e.cursor = id /\ e.context = snapshot /\ (e.streaming => e.body = "empty")
                /\ e.url = ComputeUrl(e)
    <3>. DEFINE e == resumed(id, value)
    <3>1. template.headers \in Headers BY <1>0 DEF Requests
    <3>2. [template.headers EXCEPT !["last-event-id"] = value] \in Headers BY <3>1 DEF Headers
    <3>3. e = [template EXCEPT !.cursor = id, !.headers = [template.headers EXCEPT !["last-event-id"] = value]]
      BY <1>0 DEF Requests
    <3>4. /\ e \in Requests /\ e.cursor = id /\ e.context = template.context
          /\ e.streaming = template.streaming /\ e.body = template.body
          /\ e.path = template.path /\ e.base = template.base /\ e.ipv4 = template.ipv4 /\ e.url = template.url
          /\ e.sameOrigin = template.sameOrigin
      BY <1>0, <3>2, <3>3 DEF Requests
    <3>. HIDE DEF e
    <3>5. ComputeUrl(e) = ComputeUrl(template) BY <3>4, SameUrl
    <3>6. e \in Requests /\ e.cursor = id /\ e.context = snapshot /\ (e.streaming => e.body = "empty")
          /\ e.url = ComputeUrl(e)
      BY <1>0, <2>1, <3>4, <3>5
    <3>. QED BY <3>6 DEF e
  <2>3. /\ Absent \in Values /\ Value("reset", 0) \in Values /\ Value("cursor", attempt') \in Values
        /\ Absent.from = "absent" /\ Value("reset", 0).from = "reset" /\ Value("cursor", attempt').from = "cursor"
    BY <2>1, ValuesTyped DEF Value, Absent
  <2>4. \/ request' = template /\ wanted' = Absent
        \/ request' = resumed(Value("reset", 0), Absent) /\ wanted' = Value("reset", 0)
        \/ request' = resumed(wanted', wanted') /\ wanted' = Value("cursor", attempt')
    BY <1>4 DEF StartAttempt, SuppressCursor, SetCursor
  <2>. HIDE DEF resumed
  <2>5. /\ request' \in Requests /\ (request'.streaming => request'.body = "empty") /\ wanted' \in Values
        /\ request'.cursor = wanted' /\ request'.context = snapshot /\ request'.url = ComputeUrl(request')
        /\ wanted'.from \in {"absent", "reset", "cursor"}
    <3>1. CASE request' = template /\ wanted' = Absent BY <1>0, <2>1, <2>3, <3>1
    <3>2. CASE request' = resumed(Value("reset", 0), Absent) /\ wanted' = Value("reset", 0) BY <2>2, <2>3, <3>2
    <3>3. CASE request' = resumed(wanted', wanted') /\ wanted' = Value("cursor", attempt') BY <2>2, <2>3, <3>3
    <3>. QED BY <2>4, <3>1, <3>2, <3>3
  <2>6. attempt' \in 0..MaxAttempts /\ attempt' >= 1 BY <2>1, BoundAssumption
  <2>7. TypeOK' BY <1>0, <2>1, <2>5, <2>6 DEF TypeOK
  <2>8. UrlInv' /\ ContextInv' BY <1>0, <2>1, <2>5, <2>6 DEF UrlInv, ContextInv, Sends, Attempts
  <2>. QED BY <1>1, <2>7, <2>8 DEF IInv
<1>. QED BY <1>2, <1>3, <1>4

-----------------------------------------------------------------------------
(* A send (send_impl).                                                     *)

\* What is known while an attempt lasts.
LEMMA AttemptFacts ==
  ASSUME IInv, phase \in Attempts
  PROVE /\ request \in Requests /\ (request.streaming => request.body = "empty")
        /\ request.url = ComputeUrl(request) /\ ResolvedUrl(request) = ComputeUrl(request)
        /\ request.context = snapshot /\ request.cursor = wanted /\ wanted \in Values
        /\ wanted.from \in {"absent", "reset", "cursor"} /\ attempt \in 1..MaxAttempts
        /\ request.timeout \in Nat /\ clock \in Nat /\ draft \in Headers
        /\ InjectorsOf(request) = snapshot.sync \o snapshot.async
        /\ InjectorsOf(request) \in Seq(Injectors)
<1>1. /\ request \in Requests /\ (request.streaming => request.body = "empty") /\ wanted \in Values
      /\ clock \in Nat /\ draft \in Headers /\ attempt \in 0..MaxAttempts /\ snapshot \in Clients
  BY DEF IInv, TypeOK
<1>2. /\ request.url = ComputeUrl(request) /\ request.context = snapshot /\ request.cursor = wanted
      /\ wanted.from \in {"absent", "reset", "cursor"} /\ attempt >= 1
  BY DEF IInv, UrlInv, ContextInv
<1>3. ResolvedUrl(request) = ComputeUrl(request) BY <1>1, <1>2, UrlTyped
<1>4. request.timeout \in Nat BY <1>1, BoundAssumption DEF Requests
<1>5. snapshot.sync \in Seq(Injectors) /\ snapshot.async \in Seq(Injectors) BY <1>1 DEF Clients
<1>6. attempt \in 1..MaxAttempts BY <1>1, <1>2, BoundAssumption
<1>. QED BY <1>1, <1>2, <1>3, <1>4, <1>5, <1>6 DEF InjectorsOf

\* An attempt that ends leaves nothing behind.
LEMMA FinishKeeps ==
  ASSUME IInv, phase \in Attempts,
         NEW how \in {"sent", "Injector", "InvalidUrl", "OriginPolicy", "Transport", "Timeout", "Cancelled"},
         Finish(how)
  PROVE IInv'
<1>1. /\ TypeOK /\ template.url = ComputeUrl(template)
      /\ template.context = snapshot /\ template.cursor = Absent
  BY DEF IInv, UrlInv, ContextInv, Attempts
<1>2. /\ UNCHANGED <<options, client, snapshot, edits, log, auto, template, attempt, wanted>>
      /\ phase' = "owned" /\ result' = how /\ request' = template /\ token' = "none" /\ wire' = NoWire
      /\ draft' = NoHeaders /\ next' = 1 /\ clock' = 0 /\ due' = 0
  BY DEF Finish, sends, clientVars, builderVars
<1>3. TypeOK'
  <2>1. NoHeaders \in Headers /\ "empty" \in Bodies BY ValuesTyped DEF Bodies
  <2>2. NoWire \in [url : Urls \union {NoUrl}, headers : Headers, body : Bodies \union {"stream"}]
    BY <2>1 DEF NoWire
  <2>. QED BY <1>1, <1>2, <2>1, <2>2 DEF TypeOK
<1>4. UrlInv' /\ WireInv' /\ ContextInv' /\ DraftInv' /\ DeadlineInv' /\ BuilderInv'
  BY <1>1, <1>2 DEF UrlInv, WireInv, ContextInv, DraftInv, DeadlineInv, BuilderInv, Sends, Attempts
<1>. QED BY <1>3, <1>4 DEF IInv

\* A token that fires, and a tick, leave everything else as it was.
LEMMA TokenKeeps == ASSUME IInv, Cancel \/ Tick PROVE IInv'
<1>1. /\ UNCHANGED <<options, client, snapshot, edits, log, auto, phase, template, request, attempt, wanted,
                     draft, next, due, wire, result>>
      /\ \/ token' = "cancelled" /\ clock' = clock
         \/ token' = token /\ phase \in Sends /\ clock < due /\ clock' = clock + 1
      /\ TypeOK /\ DraftInv /\ DeadlineInv
  BY DEF IInv, Cancel, Tick, Pending, Sends, sends, clientVars, builderVars, sendVars
<1>2. TypeOK' BY <1>1 DEF TypeOK
<1>3. UrlInv' /\ WireInv' /\ ContextInv' BY <1>1 DEF IInv, UrlInv, WireInv, ContextInv
<1>4. BuilderInv'
  BY <1>1 DEF IInv, BuilderInv, NoType, AutomaticType, ExplicitType, Multipart, ContentType
<1>5. DraftInv' BY <1>1, DraftFrame
<1>6. DeadlineInv'
  <2>1. clock \in Nat /\ due \in Nat BY <1>1 DEF TypeOK
  <2>. QED BY <1>1, <2>1 DEF DeadlineInv
<1>. QED BY <1>2, <1>3, <1>4, <1>5, <1>6 DEF IInv

\* The send begins with the defaults of the snapshot, and each injector adds its
\* layer.
LEMMA InjectingKeeps == ASSUME IInv, BeginSend \/ Inject PROVE IInv'
<1>0. /\ TypeOK /\ UrlInv /\ WireInv /\ ContextInv /\ DraftInv /\ DeadlineInv
      /\ UNCHANGED <<options, client, snapshot, edits, log, auto, template, request, attempt, token, wanted,
                     wire, result>>
      /\ phase \in {"attempt", "injecting"} /\ phase' = "injecting"
  BY DEF IInv, BeginSend, Inject, sends, clientVars, builderVars
<1>all. PICK all : all = snapshot.sync \o snapshot.async OBVIOUS
<1>1. /\ request \in Requests /\ request.context = snapshot /\ ResolvedUrl(request) = ComputeUrl(request)
      /\ InjectorsOf(request) = all /\ all \in Seq(Injectors) /\ Len(all) \in Nat
      /\ attempt \in 1..MaxAttempts /\ request.timeout \in Nat /\ draft \in Headers
  <2>1. phase \in Attempts BY <1>0 DEF Attempts, Sends
  <2>2. snapshot.sync \o snapshot.async = InjectorsOf(request) /\ all = InjectorsOf(request)
    BY <1>all, <2>1, AttemptFacts
  <2>. QED BY <2>1, <2>2, AttemptFacts
<1>inj. \A k, name : /\ InjectedBy(k, name) <=> InjectedOf(all, k, name)
                     /\ InjectedBy(k, name)' <=> InjectedOf(all, k, name)'
  BY <1>0, <1>all DEF InjectedBy
<1>len. DraftInv /\ phase = "injecting" => next \in 1..(Len(all) + 1)
  BY <1>all DEF DraftInv
<1>2. WireInv' /\ ContextInv' /\ BuilderInv'
  BY <1>0 DEF WireInv, ContextInv, BuilderInv, Attempts, Sends
<1>3. CASE BeginSend
  <2>1. /\ draft' = snapshot.headers /\ next' = 1 /\ clock' = 0 /\ due' = request.timeout
        /\ Resolvable(request)
    BY <1>1, <1>3, UrlTyped DEF BeginSend
  <2>2. TypeOK' BY <1>0, <1>1, <2>1 DEF TypeOK, Clients
  <2>3. UrlInv' BY <1>0, <2>1 DEF UrlInv, Attempts, Sends
  <2>4. DraftInv'
    <3>1. \A name : InjectedOf(all, 0, name)' BY <1>0, <2>1 DEF InjectedOf
    <3>2. next' \in 1..(Len(all) + 1) /\ next' - 1 = 0 BY <1>1, <2>1
    <3>3. Len((snapshot.sync \o snapshot.async)') = Len(all) BY <1>0, <1>all
    <3>4. \A name \in Names : InjectedBy(next - 1, name)' BY <1>inj, <3>1, <3>2
    <3>. QED BY <1>0, <3>2, <3>3, <3>4 DEF DraftInv
  <2>5. DeadlineInv' BY <1>0, <1>1, <2>1 DEF DeadlineInv, Sends
  <2>. QED BY <1>2, <2>2, <2>3, <2>4, <2>5 DEF IInv
<1>4. CASE Inject
  <2>1. /\ phase = "injecting" /\ next' = next + 1 /\ UNCHANGED <<clock, due>> /\ next <= Len(all)
        /\ next \in 1..Len(all) /\ next - 1 \in Nat
        /\ draft' = [draft EXCEPT ![all[next].name] =
                       IF all[next].sets THEN Value("injected", attempt) ELSE Absent]
    BY <1>0, <1>1, <1>len, <1>4 DEF Inject
  <2>2. all[next] \in Injectors BY <1>1, <2>1, ElementOfSeq
  <2>3. all[next].name \in Names /\ all[next].sets \in BOOLEAN BY <2>2, InjectorAssumption
  <2>. PICK value \in Values : value = IF all[next].sets THEN Value("injected", attempt) ELSE Absent
    BY <1>1, ValuesTyped
  <2>4. /\ draft' \in Headers /\ draft'[all[next].name] = value
        /\ \A name \in Names : name # all[next].name => draft'[name] = draft[name]
    BY <1>1, <2>1, <2>3 DEF Headers
  <2>5. TypeOK' BY <1>0, <2>1, <2>4 DEF TypeOK
  <2>6. UrlInv' /\ DeadlineInv' BY <1>0, <2>1 DEF UrlInv, DeadlineInv, Attempts, Sends
  <2>7. DraftInv'
    <3>1. ASSUME NEW name \in Names PROVE InjectedBy(next - 1, name)'
      <4>. PICK k : k = next OBVIOUS
      <4>. DEFINE before == {i \in 1..(k - 1) : all[i].name = name}
                  touching == {i \in 1..k : all[i].name = name}
      <4>1. InjectedBy(k - 1, name) BY <1>0, <2>1 DEF DraftInv
      <4>2. \/ before = {} /\ draft[name] = snapshot.headers[name]
            \/ \E last \in before :
                 /\ \A i \in before : i <= last
                 /\ draft[name] = IF all[last].sets THEN Value("injected", attempt) ELSE Absent
        BY <1>inj, <4>1 DEF InjectedOf
      <4>3. \/ touching = {} /\ draft'[name] = snapshot.headers[name]
            \/ \E last \in touching :
                 /\ \A i \in touching : i <= last
                 /\ draft'[name] = IF all[last].sets THEN Value("injected", attempt) ELSE Absent
        <5>1. CASE all[k].name = name
          <6>1. k \in touching /\ \A i \in touching : i <= k BY <2>1, <5>1
          <6>2. draft'[name] = IF all[k].sets THEN Value("injected", attempt) ELSE Absent BY <2>4, <5>1
          <6>. QED BY <6>1, <6>2
        <5>2. CASE all[k].name # name
          <6>1. touching = before BY <2>1, <5>2
          <6>2. draft'[name] = draft[name] BY <2>4, <5>2
          <6>. HIDE DEF touching, before
          <6>. QED BY <4>2, <6>1, <6>2
        <5>. QED BY <5>1, <5>2
      <4>4. InjectedOf(all, k, name)' BY <1>0, <4>3 DEF InjectedOf
      <4>5. (next - 1)' = k BY <2>1
      <4>. QED BY <1>inj, <4>4, <4>5
    <3>2. next' \in 1..(Len(all) + 1) BY <1>1, <2>1
    <3>3. Len((snapshot.sync \o snapshot.async)') = Len(all) BY <1>0, <1>all
    <3>. QED BY <1>0, <3>1, <3>2, <3>3 DEF DraftInv
  <2>. QED BY <1>2, <2>5, <2>6, <2>7 DEF IInv
<1>. QED BY <1>3, <1>4

\* The last layers, and the headers are what they should be.
LEMMA HeadersKeep == ASSUME IInv, HeadersReady PROVE IInv'
<1>0. /\ TypeOK /\ UrlInv /\ WireInv /\ ContextInv /\ DraftInv /\ DeadlineInv
      /\ UNCHANGED <<options, client, snapshot, edits, log, auto, template, request, attempt, token, wanted,
                     next, clock, due, wire, result>>
      /\ phase = "injecting" /\ phase' = "resolving" /\ draft' = Merged(request, draft)
  BY DEF IInv, HeadersReady, sends, clientVars, builderVars
<1>all. PICK all : all = snapshot.sync \o snapshot.async OBVIOUS
<1>1. /\ request \in Requests /\ request.cursor = wanted /\ wanted \in Values
      /\ wanted.from \in {"absent", "reset", "cursor"} /\ draft \in Headers
      /\ InjectorsOf(request) = all /\ all \in Seq(Injectors) /\ Len(all) \in Nat /\ DOMAIN all = 1..Len(all)
  <2>1. phase \in Attempts BY <1>0 DEF Attempts, Sends
  <2>2. all = InjectorsOf(request) BY <1>all, <2>1, AttemptFacts
  <2>3. all \in Seq(Injectors) BY <2>1, <2>2, AttemptFacts
  <2>4. Len(all) \in Nat /\ DOMAIN all = 1..Len(all) BY <2>3
  <2>. QED BY <2>1, <2>2, <2>3, <2>4, AttemptFacts
<1>2. next \in 1..(Len(all) + 1) /\ \A name \in Names : InjectedOf(all, next - 1, name)
  BY <1>0, <1>all DEF DraftInv, InjectedBy
<1>3. \A name \in Names : draft[name] = Injected(name)
  <2>1. next - 1 = Len(all)
    <3>1. next > Len(all) BY <1>1 DEF HeadersReady
    <3>. HIDE DEF InjectedOf
    <3>. QED BY <1>1, <1>2, <3>1
  <2>2. \A name \in Names : InjectedOf(all, Len(all), name) BY <1>2, <2>1
  <2>. QED BY <1>1, <1>all, <2>2, AllInjected
<1>4. /\ draft' \in Headers
      /\ \A name \in Names :
           draft'[name] = CASE name = "last-event-id" /\ wanted.from = "cursor" -> wanted
                            [] name = "last-event-id" /\ wanted.from = "reset" -> Absent
                            [] OTHER -> IF request.headers[name] # Absent THEN request.headers[name] ELSE draft[name]
  BY <1>0, <1>1, MergedLayers
<1>5. \A name \in Names : draft'[name] = Layered(name) BY <1>3, <1>4 DEF Layered
<1>6. \A name : Layered(name)' = Layered(name) BY <1>0, LayersFrame
<1>7. TypeOK' BY <1>0, <1>4 DEF TypeOK
<1>8. UrlInv' /\ WireInv' /\ ContextInv' /\ DeadlineInv' /\ BuilderInv'
  BY <1>0 DEF UrlInv, WireInv, ContextInv, DeadlineInv, BuilderInv, Attempts, Sends
<1>9. DraftInv' BY <1>0, <1>5, <1>6 DEF DraftInv
<1>. QED BY <1>7, <1>8, <1>9 DEF IInv

\* The request goes to the backend, whose body is taken unless it is streamed.
LEMMA HandOverKeeps ==
  ASSUME IInv, phase \in {"resolving", "factory"}, OriginAllows(request),
         NEW body \in Bodies \union {"stream"}, HandOver(body)
  PROVE IInv'
<1>0. /\ TypeOK /\ UrlInv /\ WireInv /\ ContextInv /\ DraftInv /\ DeadlineInv /\ phase \in Attempts /\ phase \in Sends
      /\ UNCHANGED <<options, client, snapshot, edits, log, auto, template, attempt, token, wanted, draft, next,
                     clock, result>>
      /\ phase' = "sending" /\ due' = clock + StageTimeout
      /\ wire' = [url |-> ResolvedUrl(request), headers |-> draft, body |-> body]
      /\ request' = IF request.streaming THEN request ELSE [request EXCEPT !.body = "empty"]
  BY DEF IInv, HandOver, sends, clientVars, builderVars, Attempts, Sends
<1>1. /\ request \in Requests /\ (request.streaming => request.body = "empty")
      /\ request.url = ComputeUrl(request) /\ ResolvedUrl(request) = ComputeUrl(request)
      /\ request.timeout \in Nat /\ clock \in Nat /\ draft \in Headers
  BY <1>0, AttemptFacts
<1>2. /\ request' \in Requests /\ (request'.streaming => request'.body = "empty")
      /\ request'.headers = request.headers /\ request'.timeout = request.timeout
      /\ request'.context = request.context /\ request'.cursor = request.cursor
      /\ request'.path = request.path /\ request'.base = request.base /\ request'.ipv4 = request.ipv4
      /\ request'.sameOrigin = request.sameOrigin /\ request'.url = request.url
  <2>1. "empty" \in Bodies BY DEF Bodies
  <2>. QED BY <1>0, <1>1, <2>1 DEF Requests
<1>3. /\ ComputeUrl(request') = ComputeUrl(request) /\ (Resolvable(request') <=> Resolvable(request))
      /\ Target(request') = Target(request) /\ (OriginAllows(request') <=> OriginAllows(request))
  BY <1>2, SameUrl
<1>4. Resolvable(request) /\ ResolvedUrl(request) = Target(request) /\ ResolvedUrl(request) \in Urls \union {NoUrl}
  <2>1. Resolvable(request) BY <1>0 DEF UrlInv
  <2>. QED BY <1>1, <2>1, UrlTyped
<1>5. clock <= request.timeout /\ due' = request.timeout
  <2>1. clock <= request.timeout BY <1>0 DEF DeadlineInv
  <2>2. StageTimeout \in Nat /\ clock + StageTimeout = request.timeout BY <1>1, <2>1 DEF StageTimeout
  <2>. QED BY <1>0, <2>1, <2>2
<1>6. TypeOK' BY <1>0, <1>1, <1>2, <1>4, <1>5 DEF TypeOK
<1>7. UrlInv' BY <1>0, <1>1, <1>2, <1>3, <1>4 DEF UrlInv, Attempts, Sends
<1>8. WireInv' BY <1>0, <1>3, <1>4 DEF WireInv
<1>9. ContextInv' BY <1>0, <1>2 DEF ContextInv, Attempts, Sends
<1>10. DraftInv'
  <2>1. \A name : Layered(name)' = Layered(name)
    <3>1. \A name : Injected(name)' = Injected(name) BY <1>0, LayersFrame
    <3>. QED BY <1>0, <1>2, <3>1 DEF Layered
  <2>2. \A name \in Names : draft[name] = Layered(name)
    <3>1. CASE phase = "resolving" BY <1>0, <3>1 DEF DraftInv
    <3>2. CASE phase = "factory" BY <1>0, <3>2 DEF DraftInv
    <3>. QED BY <3>1, <3>2
  <2>. QED BY <1>0, <2>1, <2>2 DEF DraftInv
<1>11. DeadlineInv' BY <1>0, <1>2, <1>5 DEF DeadlineInv, Sends
<1>12. BuilderInv' BY <1>0 DEF BuilderInv
<1>. QED BY <1>6, <1>7, <1>8, <1>9, <1>10, <1>11, <1>12 DEF IInv

\* The origin policy is checked before the body's factory is asked, and what it
\* lets through is sent.
LEMMA ResolvedKeeps == ASSUME IInv, Resolved \/ FactoryReady PROVE IInv'
<1>1. CASE FactoryReady
  <2>1. phase = "factory" /\ OriginAllows(request) BY <1>1 DEF FactoryReady, IInv, UrlInv
  <2>. QED BY <1>1, <2>1, HandOverKeeps DEF FactoryReady
<1>2. CASE Resolved /\ ~request.streaming
  <2>1. phase = "resolving" /\ OriginAllows(request) /\ HandOver(request.body) BY <1>2 DEF Resolved
  <2>2. request.body \in Bodies BY DEF IInv, TypeOK, Requests
  <2>. QED BY <2>1, <2>2, HandOverKeeps
<1>3. CASE Resolved /\ request.streaming
  <2>1. /\ phase = "resolving" /\ phase' = "factory" /\ due' = clock + StageTimeout /\ OriginAllows(request)
        /\ UNCHANGED <<options, client, snapshot, edits, log, auto, template, request, attempt, token, wanted,
                       draft, next, clock, wire, result>>
        /\ TypeOK /\ UrlInv /\ WireInv /\ ContextInv /\ DraftInv /\ DeadlineInv
    BY <1>3 DEF Resolved, IInv, sends, clientVars, builderVars
  <2>2. request.timeout \in Nat /\ clock \in Nat BY <2>1, AttemptFacts DEF Attempts, Sends
  <2>3. clock <= request.timeout /\ due' = request.timeout
    <3>1. clock <= request.timeout BY <2>1 DEF DeadlineInv, Sends
    <3>2. clock + StageTimeout = request.timeout BY <2>2, <3>1 DEF StageTimeout
    <3>. QED BY <2>1, <3>1, <3>2
  <2>4. TypeOK' BY <2>1, <2>2, <2>3 DEF TypeOK
  <2>5. UrlInv' /\ WireInv' /\ ContextInv' /\ DeadlineInv' /\ BuilderInv'
    BY <2>1, <2>3 DEF UrlInv, WireInv, ContextInv, DeadlineInv, BuilderInv, Attempts, Sends
  <2>6. DraftInv'
    <3>1. \A name : Layered(name)' = Layered(name) BY <2>1, LayersFrame
    <3>2. \A name \in Names : draft[name] = Layered(name) BY <2>1 DEF DraftInv
    <3>. QED BY <2>1, <3>1, <3>2 DEF DraftInv
  <2>. QED BY <2>4, <2>5, <2>6 DEF IInv
<1>. QED BY <1>1, <1>2, <1>3

\* Every step of a send.
LEMMA SendKeeps == ASSUME IInv, Send PROVE IInv'
<1>1. CASE BeginSend \/ Inject BY <1>1, InjectingKeeps
<1>2. CASE HeadersReady BY <1>2, HeadersKeep
<1>3. CASE Resolved \/ FactoryReady BY <1>3, ResolvedKeeps
<1>4. CASE InjectorFails \/ Unresolvable \/ OriginRefused \/ Answered \/ TransportFails \/ TimesOut \/ CancelSeen
  <2>1. phase \in Attempts
    BY <1>4 DEF InjectorFails, Unresolvable, OriginRefused, Answered, TransportFails, TimesOut, Pending, CancelSeen,
                Attempts, Sends
  <2>2. \E how \in {"sent", "Injector", "InvalidUrl", "OriginPolicy", "Transport", "Timeout", "Cancelled"} :
          Finish(how)
    BY <1>4 DEF InjectorFails, Unresolvable, OriginRefused, Answered, TransportFails, TimesOut, CancelSeen
  <2>. QED BY <2>1, <2>2, FinishKeeps
<1>. QED BY <1>1, <1>2, <1>3, <1>4 DEF Send

-----------------------------------------------------------------------------
(* The invariant and the theorems.                                         *)

\* A client without edits, before a builder exists.
LEMMA InitIInv == Init => IInv
<1>. SUFFICES ASSUME Init PROVE IInv OBVIOUS
<1>1. /\ options.base \in Hosts \union {"none"} /\ options.ipv4 \in BOOLEAN /\ options.sameOrigin \in BOOLEAN
      /\ options.timeout \in Timeouts
  BY OptionsAssumption DEF Init
<1>2. /\ NoHeaders \in Headers /\ Absent \in Values /\ "empty" \in Bodies /\ <<>> \in Seq(Injectors)
      /\ <<>> \in Seq([op : {"header", "body"}, value : Values])
      /\ MaxEdits \in Nat /\ MaxHelpers \in Nat /\ MaxAttempts \in Nat /\ 0 \in 0..MaxAttempts
      /\ 0 \in 0..(MaxEdits + MaxHelpers)
  BY ValuesTyped, BoundAssumption DEF Bodies
<1>3. NoClient \in Clients BY <1>2 DEF NoClient, Clients
<1>4. /\ template \in Requests /\ ~template.streaming /\ request = template
      /\ template.context = NoClient /\ template.cursor = Absent
  BY <1>1, <1>2, <1>3 DEF Init, NewBuilder, Requests
<1>5. NoWire \in [url : Urls \union {NoUrl}, headers : Headers, body : Bodies \union {"stream"}]
  BY <1>2 DEF NoWire
<1>6. TypeOK BY <1>2, <1>3, <1>4, <1>5 DEF Init, TypeOK
<1>7. UrlInv /\ WireInv /\ ContextInv /\ DraftInv /\ DeadlineInv /\ BuilderInv
  BY <1>4 DEF Init, UrlInv, WireInv, ContextInv, DraftInv, DeadlineInv, BuilderInv, Attempts, Sends
<1>. QED BY <1>6, <1>7 DEF IInv

\* Every step keeps the invariant.
LEMMA StepIInv == IInv /\ [Next]_vars => IInv'
<1>. SUFFICES ASSUME IInv, [Next]_vars PROVE IInv' OBVIOUS
<1>1. CASE ConfigureClient \/ StartBuilder BY <1>1, ClientKeeps
<1>2. CASE Builder BY <1>2, BuilderKeeps, ClientKeeps
<1>3. CASE OwnerEdits \/ StartAttempt \/ InterceptorEdits BY <1>3, EditsKeep
<1>4. CASE Cancel \/ Tick BY <1>4, TokenKeeps
<1>5. CASE Send BY <1>5, SendKeeps
<1>6. CASE UNCHANGED vars
  <2>1. UNCHANGED <<options, client, snapshot, edits, log, auto, phase, template, request, attempt, token, wanted,
                    draft, next, clock, due, wire, result>>
    BY <1>6 DEF vars, clientVars, builderVars, sendVars
  <2>2. TypeOK' /\ UrlInv' /\ WireInv' /\ ContextInv' /\ DeadlineInv'
    BY <2>1 DEF IInv, TypeOK, UrlInv, WireInv, ContextInv, DeadlineInv
  <2>3. BuilderInv'
    BY <2>1 DEF IInv, BuilderInv, NoType, AutomaticType, ExplicitType, Multipart, ContentType
  <2>4. DraftInv' BY <2>1, DraftFrame DEF IInv
  <2>. QED BY <2>2, <2>3, <2>4 DEF IInv
<1>. QED BY <1>1, <1>2, <1>3, <1>4, <1>5, <1>6 DEF Next

\* The invariant of requests and their sends.
THEOREM Inductive == Spec => []IInv
BY InitIInv, StepIInv, PTL DEF Spec

\* Requests, their clones and what is sent are well typed; a request never holds
\* a body and a stream at once (set_body, set_streaming_body).
THEOREM TypeCorrect == Spec => []TypeOK
<1>1. IInv => TypeOK BY DEF IInv
<1>. QED BY Inductive, <1>1, PTL

\* Every header on the wire is that of the highest source that gives one, for any
\* number of injectors, edits and attempts (compute_effective_headers).
THEOREM HeadersAreLayered == Spec => []WireHeadersAreLayered
<1>1. IInv => WireHeadersAreLayered BY DEF IInv, WireInv, DraftInv, WireHeadersAreLayered
<1>. QED BY Inductive, <1>1, PTL

\* The URL on the wire is that of the request as it was last edited, and allowed
\* (resolved_base_url, validate_origin_policy).
THEOREM UrlIsAllowed == Spec => []WireUrlIsAllowed
<1>1. ASSUME IInv, wire # NoWire
      PROVE /\ wire.url.page = request.path.page
            /\ wire.url.host = (IF request.path.host = "none" THEN request.base ELSE request.path.host)
            /\ wire.url.host # "ftp"
            /\ ~(request.ipv4 /\ wire.url.host = "v6")
            /\ request.sameOrigin /\ request.base # "none" => wire.url.host = request.base
  <2>1. phase = "sending" /\ wire.url = Target(request) BY <1>1 DEF IInv, WireInv
  <2>2. Resolvable(request) /\ OriginAllows(request) BY <1>1, <2>1 DEF IInv, UrlInv, Sends
  <2>3. request \in Requests /\ ResolvedUrl(request) = ComputeUrl(request)
    BY <1>1, <2>1, AttemptFacts DEF Attempts, Sends
  <2>4. ResolvedUrl(request) = Target(request) BY <2>2, <2>3, UrlTyped
  <2>5. request.path.absolute => request.path.host # "none" BY <2>3, PathsTyped DEF Requests
  <2>. QED BY <2>1, <2>2, <2>4, <2>5 DEF Resolvable, OriginAllows, Target
<1>2. IInv => WireUrlIsAllowed BY <1>1 DEF WireUrlIsAllowed
<1>. QED BY Inductive, <1>2, PTL

\* The media type of a request fits its declaration and its multipart body, after
\* any sequence of builder calls (replace_auto_content_type, multipart_body).
THEOREM MediaTypeFits == Spec => []ContentTypeFitsBody
<1>1. ASSUME IInv, phase = "building" PROVE ContentType = DeclaredType
  <2>1. log \in Seq([op : {"header", "body"}, value : Values]) BY <1>1 DEF IInv, TypeOK
  <2>2. NoType \/ AutomaticType \/ ExplicitType BY <1>1 DEF IInv, BuilderInv
  <2>. QED BY <2>1, <2>2, TypeIsDeclared
<1>2. IInv => ContentTypeFitsBody BY <1>1 DEF IInv, BuilderInv, ContentTypeFitsBody, Multipart
<1>. QED BY Inductive, <1>2, PTL

\* The stages of a send never take longer, together, than the timeout they share.
THEOREM SharedDeadline == Spec => []OneDeadline
<1>1. ASSUME IInv PROVE OneDeadline
  <2>1. request.timeout \in Nat BY <1>1, BoundAssumption DEF IInv, TypeOK, Requests
  <2>. QED BY <1>1, <2>1 DEF IInv, DeadlineInv, OneDeadline
<1>. QED BY Inductive, <1>1, PTL
=============================================================================
