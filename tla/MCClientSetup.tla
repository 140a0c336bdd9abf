---------------------------- MODULE MCClientSetup ----------------------------
(* Configurations that differ from the default in two settings, or one and a  *)
(* flaw; options set by hand that fail in ways a configuration cannot.         *)
EXTENDS ClientSetup

Url(scheme, host, port) == [scheme |-> scheme, host |-> host, port |-> port]
MCUrls == {Url("http", "named", 0), Url("https", "named", 0), Url("http", "named", 8080),
           Url("http", "v6", 0), Url("ftp", "named", 0)}

Proxy(enabled, host, port, user, password) ==
  [enabled |-> enabled, host |-> host, port |-> port, user |-> user, password |-> password]
Changes ==
  {[Default EXCEPT !.base = url] : url \in MCUrls}
    \union {[Default EXCEPT !.origin = "any"], [Default EXCEPT !.ipv4 = TRUE],
            [Default EXCEPT !.limit = 0], [Default EXCEPT !.agent = "blank"],
            [Default EXCEPT !.redirects = 1], [Default EXCEPT !.attempts = 0],
            [Default EXCEPT !.timeout = "zero"], [Default EXCEPT !.logLimit = 0],
            [Default EXCEPT !.logBodies = FALSE], [Default EXCEPT !.marker = "disabled"],
            [Default EXCEPT !.marker = "blank"], [Default EXCEPT !.completion = "RequireDoneMarker"],
            [Default EXCEPT !.proxy = Proxy(TRUE, "v6", "some", "none", FALSE)],
            [Default EXCEPT !.proxy = Proxy(TRUE, "named", "some", "named", TRUE)],
            [Default EXCEPT !.proxy = Proxy(TRUE, "invalid", "some", "none", FALSE)],
            [Default EXCEPT !.proxy = Proxy(TRUE, "named", "none", "none", FALSE)],
            [Default EXCEPT !.proxy = Proxy(FALSE, "none", "none", "none", TRUE)]}
Both(o, p) == [f \in DOMAIN Default |-> IF p[f] # Default[f] THEN p[f] ELSE o[f]]

MCConfigs ==
  [options : {Both(o, p) : o \in Changes, p \in Changes}, flaws : {{}}]
    \union [options : {Default}, flaws : {{Sections[i]} : i \in DOMAIN Sections}]
MCDirect ==
  {Default, [Default EXCEPT !.origin = "any", !.redirects = 1], [Default EXCEPT !.attempts = 0],
   [Default EXCEPT !.certificates = "invalid"], [Default EXCEPT !.lineLimit = 0],
   [Default EXCEPT !.marker = "blank", !.completion = "RequireDoneMarker"]}
=============================================================================
