---------------------------- MODULE MCHttpRequest ----------------------------
(* A same-origin client, and an unrestricted one with an IPv6 base URL;       *)
(* paths of every kind of resolution; injectors of two headers.               *)
EXTENDS HttpRequest

MCOptions == {[base |-> "a", ipv4 |-> FALSE, sameOrigin |-> TRUE, timeout |-> 2],
              [base |-> "v6", ipv4 |-> FALSE, sameOrigin |-> FALSE, timeout |-> 1]}
Path(absolute, host, page) == [absolute |-> absolute, host |-> host, page |-> page]
MCPaths == {Path(FALSE, "none", "p"), Path(FALSE, "b", "p"), Path(TRUE, "a", "q"), Path(TRUE, "ftp", "p")}
MCInjectors == {[name |-> "other", sets |-> TRUE], [name |-> "last-event-id", sets |-> TRUE],
                [name |-> "other", sets |-> FALSE]}
=============================================================================
