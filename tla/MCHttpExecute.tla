---------------------------- MODULE MCHttpExecute ----------------------------
(* One client with retry on, one with retry off, and requests that start a   *)
(* retry flow or not, with and without a token.                              *)
EXTENDS HttpExecute

Template(method, force, policy, token) ==
  [method |-> method, force |-> force, policy |-> policy, token |-> token, body |-> 0]

MCClients == {[enabled |-> TRUE, policy |-> "IdempotentOnly"],
              [enabled |-> FALSE, policy |-> "None"]}
MCTemplates == {Template("GET", "unset", "unset", "flow"),
                Template("POST", "unset", "unset", "none"),
                Template("POST", "enable", "AllMethods", "flow")}
=============================================================================
