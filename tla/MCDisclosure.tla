----------------------------- MODULE MCDisclosure -----------------------------
(* An instance of Disclosure for TLC: credentials of two issuers about a name *)
(* or an age, and requests of one or two claims.                              *)
EXTENDS Disclosure

MCCredentials == [issuer: {"gov", "bank"}, subject: {"me"}, types: {{"Pass"}}, contexts: {{"v1"}},
                  claims: {[name |-> "A"], [age |-> "9"]}]
MCClaims == [type: {"name", "age"}, value: {Anything}, issuers: {{}}, given: {FALSE}, essential: {TRUE},
             credentialType: {Anything}, credentialContext: {Anything}]
Alone == [x \in {"Pass", "v1"} |-> {x}]

===============================================================================
