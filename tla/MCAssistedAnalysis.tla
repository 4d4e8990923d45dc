------------------------ MODULE MCAssistedAnalysis ------------------------
(***************************************************************************)
(* An instance of AssistedAnalysis for TLC: three rules, one of which is   *)
(* published while requests are under way, and environments that vary what *)
(* one gate looks at, all other variables being in order.                  *)
(***************************************************************************)
EXTENDS AssistedAnalysis

CONSTANTS q1, k1, k2, x, y, z, hangUp

MCRuleTable ==
  [c1 |-> [code |-> "c1", kind |-> "pattern", joined |-> TRUE,
           terms |-> <<x, y>>, weight |-> 60, advice |-> hangUp],
   c2 |-> [code |-> "c2", kind |-> "keyword", joined |-> FALSE,
           terms |-> <<Blank, y>>, weight |-> 50, advice |-> NoAdvice],
   c3 |-> [code |-> "c3", kind |-> "regex", joined |-> FALSE,
           terms |-> <<z, x>>, weight |-> 20, advice |-> hangUp]]

MCAsk(kind, token, session, body, text, profile) ==
  [kind |-> kind, token |-> token, session |-> session, body |-> body,
   text |-> text, profile |-> profile]

MCAsks ==
  {MCAsk("operator", token, FALSE, "fine", <<x, y>>, None) : token \in {None, k1, k2}}
  \cup {MCAsk("browser", None, session, body, <<y, x>>, "default") :
          session \in BOOLEAN, body \in {"fine", "dense", "large"}}
  \cup {MCAsk("browser", None, TRUE, "fine", <<y, x>>, "other")}
  \cup {MCAsk(kind, None, FALSE, body, IF body = "blank" THEN <<>> ELSE <<x, y>>, None) :
          kind \in {"text", "preview"}, body \in {"fine", "broken", "blank"}}

MCLimits(subject, global, window) ==
  [subject |-> subject, global |-> global, window |-> window]

MCUnlimited == MCLimits(Unset, Unset, Unset)

MCBase ==
  [llm |-> "true", provider |-> "openai", model |-> "plain", keys |-> Providers,
   timeout |-> Unset,
   on |-> [role \in Roles |-> "false"],
   token |-> [role \in Roles |-> None],
   label |-> [review |-> "fits", publish |-> "fits"],
   limits |-> [write |-> MCUnlimited, assisted |-> MCUnlimited,
               exchange |-> MCUnlimited, principal |-> MCUnlimited],
   browser |-> "false", analysis |-> "false",
   parses |-> {"origin", "grants", "proxies"}]

\* Every role switched on or off, with equal, missing and malformed tokens.
MCTokenEnvironments ==
  {[MCBase EXCEPT !.on = on, !.token = token] :
     on \in [Roles -> {"true", "junk"}],
     token \in [Roles -> {None, k1, k2, Spaced}]}
  \cup {[MCBase EXCEPT !.on[role] = "true", !.token[role] = Short] : role \in Roles}

\* What LLM assistance needs, for operators, pages, both or nobody.
MCAssistanceEnvironments ==
  {[MCBase EXCEPT !.llm = llm, !.provider = provider, !.model = model,
                  !.keys = keys, !.timeout = timeout, !.on.assisted = assisted,
                  !.token.assisted = k1, !.browser = browser, !.analysis = analysis] :
     llm \in {"true", ""}, provider \in Providers \cup {"OpenAI"},
     model \in {"broken", "plain", "slashed"}, keys \in {{}, {"openai", "gemini"}, Providers},
     timeout \in {Unset, Junk, 0}, assisted \in {"true", ""},
     browser \in {"true", ""}, analysis \in {"true", ""}}

\* The limits of a page and of an operator, and what a page's sessions parse.
MCLimitEnvironments ==
  {[MCBase EXCEPT !.on.assisted = "true", !.token.assisted = k1,
                  !.on.write = "true", !.token.write = k2,
                  !.browser = "true", !.analysis = "true",
                  !.limits[route] = MCLimits(subject, global, window), !.parses = parses] :
     route \in {"write", "assisted", "exchange", "principal"},
     subject \in {Unset, Junk, 0, 50}, global \in {Unset, Junk, 25, 50},
     window \in {Unset, Junk, 0, 1},
     parses \in {{"origin", "grants", "proxies"}, {"origin", "grants"}}}

MCEnvironments ==
  MCTokenEnvironments \cup MCAssistanceEnvironments \cup MCLimitEnvironments

=============================================================================
