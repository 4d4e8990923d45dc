---------------------------- MODULE ConfigGates ----------------------------
(***************************************************************************)
(* Configuration of the server: how the environment is read                *)
(* (backend/internal/config), which configurations main refuses, what the  *)
(* router builds from the others (backend/cmd/server), and which bearer    *)
(* token opens which routes.  An environment is a record: flags and        *)
(* numbers as they are spelled, credentials by what the gates tell apart.  *)
(* Durations are in milliseconds.                                          *)
(***************************************************************************)
EXTENDS Integers, Sequences

CONSTANTS
  Tokens,  \* long bearer tokens without whitespace
  Short,   \* a token of fewer than 32 bytes
  Spaced,  \* a long token with whitespace in it
  Unset,   \* a variable that is not set or blank
  Junk,    \* a number or duration that does not parse
  None     \* no token, no provider, no registry

\* What a bearer token is for.
Roles == {"write", "review", "publish", "assisted"}

Providers == {"openai", "gemini", "deepseek"}

\* A registry of profiles is not None.
ASSUME RegistryAssumption ==
  None \notin [{"default"} -> [provider : Providers, enabled : BOOLEAN]]

(***************************************************************************)
(* Reading the environment.                                                *)
(***************************************************************************)
\* Everything that is not a true value of ParseBool turns a feature off.
BoolEnv(raw) == raw = "true"

Int64Env(raw, fallback) ==
  CASE raw = Unset -> fallback [] raw = Junk -> -1 [] OTHER -> raw

DurationEnv(raw, fallback) ==
  CASE raw = Unset -> fallback [] raw = Junk -> 0 [] OTHER -> raw

LimitsEnv(raw, subject, global, window) ==
  [subject |-> Int64Env(raw.subject, subject),
   global  |-> Int64Env(raw.global, global),
   window  |-> DurationEnv(raw.window, window)]

Load(env) ==
  [env EXCEPT !.llm = BoolEnv(@),
              !.timeout = DurationEnv(@, 5000),
              !.on = [role \in Roles |-> BoolEnv(env.on[role])],
              !.limits.write = LimitsEnv(@, 5, 50, 600000),
              !.limits.assisted = LimitsEnv(@, 10, 50, 60000)]

LoadBrowserSession(c) ==
  [c EXCEPT !.browser = BoolEnv(@),
            !.analysis = BoolEnv(@),
            !.limits.exchange = LimitsEnv(@, 5, 50, 600000),
            !.limits.principal = LimitsEnv(@, 5, 25, 60000)]

(***************************************************************************)
(* Providers and profiles.                                                 *)
(***************************************************************************)
\* A model identifier is "broken" when it is empty, too long or has control
\* characters, "slashed" when it cannot be a part of a path.
ValidModel(model) == model # "broken"

\* The key of the provider of c, which is matched as it is spelled.
HasCredential(c) == c.provider \in Providers /\ c.provider \in c.keys

\* Registry.Create with a factory per provider; Gemini puts the model into the
\* path of its endpoint.
Creates(provider, model, key) ==
  /\ provider \in Providers
  /\ ValidModel(model)
  /\ key
  /\ provider = "gemini" => model # "slashed"

MaxProfiles == 16

\* NewProfileRegistry: the entry of each profile, or None.
ProfileRegistry(profiles) ==
  IF /\ Len(profiles) <= MaxProfiles
     /\ \A i, j \in DOMAIN profiles :
          profiles[i].id = profiles[j].id => i = j
     /\ \A i \in DOMAIN profiles :
          /\ profiles[i].shown
          /\ ValidModel(profiles[i].model)
          /\ profiles[i].enabled =>
               /\ Creates(profiles[i].provider, profiles[i].model, profiles[i].key)
               /\ profiles[i].timeout >= 1
  THEN [id \in {profiles[i].id : i \in DOMAIN profiles} |->
          LET i == CHOOSE i \in DOMAIN profiles : profiles[i].id = id
          IN  [provider |-> profiles[i].provider, enabled |-> profiles[i].enabled]]
  ELSE None

Resolves(registry, id) == id \in DOMAIN registry /\ registry[id].enabled

\* The one profile of this build; the model is also its display name.
DefaultProfiles(c) ==
  IF HasCredential(c)
  THEN ProfileRegistry(<<[id |-> "default", shown |-> ValidModel(c.model),
                          provider |-> c.provider, model |-> c.model,
                          key |-> TRUE, timeout |-> c.timeout,
                          enabled |-> TRUE]>>)
  ELSE None

(***************************************************************************)
(* The gates of main.                                                      *)
(***************************************************************************)
ValidLimits(limits) ==
  /\ limits.subject > 0
  /\ limits.global >= limits.subject
  /\ limits.window >= 1

LongToken(token) == token \notin {None, Short}

\* A token may be one of a role that is switched off, but not of one that is set.
DiffersFrom(c, role, other) ==
  c.token[other] # None => c.token[role] # c.token[other]

\* Mutant: the provider is not constructed before the start.
LLMGateUnbuilt(c) ==
  c.llm => c.timeout >= 1 /\ ValidModel(c.model) /\ HasCredential(c)

LLMGate(c) ==
  c.llm => /\ c.timeout >= 1
           /\ ValidModel(c.model)
           /\ HasCredential(c)
           /\ Creates(c.provider, c.model, HasCredential(c))

AssistedGate(c) ==
  c.on.assisted => /\ c.llm
                   /\ LongToken(c.token.assisted)
                   /\ ValidLimits(c.limits.assisted)
                   /\ \A other \in Roles \ {"assisted"} :
                        DiffersFrom(c, "assisted", other)

WriteGate(c) ==
  c.on.write => LongToken(c.token.write) /\ ValidLimits(c.limits.write)

\* A label is "blank", "long" or fits.
ReviewGate(c) ==
  c.on.review => /\ LongToken(c.token.review)
                 /\ c.label.review = "fits"
                 /\ DiffersFrom(c, "review", "write")

\* Mutant: the token of publications is compared with that of submissions only.
PublicationGateOnce(c) ==
  c.on.publish => /\ LongToken(c.token.publish)
                  /\ c.label.publish = "fits"
                  /\ DiffersFrom(c, "publish", "write")

PublicationGate(c) ==
  c.on.publish => /\ LongToken(c.token.publish)
                  /\ c.label.publish = "fits"
                  /\ DiffersFrom(c, "publish", "write")
                  /\ DiffersFrom(c, "publish", "review")

Validates(c) ==
  LLMGate(c) /\ AssistedGate(c) /\ WriteGate(c) /\ ReviewGate(c) /\ PublicationGate(c)

\* Origin, grants and proxies: the three values a browser configuration parses.
BrowserGate(c) ==
  IF c.browser
  THEN /\ c.parses = {"origin", "grants", "proxies"}
       /\ ValidLimits(c.limits.exchange)
       /\ c.analysis => ValidLimits(c.limits.principal)
  ELSE ~c.analysis

AssistedPrerequisites(c) == c.analysis => c.llm

Accepted(c) == Validates(c) /\ BrowserGate(c) /\ AssistedPrerequisites(c)

(***************************************************************************)
(* The router.                                                             *)
(***************************************************************************)
\* buildConfiguredBrowserSessionHandler and the two registrations of assisted
\* routes construct their parts again; what they cannot construct is a panic.
BuildsSessions(c) ==
  c.browser => /\ c.parses = {"origin", "grants", "proxies"}
               /\ ValidLimits(c.limits.exchange)

BuildsBrowserAssisted(c) ==
  c.browser /\ c.analysis => /\ DefaultProfiles(c) # None
                             /\ ValidLimits(c.limits.principal)

BuildsAssisted(c) ==
  c.on.assisted => /\ DefaultProfiles(c) # None
                   /\ Resolves(DefaultProfiles(c), "default")

Builds(c) == BuildsSessions(c) /\ BuildsBrowserAssisted(c) /\ BuildsAssisted(c)

\* What is served: the token each role's routes expect, whether pages may ask
\* for assisted analysis, and the profiles they may ask for.
Router(c) ==
  [expects  |-> [role \in Roles |-> IF c.on[role] THEN c.token[role] ELSE None],
   browser  |-> c.browser /\ c.analysis,
   profiles |-> IF c.on.assisted \/ (c.browser /\ c.analysis)
                THEN DefaultProfiles(c) ELSE None]

\* bearerTokenAuthorization: a header without a well-formed token never passes.
BearerAccepts(expected, provided) ==
  /\ provided \notin {None, Spaced}
  /\ expected # None
  /\ provided = expected

=============================================================================
