---------------------------- MODULE Environment ----------------------------
(***************************************************************************)
(* What the process is started with: the environment variables, their      *)
(* validation (env.validation.ts) and the adapters the modules choose by   *)
(* them (context.module.ts, ai.module.ts, email.module.ts).                *)
(*                                                                         *)
(* A raw environment is a record; a variable that is not there is Unset,   *)
(* one that is there and empty is Blank.  Variables that only hold a       *)
(* secret, a host or a name are kept as present or not.                    *)
(***************************************************************************)
EXTENDS Integers

CONSTANTS Unset, Blank

ASSUME EnvironmentAssumption == Unset \notin Int

\* NODE_ENVS, and the tiers that serve users.
Tiers == {"development", "staging", "production", "test"}
Deployed(tier) == tier \in {"staging", "production"}

\* Truthiness of an optional string: what every adapter is chosen by.
Present(raw) == raw \notin {Unset, Blank}

-----------------------------------------------------------------------------
(* Conversion: plainToInstance. *)

\* The required strings.
RequiredStrings ==
  {"MONGODB_URI", "POSTGRES_HOST", "POSTGRES_USER", "POSTGRES_PASSWORD",
   "POSTGRES_DB", "JWT_SECRET", "REDIS_HOST", "COMPOSIO_API_KEY",
   "COMPOSIO_AUTH_CONFIG_IDS", "COMPOSIO_WEBHOOK_SECRET"}

Between(lo, hi, default) == [lo |-> lo, hi |-> hi, default |-> default]
AtLeast(lo, default) == Between(lo, Unset, default)

\* Ranges and defaults of the numbers of the connections and the throttler.
ConnectionNumbers ==
  [PORT |-> Between(0, 65535, 3000),
   POSTGRES_PORT |-> Between(0, 65535, Unset),
   REDIS_PORT |-> Between(1, 65535, Unset),
   THROTTLE_TTL |-> AtLeast(1, 60000),
   THROTTLE_LIMIT |-> AtLeast(1, 100)]

\* Those of the AI provider and its caps.
AiNumbers ==
  [OPENROUTER_MAX_TOKENS |-> AtLeast(1, 4096),
   OPENROUTER_TIMEOUT_MS |-> AtLeast(1, 60000),
   OPENROUTER_MAX_RETRIES |-> Between(0, 3, 1),
   AI_MAX_INPUT_CHARS |-> Between(1, 200000, 40000),
   AI_USER_DAILY_LIMIT |-> AtLeast(0, 10),
   AI_GLOBAL_DAILY_LIMIT |-> AtLeast(0, 40),
   AI_CACHE_TTL_SECONDS |-> AtLeast(0, 86400)]

\* Those of the context engine.
ContextNumbers ==
  [CONTEXT_ENGINE_TIMEOUT_MS |-> AtLeast(1, 10000),
   CONTEXT_GATHER_TIMEOUT_MS |-> AtLeast(1, 120000)]

NumberNames ==
  DOMAIN ConnectionNumbers \cup DOMAIN AiNumbers \cup DOMAIN ContextNumbers

Numbers ==
  [name \in NumberNames |->
     CASE name \in DOMAIN ConnectionNumbers -> ConnectionNumbers[name]
       [] name \in DOMAIN AiNumbers -> AiNumbers[name]
       [] name \in DOMAIN ContextNumbers -> ContextNumbers[name]]

\* A number that is not set has its default; the implicit conversion makes an
\* empty one 0, which is a value like any other.
NumberOf(env, name) ==
  IF name \notin DOMAIN env.numbers THEN Numbers[name].default
  ELSE IF env.numbers[name] = Blank THEN 0
  ELSE env.numbers[name]

InRange(env, name) ==
  LET n == NumberOf(env, name)
      range == Numbers[name]
  IN n # Unset /\ n >= range.lo /\ (range.hi = Unset \/ n <= range.hi)

\* Every flag but the next: "true" in any case, and nothing else.
ParseFlag(raw) == raw = "true"

\* parsePostgresSslRejectUnauthorized: verification is on unless switched off
\* by exactly "false"; another word than the two is refused.
RejectUnauthorized(raw) == raw # "false"
RejectParses(raw) == raw \in {Unset, Blank, "true", "false"}

\* blankToUndefined, for the variables of the mail.
Mail(raw) == IF raw = Blank THEN Unset ELSE raw

\* An origin that is not set is any.
Origin(raw) == IF raw = Unset THEN "*" ELSE raw

NodeEnv(env) == IF env.tier = Unset THEN "development" ELSE env.tier

-----------------------------------------------------------------------------
(* Validation: validate. *)

\* validateSync: the decorators of EnvironmentVariables.
WellFormed(env) ==
  /\ NodeEnv(env) \in Tiers
  /\ RequiredStrings \subseteq env.strings
  /\ env.secret # "short"
  /\ \A name \in DOMAIN Numbers : InRange(env, name)
  /\ RejectParses(env.reject)

\* AppBaseUrlConstraint and IsUrl: no credentials, no query, no fragment.
BaseUrlAccepted(env) == Mail(env.base) \in {Unset, "url"}

\* parseComposioAuthConfigIds: pairs, each provider once.
ConnectorsParse(env) == env.authConfigs = "pairs"

\* What a deployed tier must have: mail, and verification not declined.
MailRequired(env) ==
  /\ \A raw \in {env.resend, env.from, env.base} : Mail(raw) # Unset
  /\ Present(env.verification) => ParseFlag(env.verification)

\* The blank origin, which `cors` takes for any, is let through.
Bug_Unsafe(env) ==
  \/ \E raw \in {env.cors, env.ws} : Origin(raw) = "*"
  \/ env.secret = "placeholder"
  \/ ~RejectUnauthorized(env.reject)

\* What a deployed tier must not have.
Unsafe(env) ==
  \/ \E raw \in {env.cors, env.ws} : Origin(raw) \in {Blank, "*"}
  \/ env.secret = "placeholder"
  \/ ~RejectUnauthorized(env.reject)

\* validate lets the process start.
Accepted(env) ==
  /\ WellFormed(env) /\ BaseUrlAccepted(env)
  /\ ConnectorsParse(env)
  /\ Deployed(NodeEnv(env)) => MailRequired(env) /\ ~Unsafe(env)

-----------------------------------------------------------------------------
(* The adapters, each chosen by its own factory. *)

ContextGatherer(env) == IF Present(env.engine) THEN "engine" ELSE "stub"
LlmPlanner(env) == IF Present(env.key) THEN "gateway" ELSE "stub"
SuggestionGenerator(env) == IF Present(env.key) THEN "gateway" ELSE "null"
GatewayAvailable(env) == Present(env.key)
ContextRequestPublisher(env) == Present(env.rabbit)
GatherTimeoutScheduler(env) == Present(env.rabbit)
ContextResultsConsumer(env) == Present(env.rabbit)
EmailSender(env) == IF Present(Mail(env.resend)) THEN "resend" ELSE "null"

\* EmailVerifiedGuard: forced on in a deployed tier.
VerificationRequired(env) ==
  Deployed(NodeEnv(env)) \/ ParseFlag(env.verification)

\* isSwaggerEnabled: an allowlist.
SwaggerEnabled(tier) == tier \in {"development", "test"}

\* The origin PlanningGateway's decorator reads, when the module is imported:
\* .env is not loaded yet, so that only the process's own variables count.
SocketOrigin(env) == IF env.wsFrom = "process" THEN Origin(env.ws) ELSE "*"

\* The caps RedisAiQuota and the gateway read.
Limits(env) ==
  [user |-> NumberOf(env, "AI_USER_DAILY_LIMIT"),
   all |-> NumberOf(env, "AI_GLOBAL_DAILY_LIMIT"),
   retries |-> NumberOf(env, "OPENROUTER_MAX_RETRIES")]

\* The process as bootstrap leaves it.
Wired(env) ==
  [state |-> "up", tier |-> NodeEnv(env),
   gatherer |-> ContextGatherer(env), planner |-> LlmPlanner(env),
   generator |-> SuggestionGenerator(env), ai |-> GatewayAvailable(env),
   publisher |-> ContextRequestPublisher(env),
   scheduler |-> GatherTimeoutScheduler(env),
   consumer |-> ContextResultsConsumer(env),
   sender |-> EmailSender(env), links |-> Mail(env.base) # Unset,
   verification |-> VerificationRequired(env),
   swagger |-> SwaggerEnabled(NodeEnv(env)),
   restOrigin |-> Origin(env.cors), socketOrigin |-> SocketOrigin(env),
   verifiesTls |-> RejectUnauthorized(env.reject), secret |-> env.secret,
   limits |-> Limits(env)]
=============================================================================
