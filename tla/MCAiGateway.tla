---------------------------- MODULE MCAiGateway ----------------------------
(***************************************************************************)
(* Two users whose calls together can spend either cap, under the          *)
(* environments around two typical ones: that of .env.example and that of  *)
(* a production server, each with one variable changed.                    *)
(***************************************************************************)
EXTENDS AiGateway, TLC

Ports == "POSTGRES_PORT" :> 5432 @@ "REDIS_PORT" :> 6379

Example ==
  [tier |-> "development", strings |-> RequiredStrings,
   secret |-> "placeholder", numbers |-> Ports, reject |-> Unset,
   cors |-> Unset, ws |-> Unset, wsFrom |-> "process",
   authConfigs |-> "pairs", engine |-> Blank,
   key |-> Blank, rabbit |-> Blank, resend |-> Blank, from |-> Blank,
   base |-> Blank, verification |-> Unset]

Production ==
  [Example EXCEPT !.tier = "production", !.secret = "random",
     !.cors = "site", !.ws = "site", !.rabbit = "url", !.resend = "key",
     !.from = "address", !.base = "url"]

\* One variable changed.
Around(e) ==
  {e}
  \cup {[e EXCEPT !.tier = t] : t \in Tiers \cup {Unset, "other"}}
  \cup {[e EXCEPT !.strings = @ \ {s}] : s \in RequiredStrings}
  \cup {[e EXCEPT !.secret = s] : s \in {"short", "placeholder"}}
  \cup {[e EXCEPT !.numbers = (n :> v) @@ @] :
           n \in DOMAIN Numbers, v \in {-1, 0, 65536, 200001, Blank}}
  \cup {[e EXCEPT !.reject = v] : v \in {Blank, "true", "false", "yes"}}
  \cup {[e EXCEPT !.cors = v] : v \in {Unset, Blank, "*"}}
  \cup {[e EXCEPT !.ws = v] : v \in {Unset, Blank, "*"}}
  \cup {[e EXCEPT !.wsFrom = "file"]}
  \cup {[e EXCEPT !.authConfigs = v] : v \in {"malformed", "duplicate"}}
  \cup {[e EXCEPT !.engine = "url"], [e EXCEPT !.rabbit = Unset]}
  \cup {[e EXCEPT !.resend = v] : v \in {Unset, Blank, "key"}}
  \cup {[e EXCEPT !.from = v] : v \in {Unset, Blank}}
  \cup {[e EXCEPT !.base = v] : v \in {Unset, Blank, "withQuery"}}
  \cup {[e EXCEPT !.verification = v] : v \in {Blank, "true", "false"}}

\* With a provider: caps that two requests can spend, and one left empty.
WithProvider ==
  {[Example EXCEPT !.key = "key", !.numbers = limits @@ @] :
     limits \in {"AI_USER_DAILY_LIMIT" :> 2 @@ "AI_GLOBAL_DAILY_LIMIT" :> 3,
                 "AI_USER_DAILY_LIMIT" :> Blank}}
  \cup {[Production EXCEPT !.key = "key"]}

MCEnvironments == Around(Example) \cup Around(Production) \cup WithProvider
=============================================================================
