------------------------------ MODULE Provider ------------------------------
(***************************************************************************)
(* The language-model provider: the one row of app_settings, the two       *)
(* requests that write it (services/settings_service.py), and the client   *)
(* every feature makes from it (services/llm/factory.py).                  *)
(*                                                                         *)
(* A write is a load and a commit.  What SQLAlchemy sends at the commit is *)
(* the columns whose values differ from those loaded, so two requests that *)
(* overlap can leave a row that neither of them asked for.  A row that was *)
(* not there is inserted, and the second of two inserts fails.             *)
(***************************************************************************)
EXTENDS Naturals, FiniteSets

CONSTANTS
  NoVal,       \* None
  Requests,    \* the requests that write settings
  Hosts,       \* names and addresses of hosts
  Bodies,      \* bodies of PUT /settings: provider, base URL and key
  EnvKey,      \* EnvKey[p]: the key of provider p in the environment, or NoVal
  Legacy       \* a row an earlier version of the program has left, or NoVal

\* PROVIDER_REGISTRY, less what is only shown.  Mistral, Together and NVIDIA are
\* as Groq is.  A URL is its host, whether it has a port, another path, and /v1.
Url(h, port, path) == [host |-> h, port |-> port, path |-> path, v1 |-> TRUE]
OpenAIUrl == Url("api.openai.com", FALSE, FALSE)

PROVIDER_REGISTRY == [
  openai       |-> [keyed |-> TRUE,  shown |-> FALSE, base |-> NoVal],
  anthropic    |-> [keyed |-> TRUE,  shown |-> FALSE, base |-> NoVal],
  groq         |-> [keyed |-> TRUE,  shown |-> TRUE,
                    base |-> Url("api.groq.com", FALSE, TRUE)],
  azure_openai |-> [keyed |-> TRUE,  shown |-> TRUE,  base |-> NoVal],
  local        |-> [keyed |-> FALSE, shown |-> TRUE,
                    base |-> Url("127.0.0.1", TRUE, FALSE)]]

LLMProviders    == DOMAIN PROVIDER_REGISTRY
LocalProviders  == {"local"}
Compatible      == LLMProviders \ {"anthropic"}
LegacyProviders == {"ollama", "lmstudio"}
Intervals       == {"daily", "weekly"}
IntervalBodies  == [radar_poll_interval : Intervals]

\* What a container calls its host: LLM_HOST_GATEWAY is taken not to name another.
Gateway   == "host.docker.internal"
Loopback  == {"127.0.0.1", "localhost", Gateway}
Addresses == [host : Hosts, port : BOOLEAN, path : BOOLEAN, v1 : BOOLEAN]
BaseUrls  == Addresses \cup {NoVal}
Keys      == STRING \cup {NoVal}
Rows      == [llm_provider : LLMProviders \cup LegacyProviders \cup {NoVal},
              llm_base_url : BaseUrls, llm_api_key : Keys, radar_poll_interval : Intervals]
Effective == [provider : LLMProviders, key : Keys, base : BaseUrls]

ASSUME ProviderAssumption ==
  /\ {"api.openai.com", "api.groq.com"} \cup Loopback \subseteq Hosts
  /\ Bodies \subseteq [llm_provider : LLMProviders, llm_base_url : BaseUrls,
                       llm_api_key : Keys]
  /\ EnvKey \in [LLMProviders -> Keys]
  /\ Legacy \in Rows \cup {NoVal}
  /\ NoVal \notin Rows \cup Effective \cup Addresses \cup Bodies \cup LLMProviders \cup Intervals

normalize_provider(p) ==
  IF p \in LegacyProviders THEN "local"
  ELSE IF p \in LLMProviders THEN p ELSE NoVal

Or(a, b) == IF a # NoVal THEN a ELSE b

VARIABLES
  row,       \* app_settings as committed, or NoVal
  docker,    \* the process runs in a container
  req,       \* what each request is doing
  raced,     \* history: a PUT wrote columns that had changed since it loaded them
  last       \* history: what the last PUT of each kind that was saved asked for

providerVars == <<row, docker, req, raced, last>>

Row(p, base, key, interval) ==
  [llm_provider |-> p, llm_base_url |-> base, llm_api_key |-> key,
   radar_poll_interval |-> interval]
ProviderColumns == {"llm_provider", "llm_base_url", "llm_api_key"}
BlankRow == Row(NoVal, NoVal, NoVal, "daily")

(***************************************************************************)
(* Base URLs (services/llm/urls.py)                                        *)
(***************************************************************************)
Bare(u) == ~u.path /\ ~u.v1

\* A host is recognised before a port, or at the very end.
Rewrite(u, hosts, to) ==
  IF u.host \in hosts /\ (u.port \/ Bare(u)) THEN [u EXCEPT !.host = to] ELSE u

\* Bug: the gateway a container needs stays when the program runs on the host.
GatewayKept(u) ==
  [Rewrite(u, IF docker THEN {"127.0.0.1", "localhost"} ELSE {"localhost"},
           IF docker THEN Gateway ELSE "127.0.0.1") EXCEPT !.v1 = TRUE]

normalize_openai_base_url(u) ==
  [(IF docker THEN Rewrite(u, {"127.0.0.1", "localhost"}, Gateway)
              ELSE Rewrite(u, {Gateway, "localhost"}, "127.0.0.1"))
   EXCEPT !.v1 = TRUE]

Normalized(p, u) ==
  IF u # NoVal /\ PROVIDER_REGISTRY[p].shown
  THEN normalize_openai_base_url(u) ELSE u

(***************************************************************************)
(* Writing settings                                                        *)
(***************************************************************************)
Phases == {"idle", "loaded", "saved", "refused", "invalid", "lost"}
Idle == [phase |-> "idle", body |-> NoVal, seen |-> NoVal]

\* The row a PUT makes of the one it has loaded.
Assigned(seen, body) ==
  LET p == body.llm_provider
      r == IF seen = NoVal THEN BlankRow ELSE seen
  IN  Row(p, Normalized(p, Or(body.llm_base_url, PROVIDER_REGISTRY[p].base)),
          Or(body.llm_api_key, r.llm_api_key), r.radar_poll_interval)

IntervalSet(seen, interval) ==
  [(IF seen = NoVal THEN BlankRow ELSE seen) EXCEPT !.radar_poll_interval = interval]

\* _validate_provider_config
ValidConfig(p, key, base) ==
  /\ PROVIDER_REGISTRY[p].keyed => key # NoVal
  /\ ~(p = "azure_openai" /\ base = NoVal)

\* Bug: every column is written back as it was loaded.
WholeRowWritten(seen, new, now) == new

\* The columns that differ from those loaded are sent; the others stay.
Flushed(seen, new, now) ==
  IF seen = NoVal THEN new
  ELSE [c \in DOMAIN new |-> IF new[c] = seen[c] THEN now[c] ELSE new[c]]

\* get_settings_row, for upsert_settings and set_radar_poll_interval.
LoadSettings(r, body) ==
  /\ req[r] = Idle
  /\ req' = [req EXCEPT ![r] = [phase |-> "loaded", body |-> body, seen |-> row]]
  /\ UNCHANGED <<row, docker, raced, last>>

Ends(r, how) == req' = [req EXCEPT ![r].phase = how]

\* Bug: the row is looked for, and added whether or not it is found.
AlwaysAdded(r) == row # NoVal

\* Another request has inserted the row since: its primary key is taken.
Conflicts(r) == req[r].seen = NoVal /\ row # NoVal

Saves(r, new, columns) ==
  /\ req[r].phase = "loaded"
  /\ \/ /\ Conflicts(r)
        /\ Ends(r, "refused")
        /\ UNCHANGED <<row, raced>>
     \/ /\ ~Conflicts(r)
        /\ row' = Flushed(req[r].seen, new, row)
        /\ raced' = (raced \/ (row # NoVal /\ \E c \in columns : req[r].seen[c] # row[c]))
        /\ Ends(r, "saved")
  /\ UNCHANGED docker

\* The rest of upsert_settings: a configuration that is not valid is refused with
\* 400 before anything is written.
UpsertSettings(r) ==
  LET body == req[r].body
      new  == Assigned(req[r].seen, body)
      p    == body.llm_provider
  IN  /\ body \in Bodies
      /\ \/ /\ ValidConfig(p, Or(new.llm_api_key, EnvKey[p]), new.llm_base_url)
            /\ Saves(r, new, ProviderColumns)
            /\ last' = IF Conflicts(r) THEN last ELSE [last EXCEPT !.body = body]
         \/ /\ req[r].phase = "loaded"
            /\ ~ValidConfig(p, Or(new.llm_api_key, EnvKey[p]), new.llm_base_url)
            /\ Ends(r, "invalid")
            /\ UNCHANGED <<row, docker, raced, last>>

\* The rest of set_radar_poll_interval.
SetInterval(r) ==
  LET interval == req[r].body.radar_poll_interval
  IN  /\ req[r].body \in IntervalBodies
      /\ Saves(r, IntervalSet(req[r].seen, interval), {"radar_poll_interval"})
      /\ last' = IF Conflicts(r) THEN last ELSE [last EXCEPT !.interval = interval]

\* The program is started again, in a container or outside of one; what was
\* under way is gone.
Restart ==
  /\ docker' \in BOOLEAN
  /\ req' = [r \in Requests |-> IF req[r].phase = "loaded"
                                THEN [req[r] EXCEPT !.phase = "lost"] ELSE req[r]]
  /\ UNCHANGED <<row, raced, last>>

(***************************************************************************)
(* Reading settings                                                        *)
(***************************************************************************)

\* get_effective_llm_settings
EffectiveSettings ==
  LET p   == IF row = NoVal THEN NoVal ELSE normalize_provider(row.llm_provider)
      key == IF p = NoVal THEN NoVal ELSE Or(row.llm_api_key, EnvKey[p])
  IN  IF p = NoVal \/ (p \notin LocalProviders /\ key = NoVal) THEN NoVal
      ELSE [provider |-> p, key |-> key,
            base |-> Normalized(p, Or(row.llm_base_url, PROVIDER_REGISTRY[p].base))]

\* What get_settings_read shows as configured (_is_configured).
IsConfigured ==
  LET p == IF row = NoVal THEN NoVal ELSE normalize_provider(row.llm_provider)
  IN  /\ p # NoVal
      /\ p \in LocalProviders \/ row.llm_api_key # NoVal \/ EnvKey[p] # NoVal

\* get_llm_client: the configuration of the client, or NoVal when there is none
\* to be had (LLMConfigurationError).
get_llm_client ==
  IF EffectiveSettings = NoVal \/ EffectiveSettings.provider \notin Compatible
  THEN NoVal
  ELSE [EffectiveSettings EXCEPT
          !.base = normalize_openai_base_url(Or(@, OpenAIUrl))]

\* _resolve_credentials, for POST /llm/models: where the list is asked for, and
\* with which key.
resolve_credentials(p, key, base, use_saved) ==
  LET saved == use_saved /\ row # NoVal
      url   == Or(Or(base, IF saved THEN row.llm_base_url ELSE NoVal),
                  Or(PROVIDER_REGISTRY[p].base,
                     IF p = "openai" THEN OpenAIUrl ELSE NoVal))
  IN  [provider |-> p,
       key  |-> Or(key, IF use_saved
                        THEN Or(IF saved THEN row.llm_api_key ELSE NoVal, EnvKey[p])
                        ELSE NoVal),
       base |-> IF p \in Compatible /\ url # NoVal
                THEN normalize_openai_base_url(url) ELSE url]

\* list_provider_models: what it asks for the list with, or NoVal when it is refused
\* before anything is asked.
list_provider_models(p, key, base, use_saved) ==
  LET asked == resolve_credentials(p, key, base, use_saved)
  IN  IF \/ PROVIDER_REGISTRY[p].keyed /\ asked.key = NoVal
         \/ p \in Compatible /\ asked.base = NoVal
      THEN NoVal ELSE asked

(***************************************************************************)
(* Specification                                                           *)
(***************************************************************************)
ProviderInit ==
  /\ row \in {NoVal, Legacy}
  /\ docker \in BOOLEAN
  /\ req = [r \in Requests |-> Idle]
  /\ raced = FALSE
  /\ last = [body |-> NoVal, interval |-> NoVal]

WriteSettings ==
  \E r \in Requests : \/ \E b \in Bodies \cup IntervalBodies : LoadSettings(r, b)
                      \/ UpsertSettings(r)
                      \/ SetInterval(r)

ProviderNext == WriteSettings \/ Restart

(***************************************************************************)
(* Properties                                                              *)
(***************************************************************************)

\* The row is one that requests, or an earlier version, can have left, and every
\* request is in a phase of upsert_settings or set_radar_poll_interval.
ProviderTypeOK ==
  /\ row \in Rows \cup {NoVal}
  /\ docker \in BOOLEAN /\ raced \in BOOLEAN
  /\ req \in [Requests -> [phase : Phases, seen : Rows \cup {NoVal},
                           body : Bodies \cup IntervalBodies \cup {NoVal}]]
  /\ last \in [body : Bodies \cup {NoVal}, interval : Intervals \cup {NoVal}]

\* As long as no two PUTs of one kind raced, the row is what the last PUT of each
\* kind asked for: a provider, with the key if one was given, that is complete
\* enough to be used; and an interval of the radar.  A change of the one may overlap
\* a change of the other.
LonePutsHold ==
  ~raced =>
    /\ last.body # NoVal =>
         LET p == last.body.llm_provider
         IN  /\ row.llm_provider = p
             /\ last.body.llm_api_key # NoVal => row.llm_api_key = last.body.llm_api_key
             /\ PROVIDER_REGISTRY[p].keyed => Or(row.llm_api_key, EnvKey[p]) # NoVal
             /\ p = "azure_openai" => row.llm_base_url # NoVal
    /\ last.interval # NoVal => row.radar_poll_interval = last.interval

\* A request is refused by the primary key only if another one has found no row
\* as it did, and has inserted its own.
OnlyFirstPutsAreRefused ==
  \A r \in Requests : req[r].phase = "refused" =>
    \E q \in Requests \ {r} : req[q].seen = NoVal /\ req[q].phase = "saved"

\* A loopback URL with a port is rewritten whenever it is read; the others are not.
Movable(u) == u.port \/ u.host \notin Loopback

\* As long as no two PUTs of a provider raced, a client made now calls the host the
\* user asked for, as the process it runs in must spell it, however often it was
\* restarted inside or outside of a container since the URL was saved; and models
\* are listed from that host, with the same key.
CallsGoWhereAsked ==
  ~raced /\ last.body # NoVal /\ get_llm_client # NoVal =>
    LET p == last.body.llm_provider
        u == Or(Or(last.body.llm_base_url, PROVIDER_REGISTRY[p].base), OpenAIUrl)
    IN  /\ get_llm_client.provider = p
        /\ Movable(u) =>
             get_llm_client.base.host =
               IF u.host \in Loopback THEN IF docker THEN Gateway ELSE "127.0.0.1"
               ELSE u.host
        /\ list_provider_models(p, NoVal, NoVal, TRUE) = get_llm_client

\* What settings shows as configured can be called, and what it shows as not
\* configured cannot: get_settings_read and get_effective_llm_settings agree on
\* every row requests may have left, and on rows of earlier versions.
ConfiguredIsCallable == IsConfigured <=> EffectiveSettings # NoVal
=============================================================================
