---------------------------- MODULE AgentsProofs ----------------------------
(***************************************************************************)
(* The row of settings is what was asked for unless two PUTs of one kind   *)
(* race, and every client calls the host that was asked for, whatever the  *)
(* features that use it do meanwhile.  A research stays within its steps   *)
(* and searches, and is answered only with a brief that is stored.         *)
(***************************************************************************)
EXTENDS MCAgents, OperatorProofs

Columns == {"llm_provider", "llm_base_url", "llm_api_key", "radar_poll_interval"}

\* A row stays once it is there, and who has seen none when there is one now was
\* overtaken by an insert.
RowStays ==
  \A r \in Requests :
    /\ req[r].seen # NoVal => row # NoVal
    /\ req[r].phase # "idle" /\ req[r].seen = NoVal /\ row # NoVal =>
         \E q \in Requests : req[q].seen = NoVal /\ req[q].phase = "saved"

\* A URL as it is spelled in a container, or outside of one.
Spell(u, d) ==
  [(IF d THEN Rewrite(u, {"127.0.0.1", "localhost"}, Gateway)
         ELSE Rewrite(u, {Gateway, "localhost"}, "127.0.0.1")) EXCEPT !.v1 = TRUE]
Spelled(p, u, d) == IF u # NoVal /\ PROVIDER_REGISTRY[p].shown THEN Spell(u, d) ELSE u

\* As long as nobody raced, a row is there if one was saved, and its URL is the one
\* asked for, as the container or the host spelled it then.
UrlIsAsked ==
  ~raced =>
    /\ last.body # NoVal =>
         /\ row # NoVal
         /\ \E d \in BOOLEAN :
              LET p == last.body.llm_provider
              IN  row.llm_base_url =
                    Spelled(p, Or(last.body.llm_base_url, PROVIDER_REGISTRY[p].base), d)
    /\ last.interval # NoVal => row # NoVal

ProviderInv ==
  ProviderTypeOK /\ RowStays /\ UrlIsAsked /\ LonePutsHold /\ OnlyFirstPutsAreRefused

USE ProviderAssumption

(***************************************************************************)
(* Rows, and what is made of them                                          *)
(***************************************************************************)

\* Every provider is known, and has a base URL or none.
LEMMA RegistryIsTyped ==
  /\ LLMProviders = {"openai", "anthropic", "groq", "azure_openai", "local"}
  /\ \A p \in LLMProviders : PROVIDER_REGISTRY[p].base \in BaseUrls
<1>1. LLMProviders = {"openai", "anthropic", "groq", "azure_openai", "local"}
  BY DEF LLMProviders, PROVIDER_REGISTRY
<1>2. PROVIDER_REGISTRY["groq"].base \in BaseUrls
  BY DEF PROVIDER_REGISTRY, BaseUrls, Addresses, Url, Loopback
<1>3. PROVIDER_REGISTRY["local"].base \in BaseUrls
  BY DEF PROVIDER_REGISTRY, BaseUrls, Addresses, Url, Loopback
<1>4. \A p \in {"openai", "anthropic", "azure_openai"} : PROVIDER_REGISTRY[p].base = NoVal
  BY DEF PROVIDER_REGISTRY
<1> QED BY <1>1, <1>2, <1>3, <1>4 DEF BaseUrls

\* A URL that is rewritten differs in its host at most.
LEMMA RewrittenIsUrl ==
  ASSUME NEW u \in Addresses, NEW hosts, NEW to \in Hosts
  PROVE  /\ Rewrite(u, hosts, to) \in Addresses
         /\ Rewrite(u, hosts, to).port = u.port
         /\ Rewrite(u, hosts, to).host =
              IF u.host \in hosts /\ (u.port \/ Bare(u)) THEN to ELSE u.host
BY DEF Rewrite, Addresses

\* Spelling a URL keeps its port and reaches the same host, if it can be moved, and
\* spelling it twice is spelling it once.
LEMMA SpellReaches ==
  ASSUME NEW u \in Addresses, NEW d \in BOOLEAN
  PROVE  /\ Spell(u, d) \in Addresses
         /\ docker = d => normalize_openai_base_url(u) = Spell(u, d)
         /\ Spell(Spell(u, d), d) = Spell(u, d)
         /\ Spell(u, d).host \in Loopback <=> u.host \in Loopback
         /\ u.host \notin Loopback => Spell(u, d).host = u.host
         /\ Movable(u) => /\ Movable(Spell(u, d))
                          /\ u.host \in Loopback =>
                               Spell(u, d).host = IF d THEN Gateway ELSE "127.0.0.1"
<1> DEFINE hosts == IF d THEN {"127.0.0.1", "localhost"} ELSE {Gateway, "localhost"}
           to    == IF d THEN Gateway ELSE "127.0.0.1"
           Again(v) == [Rewrite(v, hosts, to) EXCEPT !.v1 = TRUE]
<1>1. \A v : Spell(v, d) = Again(v)
  BY DEF Spell
<1>2. to \in Hosts /\ to \notin hosts /\ to \in Loopback /\ hosts \subseteq Loopback
      /\ Loopback \ hosts = {to}
  BY DEF Loopback, Gateway
<1>3. docker = d => normalize_openai_base_url(u) = Spell(u, d)
  BY DEF normalize_openai_base_url, Spell
<1> HIDE DEF hosts, to
<1>4. \A v \in Addresses :
        /\ Rewrite(v, hosts, to) \in Addresses
        /\ Rewrite(v, hosts, to) =
             IF v.host \in hosts /\ (v.port \/ Bare(v)) THEN [v EXCEPT !.host = to] ELSE v
  BY <1>2, RewrittenIsUrl DEF Rewrite
<1>5. \A v \in Addresses :
        /\ Again(v) \in Addresses /\ Again(v).v1 /\ Again(v).port = v.port
        /\ Again(v).host = IF v.host \in hosts /\ (v.port \/ Bare(v)) THEN to ELSE v.host
        /\ ~Bare(Again(v))
  <2> SUFFICES ASSUME NEW v \in Addresses
               PROVE  /\ Again(v) \in Addresses /\ Again(v).v1 /\ Again(v).port = v.port
                      /\ Again(v).host =
                           IF v.host \in hosts /\ (v.port \/ Bare(v)) THEN to ELSE v.host
                      /\ ~Bare(Again(v))
    OBVIOUS
  <2> DEFINE w == Rewrite(v, hosts, to)
  <2>1. /\ w \in Addresses /\ w.port = v.port
        /\ w.host = IF v.host \in hosts /\ (v.port \/ Bare(v)) THEN to ELSE v.host
    BY <1>2, RewrittenIsUrl
  <2> HIDE DEF w
  <2>2. /\ [w EXCEPT !.v1 = TRUE] \in Addresses
        /\ [w EXCEPT !.v1 = TRUE].v1 = TRUE
        /\ [w EXCEPT !.v1 = TRUE].port = w.port /\ [w EXCEPT !.v1 = TRUE].host = w.host
    BY <2>1 DEF Addresses
  <2>3. Again(v) = [w EXCEPT !.v1 = TRUE]
    BY DEF w
  <2> HIDE DEF Again
  <2> QED BY <2>1, <2>2, <2>3 DEF Bare
<1>6. \A v \in Addresses : v.v1 /\ ~(v.host \in hosts /\ v.port) => Again(v) = v
  BY <1>4 DEF Addresses, Bare
<1> HIDE DEF Again
<1>7. Again(Again(u)) = Again(u)
  <2>1. Again(u) \in Addresses /\ Again(u).v1
    BY <1>5
  <2>2. ~(Again(u).host \in hosts /\ Again(u).port)
    BY <1>2, <1>5
  <2> QED BY <1>6, <2>1, <2>2
<1> QED BY <1>1, <1>2, <1>3, <1>5, <1>7 DEF Movable, to

\* Spelling a URL for where the program runs makes a URL of it.
LEMMA SpelledIsUrl ==
  ASSUME NEW p \in LLMProviders, NEW u \in BaseUrls, NEW d \in BOOLEAN
  PROVE  /\ Spelled(p, u, d) \in BaseUrls
         /\ docker = d => Normalized(p, u) = Spelled(p, u, d)
         /\ Spelled(p, u, d) = NoVal <=> u = NoVal
<1>1. CASE u = NoVal
  BY <1>1 DEF Spelled, Normalized, BaseUrls
<1>2. CASE u # NoVal
  <2>1. u \in Addresses
    BY <1>2 DEF BaseUrls
  <2> QED BY <1>2, <2>1, SpellReaches DEF Spelled, Normalized, BaseUrls
<1> QED BY <1>1, <1>2

\* A PUT assigns a row.
LEMMA AssignedIsRow ==
  ASSUME NEW seen \in Rows \cup {NoVal}, NEW body \in Bodies, docker \in BOOLEAN
  PROVE  LET p == body.llm_provider
             u == Or(body.llm_base_url, PROVIDER_REGISTRY[p].base)
         IN  /\ Assigned(seen, body) \in Rows
             /\ Assigned(seen, body).llm_provider = p /\ p \in LLMProviders
             /\ u \in BaseUrls
             /\ Assigned(seen, body).llm_base_url = Spelled(p, u, docker)
             /\ body.llm_api_key # NoVal =>
                  Assigned(seen, body).llm_api_key = body.llm_api_key
             /\ seen # NoVal =>
                  Assigned(seen, body).radar_poll_interval = seen.radar_poll_interval
<1> DEFINE p == body.llm_provider
           u == Or(body.llm_base_url, PROVIDER_REGISTRY[p].base)
           base == IF seen = NoVal THEN BlankRow ELSE seen
<1>1. p \in LLMProviders /\ body.llm_base_url \in BaseUrls /\ body.llm_api_key \in Keys
  OBVIOUS
<1>2. u \in BaseUrls
  BY <1>1, RegistryIsTyped DEF Or
<1>3. base \in Rows
  BY DEF BlankRow, Row, Rows, Intervals, BaseUrls, Keys
<1>4. Or(body.llm_api_key, base.llm_api_key) \in Keys
  BY <1>1, <1>3 DEF Or, Rows
<1>5. Normalized(p, u) = Spelled(p, u, docker) /\ Spelled(p, u, docker) \in BaseUrls
  BY <1>1, <1>2, SpelledIsUrl
<1>6. Assigned(seen, body) = Row(p, Normalized(p, u), Or(body.llm_api_key, base.llm_api_key),
                                 base.radar_poll_interval)
  BY DEF Assigned
<1>7. base.radar_poll_interval \in Intervals
  BY <1>3 DEF Rows
<1> HIDE DEF p, u, base
<1>8. Assigned(seen, body) \in Rows
  BY <1>1, <1>4, <1>5, <1>6, <1>7 DEF Row, Rows
<1>9. /\ Assigned(seen, body).llm_provider = p
      /\ Assigned(seen, body).llm_base_url = Spelled(p, u, docker)
      /\ Assigned(seen, body).llm_api_key = Or(body.llm_api_key, base.llm_api_key)
      /\ Assigned(seen, body).radar_poll_interval = base.radar_poll_interval
  BY <1>5, <1>6 DEF Row
<1> QED BY <1>1, <1>2, <1>8, <1>9 DEF p, u, base, Or

\* What is sent at a commit: what was assigned, where it differs from what was seen.
LEMMA FlushedIsRow ==
  ASSUME NEW seen \in Rows \cup {NoVal}, NEW new \in Rows, NEW now \in Rows \cup {NoVal},
         seen # NoVal => now # NoVal
  PROVE  /\ Flushed(seen, new, now) \in Rows
         /\ seen = NoVal => Flushed(seen, new, now) = new
         /\ seen # NoVal => \A c \in Columns :
              Flushed(seen, new, now)[c] = IF new[c] = seen[c] THEN now[c] ELSE new[c]
<1>1. CASE seen = NoVal
  BY <1>1 DEF Flushed
<1>2. CASE seen # NoVal
  <2>1. now \in Rows /\ DOMAIN new = Columns
    BY <1>2 DEF Rows, Columns
  <2>2. Flushed(seen, new, now) =
          [c \in Columns |-> IF new[c] = seen[c] THEN now[c] ELSE new[c]]
    BY <1>2, <2>1 DEF Flushed
  <2>3. Flushed(seen, new, now) =
          Row(IF new.llm_provider = seen.llm_provider THEN now.llm_provider
                                                      ELSE new.llm_provider,
              IF new.llm_base_url = seen.llm_base_url THEN now.llm_base_url
                                                      ELSE new.llm_base_url,
              IF new.llm_api_key = seen.llm_api_key THEN now.llm_api_key
                                                    ELSE new.llm_api_key,
              IF new.radar_poll_interval = seen.radar_poll_interval
              THEN now.radar_poll_interval ELSE new.radar_poll_interval)
    BY <2>2 DEF Row, Columns
  <2>4. Flushed(seen, new, now) \in Rows
    BY <2>1, <2>3 DEF Row, Rows
  <2> QED BY <1>2, <2>2, <2>4
<1> QED BY <1>1, <1>2

(***************************************************************************)
(* Each step of the requests keeps the invariant                           *)
(***************************************************************************)
ReqRecords == [phase : Phases, seen : Rows \cup {NoVal},
               body : Bodies \cup IntervalBodies \cup {NoVal}]

\* A request that ends keeps its body and what it has seen.
LEMMA EndingIsTyped ==
  ASSUME ProviderTypeOK, NEW r \in Requests, NEW how \in Phases, Ends(r, how)
  PROVE  /\ req' \in [Requests -> ReqRecords]
         /\ req'[r].phase = how /\ req'[r].seen = req[r].seen
         /\ \A q \in Requests \ {r} : req'[q] = req[q]
BY DEF ProviderTypeOK, Ends, ReqRecords

\* A commit inserts the one row, updates it, or fails since another has inserted it.
LEMMA SaveKeepsRows ==
  ASSUME ProviderInv, NEW r \in Requests, NEW new \in Rows, NEW columns,
         Saves(r, new, columns)
  PROVE  /\ RowStays' /\ OnlyFirstPutsAreRefused'
         /\ row' \in Rows \cup {NoVal} /\ req' \in [Requests -> ReqRecords]
         /\ raced' \in BOOLEAN
         /\ Conflicts(r) => UNCHANGED <<row, raced>>
         /\ ~Conflicts(r) =>
              /\ row' = Flushed(req[r].seen, new, row) /\ row' \in Rows
              /\ req[r].seen = NoVal => row = NoVal
              /\ req[r].seen # NoVal => row # NoVal
              /\ ~raced' => /\ ~raced
                            /\ row # NoVal => \A c \in columns : req[r].seen[c] = row[c]
<1>0. /\ ProviderTypeOK /\ RowStays /\ OnlyFirstPutsAreRefused
      /\ req[r].phase = "loaded" /\ req[r].seen \in Rows \cup {NoVal}
      /\ req[r].seen # NoVal => row # NoVal
  BY DEF ProviderInv, Saves, ProviderTypeOK, RowStays
<1>1. CASE Conflicts(r)
  <2>1. Ends(r, "refused") /\ UNCHANGED <<row, raced>>
    BY <1>1 DEF Saves
  <2>2. /\ req' \in [Requests -> ReqRecords]
        /\ req'[r].phase = "refused" /\ req'[r].seen = req[r].seen
        /\ \A q \in Requests \ {r} : req'[q] = req[q]
    BY <1>0, <2>1, EndingIsTyped DEF Phases
  <2>3. PICK q \in Requests : req[q].seen = NoVal /\ req[q].phase = "saved"
    BY <1>0, <1>1 DEF RowStays, Conflicts
  <2>4. q # r /\ req'[q] = req[q]
    BY <1>0, <2>2, <2>3
  <2>5. RowStays'
    BY <1>0, <2>1, <2>2, <2>3, <2>4 DEF RowStays
  <2>6. OnlyFirstPutsAreRefused'
    <3> SUFFICES ASSUME NEW s \in Requests, req'[s].phase = "refused"
                 PROVE  \E t \in Requests \ {s} :
                          req'[t].seen = NoVal /\ req'[t].phase = "saved"
      BY DEF OnlyFirstPutsAreRefused
    <3>1. CASE s = r
      BY <2>3, <2>4, <3>1
    <3>2. CASE s # r
      <4>1. PICK t \in Requests \ {s} : req[t].seen = NoVal /\ req[t].phase = "saved"
        BY <1>0, <2>2, <3>2 DEF OnlyFirstPutsAreRefused
      <4> QED BY <1>0, <2>2, <4>1
    <3> QED BY <3>1, <3>2
  <2> QED BY <1>0, <1>1, <2>1, <2>2, <2>5, <2>6 DEF ProviderTypeOK
<1>2. CASE ~Conflicts(r)
  <2>1. /\ Ends(r, "saved") /\ row' = Flushed(req[r].seen, new, row)
        /\ raced' = (raced \/ (row # NoVal /\ \E c \in columns : req[r].seen[c] # row[c]))
    BY <1>2 DEF Saves
  <2>2. /\ req' \in [Requests -> ReqRecords]
        /\ req'[r].phase = "saved" /\ req'[r].seen = req[r].seen
        /\ \A q \in Requests \ {r} : req'[q] = req[q]
    BY <1>0, <2>1, EndingIsTyped DEF Phases
  <2>3. row' \in Rows /\ row' # NoVal
    BY <1>0, <2>1, FlushedIsRow DEF ProviderTypeOK
  <2>4. req[r].seen = NoVal => row = NoVal
    BY <1>2 DEF Conflicts
  <2>5. RowStays'
    <3> SUFFICES ASSUME NEW s \in Requests, req'[s].phase # "idle", req'[s].seen = NoVal
                 PROVE  \E t \in Requests : req'[t].seen = NoVal /\ req'[t].phase = "saved"
      BY <2>3 DEF RowStays
    <3>1. CASE row = NoVal
      BY <1>0, <2>2, <3>1
    <3>2. CASE row # NoVal
      <4>1. req[s].phase # "idle" /\ req[s].seen = NoVal
        BY <1>0, <2>2
      <4>2. PICK t \in Requests : req[t].seen = NoVal /\ req[t].phase = "saved"
        BY <1>0, <3>2, <4>1 DEF RowStays
      <4> QED BY <2>2, <4>2
    <3> QED BY <3>1, <3>2
  <2>6. OnlyFirstPutsAreRefused'
    <3> SUFFICES ASSUME NEW s \in Requests, req'[s].phase = "refused"
                 PROVE  \E t \in Requests \ {s} :
                          req'[t].seen = NoVal /\ req'[t].phase = "saved"
      BY DEF OnlyFirstPutsAreRefused
    <3>1. PICK t \in Requests \ {s} : req[t].seen = NoVal /\ req[t].phase = "saved"
      BY <1>0, <2>2 DEF OnlyFirstPutsAreRefused
    <3> QED BY <2>2, <3>1
  <2>7. raced' \in BOOLEAN
    BY <1>0, <2>1 DEF ProviderTypeOK
  <2>8. ~raced' => /\ ~raced
                   /\ row # NoVal => \A c \in columns : req[r].seen[c] = row[c]
    BY <2>1
  <2> QED BY <1>0, <1>2, <2>1, <2>2, <2>3, <2>4, <2>5, <2>6, <2>7, <2>8
<1> QED BY <1>1, <1>2

\* An interval is set in the row there is, or in a new one.
LEMMA IntervalIsRow ==
  ASSUME NEW seen \in Rows \cup {NoVal}, NEW i \in Intervals
  PROVE  /\ IntervalSet(seen, i) \in Rows /\ IntervalSet(seen, i).radar_poll_interval = i
         /\ seen # NoVal => \A c \in ProviderColumns : IntervalSet(seen, i)[c] = seen[c]
<1> DEFINE base == IF seen = NoVal THEN BlankRow ELSE seen
<1>1. base \in Rows
  BY DEF BlankRow, Row, Rows, Intervals, BaseUrls, Keys
<1>2. IntervalSet(seen, i) = [base EXCEPT !.radar_poll_interval = i]
  BY DEF IntervalSet
<1>3. seen # NoVal => base = seen
  OBVIOUS
<1> HIDE DEF base
<1> QED BY <1>1, <1>2, <1>3 DEF Rows, ProviderColumns

\* A request that neither saves nor is refused: it loads, is invalid, or is lost.
Unmoved(q) ==
  /\ req'[q].seen # NoVal => row # NoVal
  /\ req'[q].phase # "idle" /\ req'[q].seen = NoVal =>
       row = NoVal \/ (req[q].phase # "idle" /\ req[q].seen = NoVal)
  /\ req[q].phase = "saved" => req'[q] = req[q]
  /\ req'[q].phase = "refused" => req[q].phase = "refused"

\* Steps that save nothing keep the invariant.
LEMMA QuietKeepsProvider ==
  ASSUME ProviderInv, UNCHANGED <<row, raced, last>>, docker' \in BOOLEAN,
         req' \in [Requests -> ReqRecords], \A q \in Requests : Unmoved(q)
  PROVE  ProviderInv'
<1>0. ProviderTypeOK /\ RowStays /\ UrlIsAsked /\ LonePutsHold /\ OnlyFirstPutsAreRefused
  BY DEF ProviderInv
<1>1. ProviderTypeOK' /\ UrlIsAsked' /\ LonePutsHold'
  BY <1>0 DEF ProviderTypeOK, ReqRecords, UrlIsAsked, LonePutsHold
<1>2. \A q \in Requests : req[q].seen = NoVal /\ req[q].phase = "saved" =>
        req'[q].seen = NoVal /\ req'[q].phase = "saved"
  BY DEF Unmoved
<1>3. RowStays'
  <2> SUFFICES ASSUME NEW s \in Requests, req'[s].phase # "idle", req'[s].seen = NoVal,
                      row # NoVal
               PROVE  \E t \in Requests : req'[t].seen = NoVal /\ req'[t].phase = "saved"
    BY DEF RowStays, Unmoved
  <2>1. req[s].phase # "idle" /\ req[s].seen = NoVal
    BY DEF Unmoved
  <2> QED BY <1>0, <1>2, <2>1 DEF RowStays
<1>4. OnlyFirstPutsAreRefused'
  <2> SUFFICES ASSUME NEW s \in Requests, req'[s].phase = "refused"
               PROVE  \E t \in Requests \ {s} :
                        req'[t].seen = NoVal /\ req'[t].phase = "saved"
    BY DEF OnlyFirstPutsAreRefused
  <2>1. req[s].phase = "refused"
    BY DEF Unmoved
  <2> QED BY <1>0, <1>2, <2>1 DEF OnlyFirstPutsAreRefused
<1> QED BY <1>1, <1>3, <1>4 DEF ProviderInv

\* upsert_settings keeps the invariant.
LEMMA UpsertKeepsProvider ==
  ASSUME ProviderInv, NEW r \in Requests, UpsertSettings(r) PROVE ProviderInv'
<1> DEFINE body == req[r].body
           seen == req[r].seen
           new  == Assigned(seen, body)
           p    == body.llm_provider
           asked == Or(body.llm_base_url, PROVIDER_REGISTRY[p].base)
<1>0. /\ ProviderTypeOK /\ RowStays /\ UrlIsAsked /\ LonePutsHold /\ OnlyFirstPutsAreRefused
      /\ body \in Bodies /\ seen \in Rows \cup {NoVal} /\ docker \in BOOLEAN
  BY DEF ProviderInv, UpsertSettings, ProviderTypeOK
<1>1. /\ new \in Rows /\ new.llm_provider = p /\ p \in LLMProviders
      /\ new.llm_base_url = Spelled(p, asked, docker)
      /\ body.llm_api_key # NoVal => new.llm_api_key = body.llm_api_key
      /\ seen # NoVal => new.radar_poll_interval = seen.radar_poll_interval
  BY <1>0, AssignedIsRow
<1>2. CASE /\ ValidConfig(p, Or(new.llm_api_key, EnvKey[p]), new.llm_base_url)
           /\ Saves(r, new, ProviderColumns)
           /\ last' = IF Conflicts(r) THEN last ELSE [last EXCEPT !.body = body]
  <2>0. UNCHANGED docker
    BY <1>2 DEF Saves
  <2>1. /\ RowStays' /\ OnlyFirstPutsAreRefused'
        /\ row' \in Rows \cup {NoVal} /\ req' \in [Requests -> ReqRecords]
        /\ raced' \in BOOLEAN
        /\ Conflicts(r) => UNCHANGED <<row, raced>>
        /\ ~Conflicts(r) =>
             /\ row' = Flushed(seen, new, row) /\ row' \in Rows
             /\ seen = NoVal => row = NoVal
             /\ seen # NoVal => row # NoVal
             /\ ~raced' => /\ ~raced
                           /\ row # NoVal => \A c \in ProviderColumns : seen[c] = row[c]
    BY <1>1, <1>2, SaveKeepsRows
  <2>2. last' \in [body : Bodies \cup {NoVal}, interval : Intervals \cup {NoVal}]
    BY <1>0, <1>2 DEF ProviderTypeOK
  <2>3. ProviderTypeOK'
    BY <1>0, <2>0, <2>1, <2>2 DEF ProviderTypeOK, ReqRecords
  <2>4. CASE Conflicts(r)
    <3>1. UNCHANGED <<row, raced, last, docker>>
      BY <1>2, <2>0, <2>1, <2>4
    <3> QED BY <1>0, <2>1, <2>3, <3>1 DEF ProviderInv, UrlIsAsked, LonePutsHold
  <2>5. CASE ~Conflicts(r)
    <3>1. /\ last'.body = body /\ last'.interval = last.interval
          /\ row' \in Rows /\ row' # NoVal
      BY <1>0, <1>2, <2>1, <2>5 DEF ProviderTypeOK
    <3>2. ~raced' => \A c \in ProviderColumns : row'[c] = new[c]
      <4>1. CASE seen = NoVal
        BY <1>0, <1>1, <2>1, <2>5, <4>1, FlushedIsRow DEF ProviderTypeOK
      <4>2. CASE seen # NoVal
        <5>1. ProviderColumns \subseteq Columns
          BY DEF ProviderColumns, Columns
        <5>2. \A c \in Columns : row'[c] = IF new[c] = seen[c] THEN row[c] ELSE new[c]
          BY <1>0, <1>1, <2>1, <2>5, <4>2, FlushedIsRow DEF ProviderTypeOK
        <5> QED BY <2>1, <2>5, <4>2, <5>1, <5>2
      <4> QED BY <4>1, <4>2
    <3>3. ~raced' /\ last.interval # NoVal =>
            row'.radar_poll_interval = last.interval
      <4> SUFFICES ASSUME ~raced', last.interval # NoVal
                   PROVE  row'.radar_poll_interval = last.interval
        OBVIOUS
      <4>1. row # NoVal /\ row.radar_poll_interval = last.interval
        BY <1>0, <2>1, <2>5 DEF UrlIsAsked, LonePutsHold
      <4>2. seen # NoVal
        BY <2>1, <2>5, <4>1
      <4>3. \A c \in Columns : row'[c] = IF new[c] = seen[c] THEN row[c] ELSE new[c]
        BY <1>0, <1>1, <2>1, <2>5, <4>2, FlushedIsRow DEF ProviderTypeOK
      <4> QED BY <1>1, <4>1, <4>2, <4>3 DEF Columns
    <3>4. ~raced' => /\ row'.llm_provider = p /\ row'.llm_base_url = new.llm_base_url
                     /\ row'.llm_api_key = new.llm_api_key
      BY <1>1, <3>2 DEF ProviderColumns
    <3>5. UrlIsAsked'
      BY <1>0, <1>1, <3>1, <3>4 DEF UrlIsAsked
    <3>6. LonePutsHold'
      BY <1>1, <1>2, <3>1, <3>3, <3>4 DEF LonePutsHold, ValidConfig
    <3> QED BY <2>1, <2>3, <3>5, <3>6 DEF ProviderInv
  <2> QED BY <2>4, <2>5
<1>3. CASE req[r].phase = "loaded" /\ Ends(r, "invalid")
           /\ UNCHANGED <<row, docker, raced, last>>
  <2>1. /\ req' \in [Requests -> ReqRecords]
        /\ req'[r].phase = "invalid" /\ req'[r].seen = req[r].seen
        /\ \A q \in Requests \ {r} : req'[q] = req[q]
    BY <1>0, <1>3, EndingIsTyped DEF Phases
  <2>2. \A q \in Requests : Unmoved(q)
    BY <1>0, <1>3, <2>1 DEF Unmoved, RowStays
  <2> QED BY <1>0, <1>3, <2>1, <2>2, QuietKeepsProvider
<1> QED BY <1>2, <1>3 DEF UpsertSettings

\* set_radar_poll_interval keeps the invariant.
LEMMA IntervalKeepsProvider ==
  ASSUME ProviderInv, NEW r \in Requests, SetInterval(r) PROVE ProviderInv'
<1> DEFINE i    == req[r].body.radar_poll_interval
           seen == req[r].seen
           new  == IntervalSet(seen, i)
<1>0. /\ ProviderTypeOK /\ RowStays /\ UrlIsAsked /\ LonePutsHold /\ OnlyFirstPutsAreRefused
      /\ i \in Intervals /\ seen \in Rows \cup {NoVal} /\ docker \in BOOLEAN
  BY DEF ProviderInv, SetInterval, IntervalBodies, ProviderTypeOK
<1>1. /\ new \in Rows /\ new.radar_poll_interval = i
      /\ seen # NoVal => \A c \in ProviderColumns : new[c] = seen[c]
  BY <1>0, IntervalIsRow
<1>2. /\ Saves(r, new, {"radar_poll_interval"}) /\ UNCHANGED docker
      /\ last' = IF Conflicts(r) THEN last ELSE [last EXCEPT !.interval = i]
  BY DEF SetInterval, Saves
<1>3. /\ RowStays' /\ OnlyFirstPutsAreRefused'
      /\ row' \in Rows \cup {NoVal} /\ req' \in [Requests -> ReqRecords]
      /\ raced' \in BOOLEAN
      /\ Conflicts(r) => UNCHANGED <<row, raced>>
      /\ ~Conflicts(r) =>
           /\ row' = Flushed(seen, new, row) /\ row' \in Rows
           /\ seen = NoVal => row = NoVal
           /\ seen # NoVal => row # NoVal
           /\ ~raced' =>
                /\ ~raced
                /\ row # NoVal => \A c \in {"radar_poll_interval"} : seen[c] = row[c]
  BY <1>1, <1>2, SaveKeepsRows
<1>4. ProviderTypeOK'
  <2>1. last' \in [body : Bodies \cup {NoVal}, interval : Intervals \cup {NoVal}]
    BY <1>0, <1>2 DEF ProviderTypeOK
  <2> QED BY <1>0, <1>2, <1>3, <2>1 DEF ProviderTypeOK, ReqRecords
<1>5. CASE Conflicts(r)
  <2>1. UNCHANGED <<row, raced, last, docker>>
    BY <1>2, <1>3, <1>5
  <2> QED BY <1>0, <1>3, <1>4, <2>1 DEF ProviderInv, UrlIsAsked, LonePutsHold
<1>6. CASE ~Conflicts(r)
  <2>1. /\ last'.interval = i /\ last'.body = last.body
        /\ row' \in Rows /\ row' # NoVal
    BY <1>0, <1>2, <1>3, <1>6 DEF ProviderTypeOK
  <2>2. seen # NoVal => \A c \in Columns :
                          row'[c] = IF new[c] = seen[c] THEN row[c] ELSE new[c]
    BY <1>0, <1>1, <1>3, <1>6, FlushedIsRow DEF ProviderTypeOK
  <2>3. seen = NoVal => row' = new
    BY <1>0, <1>1, <1>3, <1>6, FlushedIsRow DEF ProviderTypeOK
  <2>4. ~raced' => row'.radar_poll_interval = i
    BY <1>1, <1>3, <1>6, <2>2, <2>3 DEF Columns
  <2>5. seen # NoVal => \A c \in ProviderColumns : row'[c] = row[c]
    BY <1>1, <2>2 DEF Columns, ProviderColumns
  <2>6. ~raced' /\ last.body # NoVal =>
          /\ row'.llm_provider = row.llm_provider /\ row'.llm_base_url = row.llm_base_url
          /\ row'.llm_api_key = row.llm_api_key
    BY <1>0, <1>3, <1>6, <2>5 DEF UrlIsAsked, ProviderColumns
  <2>7. UrlIsAsked'
    BY <1>0, <1>3, <1>6, <2>1, <2>6 DEF UrlIsAsked
  <2>8. LonePutsHold'
    BY <1>0, <1>3, <1>6, <2>1, <2>4, <2>6 DEF LonePutsHold
  <2> QED BY <1>3, <1>4, <2>7, <2>8 DEF ProviderInv
<1> QED BY <1>5, <1>6

\* At first there is no row, or one of an earlier version, and nothing was asked for.
LEMMA InitProvider == ProviderInit => ProviderInv
<1> SUFFICES ASSUME ProviderInit PROVE ProviderInv
  OBVIOUS
<1>1. ProviderTypeOK
  BY DEF ProviderInit, ProviderTypeOK, Idle, Phases
<1>2. RowStays /\ OnlyFirstPutsAreRefused
  BY DEF ProviderInit, RowStays, OnlyFirstPutsAreRefused, Idle
<1>3. UrlIsAsked /\ LonePutsHold
  BY DEF ProviderInit, UrlIsAsked, LonePutsHold
<1> QED BY <1>1, <1>2, <1>3 DEF ProviderInv

\* No feature writes settings: whatever they do, the row changes as its requests do.
LEMMA NextKeepsProvider ==
  ASSUME ProviderInv, [Next]_vars PROVE ProviderInv'
<1>0. ProviderTypeOK /\ RowStays
  BY DEF ProviderInv
<1>1. ASSUME NEW r \in Requests, NEW b \in Bodies \cup IntervalBodies, LoadSettings(r, b)
      PROVE  ProviderInv'
  <2>1. /\ req[r] = Idle /\ UNCHANGED <<row, docker, raced, last>>
        /\ req' = [req EXCEPT ![r] = [phase |-> "loaded", body |-> b, seen |-> row]]
    BY <1>1 DEF LoadSettings
  <2>2. req' \in [Requests -> ReqRecords]
    BY <1>0, <2>1 DEF ProviderTypeOK, ReqRecords, Phases
  <2>3. \A q \in Requests : Unmoved(q)
    BY <1>0, <2>1 DEF ProviderTypeOK, RowStays, Unmoved, Idle
  <2> QED BY <1>0, <2>1, <2>2, <2>3, QuietKeepsProvider DEF ProviderTypeOK
<1>2. CASE Restart
  <2>1. req' \in [Requests -> ReqRecords]
    BY <1>0, <1>2 DEF Restart, ProviderTypeOK, ReqRecords, Phases
  <2>2. \A q \in Requests : Unmoved(q)
    BY <1>0, <1>2 DEF Restart, ProviderTypeOK, RowStays, Unmoved
  <2> QED BY <1>2, <2>1, <2>2, QuietKeepsProvider DEF Restart
<1>3. CASE UNCHANGED providerVars
  <2>1. \A q \in Requests : Unmoved(q)
    BY <1>0, <1>3 DEF providerVars, RowStays, Unmoved
  <2> QED BY <1>0, <1>3, <2>1, QuietKeepsProvider DEF providerVars, ProviderTypeOK, ReqRecords
<1>4. WriteSettings => ProviderInv'
  BY <1>1, UpsertKeepsProvider, IntervalKeepsProvider DEF WriteSettings
<1>5. WriteSettings \/ Restart \/ UNCHANGED providerVars
  BY DEF Next, RestartAll, StartResearch, Continues, Decide, SearchWeb, Synthesize,
         StoreBrief, DeleteJob, StartLetter, WriteLetter, vars
<1> QED BY <1>2, <1>3, <1>4, <1>5

(***************************************************************************)
(* What follows from the invariant                                         *)
(***************************************************************************)

\* A row of a known provider is callable if it shows as configured.
LEMMA ConfiguredRowIsCallable ==
  ASSUME ProviderTypeOK PROVE ConfiguredIsCallable
<1> DEFINE p   == normalize_provider(row.llm_provider)
           key == Or(row.llm_api_key, EnvKey[p])
           url == Or(row.llm_base_url, PROVIDER_REGISTRY[p].base)
<1>0. row \in Rows \cup {NoVal} /\ docker \in BOOLEAN
  BY DEF ProviderTypeOK
<1>1. CASE row = NoVal
  BY <1>1 DEF ConfiguredIsCallable, IsConfigured, EffectiveSettings
<1>2. CASE row # NoVal
  <2>1. row \in Rows /\ row.llm_api_key \in Keys /\ row.llm_base_url \in BaseUrls
    BY <1>0, <1>2 DEF Rows
  <2>2. CASE p = NoVal
    BY <1>2, <2>2 DEF ConfiguredIsCallable, IsConfigured, EffectiveSettings
  <2>3. CASE p # NoVal
    <3>1. p \in LLMProviders
      BY <2>3, RegistryIsTyped DEF normalize_provider
    <3>2. url \in BaseUrls /\ key \in Keys
      BY <2>1, <3>1, RegistryIsTyped DEF Or
    <3>3. Normalized(p, url) \in BaseUrls
      BY <1>0, <3>1, <3>2, SpelledIsUrl
    <3>4. [provider |-> p, key |-> key, base |-> Normalized(p, url)] \in Effective
      BY <3>1, <3>2, <3>3 DEF Effective
    <3>5. [provider |-> p, key |-> key, base |-> Normalized(p, url)] # NoVal
      BY <3>4
    <3>6. key = NoVal <=> row.llm_api_key = NoVal /\ EnvKey[p] = NoVal
      BY DEF Or
    <3>7. IsConfigured <=> p \in LocalProviders \/ key # NoVal
      BY <1>2, <2>3, <3>6 DEF IsConfigured
    <3>8. EffectiveSettings =
            IF p \notin LocalProviders /\ key = NoVal THEN NoVal
            ELSE [provider |-> p, key |-> key, base |-> Normalized(p, url)]
      BY <1>2, <2>3 DEF EffectiveSettings
    <3> HIDE DEF p, key, url
    <3> QED BY <3>5, <3>7, <3>8 DEF ConfiguredIsCallable
  <2> QED BY <2>2, <2>3
<1> QED BY <1>1, <1>2

\* A client of a row nobody raced for calls where it was asked to.
LEMMA AskedIsCalled ==
  ASSUME ProviderInv PROVE CallsGoWhereAsked
<1> SUFFICES ASSUME ~raced, last.body # NoVal, get_llm_client # NoVal
             PROVE  LET p == last.body.llm_provider
                        u == Or(Or(last.body.llm_base_url, PROVIDER_REGISTRY[p].base),
                                OpenAIUrl)
                    IN  /\ get_llm_client.provider = p
                        /\ Movable(u) =>
                             get_llm_client.base.host =
                               IF u.host \in Loopback
                               THEN IF docker THEN Gateway ELSE "127.0.0.1" ELSE u.host
                        /\ list_provider_models(p, NoVal, NoVal, TRUE) = get_llm_client
  BY DEF CallsGoWhereAsked
<1> DEFINE p     == last.body.llm_provider
           reg   == PROVIDER_REGISTRY[p].base
           asked == Or(last.body.llm_base_url, reg)
           u     == Or(asked, OpenAIUrl)
           key   == Or(row.llm_api_key, EnvKey[p])
           saved == row.llm_base_url
           read  == Normalized(p, Or(saved, reg))
<1>0. docker \in BOOLEAN /\ last.body \in Bodies /\ row # NoVal /\ row \in Rows
  BY DEF ProviderInv, ProviderTypeOK, UrlIsAsked
<1>1. p \in LLMProviders /\ p \notin LegacyProviders /\ p # NoVal
  BY <1>0, RegistryIsTyped DEF LegacyProviders
<1>2. reg \in BaseUrls /\ asked \in BaseUrls
  BY <1>0, <1>1, RegistryIsTyped DEF Or
<1>3. PICK d \in BOOLEAN : saved = Spelled(p, asked, d)
  BY DEF ProviderInv, UrlIsAsked
<1>4. /\ row.llm_provider = p /\ normalize_provider(row.llm_provider) = p
      /\ p = "azure_openai" => saved # NoVal
  BY <1>0, <1>1 DEF ProviderInv, LonePutsHold, normalize_provider
<1>5. /\ EffectiveSettings = [provider |-> p, key |-> key, base |-> read]
      /\ p \in Compatible
  BY <1>0, <1>1, <1>4 DEF get_llm_client, EffectiveSettings
<1>6. get_llm_client = [provider |-> p, key |-> key,
                        base |-> normalize_openai_base_url(Or(read, OpenAIUrl))]
  BY <1>5 DEF get_llm_client
<1>7. resolve_credentials(p, NoVal, NoVal, TRUE) =
        LET url == Or(saved, Or(reg, IF p = "openai" THEN OpenAIUrl ELSE NoVal))
        IN  [provider |-> p, key |-> key,
             base |-> IF url # NoVal THEN normalize_openai_base_url(url) ELSE url]
  BY <1>0, <1>5 DEF resolve_credentials, Or
<1>8. OpenAIUrl \in Addresses /\ OpenAIUrl.host \notin Loopback
  BY DEF OpenAIUrl, Url, Addresses, Loopback, Gateway
<1>9. OpenAIUrl # NoVal
  BY <1>8
<1>12. PROVIDER_REGISTRY[p].keyed => key # NoVal
  BY <1>0, <1>1, <1>4 DEF ProviderInv, LonePutsHold, Or
<1>13. ASSUME resolve_credentials(p, NoVal, NoVal, TRUE) = get_llm_client,
              get_llm_client.base \in Addresses
       PROVE  list_provider_models(p, NoVal, NoVal, TRUE) = get_llm_client
  <2>1. get_llm_client.key = key /\ get_llm_client.base # NoVal
    BY <1>6, <1>13
  <2> QED BY <1>12, <1>13, <2>1 DEF list_provider_models
<1> HIDE DEF p, reg, key, saved, read, asked
<1>10. CASE asked = NoVal
  <2>1. reg = NoVal /\ saved = NoVal /\ read = NoVal /\ u = OpenAIUrl
    BY <1>3, <1>10 DEF asked, Or, Spelled, read, Normalized
  <2>2. p = "openai"
    <3>1. PROVIDER_REGISTRY["groq"].base # NoVal /\ PROVIDER_REGISTRY["local"].base # NoVal
      <4>1. /\ PROVIDER_REGISTRY["groq"].base \in Addresses
            /\ PROVIDER_REGISTRY["local"].base \in Addresses
        BY DEF PROVIDER_REGISTRY, Addresses, Url, Loopback
      <4> QED BY <4>1
    <3> QED BY <1>1, <1>4, <1>5, <2>1, <3>1, RegistryIsTyped DEF Compatible, reg
  <2>3. normalize_openai_base_url(OpenAIUrl).host = OpenAIUrl.host
    BY <1>0, <1>8, SpellReaches
  <2>4. /\ get_llm_client.provider = p
        /\ get_llm_client.base = normalize_openai_base_url(OpenAIUrl)
    BY <1>6, <2>1 DEF Or
  <2>5. resolve_credentials(p, NoVal, NoVal, TRUE) = get_llm_client
    BY <1>6, <1>7, <1>9, <2>1, <2>2 DEF Or
  <2>7. normalize_openai_base_url(OpenAIUrl) \in Addresses
    BY <1>0, <1>8, SpellReaches
  <2>6. list_provider_models(p, NoVal, NoVal, TRUE) = get_llm_client
    BY <1>13, <2>4, <2>5, <2>7
  <2> HIDE DEF u
  <2> QED BY <1>8, <2>1, <2>3, <2>4, <2>6 DEF u, p, asked, reg
<1>11. CASE asked # NoVal
  <2>1. asked \in Addresses /\ u = asked
    BY <1>2, <1>11 DEF BaseUrls, Or
  <2>2. /\ saved \in Addresses
        /\ saved.host \in Loopback <=> u.host \in Loopback
        /\ u.host \notin Loopback => saved.host = u.host
        /\ Movable(u) => Movable(saved)
    BY <1>3, <2>1, SpellReaches DEF Spelled
  <2>3. saved # NoVal /\ Or(saved, reg) = saved
    BY <2>2 DEF Or
  <2>4. read \in {saved, Spell(saved, docker)} /\ Spell(saved, docker) \in Addresses
    BY <1>0, <2>2, <2>3, SpellReaches DEF read, Normalized
  <2>5. Or(read, OpenAIUrl) = read
    BY <2>2, <2>4 DEF Or
  <2>6. /\ normalize_openai_base_url(saved) = Spell(saved, docker)
        /\ normalize_openai_base_url(read) = Spell(saved, docker)
    BY <1>0, <2>2, <2>4, SpellReaches
  <2>7. Movable(u) => Spell(saved, docker).host =
          IF u.host \in Loopback THEN IF docker THEN Gateway ELSE "127.0.0.1" ELSE u.host
    BY <1>0, <2>2, SpellReaches
  <2>8. get_llm_client.base = Spell(saved, docker) /\ get_llm_client.provider = p
    BY <1>6, <2>5, <2>6
  <2>9. resolve_credentials(p, NoVal, NoVal, TRUE) = get_llm_client
    BY <1>6, <1>7, <2>3, <2>5, <2>6 DEF Or
  <2>10. list_provider_models(p, NoVal, NoVal, TRUE) = get_llm_client
    BY <1>13, <2>4, <2>8, <2>9
  <2> HIDE DEF u
  <2> QED BY <2>7, <2>8, <2>10 DEF u, p, asked, reg
<1> QED BY <1>10, <1>11

(***************************************************************************)
(* What a research is doing                                                *)
(***************************************************************************)

\* A research has the fields NewRun has, and is within its bounds: it searches only
\* when it may, and what it found is a sequence of results of different pages.
Found    == [page : STRING, spelling : STRING, shape : Shapes]
IsRun(x) == x \in [phase : {x.phase}, step : {x.step}, searches : {x.searches},
                    found : {x.found}, raised : {x.raised}]
IsBounded(x) ==
  /\ x.phase \in RunPhases
  /\ x.step \in 1..MAX_AGENT_STEPS
  /\ x.searches \in 0..MAX_AGENT_SEARCHES
  /\ x.phase = "searching" => x.searches < MAX_AGENT_SEARCHES
  /\ x.found \in Seq(Found) /\ PagesDiffer(x.found)
RunsInv ==
  /\ run = [r \in Researches |-> run[r]]
  /\ \A r \in Researches : IsRun(run[r]) /\ IsBounded(run[r])
  /\ OneProviderMayFail

\* Two providers together raise no SearchError, whatever each of them does.
LEMMA CompositeIsSafe ==
  ASSUME Composite, NEW raw, NEW first, NEW second, NEW n
  PROVE  SearchOutcome(raw, first, second, n).raised # "SearchError"
<1>1. \A o : SafeSearch(o).raised # "SearchError"
  BY DEF SafeSearch, Results
<1>2. \A a, b : CompositeSearch(a, b, n).raised # "SearchError"
  BY <1>1 DEF CompositeSearch, Results
<1> QED BY <1>2 DEF SearchOutcome

\* What a search of a research comes to is a sequence of results.
LEMMA SearchesAreTyped ==
  ASSUME NEW outcome \in SearchOutcomes PROVE outcome.items \in Seq(Found)
<1>1. PICK raw \in RawAnswers, first \in RawAnswers, second \in RawAnswers :
        outcome = SearchOutcome(raw, first, second, MAX_SEARCH_RESULTS_PER_QUERY)
  BY DEF SearchOutcomes
<1>2. /\ raw.items \in Seq(Found) /\ first.items \in Seq(Found)
      /\ second.items \in Seq(Found) /\ MAX_SEARCH_RESULTS_PER_QUERY \in Nat
  BY AgentAssumption DEF Found
<1> QED BY <1>1, <1>2, SearchIsSeq

\* A call to the model raises errors of its own.
LEMMA CallsRaiseTheirOwn ==
  ASSUME NEW reply PROVE generate_structured(reply) \in Outcomes
BY DEF generate_structured, Outcomes

\* One research changes, and does not raise a SearchError.
LEMMA OneRunChanges ==
  ASSUME RunsInv, NEW r \in Researches, NEW x, IsRun(x), IsBounded(x),
         Composite => x.raised # "SearchError", run' = [run EXCEPT ![r] = x]
  PROVE  RunsInv'
<1>1. /\ run' = [s \in Researches |-> run'[s]]
      /\ \A s \in Researches : run'[s] = IF s = r THEN x ELSE run[s]
  BY DEF RunsInv
<1> QED BY <1>1 DEF RunsInv, OneProviderMayFail

\* A research that goes on keeps its shape and its bounds, and raises what it did.
InPhase(x, a) == [x EXCEPT !.phase = a]
LEMMA PhaseChanges ==
  ASSUME NEW x, IsRun(x), IsBounded(x), NEW a \in RunPhases,
         a = "searching" => x.searches < MAX_AGENT_SEARCHES
  PROVE  /\ IsRun(InPhase(x, a)) /\ IsBounded(InPhase(x, a))
         /\ InPhase(x, a).raised = x.raised
<1> DEFINE y == InPhase(x, a)
<1>1. y \in [phase : {a}, step : {x.step}, searches : {x.searches}, found : {x.found},
            raised : {x.raised}]
  BY DEF IsRun, InPhase
<1> HIDE DEF y
<1>2. /\ y.phase = a /\ y.step = x.step /\ y.searches = x.searches
      /\ y.found = x.found /\ y.raised = x.raised
  BY <1>1
<1>3. IsRun(y) /\ y.raised = x.raised
  BY <1>1, <1>2 DEF IsRun
<1>4. IsBounded(y)
  BY <1>2 DEF IsBounded
<1> QED BY <1>3, <1>4 DEF y

\* One that fails raises what it failed with.
FailedWith(x, b) == [x EXCEPT !.phase = "failed", !.raised = b]
LEMMA FailureChanges ==
  ASSUME NEW x, IsRun(x), IsBounded(x), NEW b
  PROVE  /\ IsRun(FailedWith(x, b)) /\ IsBounded(FailedWith(x, b))
         /\ FailedWith(x, b).raised = b
<1> DEFINE y == FailedWith(x, b)
<1>1. y \in [phase : {"failed"}, step : {x.step}, searches : {x.searches}, found : {x.found},
            raised : {b}]
  BY DEF IsRun, FailedWith
<1> HIDE DEF y
<1>2. /\ y.phase = "failed" /\ y.step = x.step /\ y.searches = x.searches
      /\ y.found = x.found /\ y.raised = b
  BY <1>1
<1>3. IsRun(y) /\ y.raised = b
  BY <1>1, <1>2 DEF IsRun
<1>4. IsBounded(y)
  BY <1>2 DEF IsBounded, RunPhases, Ended
<1> QED BY <1>3, <1>4 DEF y

\* One that searched has one search less left, and goes on, to another step if there
\* is one: what it found names no page twice.
LEMMA SearchChanges ==
  ASSUME NEW x, IsRun(x), IsBounded(x), x.phase = "searching", NEW items \in Seq(Found)
  PROVE  LET y == NextStep(WithFound(x, items))
         IN  IsRun(y) /\ IsBounded(y) /\ y.raised = x.raised
<1> DEFINE w == WithFound(x, items)
           y == NextStep(w)
<1>1. PICK d : d = Deduped(x.found \o items)
  OBVIOUS
<1>2. d \in Seq(Found) /\ PagesDiffer(d)
  <2>1. x.found \o items \in Seq(Found)
    BY DEF IsBounded
  <2> QED BY <1>1, <2>1, DedupedIsDistinct
<1>3. w \in [phase : {x.phase}, step : {x.step}, searches : {x.searches + 1},
            found : {d}, raised : {x.raised}]
  BY <1>1 DEF IsRun, WithFound
<1> HIDE DEF w
<1>4. /\ w.phase = x.phase /\ w.step = x.step /\ w.searches = x.searches + 1
      /\ w.found = d /\ w.raised = x.raised
  BY <1>3
<1>5. y \in [phase : {y.phase}, step : {y.step}, searches : {x.searches + 1},
            found : {d}, raised : {x.raised}]
  BY <1>3 DEF NextStep
<1>6. /\ y.phase \in {"deciding", "synthesizing"}
      /\ y.step = x.step \/ (x.step < MAX_AGENT_STEPS /\ y.step = x.step + 1)
  BY <1>3, <1>4 DEF NextStep
<1> HIDE DEF y
<1>7. y.searches = x.searches + 1 /\ y.found = d /\ y.raised = x.raised
  BY <1>5
<1>8. IsRun(y)
  BY <1>5, <1>7 DEF IsRun
<1>9. /\ y.step \in 1..MAX_AGENT_STEPS
      /\ y.searches \in 0..MAX_AGENT_SEARCHES
  BY <1>6, <1>7, AgentAssumption DEF IsBounded
<1>10. y.phase \in RunPhases /\ y.phase # "searching"
  BY <1>6, Zenon DEF RunPhases
<1>11. IsBounded(y)
  BY <1>2, <1>7, <1>9, <1>10 DEF IsBounded
<1> QED BY <1>7, <1>8, <1>11 DEF w, y

\* Every step of a research keeps its shape and its bounds, and keeps it from a
\* SearchError.
LEMMA NextKeepsRuns ==
  ASSUME RunsInv, [Next]_vars PROVE RunsInv'
<1>0. \A r \in Researches : /\ IsRun(run[r]) /\ IsBounded(run[r])
                            /\ Composite => run[r].raised # "SearchError"
  BY DEF RunsInv, OneProviderMayFail
<1>1. ASSUME NEW r \in Researches, NEW a \in RunPhases, run' = [run EXCEPT ![r].phase = a],
             a = "searching" => run[r].searches < MAX_AGENT_SEARCHES
      PROVE  RunsInv'
  <2>1. run' = [run EXCEPT ![r] = InPhase(run[r], a)]
    BY <1>1 DEF InPhase
  <2>2. PICK y : y = InPhase(run[r], a)
    OBVIOUS
  <2>3. IsRun(y) /\ IsBounded(y) /\ y.raised = run[r].raised
    BY <1>0, <1>1, <2>2, PhaseChanges
  <2> QED BY <1>0, <2>1, <2>2, <2>3, OneRunChanges
<1>2. ASSUME NEW r \in Researches, NEW e, Fails(r, e), Composite => e # "SearchError"
      PROVE  RunsInv'
  <2>1. run' = [run EXCEPT ![r] = FailedWith(run[r], e)]
    BY <1>2 DEF Fails, FailedWith
  <2> QED BY <1>0, <1>2, <2>1, FailureChanges, OneRunChanges
<1>3. ASSUME NEW r \in Researches, StartResearch(r) PROVE RunsInv'
  <2>1. "deciding" \in RunPhases /\ "deciding" # "searching"
    BY DEF RunPhases
  <2>2. Fails(r, "LLMConfigurationError") \/ run' = [run EXCEPT ![r].phase = "deciding"]
    BY <1>3 DEF StartResearch
  <2>3. "LLMConfigurationError" # "SearchError"
    OBVIOUS
  <2> QED BY <1>1, <1>2, <2>1, <2>2, <2>3
<1>4. \A outcome \in CallOutcomes : outcome # "SearchError"
  BY CallsRaiseTheirOwn DEF CallOutcomes, Outcomes
<1>5. ASSUME NEW r \in Researches, Decide(r) PROVE RunsInv'
  <2>1. PICK outcome \in CallOutcomes :
          \/ \E action \in {"search", "synthesize"} :
               run' = [run EXCEPT ![r].phase =
                         IF action = "search" /\ run[r].searches < MAX_AGENT_SEARCHES
                         THEN "searching" ELSE "synthesizing"]
          \/ Fails(r, outcome)
    BY <1>5 DEF Decide
  <2>2. CASE Fails(r, outcome)
    BY <1>2, <1>4, <2>2
  <2>3. ASSUME NEW action \in {"search", "synthesize"},
               run' = [run EXCEPT ![r].phase =
                         IF action = "search" /\ run[r].searches < MAX_AGENT_SEARCHES
                         THEN "searching" ELSE "synthesizing"]
        PROVE  RunsInv'
    <3>1. PICK a : a = IF action = "search" /\ run[r].searches < MAX_AGENT_SEARCHES
                       THEN "searching" ELSE "synthesizing"
      OBVIOUS
    <3>2. a \in RunPhases /\ (a = "searching" => run[r].searches < MAX_AGENT_SEARCHES)
      BY <3>1 DEF RunPhases
    <3>3. run' = [run EXCEPT ![r].phase = a]
      BY <2>3, <3>1
    <3> QED BY <1>1, <3>2, <3>3
  <2> QED BY <2>1, <2>2, <2>3
<1>6. ASSUME NEW r \in Researches, Synthesize(r) \/ StoreBrief(r) PROVE RunsInv'
  <2>1. /\ "storing" \in RunPhases /\ "storing" # "searching"
        /\ "answered" \in RunPhases /\ "answered" # "searching"
        /\ "StaleDataError" # "SearchError"
    BY DEF RunPhases, Ended
  <2>2. \/ run' = [run EXCEPT ![r].phase = "storing"]
        \/ run' = [run EXCEPT ![r].phase = "answered"]
        \/ Fails(r, "StaleDataError")
        \/ \E outcome \in CallOutcomes : Fails(r, outcome)
    BY <1>6 DEF Synthesize, StoreBrief
  <2> QED BY <1>1, <1>2, <1>4, <2>1, <2>2
<1>7. ASSUME NEW r \in Researches, SearchWeb(r) PROVE RunsInv'
  <2>1. PICK outcome \in SearchOutcomes :
          \/ run' = [run EXCEPT ![r] = NextStep(WithFound(run[r], outcome.items))]
          \/ Fails(r, outcome.raised)
    BY <1>7 DEF SearchWeb
  <2>2. Composite => outcome.raised # "SearchError"
    BY CompositeIsSafe DEF SearchOutcomes
  <2>3. outcome.items \in Seq(Found) /\ run[r].phase = "searching"
    BY <1>7, SearchesAreTyped DEF SearchWeb
  <2>4. PICK y : y = NextStep(WithFound(run[r], outcome.items))
    OBVIOUS
  <2>5. IsRun(y) /\ IsBounded(y) /\ y.raised = run[r].raised
    BY <1>0, <2>3, <2>4, SearchChanges
  <2>6. CASE run' = [run EXCEPT ![r] = y]
    BY <1>0, <2>5, <2>6, OneRunChanges
  <2> QED BY <1>2, <2>1, <2>2, <2>4, <2>6
<1>8. CASE RestartAll
  <2>1. /\ run' = [r \in Researches |-> run'[r]]
        /\ \A r \in Researches : run'[r] = run[r] \/ run'[r] = InPhase(run[r], "lost")
    BY <1>8 DEF RestartAll, InPhase
  <2>2. "lost" \in RunPhases /\ "lost" # "searching"
    BY DEF RunPhases, Ended
  <2>3. \A r \in Researches : /\ IsRun(run'[r]) /\ IsBounded(run'[r])
                              /\ run'[r].raised = run[r].raised
    BY <1>0, <2>1, <2>2, PhaseChanges
  <2> QED BY <1>0, <2>1, <2>3 DEF RunsInv, OneProviderMayFail
<1>9. CASE UNCHANGED run
  BY <1>9 DEF RunsInv, OneProviderMayFail
<1>10. \/ RestartAll \/ UNCHANGED run
       \/ \E r \in Researches : StartResearch(r) \/ Continues(r)
  BY DEF Next, agentVars, StartLetter, WriteLetter, DeleteJob, vars
<1> QED BY <1>3, <1>5, <1>6, <1>7, <1>8, <1>9, <1>10 DEF Continues

\* At first nothing runs.
LEMMA InitRuns ==
  ASSUME Init PROVE RunsInv
<1>1. run = [r \in Researches |-> NewRun] /\ NewRun.raised = "none"
  BY DEF Init, NewRun
<1>2. IsRun(NewRun)
  BY DEF NewRun, IsRun
<1>3. /\ NewRun.phase = "new" /\ NewRun.step = 1 /\ NewRun.searches = 0
      /\ NewRun.found = <<>>
  BY DEF NewRun
<1>4. <<>> \in Seq(Found) /\ PagesDiffer(<<>>)
  BY DEF PagesDiffer
<1>5. "new" \in RunPhases /\ "new" # "searching"
  BY DEF RunPhases
<1>6. IsBounded(NewRun)
  BY <1>3, <1>4, <1>5, AgentAssumption DEF IsBounded
<1> QED BY <1>1, <1>2, <1>6 DEF RunsInv, OneProviderMayFail

(***************************************************************************)
(* Letters, and the job                                                    *)
(***************************************************************************)

\* Every letter is somewhere in the code, and the job is there or not.
LettersInv ==
  /\ job \in BOOLEAN
  /\ letter \in [Letters -> LetterPhases]

LEMMA NextKeepsLetters ==
  ASSUME LettersInv, [Next]_vars PROVE LettersInv'
<1>1. ASSUME NEW l \in Letters, NEW a \in LetterPhases, letter' = [letter EXCEPT ![l] = a]
      PROVE  letter' \in [Letters -> LetterPhases]
  BY <1>1 DEF LettersInv
<1>2. ASSUME NEW l \in Letters, StartLetter(l) PROVE LettersInv'
  <2>1. "failed" \in LetterPhases /\ "drafting" \in LetterPhases
    BY DEF LetterPhases, Ended
  <2>2. \/ letter' = [letter EXCEPT ![l] = "failed"]
        \/ letter' = [letter EXCEPT ![l] = "drafting"]
    BY <1>2 DEF StartLetter
  <2>3. job' = job
    BY <1>2 DEF StartLetter
  <2> QED BY <1>1, <2>1, <2>2, <2>3 DEF LettersInv
<1>3. ASSUME NEW l \in Letters, WriteLetter(l) PROVE LettersInv'
  <2>1. /\ "failed" \in LetterPhases /\ "criticising" \in LetterPhases
        /\ "revising" \in LetterPhases /\ "answered" \in LetterPhases
    BY DEF LetterPhases, Ended
  <2>2. PICK phase : phase = letter[l]
    OBVIOUS
  <2>3. phase \in {"drafting", "criticising", "revising"}
    BY <1>3, <2>2 DEF WriteLetter
  <2>4. After(phase) \in LetterPhases
    BY <2>1, <2>3 DEF After
  <2>5. \/ letter' = [letter EXCEPT ![l] = "failed"]
        \/ letter' = [letter EXCEPT ![l] = After(phase)]
    BY <1>3, <2>2 DEF WriteLetter, LettersInv
  <2>6. job' = job
    BY <1>3 DEF WriteLetter
  <2> QED BY <1>1, <2>1, <2>4, <2>5, <2>6 DEF LettersInv
<1>4. CASE RestartAll
  <2>1. "lost" \in LetterPhases
    BY DEF LetterPhases, Ended
  <2> QED BY <1>4, <2>1 DEF RestartAll, LettersInv
<1>5. CASE DeleteJob
  BY <1>5 DEF DeleteJob, LettersInv
<1>6. ASSUME NEW r \in Researches, StartResearch(r) \/ Continues(r)
      PROVE  UNCHANGED <<job, letter>>
  BY <1>6 DEF StartResearch, Continues, Decide, SearchWeb, Synthesize, StoreBrief
<1>7. CASE UNCHANGED <<job, letter>>
  BY <1>7 DEF LettersInv
<1>8. \/ RestartAll \/ UNCHANGED <<job, letter>> \/ DeleteJob
      \/ \E l \in Letters : StartLetter(l) \/ WriteLetter(l)
  BY <1>6 DEF Next, agentVars, vars
<1> QED BY <1>2, <1>3, <1>4, <1>5, <1>7, <1>8

(***************************************************************************)
(* Briefs                                                                  *)
(***************************************************************************)

\* Only StoreBrief answers a research, and only with a brief it stores.
BriefStep ==
  /\ \A r \in Researches :
       run[r].phase # "answered" /\ run'[r].phase = "answered" =>
         LET found == run[r].found
         IN  /\ job /\ brief' = [by |-> r, sources |-> found]
             /\ \A i, j \in DOMAIN found : found[i].page = found[j].page => i = j
  /\ brief' # brief /\ job' =>
       \E r \in Researches : run[r].phase = "storing" /\ run'[r].phase = "answered"

LEMMA NextAnswersWithBriefs ==
  ASSUME RunsInv, Next PROVE BriefStep
<1>1. \A r \in Researches : IsRun(run[r]) /\ PagesDiffer(run[r].found)
  BY DEF RunsInv, IsBounded
<1>2. ASSUME NEW r \in Researches, NEW y, run' = [run EXCEPT ![r] = y],
             y.phase # "answered", brief' = brief
      PROVE  BriefStep
  <2>1. \A s \in Researches : run'[s] = IF s = r THEN y ELSE run[s]
    BY <1>2 DEF RunsInv
  <2> QED BY <1>2, <2>1 DEF BriefStep
<1>3. ASSUME NEW r \in Researches, NEW a, run' = [run EXCEPT ![r].phase = a],
             a # "answered", brief' = brief
      PROVE  BriefStep
  <2>1. run' = [run EXCEPT ![r] = InPhase(run[r], a)]
    BY <1>3 DEF InPhase
  <2>2. InPhase(run[r], a).phase = a
    BY <1>1 DEF InPhase, IsRun
  <2> QED BY <1>2, <1>3, <2>1, <2>2
<1>4. ASSUME NEW r \in Researches, NEW e, Fails(r, e), brief' = brief
      PROVE  BriefStep
  <2>1. run' = [run EXCEPT ![r] = FailedWith(run[r], e)]
    BY <1>4 DEF Fails, FailedWith
  <2>2. FailedWith(run[r], e).phase = "failed" /\ "failed" # "answered"
    BY <1>1 DEF FailedWith, IsRun
  <2> QED BY <1>2, <1>4, <2>1, <2>2
<1>5. ASSUME NEW r \in Researches, StartResearch(r) PROVE BriefStep
  <2>1. /\ brief' = brief
        /\ \/ Fails(r, "LLMConfigurationError")
           \/ run' = [run EXCEPT ![r].phase = "deciding"]
    BY <1>5 DEF StartResearch
  <2> QED BY <1>3, <1>4, <2>1
<1>6. ASSUME NEW r \in Researches, Decide(r) \/ Synthesize(r) PROVE BriefStep
  <2>1. /\ brief' = brief
        /\ \/ \E a \in {"searching", "synthesizing", "storing"} :
                run' = [run EXCEPT ![r].phase = a]
           \/ \E e : Fails(r, e)
    <3>1. CASE Decide(r)
      BY <3>1 DEF Decide
    <3>2. CASE Synthesize(r)
      BY <3>2 DEF Synthesize
    <3> QED BY <1>6, <3>1, <3>2
  <2>2. \A a \in {"searching", "synthesizing", "storing"} : a # "answered"
    OBVIOUS
  <2> QED BY <1>3, <1>4, <2>1, <2>2
<1>7. ASSUME NEW r \in Researches, SearchWeb(r) PROVE BriefStep
  <2>1. PICK outcome \in SearchOutcomes :
          \/ run' = [run EXCEPT ![r] = NextStep(WithFound(run[r], outcome.items))]
          \/ Fails(r, outcome.raised)
    BY <1>7 DEF SearchWeb
  <2>2. brief' = brief
    BY <1>7 DEF SearchWeb
  <2>3. PICK w : w = WithFound(run[r], outcome.items)
    OBVIOUS
  <2>4. w \in [phase : {w.phase}, step : {w.step}, searches : {w.searches},
               found : {w.found}, raised : {w.raised}]
    BY <1>1, <2>3 DEF IsRun, WithFound
  <2>5. NextStep(w).phase # "answered"
    BY <2>4 DEF NextStep
  <2> QED BY <1>2, <1>4, <2>1, <2>2, <2>3, <2>5
<1>8. ASSUME NEW r \in Researches, StoreBrief(r) PROVE BriefStep
  <2>1. CASE ~job
    BY <1>4, <1>8, <2>1 DEF StoreBrief
  <2>2. CASE job
    <3>1. /\ run[r].phase = "storing" /\ job
          /\ run' = [run EXCEPT ![r] = InPhase(run[r], "answered")]
          /\ brief' = [by |-> r, sources |-> run[r].found]
      BY <1>8, <2>2 DEF StoreBrief, InPhase
    <3>2. InPhase(run[r], "answered").phase = "answered"
      BY <1>1 DEF InPhase, IsRun
    <3>3. \A s \in Researches : run'[s] = IF s = r THEN InPhase(run[r], "answered") ELSE run[s]
      BY <3>1 DEF RunsInv
    <3> QED BY <1>1, <3>1, <3>2, <3>3 DEF BriefStep, PagesDiffer
  <2> QED BY <2>1, <2>2
<1>9. CASE RestartAll
  <2>1. /\ brief' = brief
        /\ \A r \in Researches : run'[r] = run[r] \/ run'[r] = InPhase(run[r], "lost")
    BY <1>9 DEF RestartAll, InPhase
  <2>2. \A r \in Researches : InPhase(run[r], "lost").phase = "lost" /\ "lost" # "answered"
    BY <1>1 DEF InPhase, IsRun
  <2> QED BY <2>1, <2>2 DEF BriefStep
<1>10. CASE UNCHANGED <<run, brief>>
  BY <1>10 DEF BriefStep
<1>11. CASE DeleteJob
  BY <1>11 DEF DeleteJob, BriefStep
<1>12. \/ RestartAll \/ UNCHANGED <<run, brief>> \/ DeleteJob
       \/ \E r \in Researches : StartResearch(r) \/ Continues(r)
  BY DEF Next, agentVars, StartLetter, WriteLetter
<1> QED BY <1>5, <1>6, <1>7, <1>8, <1>9, <1>10, <1>11, <1>12 DEF Continues

(***************************************************************************)
(* Theorems                                                                *)
(***************************************************************************)

\* The invariant the properties of the settings follow from.
THEOREM ProviderIsConsistent == Spec => []ProviderInv
<1>1. Init => ProviderInv
  BY InitProvider DEF Init
<1> QED BY <1>1, NextKeepsProvider, PTL DEF Spec

\* For any bodies and any number of requests, the row is what the last PUT of each
\* kind asked for unless two of them raced: upsert_settings, set_radar_poll_interval.
THEOREM SettingsHold == Spec => []LonePutsHold
BY ProviderIsConsistent, PTL DEF ProviderInv

\* For any number of requests, a PUT fails only against the first insert of the row.
THEOREM RefusalsNeedAnInsert == Spec => []OnlyFirstPutsAreRefused
BY ProviderIsConsistent, PTL DEF ProviderInv

\* For any URLs, hosts and restarts inside and outside of containers, a client calls
\* the host that was asked for: get_llm_client, list_provider_models.
THEOREM ClientsCallWhereAsked == Spec => []CallsGoWhereAsked
BY ProviderIsConsistent, AskedIsCalled, PTL

\* Whatever row there is, "configured" means that a call can be made.
THEOREM ConfiguredMeansCallable == Spec => []ConfiguredIsCallable
<1>1. ProviderInv => ConfiguredIsCallable
  BY ConfiguredRowIsCallable DEF ProviderInv
<1> QED BY <1>1, ProviderIsConsistent, PTL

\* For any answers and any number of researches, a research keeps its shape, and its
\* steps and searches stay within their bounds: _run_agent_search_loop.
LEMMA RunsAreConsistent == Spec => []RunsInv
BY InitRuns, NextKeepsRuns, PTL DEF Spec

\* For any answers and any number of researches, an error of one search provider, or
\* of both, ends none of them: CompositeSearchClient.
THEOREM SearchesAreSafe == Spec => []OneProviderMayFail
<1>1. RunsInv => OneProviderMayFail
  BY DEF RunsInv
<1> QED BY <1>1, RunsAreConsistent, PTL

\* For any numbers of researches, letters and requests, and any bounds, no research
\* takes a step or a search beyond them, and everything is in a state of the code.
THEOREM AgentsTypeCorrect == Spec => []TypeOK
<1>1. ProviderInv => ProviderTypeOK
  BY DEF ProviderInv
<1>2. Init => LettersInv
  BY DEF Init, LettersInv, LetterPhases
<1>3. ProviderTypeOK /\ RunsInv /\ LettersInv => TypeOK
  BY DEF RunsInv, IsBounded, LettersInv, TypeOK
<1> QED BY <1>1, <1>2, <1>3, ProviderIsConsistent, RunsAreConsistent, NextKeepsLetters,
           PTL DEF Spec

\* For any answers of the providers, a user is answered with a brief only when it is
\* the job's, and it names every page once: create_company_research.
THEOREM BriefsAreStored == Spec => BriefsAreAnswered
<1>1. RunsInv /\ [Next]_vars => [BriefStep]_vars
  BY NextAnswersWithBriefs
<1>2. BriefsAreAnswered <=> [][BriefStep]_vars
  BY DEF BriefsAreAnswered, BriefStep
<1> QED BY <1>1, <1>2, RunsAreConsistent, PTL DEF Spec

\* A letter that is answered has a body that is cut to fit, whatever the settings do.
THEOREM LettersFit == Spec => []LettersAreCutToFit
<1>1. Texts \in SUBSET Seq(Characters)
  <2> SUFFICES ASSUME NEW text \in Texts PROVE text \in Seq(Characters)
    OBVIOUS
  <2>1. PICK m \in 0..5 : text \in [1..m -> Characters]
    BY Zenon DEF Texts, BoundedSeq, SeqOf
  <2> QED
    BY <2>1, SeqDef
<1>2. LettersAreCutToFit
  BY <1>1, CutsAlwaysFit DEF LettersAreCutToFit, AllCutsFit
<1> QED
  BY <1>2, PTL
=============================================================================
