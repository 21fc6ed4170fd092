------------------------------ MODULE Enrichment ------------------------------
(***************************************************************************)
(* What the service's loop asks outside services about one event before it *)
(* correlates it (apps/sentinel-core-service/src/enrichment.rs and the     *)
(* plugins it calls). The four services that know addresses are asked at   *)
(* once and all awaited; then GeoIP and the indicator files, which are     *)
(* local; then VirusTotal about the process's hash; then URLhaus about a   *)
(* URL. A service that cannot be reached, refuses or knows nothing gives   *)
(* no report.                                                              *)
(***************************************************************************)
EXTENDS Integers, FiniteSets, FiniteSetsExt

CONSTANTS
  Keys,       \* the possible sets of services with an API key
  Events,     \* [kind, ip, hash, url, risk]
  Facts,      \* service -> what it may say, one record per reply
  GeoDbs,     \* the GeoIP databases that opened
  IocFiles,   \* [kind, readable, rows], the indicator files
  MaxRisk,    \* u32::MAX, where risk saturates
  None        \* no report

AddressServices == {"abuseipdb", "shodan", "otx", "greynoise"}
Services == AddressServices \cup {"virustotal", "urlhaus"}

EnrichmentAssumption ==
  /\ Keys \subseteq SUBSET (Services \ {"urlhaus"})
  /\ DOMAIN Facts = Services /\ MaxRisk \in Nat
  /\ \A e \in Events : e.kind \in {"network", "browser", "other"} /\ e.risk \in 0..MaxRisk
  /\ \A f \in Facts["virustotal"] : f.bad \in Nat /\ f.total \in Nat
  /\ \A f \in IocFiles : f.kind = "csv" => \A r \in f.rows : r.risk \in (0..MaxRisk) \cup {None}

VARIABLES
  keyed,    \* the services with a key; enabled()
  pc,       \* "idle", "addresses", "hash", "report", "url", "verdict", "done"
  event,    \* the event in hand
  asked,    \* services whose reply is awaited
  report,   \* what each service said of the event
  risk, tags \* the event's, as enriched so far

vars == <<keyed, pc, event, asked, report, risk, tags>>

NoReports == [s \in Services \cup {"geoip"} |-> IF s = "geoip" THEN {} ELSE None]

Init ==
  /\ keyed \in Keys
  /\ pc = "idle" /\ event \in Events /\ asked = {}
  /\ report = NoReports /\ risk = 0 /\ tags = {}

-----------------------------------------------------------------------------
(* What a reply amounts to. A reply has a status and a body, which holds   *)
(* what the service knows or, as an error message or no JSON, None.        *)
Replies(s) == [status : {"ok", "notFound", "failed"}, body : Facts[s] \cup {None}]

(* AbuseIPDB does not look at the status, VirusTotal only for "not found". *)
AbuseReport(r) == r.body
VirusTotalReport(r) == IF r.status = "notFound" THEN None ELSE r.body
ShodanReport(r) == IF r.status = "ok" THEN r.body ELSE None
OtxReport(r) == IF r.status = "ok" THEN r.body ELSE None
GreyNoiseReport(r) == IF r.status = "ok" THEN r.body ELSE None
UrlhausReport(r) == IF r.status = "ok" THEN r.body ELSE None

Report(s, r) ==
  CASE s = "abuseipdb" -> AbuseReport(r)   [] s = "virustotal" -> VirusTotalReport(r)
    [] s = "shodan" -> ShodanReport(r)     [] s = "otx" -> OtxReport(r)
    [] s = "greynoise" -> GreyNoiseReport(r) [] s = "urlhaus" -> UrlhausReport(r)

-----------------------------------------------------------------------------
(* What a report is worth                                                  *)
Least(a, b) == IF a <= b THEN a ELSE b
Saturated(n) == Least(n, MaxRisk)
Grade(score, high, medium) == IF score > 50 THEN high ELSE IF score > 25 THEN medium ELSE 0
Label(s, score) == IF score > 50 THEN {<<s, "high">>} ELSE IF score > 25 THEN {<<s, "medium">>} ELSE {}

(* calculate_risk of the Shodan plugin                                     *)
RiskyPorts == {22, 23, 21, 3389, 5900, 445, 135, 139, 1433, 3306, 5432, 27017, 6379, 11211}
ShodanRisk(f) ==
  Least(100, Least(50, f.vulns) + 10 * Cardinality(f.ports \cap RiskyPorts)
               + (IF Cardinality(f.ports) > 10 THEN 15 ELSE 0))

(* calculate_risk of the OTX plugin; hits counts the tags that sound bad.  *)
OtxRisk(f) ==
  Least(100, (IF f.pulses > 50 THEN 30 ELSE IF f.pulses > 10 THEN 20 ELSE IF f.pulses > 0 THEN 10 ELSE 0)
               + (IF f.reputation < -2 THEN 30 ELSE IF f.reputation < 0 THEN 15 ELSE 0)
               + 5 * f.hits + 10 * Least(5, f.malware))

AbuseGain(f) == IF f = None THEN 0 ELSE Grade(f.score, 30, 15)
ShodanGain(f) == IF f = None THEN 0 ELSE Grade(ShodanRisk(f), 25, 10)
OtxGain(f) == IF f = None THEN 0 ELSE Grade(OtxRisk(f), 25, 10)

(* is_malicious and risk_score of the URLhaus plugin                       *)
UrlhausGain(f) ==
  IF f = None \/ ~(f.online /\ f.threat) THEN 0 ELSE 50 + (IF f.executable THEN 30 ELSE 10)

(* threat_ratio * 50.0, truncated: where the exact product is a whole      *)
(* number the floating-point one may fall short of it.                     *)
VirusTotalGain(f) ==
  IF f = None \/ f.total = 0 \/ f.bad = 0 THEN {0}
  ELSE LET exact == (50 * f.bad) \div f.total
       IN IF (50 * f.bad) % f.total = 0 THEN {exact - 1, exact} ELSE {exact}

AbuseTags(f) ==
  IF f = None THEN {}
  ELSE Label("abuseipdb", f.score) \cup (IF f.reports > 10 THEN {<<"abuseipdb", "reports">>} ELSE {})
ShodanTags(f) ==
  IF f = None THEN {}
  ELSE Label("shodan", ShodanRisk(f)) \cup (IF f.vulns > 0 THEN {<<"shodan", "cve">>} ELSE {})
         \cup (IF f.ports # {} THEN {<<"shodan", "ports">>} ELSE {})
OtxTags(f) ==
  IF f = None THEN {}
  ELSE Label("otx", OtxRisk(f)) \cup (IF f.pulses > 0 THEN {<<"otx", "pulses">>} ELSE {})
         \cup (IF f.malware > 0 THEN {<<"otx", "malware">>} ELSE {})
GreyNoiseTags(f) ==
  IF f = None THEN {}
  ELSE (IF f.class \in {"malicious", "benign"} THEN {<<"greynoise", f.class>>} ELSE {})
         \cup (IF f.named THEN {<<"greynoise", "name">>} ELSE {})
GeoTags(dbs) == {<<"geoip", d>> : d \in dbs}
VirusTotalTags(f) ==
  IF f = None THEN {}
  ELSE (IF f.malicious > 0 THEN {<<"virustotal", "malicious">>} ELSE {})
         \cup (IF 10 * f.bad > 3 * f.total THEN {<<"virustotal", "high">>} ELSE {})
UrlhausTags(f) == IF UrlhausGain(f) > 0 THEN {<<"urlhaus", "malicious">>, <<"urlhaus", "threat">>} ELSE {}

(* IocEngine::load, once, at the first use: every readable file. A CSV row *)
(* needs three fields and a known type; a score that is no number counts   *)
(* 50. (The text is UTF-8 as a whole and a row may have any length, so no  *)
(* row fails by itself.) A STIX indicator is scored by its name.           *)
CsvEntries(f) ==
  {[kind |-> r.kind, indicator |-> r.indicator, risk |-> IF r.risk = None THEN 50 ELSE r.risk] :
     r \in {x \in f.rows : x.fields >= 3 /\ x.kind \in {"ip", "domain", "hash"}}}
StixEntries(f) ==
  {[kind |-> r.kind, indicator |-> r.indicator,
    risk |-> IF r.name = "critical" THEN 90 ELSE IF r.name = "high" THEN 70 ELSE 50] :
     r \in {x \in f.rows : x.kind \in {"ip", "domain", "hash"} /\ x.indicator # None}}
Indicators ==
  UNION {IF f.kind = "csv" THEN CsvEntries(f) ELSE StixEntries(f) : f \in {x \in IocFiles : x.readable}}

(* lookup_ip: the highest score; a third of it is added.                   *)
IocScores(ip) == {i.risk : i \in {x \in Indicators : x.kind = "ip" /\ x.indicator = ip}}
IocGain(ip) == IF IocScores(ip) = {} THEN 0 ELSE Max(IocScores(ip)) \div 3
IocTags(ip) == IF IocScores(ip) = {} THEN {} ELSE {<<"ioc", "ip">>}

-----------------------------------------------------------------------------
(* enrich() with the next event                                            *)
Take(e) ==
  /\ pc = "idle"
  /\ event' = e /\ risk' = e.risk /\ tags' = {} /\ report' = NoReports
  /\ IF e.kind = "network" /\ e.ip # None
     THEN pc' = "addresses" /\ asked' = keyed \cap AddressServices
     ELSE pc' = "hash" /\ asked' = {}
  /\ UNCHANGED keyed

(* A request fails or is answered.                                         *)
Answer(s) ==
  /\ s \in asked
  /\ asked' = asked \ {s}
  /\ \/ \E r \in Replies(s) : report' = [report EXCEPT ![s] = Report(s, r)]
     \/ UNCHANGED report
  /\ UNCHANGED <<keyed, pc, event, risk, tags>>

(* Wrong on purpose: without a report from OTX the function returns.       *)
AddressRisk_Returns(r, rep, ip) ==
  LET first == Saturated(Saturated(r + AbuseGain(rep["abuseipdb"])) + ShodanGain(rep["shodan"]))
      third == Saturated(first + OtxGain(rep["otx"]))
      fourth == IF rep["greynoise"] = None THEN third
                ELSE IF rep["greynoise"].class = "malicious" THEN Saturated(third + 25)
                ELSE IF rep["greynoise"].class = "benign" THEN third - Least(5, third) ELSE third
  IN IF rep["otx"] = None THEN first ELSE Saturated(fourth + IocGain(ip))

(* The reports are weighed one after the other: GreyNoise takes 5 away     *)
(* from what the first three made of it, and never goes below 0.           *)
AddressRisk(r, rep, ip) ==
  LET first == Saturated(Saturated(r + AbuseGain(rep["abuseipdb"])) + ShodanGain(rep["shodan"]))
      third == Saturated(first + OtxGain(rep["otx"]))
      fourth == IF rep["greynoise"] = None THEN third
                ELSE IF rep["greynoise"].class = "malicious" THEN Saturated(third + 25)
                ELSE IF rep["greynoise"].class = "benign" THEN third - Least(5, third) ELSE third
  IN Saturated(fourth + IocGain(ip))

(* The join is complete; the local databases are looked up at once.        *)
Joined ==
  /\ pc = "addresses" /\ asked = {}
  /\ \E dbs \in SUBSET GeoDbs : report' = [report EXCEPT !["geoip"] = dbs]
  /\ risk' = AddressRisk(risk, report, event.ip)
  /\ tags' = AbuseTags(report["abuseipdb"]) \cup ShodanTags(report["shodan"])
               \cup OtxTags(report["otx"]) \cup GreyNoiseTags(report["greynoise"])
               \cup GeoTags(report'["geoip"]) \cup IocTags(event.ip)
  /\ pc' = "hash"
  /\ UNCHANGED <<keyed, event, asked>>

AskVirusTotal ==
  /\ pc = "hash"
  /\ IF event.hash /\ "virustotal" \in keyed
     THEN pc' = "report" /\ asked' = {"virustotal"}
     ELSE pc' = "url" /\ UNCHANGED asked
  /\ UNCHANGED <<keyed, event, report, risk, tags>>

VirusTotalAnswered ==
  /\ pc = "report" /\ asked = {}
  /\ \E n \in VirusTotalGain(report["virustotal"]) : risk' = Saturated(risk + n)
  /\ tags' = tags \cup VirusTotalTags(report["virustotal"])
  /\ pc' = "url"
  /\ UNCHANGED <<keyed, event, asked, report>>

(* URLhaus needs no key.                                                   *)
AskUrlhaus ==
  /\ pc = "url"
  /\ IF event.kind = "browser" /\ event.url
     THEN pc' = "verdict" /\ asked' = {"urlhaus"}
     ELSE pc' = "done" /\ UNCHANGED asked
  /\ UNCHANGED <<keyed, event, report, risk, tags>>

UrlhausAnswered ==
  /\ pc = "verdict" /\ asked = {}
  /\ risk' = Saturated(risk + UrlhausGain(report["urlhaus"]))
  /\ tags' = tags \cup UrlhausTags(report["urlhaus"])
  /\ pc' = "done"
  /\ UNCHANGED <<keyed, event, asked, report>>

(* The loop goes on with the enriched event.                               *)
Done ==
  /\ pc = "done" /\ pc' = "idle"
  /\ report' = NoReports /\ risk' = 0 /\ tags' = {}
  /\ UNCHANGED <<keyed, event, asked>>

Next ==
  \/ \E e \in Events : Take(e)
  \/ \E s \in Services : Answer(s)
  \/ Joined \/ AskVirusTotal \/ VirusTotalAnswered \/ AskUrlhaus \/ UrlhausAnswered \/ Done

Spec == Init /\ [][Next]_vars

-----------------------------------------------------------------------------
(* The variables have their types, and only services with a key are asked. *)
TypeOK ==
  /\ keyed \in Keys /\ event \in Events /\ risk \in 0..MaxRisk
  /\ pc \in {"idle", "addresses", "hash", "report", "url", "verdict", "done"}
  /\ asked \subseteq keyed \cup {"urlhaus"}
  /\ \A s \in Services : report[s] # None => report[s] \in Facts[s] /\ s \in keyed \cup {"urlhaus"}
  /\ report["geoip"] \subseteq GeoDbs

(* Every service counts for what it said and for nothing else: whatever    *)
(* the others answered, failed or left out, and in whatever order the      *)
(* replies came, an enriched event's risk is its own plus every gain, with *)
(* the one deduction in its place, and its tags are all the tags.          *)
EachCountsAlone ==
  pc = "done" =>
    LET net == event.kind = "network" /\ event.ip # None
        noise == report["greynoise"]
        raised == Saturated(event.risk + AbuseGain(report["abuseipdb"]) + ShodanGain(report["shodan"])
                              + OtxGain(report["otx"])
                              + (IF noise # None /\ noise.class = "malicious" THEN 25 ELSE 0))
        lowered == IF noise # None /\ noise.class = "benign" THEN Max({0, raised - 5}) ELSE raised
        local == IF net THEN IocGain(event.ip) ELSE 0
    IN /\ risk \in {Saturated(lowered + local + n + UrlhausGain(report["urlhaus"])) :
                      n \in VirusTotalGain(report["virustotal"])}
       /\ tags = AbuseTags(report["abuseipdb"]) \cup ShodanTags(report["shodan"])
                   \cup OtxTags(report["otx"]) \cup GreyNoiseTags(noise) \cup GeoTags(report["geoip"])
                   \cup (IF net THEN IocTags(event.ip) ELSE {})
                   \cup VirusTotalTags(report["virustotal"]) \cup UrlhausTags(report["urlhaus"])
=============================================================================
