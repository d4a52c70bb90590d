------------------------------- MODULE Locate -------------------------------
(***************************************************************************)
(* Where a starting relay thinks it is and which network it joins:         *)
(* resolveRegionConfig of src/index.js, autoDetectRegion of src/           *)
(* geolocate.js, which asks location services in turn, each with a timer   *)
(* that is stopped when its answer's headers arrive, and resolveBridgeUrl  *)
(* of src/network.js.                                                      *)
(***************************************************************************)
EXTENDS Naturals

CONSTANT ProviderCount   \* GEO_PROVIDERS.length

Provider == 1 .. ProviderCount

VARIABLES
  asks,     \* the configuration, one record, see Settings
  provider, \* the service being asked, ProviderCount + 1 when all were
  reached,  \* "no", "request" (timer running), "body" (timer stopped)
  answers,  \* each service: "unasked", "timeout", "refused" (its status),
            \* "useless" (no coordinates), "broken" (not JSON), "found"
  located,    \* "off", "boot", "exit" (unknown region) or the source of the location
  bridgeTo  \* the bridge: "off", "boot", "url", "prod", "testnet", "error"

locateVars == <<asks, provider, reached, answers, located, bridgeTo>>

(* region: RELAY_REGION; coords: RELAY_LAT or RELAY_LNG; zone: what the     *)
(* host's time zone gives; url: --bridge or BRIDGE_URL; flag: --network;    *)
(* env: RELAY_NETWORK.  A name is a network, or one nobody knows.           *)
Names    == {"none", "prod", "testnet", "typo"}
Settings == [region : {"none", "auto", "known", "unknown"}, coords : BOOLEAN, zone : {"table", "continent", "unknown"},
             url : BOOLEAN, flag : Names, env : Names]

LocateInit ==
  /\ asks = [region |-> "none", coords |-> FALSE, zone |-> "unknown", url |-> FALSE, flag |-> "none", env |-> "none"]
  /\ provider = 1 /\ reached = "no" /\ answers = [p \in Provider |-> "unasked"]
  /\ located = "off" /\ bridgeTo = "off"

(* The process starts in some environment.                                  *)
Configured ==
  /\ located = "off" /\ located' = "boot" /\ bridgeTo' = "boot" /\ asks' \in Settings
  /\ UNCHANGED <<provider, reached, answers>>

-----------------------------------------------------------------------------
resolveNetwork(n) == IF n \in {"prod", "testnet"} THEN n ELSE "none"

\* Mutant: the environment's network beats the flag.
EnvFirst ==
  IF asks.url THEN "url"
  ELSE IF resolveNetwork(asks.env) # "none" THEN asks.env
  ELSE IF asks.flag \in {"none", "typo"} THEN "prod" ELSE asks.flag

resolveBridgeUrl ==
  IF asks.url THEN "url"
  ELSE IF asks.flag # "none" THEN (IF asks.flag = "typo" THEN "error" ELSE asks.flag)
  ELSE IF resolveNetwork(asks.env) = "none" THEN "prod" ELSE asks.env

ChooseBridge ==
  /\ bridgeTo = "boot" /\ bridgeTo' = resolveBridgeUrl
  /\ UNCHANGED <<asks, provider, reached, answers, located>>

(* RELAY_REGION first, then the coordinates, then the default.              *)
ResolveRegion ==
  /\ bridgeTo \notin {"off", "boot", "error"} /\ located = "boot" /\ asks.region # "auto"
  /\ located' = CASE asks.region = "known" -> "RELAY_REGION"
                [] asks.region = "unknown" -> "exit"
                [] OTHER -> IF asks.coords THEN "latlng" ELSE "default"
  /\ UNCHANGED <<asks, provider, reached, answers, bridgeTo>>

-----------------------------------------------------------------------------
Detecting == bridgeTo \notin {"off", "boot", "error"} /\ located = "boot" /\ asks.region = "auto"

AskProvider ==
  /\ Detecting /\ provider \in Provider /\ reached = "no" /\ reached' = "request"
  /\ UNCHANGED <<asks, provider, answers, located, bridgeTo>>

NextProvider(a) ==
  /\ answers' = [answers EXCEPT ![provider] = a]
  /\ provider' = provider + 1 /\ reached' = "no" /\ UNCHANGED <<asks, located, bridgeTo>>

(* The timer aborts a request without headers; a status that is not ok and  *)
(* an error of the request go on as well.                                   *)
NoAnswer == Detecting /\ reached = "request" /\ \E a \in {"timeout", "refused"} : NextProvider(a)

Headers ==
  /\ Detecting /\ reached = "request" /\ reached' = "body"
  /\ UNCHANGED <<asks, provider, answers, located, bridgeTo>>

BadBody == Detecting /\ reached = "body" /\ \E a \in {"useless", "broken"} : NextProvider(a)

Found ==
  /\ Detecting /\ reached = "body" /\ located' = "ip-geo" /\ reached' = "no"
  /\ answers' = [answers EXCEPT ![provider] = "found"] /\ UNCHANGED <<asks, provider, bridgeTo>>

\* Mutant: one failed service is enough for the time zone.
OneFailed == provider > 1

AllFailed == provider > ProviderCount

TimeZone ==
  /\ Detecting /\ AllFailed /\ reached = "no"
  /\ located' = IF asks.zone = "unknown" THEN "default(auto-failed)" ELSE "timezone"
  /\ UNCHANGED <<asks, provider, reached, answers, bridgeTo>>

LocateStep == Configured \/ ChooseBridge \/ ResolveRegion \/ AskProvider \/ NoAnswer \/ Headers \/ BadBody \/ Found \/ TimeZone

-----------------------------------------------------------------------------
(* A relay goes where it was told: it asks a location service only when     *)
(* told to detect its region, takes the first service that answers with     *)
(* coordinates, and falls back on the time zone only when every one failed; *)
(* a network that is named, and known, is the one it joins, the flag before *)
(* the environment; and a region nobody knows starts no relay (index.js     *)
(* 125-162, geolocate.js 21-33 and 82-88, network.js 26-49).                *)
GoesWhereItWasTold ==
  /\ (\E p \in Provider : answers[p] # "unasked") \/ reached # "no" => asks.region = "auto"
  /\ located = "ip-geo" => \E p \in Provider : answers[p] = "found"
                           /\ \A q \in 1 .. (p - 1) : answers[q] \notin {"found", "unasked"}
  /\ located \in {"timezone", "default(auto-failed)"} => \A p \in Provider : answers[p] \notin {"found", "unasked"}
  /\ (bridgeTo \notin {"off", "boot", "url"} /\ asks.flag # "none") => bridgeTo \in {asks.flag, "error"}
  /\ (bridgeTo \notin {"off", "boot", "url"} /\ asks.flag = "none" /\ asks.env \in {"prod", "testnet"}) => bridgeTo = asks.env
  /\ bridgeTo = "error" => located = "boot"
=============================================================================
