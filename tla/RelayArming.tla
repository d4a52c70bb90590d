---------------------------- MODULE RelayArming ----------------------------
(***************************************************************************)
(* The configuration a relay process starts with, src/relay.js and the     *)
(* head of src/index.js: what the environment asks for, what the launcher  *)
(* refuses, and in which order, before the relay may join the network.     *)
(* The environment does not change: each step picks the part it reads.     *)
(***************************************************************************)
EXTENDS Naturals, Sequences

CONSTANTS
  Kernels,  \* vendored kernel versions, <<major, minor, patch>>
  Limits    \* the pool sizes a profile may name

ArmModule == {"maintain", "gate", "guard", "presence"}     \* ARM_ENVS

(* RELAY_MESH_POOLS, part by part: NAME=integer, or what is no such pair or *)
(* a name the profile does not have.                                        *)
PoolPart == [name : {"M", "I", "H"}, size : Limits]
BadPart  == [name |-> "?", size |-> 0]
PoolText == {<<>>, <<BadPart>>}
              \cup UNION {[1 .. n -> PoolPart] : n \in 1 .. 3}

(* RELAY_REGION, or RELAY_LAT and RELAY_LNG, or neither.                    *)
RegionText == {"auto", "name", "unknown name", "coordinates", "none"}

VARIABLES
  launch,   \* "start", "region", "transport", "proof", "joined" or "refused"
  place,    \* where the region came from
  pools,    \* RELAY_MESH_POOLS
  profile,  \* the pool profile the transport was given; << >> when not armed
  kernel,   \* the vendored kernel
  askedFor, \* modules the environment asks for
  landed    \* modules the constructed peer has

armingVars == <<launch, place, pools, profile, kernel, askedFor, landed>>
asks       == <<kernel, askedFor, landed>>

ArmingInit ==
  /\ launch = "start" /\ place = "none" /\ pools = <<>> /\ profile = <<>>
  /\ kernel = <<0, 0, 0>> /\ askedFor = {} /\ landed = {}

-----------------------------------------------------------------------------
(* poolsFromEnv: a later part overwrites an earlier one of its name; the    *)
(* profile must name M and I.                                               *)
Named(text)    == {text[i].name : i \in DOMAIN text}
Readable(text) == text = <<>> \/ (BadPart \notin {text[i] : i \in DOMAIN text}
                                    /\ {"M", "I"} \subseteq Named(text))
poolsFromEnv(text) ==
  [n \in Named(text) |->
     (CHOOSE p \in {text[i] : i \in DOMAIN text} :
        \E i \in DOMAIN text : /\ text[i] = p /\ p.name = n
                               /\ \A j \in i + 1 .. Len(text) : text[j].name # n).size]

(* makePoolProfile (kernel): M + I within H, which is M + I by default.     *)
Feasible(p) == "H" \in DOMAIN p => p["M"] + p["I"] <= p["H"]

(* assertArmingSupported: 4.67.1 or later.                                  *)
Supports(k) ==
  \/ k[1] > 4
  \/ k[1] = 4 /\ (k[2] > 67 \/ (k[2] = 67 /\ k[3] >= 1))

(* assertArmingCoherent: maintenance only with the guard and the gate.      *)
CoherentWithOne(a) == "maintain" \in a => "guard" \in a   \* (a mutant)
Coherent(a)        == "maintain" \in a => {"guard", "gate"} \subseteq a

-----------------------------------------------------------------------------
(* resolveRegionConfig: an unknown name ends the process; detection that    *)
(* fails, and no setting at all, take the default region.                   *)
resolveRegionConfig ==
  /\ launch = "start"
  /\ \E text \in RegionText :
       \/ text = "unknown name" /\ launch' = "refused" /\ UNCHANGED place
       \/ text \notin {"unknown name"} /\ launch' = "region"
          /\ place' \in IF text = "auto" THEN {"auto", "default"}
                        ELSE IF text = "none" THEN {"default"} ELSE {text}
  /\ UNCHANGED <<pools, profile, asks>>

(* createRelay builds the transport first, with the pools; no socket yet.   *)
BuildTransport ==
  /\ launch = "region"
  /\ \E text \in PoolText :
       /\ pools' = text
       /\ \/ /\ Readable(text) /\ Feasible(poolsFromEnv(text))
             /\ profile' = poolsFromEnv(text) /\ launch' = "transport"
          \/ /\ ~(Readable(text) /\ Feasible(poolsFromEnv(text)))
             /\ launch' = "refused" /\ UNCHANGED profile
  /\ UNCHANGED <<place, asks>>

(* Then the peer, unless the kernel does not support what is asked for or   *)
(* it is not coherent.  A kernel may drop an option it does not know.       *)
BuildPeer ==
  /\ launch = "transport"
  /\ \E k \in Kernels, a \in SUBSET ArmModule :
       /\ kernel' = k /\ askedFor' = a
       /\ \/ /\ a # {} /\ ~(Supports(k) /\ Coherent(a))
             /\ launch' = "refused" /\ UNCHANGED landed
          \/ /\ a = {} \/ (Supports(k) /\ Coherent(a))
             /\ landed' \in SUBSET a /\ launch' = "proof"
  /\ UNCHANGED <<place, pools, profile>>

(* assertArmedModules, before the join: what was asked for is on the peer.  *)
JoinUnproved ==   \* (a mutant)
  /\ launch = "proof" /\ launch' = "joined" /\ UNCHANGED <<place, pools, profile, asks>>

ProveArmed ==
  /\ launch = "proof"
  /\ launch' = IF askedFor \subseteq landed THEN "joined" ELSE "refused"
  /\ UNCHANGED <<place, pools, profile, asks>>

ArmingStep ==
  resolveRegionConfig \/ BuildTransport \/ BuildPeer \/ ProveArmed

-----------------------------------------------------------------------------
(* A relay that joins runs exactly what its environment asked for: every    *)
(* module, on a kernel no older than the pin, maintenance never without     *)
(* guard and gate, and pools that fit the last sizes named.  Any other      *)
(* configuration ends the process before the join (relay.js 80-96, 114-128, *)
(* 152-241, 307-330).                                                       *)
JoinsOnlyAsAsked ==
  launch = "joined" =>
    /\ landed = askedFor
    /\ askedFor # {} => 10000 * kernel[1] + 100 * kernel[2] + kernel[3] >= 46701
    /\ "maintain" \in landed => "guard" \in landed /\ "gate" \in landed
    /\ pools # <<>> =>
         \E m, i \in DOMAIN pools :
           /\ pools[m].name = "M" /\ pools[i].name = "I"
           /\ profile["M"] = pools[m].size /\ profile["I"] = pools[i].size
           /\ \A h \in DOMAIN pools :
                (pools[h].name = "H" /\ \A j \in h + 1 .. Len(pools) : pools[j].name # "H")
                  => pools[m].size + pools[i].size <= pools[h].size
=============================================================================
