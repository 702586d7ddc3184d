----------------------------- MODULE ConfigInit -----------------------------
(***************************************************************************)
(* Start-up until the executors start: InitConfig of                       *)
(* internal/pkg/config/config.go with all it calls, the metadata requests  *)
(* of cloudinfo.go, and InitGaugeStats.                                    *)
(*                                                                         *)
(* The file is a record: a key that is absent is Undefined where the code  *)
(* asks md.IsDefined, and the zero value elsewhere.  A list is the set of  *)
(* its globs, a secret or certificate is a Source (see Credentials).       *)
(***************************************************************************)
EXTENDS Naturals, Sequences

CONSTANTS
  Files,       \* the configuration files the exporter may be started with
  Lower,       \* strings.ToLower (and TrimSpace, of auth_mode), over the words used
  Undefined,   \* a key that is not in the file
  Nil          \* a variable nothing has been stored in

Contexts == {"namespace", "set", "node", "xdr", "user", "job", "sindex", "latencies"}

\* Those that had lists under older names.
OldContexts == {"namespace", "set", "node", "xdr"}

Numbers == {"agent.timeout", "aerospike.timeout", "push_interval",
            "server_stat_fetch_interval"}

MaxUint8 == 255

\* The requests to each cloud's metadata service; all but token are labels.
Details == [aws   |-> <<"token", "region", "availability_zone">>,
            azure |-> <<"location", "zone">>,
            gcp   |-> <<"zone">>]

ASSUME ConfigAssumption ==
  \A f \in Files :
    /\ DOMAIN f.allow = Contexts /\ DOMAIN f.block = Contexts
    /\ DOMAIN f.white = OldContexts /\ DOMAIN f.black = OldContexts
    /\ f.number \in [Numbers -> Nat]
    /\ {f.temporality, f.separator} \subseteq DOMAIN Lower \cup {Undefined}
    /\ f.aerospike.auth \in DOMAIN Lower

VARIABLES
  file,       \* the configuration file
  phase,      \* where InitConfig is, or how the process ended
  cfg,        \* config.Cfg
  asked,      \* requests to the metadata service that are done
  cloudInfo   \* what they answered

configVars == <<file, phase, cfg, asked, cloudInfo>>

Phases == {"decode", "lists", "log", "validate", "cloud", "kubernetes", "gauges",
           "ready", "fatal", "panic"}

Written(list) == IF list = Undefined THEN {} ELSE list

Fatal == phase' = "fatal" /\ UNCHANGED cfg

\* The file's value of every key, whatever becomes of it later.
Decoded ==
  [prometheus |-> file.prometheus = TRUE, otel |-> file.otel = TRUE,
   number |-> file.number, endpoint |-> file.endpoint, grpc |-> file.grpc,
   http |-> file.http, temporality |-> file.temporality, separator |-> file.separator,
   auth |-> file.aerospike.auth, labels |-> file.labels,
   allow |-> [c \in Contexts |-> Written(file.allow[c])],
   allowEnabled |-> [c \in Contexts |-> FALSE],
   block |-> [c \in Contexts |-> Written(file.block[c])],
   kubernetes |-> FALSE, pod |-> ""]

ConfigTypeOK ==
  /\ phase \in Phases
  /\ phase = "decode" => cfg = Nil
  /\ cfg # Nil =>
       /\ DOMAIN cfg = DOMAIN Decoded
       /\ {cfg.prometheus, cfg.otel, cfg.kubernetes} \subseteq BOOLEAN
       /\ cfg.number \in [Numbers -> 0 .. MaxUint8]
       /\ cfg.allowEnabled \in [Contexts -> BOOLEAN]
  /\ asked \in 0 .. 3
  /\ DOMAIN cloudInfo \subseteq {"region", "availability_zone", "location", "zone"}

ConfigInit ==
  /\ file \in Files
  /\ phase = "decode"
  /\ cfg = Nil
  /\ asked = 0 /\ cloudInfo = <<>>

-----------------------------------------------------------------------------
(* InitConfig. *)

\* Mutant: numbers are stored whatever the width of their field.
DecodeUnchecked ==
  /\ phase = "decode"
  /\ \/ Fatal
     \/ phase' = "lists" /\ cfg' = Decoded
  /\ UNCHANGED <<file, asked, cloudInfo>>

\* The file cannot be read or parsed, or a number does not fit its field.
Decode ==
  /\ phase = "decode"
  /\ \/ Fatal
     \/ /\ \A n \in Numbers : file.number[n] <= MaxUint8
        /\ phase' = "lists"
        /\ cfg' = Decoded
  /\ UNCHANGED <<file, asked, cloudInfo>>

\* Mutant: an empty list under the older name is no conflict.
ListsExcludeFilled ==
  \E c \in OldContexts :
    \/ file.white[c] # Undefined /\ file.allow[c] # Undefined
    \/ Written(file.black[c]) # {} /\ Written(file.block[c]) # {}

\* Older and newer name at once: any two allow lists, but a block list only
\* when there is something in it.
ListsExclude ==
  \E c \in OldContexts :
    \/ file.white[c] # Undefined /\ file.allow[c] # Undefined
    \/ file.black[c] # Undefined /\ Written(file.block[c]) # {}

\* The older name's list, where there is one.
Tolerated(old, new, c) ==
  IF c \in OldContexts /\ old[c] # Undefined THEN old[c] ELSE Written(new[c])

initAllowlistAndBlocklistConfigs ==
  /\ phase = "lists"
  /\ IF ListsExclude THEN Fatal
     ELSE /\ phase' = "log"
          /\ cfg' = [cfg EXCEPT
               !.allowEnabled = [c \in Contexts |->
                  \/ file.allow[c] # Undefined
                  \/ c \in OldContexts /\ file.white[c] # Undefined],
               !.allow = [c \in Contexts |-> Tolerated(file.white, file.allow, c)],
               !.block = [c \in Contexts |-> Tolerated(file.black, file.block, c)]]
  /\ UNCHANGED <<file, asked, cloudInfo>>

\* setLogFile, setLogLevel
setLogFile ==
  /\ phase = "log"
  /\ \/ file.logFile # "" /\ Fatal
     \/ phase' = "validate" /\ UNCHANGED cfg
  /\ UNCHANGED <<file, asked, cloudInfo>>

-----------------------------------------------------------------------------
(* ValidateAndUpdate. *)

\* Mutant: the interval between refreshes has no default.
DefaultNumberForgotten(n, given) ==
  CASE n = "server_stat_fetch_interval" \/ given > 0 -> given
    [] n = "push_interval" -> 60
    [] OTHER -> 5

DefaultNumber(n, given) ==
  CASE given > 0 -> given
    [] n = "push_interval" -> 60
    [] n = "server_stat_fetch_interval" -> 15
    [] OTHER -> 5

\* Key and certificate of the section Aerospike come together, and with a CA.
CertificatesIncomplete(s) ==
  \/ (s.key.ref = "") # (s.cert.ref = "")
  \/ s.cert.ref # "" /\ s.ca.ref = ""

\* endpoint is an older name of grpc_endpoint.
GrpcEndpoint(c) == IF c.endpoint # "" THEN c.endpoint ELSE c.grpc

validateOtelConfigs(c) ==
  /\ c.endpoint = "" \/ c.grpc = ""
  /\ (GrpcEndpoint(c) = "") # (c.http = "")
  /\ Lower[c.temporality] \in {"delta", "cumulative"}
  /\ Lower[c.separator] \in {"period", "underscore"}

OtelUpdated(c) ==
  [c EXCEPT !.grpc = GrpcEndpoint(c),
            !.temporality = Lower[@], !.separator = Lower[@]]

ValidateAndUpdate ==
  LET c == [cfg EXCEPT
              !.number = [n \in Numbers |-> DefaultNumber(n, @[n])],
              !.auth = Lower[IF @ = "" THEN "internal" ELSE @],
              !.prometheus = @ \/ file.prometheus = Undefined]
      o == [c EXCEPT
              !.temporality = IF @ = Undefined THEN "delta" ELSE @,
              !.separator = IF @ = Undefined THEN "period" ELSE @]
  IN
  /\ phase = "validate"
  /\ IF \/ CertificatesIncomplete(file.aerospike)
        \/ c.otel /\ ~validateOtelConfigs(o)
        \/ ~c.prometheus /\ ~c.otel
     THEN Fatal
     ELSE phase' = "cloud" /\ cfg' = IF c.otel THEN OtelUpdated(o) ELSE c
  /\ UNCHANGED <<file, asked, cloudInfo>>

-----------------------------------------------------------------------------
(* FetchCloudInfo, FetchKubernetesInfo, InitGaugeStats. *)

\* CollectCloudDetails: a name it does not know, spelled as it is, has none.
Requests == IF file.cloud \in DOMAIN Details THEN Details[file.cloud] ELSE <<>>

\* A label is stored in a map of labels.
Stored(labels, l, value) ==
  [x \in DOMAIN labels \cup {l} |-> IF x = l THEN value ELSE labels[x]]

\* Mutant: a request that fails is skipped.
callUrlSkipped(answer) ==
  /\ phase = "cloud" /\ asked < Len(Requests)
  /\ LET detail == Requests[asked + 1] IN
     /\ asked' = asked + 1
     /\ cloudInfo' = IF answer = Nil \/ detail = "token" THEN cloudInfo
                     ELSE Stored(cloudInfo, detail, answer)
  /\ UNCHANGED <<file, phase, cfg>>

\* The first request that fails, times out or is answered with an XML error
\* (Nil) is the last one.
callUrl(answer) ==
  /\ phase = "cloud" /\ asked < Len(Requests)
  /\ LET detail == Requests[asked + 1] IN
     /\ asked' = IF answer = Nil THEN Len(Requests) ELSE asked + 1
     /\ cloudInfo' = IF answer = Nil \/ detail = "token" THEN cloudInfo
                     ELSE Stored(cloudInfo, detail, answer)
  /\ UNCHANGED <<file, phase, cfg>>

\* Storing into MetricLabels panics when the file has no labels.
FetchCloudInfo ==
  /\ phase = "cloud" /\ asked = Len(Requests)
  /\ IF cfg.labels = Undefined /\ DOMAIN cloudInfo # {}
     THEN phase' = "panic" /\ UNCHANGED cfg
     ELSE /\ phase' = "kubernetes"
          /\ cfg' = IF cfg.labels = Undefined THEN cfg
                    ELSE [cfg EXCEPT !.labels =
                            [l \in DOMAIN cfg.labels \cup DOMAIN cloudInfo |->
                               IF l \notin DOMAIN cloudInfo THEN cfg.labels[l]
                               ELSE IF cloudInfo[l] = "" THEN "null" ELSE cloudInfo[l]]]
  /\ UNCHANGED <<file, asked, cloudInfo>>

FetchKubernetesInfo(pod) ==
  /\ phase = "kubernetes"
  /\ phase' = "gauges"
  /\ \E inside \in BOOLEAN :
       cfg' = [cfg EXCEPT !.kubernetes = inside, !.pod = IF inside THEN pod ELSE ""]
  /\ UNCHANGED <<file, asked, cloudInfo>>

InitGaugeStats ==
  /\ phase = "gauges"
  /\ \/ Fatal
     \/ phase' = "ready" /\ UNCHANGED cfg
  /\ UNCHANGED <<file, asked, cloudInfo>>

-----------------------------------------------------------------------------
ConfigNext ==
  \/ Decode \/ initAllowlistAndBlocklistConfigs \/ setLogFile \/ ValidateAndUpdate
  \/ \E answer \in {Nil, "", "a"} : callUrl(answer)
  \/ FetchCloudInfo
  \/ \E pod \in {"", "host"} : FetchKubernetesInfo(pod)
  \/ InitGaugeStats

ConfigSpec == ConfigInit /\ [][ConfigNext]_configVars

-----------------------------------------------------------------------------
(* Properties. *)

(* What the executors take for granted after ValidateAndUpdate: one of     *)
(* them runs; tickers have an interval, without which NewTicker panics,    *)
(* and sockets a timeout; Initialize of the OpenTelemetry executor finds   *)
(* the one endpoint it is to use, a temporality getTemporalitySelector     *)
(* knows and a separator that is in METRIC_CONTEXT_SEPARATOR.              *)
UsableWhenReady ==
  phase = "ready" =>
    /\ cfg.prometheus \/ cfg.otel
    /\ \A n \in Numbers : cfg.number[n] > 0
    /\ cfg.otel => /\ (cfg.http = "") # (cfg.grpc = "")
                   /\ cfg.temporality \in {"delta", "cumulative"}
                   /\ cfg.separator \in {"period", "underscore"}

(* "Error out if both configurations are used at the same time"            *)
(* (initAllowlistAndBlocklistConfigs): a list that holds something, under  *)
(* the older or the newer name, is the one in force in its own context     *)
(* when the exporter starts, and switched on.                              *)
NoListLost ==
  phase = "ready" =>
    \A c \in Contexts :
      LET given(old, new) ==
            {new[c], IF c \in OldContexts THEN old[c] ELSE Undefined} \ {Undefined, {}}
      IN  /\ given(file.white, file.allow) \subseteq {cfg.allow[c]}
          /\ given(file.black, file.block) \subseteq {cfg.block[c]}
          /\ given(file.white, file.allow) # {} => cfg.allowEnabled[c]

(* Metadata requests fail at any point: an exporter that starts has every  *)
(* label of the file, the details answered up to the first failure, in     *)
(* their order, none of them empty, and no other; it never gets there only *)
(* when there are details and the file has no labels (FetchCloudInfo).     *)
LabelsComplete ==
  /\ phase = "panic" => file.labels = Undefined /\ DOMAIN cloudInfo # {}
  /\ \A i, j \in DOMAIN Requests :
       i < j /\ Requests[j] \in DOMAIN cloudInfo => Requests[i] \in DOMAIN cloudInfo \cup {"token"}
  /\ phase = "ready" /\ cfg.labels # Undefined =>
       /\ DOMAIN cfg.labels = DOMAIN file.labels \cup DOMAIN cloudInfo
       /\ \A l \in DOMAIN cfg.labels :
            IF l \in DOMAIN cloudInfo
            THEN cfg.labels[l] = IF cloudInfo[l] = "" THEN "null" ELSE cloudInfo[l]
            ELSE cfg.labels[l] = file.labels[l]

=============================================================================
