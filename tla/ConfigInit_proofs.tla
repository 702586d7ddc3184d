------------------------- MODULE ConfigInit_proofs -------------------------
(***************************************************************************)
(* Proofs about ConfigInit and Credentials, for every set of configuration *)
(* files, whatever lower-casing does to a word, and every content of the   *)
(* files and variables that hold secrets and certificates.                 *)
(***************************************************************************)
EXTENDS Credentials, WellFoundedInduction, TLAPS

Keys == {"prometheus", "otel", "number", "endpoint", "grpc", "http", "temporality",
         "separator", "auth", "labels", "allow", "allowEnabled", "block",
         "kubernetes", "pod"}

(* What ValidateAndUpdate leaves behind, whenever it leaves anything.      *)
Usable(c) ==
  /\ c.prometheus \/ c.otel
  /\ \A n \in Numbers : c.number[n] > 0
  /\ c.otel => /\ (c.http = "") # (c.grpc = "")
               /\ c.temporality \in {"delta", "cumulative"}
               /\ c.separator \in {"period", "underscore"}

IsRecord(c) == DOMAIN c = Keys /\ c = [k \in Keys |-> c[k]]

Read(c) ==
  /\ {c.prometheus, c.otel} \subseteq BOOLEAN
  /\ c.number \in [Numbers -> Nat]

(* The lists that hold something under either name in context x.           *)
Filled(old, new, x) ==
  {new[x], IF x \in OldContexts THEN old[x] ELSE Undefined} \ {Undefined, {}}

(* The lists in force are those of the file.                               *)
Listed(f, c) ==
  \A x \in Contexts :
    /\ Filled(f.white, f.allow, x) \subseteq {c.allow[x]}
    /\ Filled(f.black, f.block, x) \subseteq {c.block[x]}
    /\ Filled(f.white, f.allow, x) # {} => c.allowEnabled[x]

Validated == {"cloud", "kubernetes", "gauges", "ready"}

(* A configuration that is read has all its keys, with numbers that do not *)
(* wrap; one that is validated is usable, and is not changed in that any   *)
(* more.                                                                   *)
ReadInv ==
  /\ file \in Files
  /\ phase \in {"lists", "log", "validate"} => IsRecord(cfg) /\ Read(cfg)
  /\ phase \in Validated => IsRecord(cfg) /\ Usable(cfg)

(* The lists are settled before anything else is.                          *)
ListInv == phase \in Validated \cup {"log", "validate"} => Listed(file, cfg)

LEMMA DefaultNumberPositive ==
  ASSUME NEW n \in Numbers, NEW given \in Nat
  PROVE  DefaultNumber(n, given) > 0
BY DEF DefaultNumber

LEMMA InitReadInv == ConfigInit => ReadInv
BY DEF ConfigInit, ReadInv, Validated

LEMMA DecodeReadInv == ASSUME ReadInv, Decode PROVE ReadInv'
<1>1. CASE Fatal
  BY <1>1 DEF ReadInv, Decode, Fatal, Validated
<1>2. CASE cfg' = Decoded /\ phase' = "lists"
  <2>1. file' = file /\ file \in Files
    BY DEF ReadInv, Decode
  <2>2. IsRecord(Decoded)
    BY DEF IsRecord, Decoded, Keys
  <2>3. Read(Decoded)
    <3>1. file.number \in [Numbers -> Nat]
      BY <2>1, ConfigAssumption
    <3> QED
      BY <3>1 DEF Read, Decoded
  <2> QED
    BY <1>2, <2>1, <2>2, <2>3 DEF ReadInv, Validated
<1> QED
  BY <1>1, <1>2 DEF Decode

LEMMA ListsReadInv ==
  ASSUME ReadInv, initAllowlistAndBlocklistConfigs PROVE ReadInv'
<1>1. CASE Fatal
  BY <1>1 DEF ReadInv, initAllowlistAndBlocklistConfigs, Fatal, Validated
<1>2. CASE phase' = "log" /\ \E e, a, b : cfg' = [cfg EXCEPT !.allowEnabled = e, !.allow = a, !.block = b]
  <2>1. PICK e, a, b : cfg' = [cfg EXCEPT !.allowEnabled = e, !.allow = a, !.block = b]
    BY <1>2
  <2>2. file' = file /\ file \in Files /\ IsRecord(cfg) /\ Read(cfg)
    BY DEF ReadInv, initAllowlistAndBlocklistConfigs
  <2>3. IsRecord(cfg') /\ Read(cfg')
    BY <2>1, <2>2 DEF IsRecord, Read, Keys
  <2> QED
    BY <1>2, <2>2, <2>3 DEF ReadInv, Validated
<1> QED
  BY <1>1, <1>2 DEF initAllowlistAndBlocklistConfigs

LEMMA ValidateReadInv ==
  ASSUME ReadInv, ValidateAndUpdate PROVE ReadInv'
<1> DEFINE c == [cfg EXCEPT
              !.number = [n \in Numbers |-> DefaultNumber(n, @[n])],
              !.auth = Lower[IF @ = "" THEN "internal" ELSE @],
              !.prometheus = @ \/ file.prometheus = Undefined]
           o == [c EXCEPT
              !.temporality = IF @ = Undefined THEN "delta" ELSE @,
              !.separator = IF @ = Undefined THEN "period" ELSE @]
<1>1. file' = file /\ file \in Files /\ IsRecord(cfg) /\ Read(cfg)
  BY DEF ReadInv, ValidateAndUpdate
<1>2. CASE Fatal
  BY <1>1, <1>2 DEF ReadInv, Fatal, Validated
<1>3. CASE /\ phase' = "cloud"
           /\ ~(c.otel /\ ~validateOtelConfigs(o)) /\ ~(~c.prometheus /\ ~c.otel)
           /\ cfg' = IF c.otel THEN OtelUpdated(o) ELSE c
  <2>1. IsRecord(c) /\ {c.prometheus, c.otel} \subseteq BOOLEAN
    BY <1>1 DEF IsRecord, Keys, Read
  <2>2. \A n \in Numbers : c.number[n] > 0
    <3>1. c.number = [n \in Numbers |-> DefaultNumber(n, cfg.number[n])]
      BY <1>1 DEF IsRecord, Keys
    <3> QED
      BY <3>1, <1>1, DefaultNumberPositive DEF Read
  <2>3. CASE ~c.otel
    BY <1>1, <1>3, <2>1, <2>2, <2>3 DEF ReadInv, Usable, Validated
  <2>4. CASE c.otel
    <3>1. IsRecord(o) /\ o.number = c.number /\ o.otel = c.otel /\ o.prometheus = c.prometheus
      <4> HIDE DEF c
      <4> QED
        BY <2>1 DEF IsRecord, Keys
    <3>2. validateOtelConfigs(o)
      BY <1>3, <2>4
    <3> HIDE DEF o, c
    <3>3. cfg' = OtelUpdated(o)
      BY <1>3, <2>4
    <3>4. /\ IsRecord(cfg') /\ cfg'.number = o.number /\ cfg'.otel = o.otel
          /\ cfg'.prometheus = o.prometheus /\ cfg'.http = o.http
          /\ cfg'.grpc = GrpcEndpoint(o)
          /\ cfg'.temporality = Lower[o.temporality] /\ cfg'.separator = Lower[o.separator]
      BY <3>1, <3>3 DEF IsRecord, Keys, OtelUpdated
    <3>5. Usable(cfg')
      BY <3>1, <3>2, <3>4, <2>2, <2>4 DEF Usable, validateOtelConfigs
    <3> QED
      BY <1>1, <1>3, <3>4, <3>5 DEF ReadInv, Validated
  <2> QED
    BY <2>3, <2>4
<1> QED
  BY <1>2, <1>3 DEF ValidateAndUpdate

(* What follows ValidateAndUpdate changes labels and names of pods only.   *)
LEMMA CloudInv ==
  ASSUME ReadInv, ListInv, FetchCloudInfo PROVE ReadInv' /\ ListInv'
<1>1. file' = file /\ file \in Files /\ IsRecord(cfg) /\ Usable(cfg) /\ Listed(file, cfg)
  BY DEF ReadInv, ListInv, FetchCloudInfo, Validated
<1>2. CASE UNCHANGED cfg
  BY <1>1, <1>2 DEF FetchCloudInfo, ReadInv, ListInv, Listed, Validated
<1>3. CASE \E labels : cfg' = [cfg EXCEPT !.labels = labels]
  <2>1. /\ IsRecord(cfg') /\ \A k \in Keys \ {"labels"} : cfg'[k] = cfg[k]
    BY <1>1, <1>3 DEF IsRecord, Keys
  <2>2. Usable(cfg')
    BY <1>1, <2>1 DEF Usable, Keys
  <2>3. Listed(file', cfg')
    BY <1>1, <2>1 DEF Listed, Keys
  <2> QED
    BY <1>1, <2>1, <2>2, <2>3 DEF FetchCloudInfo, ReadInv, ListInv, Validated
<1> QED
  BY <1>2, <1>3 DEF FetchCloudInfo

LEMMA KubernetesInv ==
  ASSUME ReadInv, ListInv, NEW pod, FetchKubernetesInfo(pod) PROVE ReadInv' /\ ListInv'
<1>1. PICK inside \in BOOLEAN :
        cfg' = [cfg EXCEPT !.kubernetes = inside, !.pod = IF inside THEN pod ELSE ""]
  BY DEF FetchKubernetesInfo
<1>2. file' = file /\ file \in Files /\ IsRecord(cfg) /\ Usable(cfg) /\ Listed(file, cfg)
  BY DEF ReadInv, ListInv, FetchKubernetesInfo, Validated
<1>3. IsRecord(cfg') /\ \A k \in Keys \ {"kubernetes", "pod"} : cfg'[k] = cfg[k]
  BY <1>1, <1>2 DEF IsRecord, Keys
<1>4. Usable(cfg') /\ Listed(file', cfg')
  BY <1>2, <1>3 DEF Usable, Listed, Keys
<1> QED
  BY <1>2, <1>3, <1>4 DEF FetchKubernetesInfo, ReadInv, ListInv, Validated

(* Two names of one context never hold two lists: ListsExclude.            *)
LEMMA ListsListInv ==
  ASSUME ReadInv, initAllowlistAndBlocklistConfigs PROVE ListInv'
<1>1. CASE Fatal
  BY <1>1 DEF Fatal, ListInv, Validated
<1>2. CASE ~ListsExclude
  <2>1. file' = file /\ IsRecord(cfg)
    BY DEF ReadInv, initAllowlistAndBlocklistConfigs
  <2>2. cfg' = [cfg EXCEPT
               !.allowEnabled = [c \in Contexts |->
                  \/ file.allow[c] # Undefined
                  \/ c \in OldContexts /\ file.white[c] # Undefined],
               !.allow = [c \in Contexts |-> Tolerated(file.white, file.allow, c)],
               !.block = [c \in Contexts |-> Tolerated(file.black, file.block, c)]]
    BY <1>2 DEF initAllowlistAndBlocklistConfigs
  <2>3. \A x \in Contexts :
          /\ cfg'.allow[x] = Tolerated(file.white, file.allow, x)
          /\ cfg'.block[x] = Tolerated(file.black, file.block, x)
          /\ cfg'.allowEnabled[x] = (\/ file.allow[x] # Undefined
                                     \/ x \in OldContexts /\ file.white[x] # Undefined)
    BY <2>1, <2>2 DEF IsRecord, Keys
  <2>4. ASSUME NEW x \in Contexts
        PROVE  /\ Filled(file.white, file.allow, x) \subseteq {cfg'.allow[x]}
               /\ Filled(file.white, file.allow, x) # {} => cfg'.allowEnabled[x]
    BY <1>2, <2>3 DEF ListsExclude, Filled, Tolerated, Written
  <2>5. ASSUME NEW x \in Contexts
        PROVE  Filled(file.black, file.block, x) \subseteq {cfg'.block[x]}
    BY <1>2, <2>3 DEF ListsExclude, Filled, Tolerated, Written
  <2> QED
    BY <2>1, <2>4, <2>5 DEF ListInv, Listed
<1> QED
  BY <1>1, <1>2 DEF initAllowlistAndBlocklistConfigs

LEMMA ValidateListInv ==
  ASSUME ReadInv, ListInv, ValidateAndUpdate PROVE ListInv'
<1> DEFINE c == [cfg EXCEPT
              !.number = [n \in Numbers |-> DefaultNumber(n, @[n])],
              !.auth = Lower[IF @ = "" THEN "internal" ELSE @],
              !.prometheus = @ \/ file.prometheus = Undefined]
           o == [c EXCEPT
              !.temporality = IF @ = Undefined THEN "delta" ELSE @,
              !.separator = IF @ = Undefined THEN "period" ELSE @]
           lists == {"allow", "allowEnabled", "block"}
<1>1. file' = file /\ IsRecord(cfg) /\ Listed(file, cfg)
  BY DEF ReadInv, ListInv, ValidateAndUpdate, Validated
<1>2. CASE Fatal
  BY <1>2 DEF Fatal, ListInv, Validated
<1>3. CASE cfg' = c \/ cfg' = OtelUpdated(o)
  <2>1. IsRecord(c) /\ \A k \in lists : c[k] = cfg[k]
    BY <1>1 DEF IsRecord, Keys
  <2>2. IsRecord(o) /\ \A k \in lists : o[k] = c[k]
    <3> HIDE DEF c
    <3> QED
      BY <2>1 DEF IsRecord, Keys
  <2>3. \A k \in lists : OtelUpdated(o)[k] = o[k]
    <3> HIDE DEF o, c
    <3> QED
      BY <2>2 DEF IsRecord, Keys, OtelUpdated
  <2>4. \A k \in lists : cfg'[k] = cfg[k]
    <3> HIDE DEF o, c
    <3> QED
      BY <1>3, <2>1, <2>2, <2>3
  <2> QED
    BY <1>1, <2>4 DEF Listed, ListInv
<1> QED
  BY <1>2, <1>3 DEF ValidateAndUpdate

-----------------------------------------------------------------------------
(* What the rest of InitConfig and the readers of secrets do: they take    *)
(* the exporter one phase on, or end it.                                   *)
LEMMA KeptInv ==
  ASSUME ReadInv, ListInv, UNCHANGED <<file, cfg>>,
         \/ phase' \in {phase, "fatal"}
         \/ phase = "log" /\ phase' = "validate"
         \/ phase = "gauges" /\ phase' = "ready"
  PROVE  ReadInv' /\ ListInv'
BY DEF ReadInv, ListInv, Validated, Listed

LEMMA ConfigInv ==
  ASSUME ReadInv, ListInv, ConfigNext PROVE ReadInv' /\ ListInv'
<1>1. CASE Decode
  <2>1. ListInv'
    BY <1>1 DEF Decode, Fatal, ListInv, Validated
  <2> QED
    BY <1>1, <2>1, DecodeReadInv
<1>2. CASE initAllowlistAndBlocklistConfigs
  BY <1>2, ListsReadInv, ListsListInv
<1>3. CASE setLogFile
  BY <1>3, KeptInv DEF setLogFile, Fatal
<1>4. CASE ValidateAndUpdate
  BY <1>4, ValidateReadInv, ValidateListInv
<1>5. ASSUME NEW answer \in {Nil, "", "a"}, callUrl(answer) PROVE ReadInv' /\ ListInv'
  BY <1>5, KeptInv DEF callUrl
<1>6. CASE FetchCloudInfo
  BY <1>6, CloudInv
<1>7. ASSUME NEW pod \in {"", "host"}, FetchKubernetesInfo(pod) PROVE ReadInv' /\ ListInv'
  BY <1>7, KubernetesInv
<1>8. CASE InitGaugeStats
  BY <1>8, KeptInv DEF InitGaugeStats, Fatal
<1> QED
  BY <1>1, <1>2, <1>3, <1>4, <1>5, <1>6, <1>7, <1>8 DEF ConfigNext

LEMMA StepInv ==
  ASSUME ReadInv, ListInv, [CredentialsNext]_vars PROVE ReadInv' /\ ListInv'
<1>1. CASE Config
  BY <1>1, ConfigInv DEF Config
<1>2. CASE BasicAuth
  BY <1>2, KeptInv DEF BasicAuth, Dies
<1>3. CASE ServeTls
  BY <1>3, KeptInv DEF ServeTls, Dies
<1>4. CASE createClientPolicy
  BY <1>4, KeptInv DEF createClientPolicy, Dies
<1>5. CASE UNCHANGED vars
  BY <1>5, KeptInv DEF vars, configVars
<1> QED
  BY <1>1, <1>2, <1>3, <1>4, <1>5 DEF CredentialsNext

LEMMA Inv == CredentialsSpec => [](ReadInv /\ ListInv)
<1>1. CredentialsInit => ReadInv /\ ListInv
  BY InitReadInv DEF CredentialsInit, ConfigInit, ListInv, Validated
<1>2. ReadInv /\ ListInv /\ [CredentialsNext]_vars => (ReadInv /\ ListInv)'
  BY StepInv
<1> QED
  BY <1>1, <1>2, PTL DEF CredentialsSpec

(* The exporter that is ready has what its executors take for granted,     *)
(* whichever keys its file leaves out (ValidateAndUpdate).                 *)
THEOREM UsableWhenReadyHolds == CredentialsSpec => []UsableWhenReady
<1>1. ReadInv => UsableWhenReady
  BY DEF ReadInv, UsableWhenReady, Usable, Validated
<1> QED
  BY <1>1, Inv, PTL

(* No list of the file is lost to an empty one under another name, nor to  *)
(* what is done to the configuration after the lists are settled           *)
(* (initAllowlistAndBlocklistConfigs).                                     *)
THEOREM NoListLostHolds == CredentialsSpec => []NoListLost
<1>1. ListInv => NoListLost
  BY DEF ListInv, NoListLost, Listed, Filled, Validated
<1> QED
  BY <1>1, Inv, PTL

-----------------------------------------------------------------------------
(* Types: no number wraps, and the details are those of the clouds.        *)
Typed(c) ==
  /\ IsRecord(c)
  /\ {c.prometheus, c.otel, c.kubernetes} \subseteq BOOLEAN
  /\ c.number \in [Numbers -> 0 .. MaxUint8]
  /\ c.allowEnabled \in [Contexts -> BOOLEAN]

TypeInv ==
  /\ phase \in Phases
  /\ phase = "decode" => cfg = Nil
  /\ phase \notin {"decode", "fatal"} => Typed(cfg)
  /\ cfg = Nil \/ Typed(cfg)

LEMMA DefaultNumberFits ==
  ASSUME NEW n \in Numbers, NEW given \in 0 .. MaxUint8
  PROVE  DefaultNumber(n, given) \in 0 .. MaxUint8
BY DEF DefaultNumber, MaxUint8

(* Copies of a record of a configuration that differ in a few keys.        *)
LEMMA DecodedTyped ==
  ASSUME file \in Files, \A n \in Numbers : file.number[n] <= MaxUint8
  PROVE  Typed(Decoded)
<1>1. IsRecord(Decoded)
  BY DEF IsRecord, Decoded, Keys
<1>2. /\ Decoded.prometheus = (file.prometheus = TRUE) /\ Decoded.otel = (file.otel = TRUE)
      /\ Decoded.kubernetes = FALSE
  BY DEF Decoded
<1>3. Decoded.number = file.number /\ Decoded.allowEnabled = [c \in Contexts |-> FALSE]
  BY DEF Decoded
<1>4. file.number \in [Numbers -> Nat]
  BY ConfigAssumption
<1>5. Decoded.number \in [Numbers -> 0 .. MaxUint8]
  BY <1>3, <1>4 DEF MaxUint8
<1> HIDE DEF Decoded
<1> QED
  BY <1>1, <1>2, <1>3, <1>5 DEF Typed

LEMMA ListsTyped ==
  ASSUME NEW c, Typed(c), NEW e \in [Contexts -> BOOLEAN], NEW a, NEW b
  PROVE  Typed([c EXCEPT !.allowEnabled = e, !.allow = a, !.block = b])
<1> DEFINE d == [c EXCEPT !.allowEnabled = e, !.allow = a, !.block = b]
<1>1. IsRecord(d) /\ d.allowEnabled = e /\ \A k \in {"prometheus", "otel", "kubernetes", "number"} : d[k] = c[k]
  BY DEF Typed, IsRecord, Keys
<1> HIDE DEF d
<1> QED
  BY <1>1 DEF Typed, d

LEMMA ValidatedTyped ==
  ASSUME TypeInv, ValidateAndUpdate PROVE cfg' = cfg \/ Typed(cfg')
<1> DEFINE c == [cfg EXCEPT
              !.number = [n \in Numbers |-> DefaultNumber(n, @[n])],
              !.auth = Lower[IF @ = "" THEN "internal" ELSE @],
              !.prometheus = @ \/ file.prometheus = Undefined]
           o == [c EXCEPT
              !.temporality = IF @ = Undefined THEN "delta" ELSE @,
              !.separator = IF @ = Undefined THEN "period" ELSE @]
           typed == {"prometheus", "otel", "kubernetes", "number", "allowEnabled"}
<1>1. Typed(cfg)
  BY DEF TypeInv, ValidateAndUpdate
<1>2. Typed(c)
  <2>1. /\ IsRecord(c) /\ \A k \in typed \ {"prometheus", "number"} : c[k] = cfg[k]
        /\ c.prometheus = (cfg.prometheus \/ file.prometheus = Undefined)
        /\ c.number = [n \in Numbers |-> DefaultNumber(n, cfg.number[n])]
    BY <1>1 DEF Typed, IsRecord, Keys
  <2>2. \A n \in Numbers : cfg.number[n] \in 0 .. MaxUint8
    BY <1>1 DEF Typed
  <2> HIDE DEF c
  <2>3. c.number \in [Numbers -> 0 .. MaxUint8]
    BY <2>1, <2>2, DefaultNumberFits
  <2>4. c.prometheus \in BOOLEAN
    BY <2>1
  <2> QED
    BY <1>1, <2>1, <2>3, <2>4 DEF Typed
<1>3. Typed(OtelUpdated(o))
  <2>1. IsRecord(o) /\ \A k \in typed : o[k] = c[k]
    <3> HIDE DEF c
    <3> QED
      BY <1>2 DEF Typed, IsRecord, Keys
  <2>2. IsRecord(OtelUpdated(o)) /\ \A k \in typed : OtelUpdated(o)[k] = o[k]
    <3> HIDE DEF o, c
    <3> QED
      BY <2>1 DEF IsRecord, Keys, OtelUpdated
  <2> HIDE DEF o, c
  <2> QED
    BY <1>2, <2>1, <2>2 DEF Typed
<1>4. cfg' = cfg \/ cfg' = c \/ cfg' = OtelUpdated(o)
  BY DEF ValidateAndUpdate, Fatal
<1> HIDE DEF o, c
<1> QED
  BY <1>2, <1>3, <1>4

LEMMA ConfigType ==
  ASSUME ReadInv, TypeInv, ConfigNext PROVE TypeInv'
<1> USE DEF TypeInv, Phases
<1>1. CASE Decode
  BY <1>1, DecodedTyped DEF Decode, Fatal, ReadInv
<1>2. CASE initAllowlistAndBlocklistConfigs
  <2> DEFINE e == [c \in Contexts |->
                     \/ file.allow[c] # Undefined
                     \/ c \in OldContexts /\ file.white[c] # Undefined]
             a == [c \in Contexts |-> Tolerated(file.white, file.allow, c)]
             b == [c \in Contexts |-> Tolerated(file.black, file.block, c)]
  <2>1. e \in [Contexts -> BOOLEAN]
    OBVIOUS
  <2>2. Fatal \/ (phase' = "log" /\ cfg' = [cfg EXCEPT !.allowEnabled = e, !.allow = a, !.block = b])
    BY <1>2 DEF initAllowlistAndBlocklistConfigs
  <2> HIDE DEF e, a, b
  <2>3. CASE Fatal
    BY <2>3, <1>2 DEF Fatal
  <2>4. CASE phase' = "log" /\ cfg' = [cfg EXCEPT !.allowEnabled = e, !.allow = a, !.block = b]
    <3>1. Typed(cfg)
      BY <1>2 DEF initAllowlistAndBlocklistConfigs
    <3>2. Typed(cfg')
      BY <2>1, <2>4, <3>1, ListsTyped
    <3> QED
      BY <2>4, <3>2
  <2> QED
    BY <2>2, <2>3, <2>4
<1>3. CASE setLogFile
  BY <1>3 DEF setLogFile, Fatal
<1>4. CASE ValidateAndUpdate
  <2>1. \/ phase' = "fatal" /\ cfg' = cfg
        \/ phase' = "cloud" /\ phase = "validate"
    BY <1>4 DEF ValidateAndUpdate, Fatal
  <2> QED
    BY <1>4, <2>1, ValidatedTyped DEF ValidateAndUpdate
<1>5. ASSUME NEW answer \in {Nil, "", "a"}, callUrl(answer) PROVE TypeInv'
  BY <1>5 DEF callUrl
<1>6. CASE FetchCloudInfo
  <2>1. CASE UNCHANGED cfg
    BY <1>6, <2>1 DEF FetchCloudInfo
  <2>2. CASE \E labels : cfg' = [cfg EXCEPT !.labels = labels]
    <3>1. Typed(cfg)
      BY <1>6 DEF FetchCloudInfo
    <3>2. IsRecord(cfg') /\ \A k \in Keys \ {"labels"} : cfg'[k] = cfg[k]
      BY <2>2, <3>1 DEF Typed, IsRecord, Keys
    <3>3. Typed(cfg')
      BY <3>1, <3>2 DEF Typed, Keys
    <3> QED
      BY <1>6, <3>3 DEF FetchCloudInfo
  <2> QED
    BY <1>6, <2>1, <2>2 DEF FetchCloudInfo
<1>7. ASSUME NEW pod \in {"", "host"}, FetchKubernetesInfo(pod) PROVE TypeInv'
  <2>1. PICK inside \in BOOLEAN :
          cfg' = [cfg EXCEPT !.kubernetes = inside, !.pod = IF inside THEN pod ELSE ""]
    BY <1>7 DEF FetchKubernetesInfo
  <2>2. Typed(cfg)
    BY <1>7 DEF FetchKubernetesInfo
  <2>3. /\ IsRecord(cfg') /\ cfg'.kubernetes = inside
        /\ \A k \in Keys \ {"kubernetes", "pod"} : cfg'[k] = cfg[k]
    BY <2>1, <2>2 DEF Typed, IsRecord, Keys
  <2>4. Typed(cfg')
    BY <2>2, <2>3 DEF Typed, Keys
  <2> QED
    BY <1>7, <2>4 DEF FetchKubernetesInfo
<1>8. CASE InitGaugeStats
  BY <1>8 DEF InitGaugeStats, Fatal
<1> QED
  BY <1>1, <1>2, <1>3, <1>4, <1>5, <1>6, <1>7, <1>8 DEF ConfigNext

LEMMA ConfigTypeKept ==
  ASSUME TypeInv, UNCHANGED cfg, phase' \in {phase, "fatal"} PROVE TypeInv'
<1>1. phase' \in Phases
  BY DEF TypeInv, Phases
<1> QED
  BY <1>1 DEF TypeInv

LEMMA TypeStep ==
  ASSUME ReadInv, TypeInv, [CredentialsNext]_vars PROVE TypeInv'
<1>1. CASE Config
  BY <1>1, ConfigType DEF Config
<1>2. CASE BasicAuth
  BY <1>2, ConfigTypeKept DEF BasicAuth, Dies
<1>3. CASE ServeTls
  BY <1>3, ConfigTypeKept DEF ServeTls, Dies
<1>4. CASE createClientPolicy
  BY <1>4, ConfigTypeKept DEF createClientPolicy, Dies
<1>5. CASE UNCHANGED vars
  BY <1>5, ConfigTypeKept DEF vars, configVars
<1> QED
  BY <1>1, <1>2, <1>3, <1>4, <1>5 DEF CredentialsNext

-----------------------------------------------------------------------------
(* The metadata requests: the details known are those asked for up to the  *)
(* first failure.                                                          *)
Known(k) == {Requests[i] : i \in 1 .. k} \ {"token"}

AskedInv ==
  /\ asked \in 0 .. Len(Requests)
  /\ \E k \in 0 .. asked : /\ asked < Len(Requests) => k = asked
                           /\ DOMAIN cloudInfo = Known(k)

LEMMA RequestsOf ==
  Requests \in {<<"token", "region", "availability_zone">>, <<"location", "zone">>,
                <<"zone">>, <<>>}
BY DEF Requests, Details

LEMMA AskedCall ==
  ASSUME AskedInv, NEW answer, callUrl(answer) PROVE AskedInv'
<1>1. /\ Requests' = Requests /\ Len(Requests) \in Nat
      /\ asked \in 0 .. Len(Requests) - 1 /\ DOMAIN cloudInfo = Known(asked)
  <2>1. Len(Requests) \in Nat
    BY RequestsOf
  <2> QED
    BY <2>1 DEF callUrl, AskedInv, Requests
<1>2. \A k : Known(k)' = Known(k)
  BY <1>1 DEF Known
<1>3. CASE answer = Nil
  <2>1. asked' = Len(Requests) /\ cloudInfo' = cloudInfo
    BY <1>3 DEF callUrl
  <2> QED
    BY <1>1, <1>2, <2>1 DEF AskedInv
<1>4. CASE answer # Nil
  <2>1. asked' = asked + 1
    BY <1>4 DEF callUrl
  <2>2. DOMAIN cloudInfo' = (DOMAIN cloudInfo \cup {Requests[asked + 1]}) \ {"token"}
    <3>1. CASE Requests[asked + 1] = "token"
      BY <1>1, <1>4, <3>1 DEF callUrl, Known
    <3>2. CASE Requests[asked + 1] # "token"
      BY <1>1, <1>4, <3>2 DEF callUrl, Stored, Known
    <3> QED
      BY <3>1, <3>2
  <2>3. {Requests[i] : i \in 1 .. asked + 1} = {Requests[i] : i \in 1 .. asked} \cup {Requests[asked + 1]}
    BY <1>1
  <2>4. DOMAIN cloudInfo' = Known(asked + 1)
    BY <1>1, <2>2, <2>3 DEF Known
  <2> QED
    BY <1>1, <1>2, <2>1, <2>4 DEF AskedInv
<1> QED
  BY <1>3, <1>4

LEMMA AskedStep ==
  ASSUME AskedInv, [CredentialsNext]_vars PROVE AskedInv'
<1>1. ASSUME UNCHANGED <<file, asked, cloudInfo>> PROVE AskedInv'
  BY <1>1 DEF AskedInv, Known, Requests
<1>2. CASE UNCHANGED vars
  BY <1>1, <1>2 DEF vars, configVars
<1>3. CASE BasicAuth \/ ServeTls \/ createClientPolicy
  BY <1>1, <1>3 DEF BasicAuth, ServeTls, createClientPolicy
<1>4. CASE Decode \/ initAllowlistAndBlocklistConfigs \/ setLogFile \/ ValidateAndUpdate
  BY <1>1, <1>4 DEF Decode, initAllowlistAndBlocklistConfigs, setLogFile, ValidateAndUpdate
<1>5. CASE FetchCloudInfo \/ InitGaugeStats
  BY <1>1, <1>5 DEF FetchCloudInfo, InitGaugeStats
<1>6. ASSUME NEW pod, FetchKubernetesInfo(pod) PROVE AskedInv'
  BY <1>1, <1>6 DEF FetchKubernetesInfo
<1>7. ASSUME NEW answer, callUrl(answer) PROVE AskedInv'
  BY <1>7, AskedCall
<1> QED
  BY <1>2, <1>3, <1>4, <1>5, <1>6, <1>7 DEF CredentialsNext, Config, ConfigNext

LEMMA TypeAskedInv == CredentialsSpec => [](TypeInv /\ AskedInv)
<1>1. CredentialsInit => TypeInv
  BY DEF CredentialsInit, ConfigInit, TypeInv, Phases
<1>2. CredentialsInit => AskedInv
  <2> SUFFICES ASSUME CredentialsInit PROVE AskedInv
    OBVIOUS
  <2>1. asked = 0 /\ DOMAIN cloudInfo = {} /\ Len(Requests) \in Nat
    BY RequestsOf DEF CredentialsInit, ConfigInit
  <2>2. DOMAIN cloudInfo = Known(0)
    BY <2>1 DEF Known
  <2> QED
    BY <2>1, <2>2 DEF AskedInv
<1>3. ReadInv /\ TypeInv /\ AskedInv /\ [CredentialsNext]_vars => (TypeInv /\ AskedInv)'
  BY TypeStep, AskedStep
<1> QED
  BY <1>1, <1>2, <1>3, Inv, PTL DEF CredentialsSpec

(* The configuration has its keys and its flags, no number of it wrapped,  *)
(* and the details are those that CollectCloudDetails asks for, in every   *)
(* phase of the start-up.                                                  *)
THEOREM ConfigTypeCorrect == CredentialsSpec => []ConfigTypeOK
<1>1. ASSUME TypeInv, AskedInv PROVE ConfigTypeOK
  <2>1. DOMAIN Decoded = Keys
    BY DEF Decoded, Keys
  <2>2. cfg # Nil => DOMAIN cfg = Keys
    BY <1>1 DEF TypeInv, Typed, IsRecord
  <2>3. asked \in 0 .. 3
    <3>1. Len(Requests) \in {0, 1, 2, 3}
      BY RequestsOf
    <3>2. asked \in 0 .. Len(Requests)
      BY <1>1 DEF AskedInv
    <3>3. \A n \in {0, 1, 2, 3} : 0 .. n \subseteq 0 .. 3
      OBVIOUS
    <3> QED
      BY <3>1, <3>2, <3>3, Zenon
  <2>4. \A i \in DOMAIN Requests :
          Requests[i] \in {"token", "region", "availability_zone", "location", "zone"}
    BY RequestsOf
  <2>5. DOMAIN cloudInfo \subseteq {"region", "availability_zone", "location", "zone"}
    <3>1. DOMAIN Requests = 1 .. Len(Requests) /\ Len(Requests) \in Nat
      BY RequestsOf
    <3> QED
      BY <1>1, <2>4, <3>1 DEF AskedInv, Known
  <2> QED
    BY <1>1, <2>1, <2>2, <2>3, <2>5 DEF ConfigTypeOK, TypeInv, Typed
<1> QED
  BY <1>1, TypeAskedInv, PTL
-----------------------------------------------------------------------------
(* Labels: those of the file until the details are added to them.          *)
Labelled ==
  /\ DOMAIN cfg.labels = DOMAIN file.labels \cup DOMAIN cloudInfo
  /\ \A l \in DOMAIN cfg.labels :
       IF l \in DOMAIN cloudInfo
       THEN cfg.labels[l] = IF cloudInfo[l] = "" THEN "null" ELSE cloudInfo[l]
       ELSE cfg.labels[l] = file.labels[l]

LabelInv ==
  /\ phase \in {"lists", "log", "validate", "cloud"} => cfg.labels = file.labels
  /\ phase = "panic" => file.labels = Undefined /\ DOMAIN cloudInfo # {}
  /\ phase \in {"kubernetes", "gauges", "ready"} /\ cfg.labels # Undefined => Labelled

LEMMA LabelsKept ==
  ASSUME LabelInv, UNCHANGED <<file, cfg, cloudInfo>>,
         \/ phase' \in {phase, "fatal"}
         \/ phase = "log" /\ phase' = "validate"
         \/ phase = "gauges" /\ phase' = "ready"
  PROVE  LabelInv'
<1>1. Labelled' = Labelled
  BY DEF Labelled
<1> QED
  BY <1>1 DEF LabelInv

LEMMA LabelsValidated ==
  ASSUME ReadInv, LabelInv, ValidateAndUpdate PROVE LabelInv'
<1> DEFINE c == [cfg EXCEPT
              !.number = [n \in Numbers |-> DefaultNumber(n, @[n])],
              !.auth = Lower[IF @ = "" THEN "internal" ELSE @],
              !.prometheus = @ \/ file.prometheus = Undefined]
           o == [c EXCEPT
              !.temporality = IF @ = Undefined THEN "delta" ELSE @,
              !.separator = IF @ = Undefined THEN "period" ELSE @]
<1>1. file' = file /\ IsRecord(cfg) /\ cfg.labels = file.labels
  BY DEF ReadInv, LabelInv, ValidateAndUpdate
<1>2. IsRecord(c) /\ c.labels = cfg.labels
  BY <1>1 DEF IsRecord, Keys
<1>3. IsRecord(o) /\ o.labels = c.labels
  <2> HIDE DEF c
  <2> QED
    BY <1>2 DEF IsRecord, Keys
<1>4. OtelUpdated(o).labels = o.labels
  <2> HIDE DEF o, c
  <2> QED
    BY <1>3 DEF IsRecord, Keys, OtelUpdated
<1>5. phase' \in {"fatal", "cloud"}
  BY DEF ValidateAndUpdate, Fatal
<1>6. phase' = "fatal" \/ cfg' = c \/ cfg' = OtelUpdated(o)
  BY DEF ValidateAndUpdate, Fatal
<1> HIDE DEF o, c
<1> QED
  BY <1>1, <1>2, <1>3, <1>4, <1>5, <1>6 DEF LabelInv

LEMMA LabelsFetched ==
  ASSUME ReadInv, LabelInv, FetchCloudInfo PROVE LabelInv'
<1>1. /\ UNCHANGED <<file, cloudInfo>> /\ IsRecord(cfg) /\ cfg.labels = file.labels
      /\ phase' \in {"panic", "kubernetes"}
  BY DEF ReadInv, LabelInv, FetchCloudInfo, Validated
<1>2. CASE cfg.labels = Undefined
  BY <1>1, <1>2 DEF FetchCloudInfo, LabelInv
<1>3. CASE cfg.labels # Undefined
  <2> DEFINE new == [l \in DOMAIN cfg.labels \cup DOMAIN cloudInfo |->
                       IF l \notin DOMAIN cloudInfo THEN cfg.labels[l]
                       ELSE IF cloudInfo[l] = "" THEN "null" ELSE cloudInfo[l]]
  <2>1. phase' = "kubernetes" /\ cfg' = [cfg EXCEPT !.labels = new]
    BY <1>3 DEF FetchCloudInfo
  <2>2. cfg'.labels = new
    <3> HIDE DEF new
    <3> QED
      BY <1>1, <2>1 DEF IsRecord, Keys
  <2>3. Labelled'
    BY <1>1, <2>2 DEF Labelled
  <2> QED
    BY <2>1, <2>3 DEF LabelInv
<1> QED
  BY <1>2, <1>3

LEMMA LabelsStep ==
  ASSUME ReadInv, LabelInv, [CredentialsNext]_vars PROVE LabelInv'
<1>1. CASE UNCHANGED vars
  BY <1>1, LabelsKept DEF vars, configVars
<1>2. CASE BasicAuth \/ ServeTls \/ createClientPolicy
  <2>1. UNCHANGED <<file, cfg, cloudInfo>> /\ phase' \in {phase, "fatal"}
    BY <1>2 DEF BasicAuth, ServeTls, createClientPolicy, Dies
  <2> QED
    BY <2>1, LabelsKept
<1>3. CASE Decode
  <2>1. phase' = "fatal" \/ (phase' = "lists" /\ cfg' = Decoded)
    BY <1>3 DEF Decode, Fatal
  <2>2. Decoded.labels = file.labels
    BY DEF Decoded
  <2>3. file' = file
    BY <1>3 DEF Decode
  <2> QED
    BY <2>1, <2>2, <2>3 DEF LabelInv
<1>4. CASE initAllowlistAndBlocklistConfigs
  <2>1. IsRecord(cfg) /\ cfg.labels = file.labels /\ file' = file
    BY <1>4 DEF ReadInv, LabelInv, initAllowlistAndBlocklistConfigs
  <2>2. CASE Fatal
    BY <2>2 DEF Fatal, LabelInv
  <2>3. CASE phase' = "log" /\ \E e, a, b : cfg' = [cfg EXCEPT !.allowEnabled = e, !.allow = a, !.block = b]
    <3>1. cfg'.labels = cfg.labels
      BY <2>1, <2>3 DEF IsRecord, Keys
    <3> QED
      BY <2>1, <2>3, <3>1 DEF LabelInv
  <2> QED
    BY <1>4, <2>2, <2>3 DEF initAllowlistAndBlocklistConfigs
<1>5. CASE setLogFile
  BY <1>5, LabelsKept DEF setLogFile, Fatal
<1>6. CASE ValidateAndUpdate
  BY <1>6, LabelsValidated
<1>7. ASSUME NEW answer, callUrl(answer) PROVE LabelInv'
  BY <1>7 DEF callUrl, LabelInv
<1>8. CASE FetchCloudInfo
  BY <1>8, LabelsFetched
<1>9. ASSUME NEW pod, FetchKubernetesInfo(pod) PROVE LabelInv'
  <2>1. IsRecord(cfg) /\ UNCHANGED <<file, cloudInfo>> /\ phase = "kubernetes" /\ phase' = "gauges"
    BY <1>9 DEF ReadInv, FetchKubernetesInfo, Validated
  <2>2. cfg'.labels = cfg.labels
    <3>1. PICK inside \in BOOLEAN :
            cfg' = [cfg EXCEPT !.kubernetes = inside, !.pod = IF inside THEN pod ELSE ""]
      BY <1>9 DEF FetchKubernetesInfo
    <3> QED
      BY <2>1, <3>1 DEF IsRecord, Keys
  <2> QED
    BY <2>1, <2>2 DEF LabelInv, Labelled
<1>10. CASE InitGaugeStats
  BY <1>10, LabelsKept DEF InitGaugeStats, Fatal
<1> QED
  BY <1>1, <1>2, <1>3, <1>4, <1>5, <1>6, <1>7, <1>8, <1>9, <1>10
     DEF CredentialsNext, Config, ConfigNext

(* An exporter that starts has every label of its file and the details     *)
(* answered up to the first request that failed, and the store into a map  *)
(* that is nil is reached only when there are details and no labels        *)
(* (CollectCloudDetails, FetchCloudInfo).                                  *)
THEOREM LabelsCompleteHolds == CredentialsSpec => []LabelsComplete
<1>1. CredentialsInit => LabelInv
  BY DEF CredentialsInit, ConfigInit, LabelInv
<1>2. ReadInv /\ LabelInv /\ [CredentialsNext]_vars => LabelInv'
  BY LabelsStep
<1>3. ASSUME AskedInv, LabelInv PROVE LabelsComplete
  <2>1. ASSUME NEW i \in DOMAIN Requests, NEW j \in DOMAIN Requests, i < j,
               Requests[j] \in DOMAIN cloudInfo
        PROVE  Requests[i] \in DOMAIN cloudInfo \cup {"token"}
    <3>1. \A m, n \in DOMAIN Requests : Requests[m] = Requests[n] => m = n
      BY RequestsOf
    <3>2. DOMAIN Requests = 1 .. Len(Requests) /\ Len(Requests) \in Nat
      BY RequestsOf
    <3>3. PICK k \in 0 .. Len(Requests) : DOMAIN cloudInfo = Known(k)
      BY <1>3, <3>2 DEF AskedInv
    <3>4. j \in 1 .. k
      BY <2>1, <3>1, <3>2, <3>3 DEF Known
    <3>5. i \in 1 .. k
      BY <2>1, <3>2, <3>3, <3>4
    <3> QED
      BY <3>3, <3>5 DEF Known
  <2> QED
    BY <1>3, <2>1 DEF LabelInv, Labelled, LabelsComplete
<1> QED
  BY <1>1, <1>2, <1>3, Inv, TypeAskedInv, PTL DEF CredentialsSpec

-----------------------------------------------------------------------------
(* Induction and recursion over the natural numbers, for Without.          *)
LEMMA LeastNat ==
  ASSUME NEW T, T \subseteq Nat, T # {}
  PROVE  \E n \in T : \A m \in T : n <= m
<1> DEFINE Less == {p \in Nat \X Nat : p[1] < p[2]}
<1>1. IsWellFoundedOn(Less, Nat)
  BY NatLessThanWellFounded DEF OpToRel
<1>2. PICK n \in T : \A m \in T : <<m, n>> \notin Less
  <2> HIDE DEF Less
  <2> QED
    BY <1>1, WFMin
<1>3. ASSUME NEW m \in T PROVE n <= m
  <2>1. m \in Nat /\ n \in Nat
    OBVIOUS
  <2>2. ~(m < n)
    <3> SUFFICES ASSUME m < n PROVE <<m, n>> \in Less
      BY <1>2
    <3> QED
      BY <2>1
  <2> QED
    BY <2>1, <2>2
<1> QED
  BY <1>3

(* Induction, over a set.                                                  *)
LEMMA NatSet ==
  ASSUME NEW T, 0 \in T, \A n \in Nat : n \in T => n + 1 \in T
  PROVE  Nat \subseteq T
<1> SUFFICES ASSUME Nat \ T # {} PROVE FALSE
  OBVIOUS
<1>1. PICK n \in Nat \ T : \A m \in Nat \ T : n <= m
  BY LeastNat
<1>2. n # 0 /\ n - 1 \in Nat /\ n - 1 < n
  BY <1>1
<1>3. n - 1 \in T
  BY <1>1, <1>2
<1> QED
  BY <1>1, <1>2, <1>3

(* There is a function for every definition that goes step by step.        *)
Runs(S, c, step, k) ==
  {f \in [0 .. k -> S] : f[0] = c /\ \A i \in 1 .. k : f[i] = step[<<f[i - 1], i>>]}

LEMMA Recursion ==
  ASSUME NEW S, NEW c \in S, NEW step \in [S \X Nat -> S], NEW k \in Nat
  PROVE  Runs(S, c, step, k) # {}
<1> DEFINE Is(f, n) == f[0] = c /\ \A i \in 1 .. n : f[i] = step[<<f[i - 1], i>>]
           T == {n \in Nat : \E f \in [0 .. n -> S] : Is(f, n)}
<1>1. 0 \in T
  <2>1. [i \in 0 .. 0 |-> c] \in [0 .. 0 -> S] /\ Is([i \in 0 .. 0 |-> c], 0)
    OBVIOUS
  <2> QED
    BY <2>1
<1>2. ASSUME NEW n \in Nat, n \in T PROVE n + 1 \in T
  <2>1. PICK f \in [0 .. n -> S] : Is(f, n)
    BY <1>2
  <2> DEFINE g == [i \in 0 .. n + 1 |-> IF i = n + 1 THEN step[<<f[n], n + 1>>] ELSE f[i]]
  <2>2. g \in [0 .. n + 1 -> S]
    <3>1. <<f[n], n + 1>> \in S \X Nat
      OBVIOUS
    <3> QED
      BY <3>1
  <2>3. g[0] = c /\ g[n] = f[n] /\ g[n + 1] = step[<<f[n], n + 1>>]
    BY <2>1, 0 # n + 1, n # n + 1
  <2>4. \A i \in 1 .. n : g[i] = f[i] /\ g[i - 1] = f[i - 1]
    OBVIOUS
  <2>5. Is(g, n + 1)
    <3> SUFFICES ASSUME NEW i \in 1 .. n + 1 PROVE g[i] = step[<<g[i - 1], i>>]
      BY <2>3
    <3> HIDE DEF g
    <3>1. CASE i = n + 1
      BY <2>3, <3>1, (n + 1) - 1 = n
    <3>2. CASE i \in 1 .. n
      BY <2>1, <2>4, <3>2
    <3> QED
      BY <3>1, <3>2
  <2> QED
    BY <2>2, <2>5, n + 1 \in Nat
<1> HIDE DEF T
<1>3. k \in T
  BY <1>1, <1>2, NatSet
<1> QED
  BY <1>3 DEF T, Runs

(* Taking a character out of a text takes nothing else in.                 *)
LEMMA WithoutType ==
  ASSUME NEW C, NEW text \in Seq(C), NEW ch
  PROVE  Without(text, ch) \in Seq(C \ {ch})
<1> DEFINE n == Len(text)
           Next(rest, i) == IF text[i] = ch THEN rest ELSE Append(rest, text[i])
           Is(f) == f = [i \in 0 .. n |-> IF i = 0 THEN <<>> ELSE Next(f[i - 1], i)]
           kept == CHOOSE f : Is(f)
           S == Seq(C \ {ch})
           step == [p \in S \X Nat |-> IF p[2] \in 1 .. n THEN Next(p[1], p[2]) ELSE p[1]]
<1>1. n \in Nat /\ <<>> \in S /\ \A i \in 1 .. n : text[i] \in C
  OBVIOUS
<1>2. \A rest \in S, i \in 1 .. n : Next(rest, i) \in S
  BY <1>1
<1>3. step \in [S \X Nat -> S]
  BY <1>2
<1>4. \E f : Is(f)
  <2> HIDE DEF n, S
  <2>1. PICK f \in [0 .. n -> S] : f[0] = <<>> /\ \A i \in 1 .. n : f[i] = step[<<f[i - 1], i>>]
    <3> HIDE DEF step
    <3>1. Runs(S, <<>>, step, n) # {}
      BY <1>1, <1>3, Recursion
    <3> QED
      BY <3>1 DEF Runs
  <2>2. ASSUME NEW i \in 1 .. n PROVE step[<<f[i - 1], i>>] = Next(f[i - 1], i)
    <3>1. <<f[i - 1], i>> \in S \X Nat
      BY <1>1
    <3> HIDE DEF Next
    <3> QED
      BY <3>1
  <2>3. Is(f)
    <3> HIDE DEF step, Next
    <3>1. ASSUME NEW i \in 0 .. n PROVE f[i] = IF i = 0 THEN <<>> ELSE Next(f[i - 1], i)
      <4>1. CASE i = 0
        BY <2>1, <4>1
      <4>2. CASE i \in 1 .. n
        <5>1. f[i] = step[<<f[i - 1], i>>] /\ i # 0
          BY <2>1, <4>2, <1>1
        <5> QED
          BY <2>2, <4>2, <5>1, Zenon
      <4> QED
        BY <1>1, <4>1, <4>2
    <3>2. f = [i \in 0 .. n |-> f[i]]
      OBVIOUS
    <3>3. [i \in 0 .. n |-> f[i]] = [i \in 0 .. n |-> IF i = 0 THEN <<>> ELSE Next(f[i - 1], i)]
      BY <3>1, Zenon
    <3> QED
      BY <3>2, <3>3, Zenon
  <2> QED
    BY <2>3
<1>5. Is(kept)
  <2> HIDE DEF Is
  <2> QED
    BY <1>4
<1>6. Without(text, ch) = kept[n]
  BY DEF Without
<1> DEFINE T == {i \in Nat : i <= n => kept[i] \in S}
<1>7. Nat \subseteq T
  <2> HIDE DEF kept, n, S
  <2>1. kept[0] = <<>> /\ \A i \in 1 .. n : kept[i] = Next(kept[i - 1], i)
    <3> HIDE DEF Next
    <3> QED
      BY <1>1, <1>5
  <2> HIDE DEF Next
  <2>2. 0 \in T
    BY <1>1, <2>1
  <2>3. ASSUME NEW i \in Nat, i \in T PROVE i + 1 \in T
    BY <1>1, <1>2, <2>1, <2>3, (i + 1) - 1 = i
  <2> HIDE DEF T
  <2> QED
    BY <2>2, <2>3, NatSet
<1> QED
  BY <1>1, <1>6, <1>7

-----------------------------------------------------------------------------
(* Policies: what ValidateAndUpdate has asked of the certificates is there *)
(* when the policy is made, long after.                                    *)
PolicyInv ==
  /\ phase \in Validated => ~CertificatesIncomplete(file.aerospike)
  /\ PolicyComplete

LEMMA OneLineRead ==
  ASSUME NEW c, InOneLine(c), readFromFile(c.ref) # Error
  PROVE  readFromFile(c.ref) \in Seq(STRING \ {"\n", "\r"})
<1> DEFINE text == Lookup(c.ref)
           line == IF text # <<>> /\ Last(text) = "\n" THEN Front(text) ELSE text
<1>1. text # Error /\ readFromFile(c.ref) = Without(line, "\r")
  BY DEF readFromFile
<1>2. text \in Seq(STRING)
  BY <1>1, CredentialsAssumption DEF Lookup
<1>3. \A i \in 1 .. Len(text) - 1 : text[i] # "\n"
  BY DEF InOneLine
<1> HIDE DEF text
<1>4. line \in Seq(STRING \ {"\n"})
  <2>1. CASE text = <<>>
    BY <2>1
  <2>2. CASE text # <<>> /\ Last(text) = "\n"
    <3>1. Len(text) \in Nat \ {0} /\ \A i \in 1 .. Len(text) : text[i] \in STRING
      BY <1>2, <2>2
    <3>2. Front(text) = [i \in 1 .. Len(text) - 1 |-> text[i]]
      BY <1>2, <3>1 DEF Front
    <3>3. [i \in 1 .. Len(text) - 1 |-> text[i]] \in Seq(STRING \ {"\n"})
      BY <1>3, <3>1
    <3> QED
      BY <2>2, <3>2, <3>3
  <2>3. CASE text # <<>> /\ Last(text) # "\n"
    <3>1. Len(text) \in Nat \ {0} /\ \A i \in 1 .. Len(text) : text[i] \in STRING
      BY <1>2, <2>3
    <3>2. text[Len(text)] # "\n"
      BY <2>3 DEF Last
    <3>3. \A i \in 1 .. Len(text) : text[i] \in STRING \ {"\n"}
      BY <1>3, <3>1, <3>2
    <3> QED
      BY <1>2, <2>3, <3>3
  <2> QED
    BY <2>1, <2>2, <2>3
<1> HIDE DEF line
<1>5. Without(line, "\r") \in Seq((STRING \ {"\n"}) \ {"\r"})
  BY <1>4, WithoutType
<1>6. (STRING \ {"\n"}) \ {"\r"} = STRING \ {"\n", "\r"}
  OBVIOUS
<1> QED
  BY <1>1, <1>5, <1>6

(* The key and the certificate that a connection is made with are a pair,  *)
(* and come with a pool.                                                   *)
LEMMA TlsComplete ==
  ASSUME NEW s, ~CertificatesIncomplete(s), AerospikeTls(s) # Error
  PROVE  /\ Given(s.cert) => AerospikeTls(s) # Nil /\ AerospikeTls(s).pair \in Pairs
         /\ AerospikeTls(s) # Nil =>
              /\ AerospikeTls(s).pair \in Pairs \cup {Nil}
              /\ AerospikeTls(s).pair # Nil => Given(s.ca)
<1> DEFINE pool == LoadCACert(s.ca)
           pair == IF Given(s.cert) \/ Given(s.key) THEN LoadServerCertAndKey(s) ELSE Nil
           none == ~Given(s.ca) /\ ~Given(s.cert) /\ ~Given(s.key)
<1>1. (Given(s.cert) <=> Given(s.key)) /\ (Given(s.cert) => Given(s.ca))
  BY DEF CertificatesIncomplete, Given
<1>2. AerospikeTls(s) = IF none THEN Nil
                        ELSE IF pool = Error \/ pair = Error THEN Error
                        ELSE [pool |-> pool, pair |-> pair]
  BY DEF AerospikeTls
<1>3. pool # Error => pool \in SUBSET CAs
  BY DEF LoadCACert
<1>4. pair # Error => IF Given(s.cert) THEN pair \in Pairs ELSE pair = Nil
  BY <1>1 DEF LoadServerCertAndKey
<1> HIDE DEF pool, pair
<1>5. CASE none
  BY <1>2, <1>5
<1>6. CASE ~none
  <2>1. AerospikeTls(s) = [pool |-> pool, pair |-> pair] /\ pool # Error /\ pair # Error
    BY <1>2, <1>6
  <2>2. [pool |-> pool, pair |-> pair] \in [pool : SUBSET CAs, pair : Pairs \cup {Nil}]
    BY <1>3, <1>4, <2>1
  <2>3. AerospikeTls(s) # Nil
    BY <2>1, <2>2, CredentialsAssumption
  <2>4. AerospikeTls(s).pair = pair
    BY <2>1
  <2> QED
    BY <1>1, <1>4, <2>1, <2>3, <2>4
<1> QED
  BY <1>5, <1>6

LEMMA PolicyMade ==
  ASSUME PolicyInv, createClientPolicy PROVE PolicyInv'
<1> DEFINE s == file.aerospike
<1>1. phase \in Validated /\ file' = file /\ ~CertificatesIncomplete(s)
  BY DEF PolicyInv, createClientPolicy, Validated
<1>2. CASE Dies
  BY <1>1, <1>2 DEF Dies, PolicyInv, PolicyComplete, Validated
<1>3. CASE ~Dies
  <2>1. /\ Error \notin {GetSecret(s.user), GetSecret(s.password)}
        /\ AuthModeAccepted(cfg.auth, s) /\ AerospikeTls(s) # Error
        /\ policy' = [user |-> GetSecret(s.user), password |-> GetSecret(s.password),
                      mode |-> cfg.auth, tls |-> AerospikeTls(s)]
        /\ UNCHANGED phase
    BY <1>3 DEF createClientPolicy
  <2>2. /\ policy'.user = GetSecret(s.user) /\ policy'.password = GetSecret(s.password)
        /\ policy'.mode = cfg.auth /\ policy'.tls = AerospikeTls(s)
    BY <2>1
  <2>3. policy'.mode = "pki" => Given(s.cert)
    BY <2>1, <2>2 DEF AuthModeAccepted
  <2>4. /\ Given(s.cert) => policy'.tls # Nil /\ policy'.tls.pair \in Pairs
        /\ policy'.tls # Nil =>
             /\ policy'.tls.pair \in Pairs \cup {Nil}
             /\ policy'.tls.pair # Nil => Given(s.ca)
    BY <1>1, <2>1, <2>2, TlsComplete
  <2>5. ASSUME NEW c, InOneLine(c), GetSecret(c) # Error PROVE LineEndFree(GetSecret(c))
    <3>1. GetSecret(c) = readFromFile(c.ref)
      BY <2>5 DEF InOneLine, GetSecret
    <3>2. GetSecret(c) \in Seq(STRING \ {"\n", "\r"})
      BY <2>5, <3>1, OneLineRead
    <3> QED
      BY <3>2 DEF LineEndFree
  <2>6. /\ InOneLine(s.user) => LineEndFree(policy'.user)
        /\ InOneLine(s.password) => LineEndFree(policy'.password)
    BY <2>1, <2>2, <2>5
  <2>7. PolicyComplete'
    BY <1>1, <2>1, <2>2, <2>3, <2>4, <2>6 DEF PolicyComplete
  <2> QED
    BY <1>1, <2>7 DEF PolicyInv
<1> QED
  BY <1>2, <1>3

LEMMA PolicyKept ==
  ASSUME PolicyInv, UNCHANGED <<file, policy>>,
         phase' \in Validated => phase \in Validated \/ ~CertificatesIncomplete(file.aerospike)
  PROVE  PolicyInv'
BY DEF PolicyInv, PolicyComplete

LEMMA PolicyStep ==
  ASSUME PolicyInv, [CredentialsNext]_vars PROVE PolicyInv'
<1> USE DEF Validated
<1>1. CASE UNCHANGED vars
  BY <1>1, PolicyKept DEF vars, configVars
<1>2. CASE BasicAuth \/ ServeTls
  BY <1>2, PolicyKept DEF BasicAuth, ServeTls, Dies
<1>3. CASE createClientPolicy
  BY <1>3, PolicyMade
<1>4. CASE Config
  <2> USE <1>4 DEF Config
  <2>1. CASE Decode \/ initAllowlistAndBlocklistConfigs \/ setLogFile
    <3>1. UNCHANGED <<file, policy>> /\ phase' \notin Validated
      BY <2>1 DEF Decode, initAllowlistAndBlocklistConfigs, setLogFile, Fatal
    <3> QED
      BY <3>1, PolicyKept
  <2>2. CASE ValidateAndUpdate
    <3>1. UNCHANGED <<file, policy>>
      BY <2>2 DEF ValidateAndUpdate
    <3>2. phase' # "fatal" => ~CertificatesIncomplete(file.aerospike)
      BY <2>2 DEF ValidateAndUpdate, Fatal
    <3> QED
      BY <3>1, <3>2, PolicyKept
  <2>3. ASSUME NEW answer, callUrl(answer) PROVE PolicyInv'
    BY <2>3, PolicyKept DEF callUrl
  <2>4. CASE FetchCloudInfo \/ InitGaugeStats
    <3>1. UNCHANGED <<file, policy>> /\ phase \in Validated
      BY <2>4 DEF FetchCloudInfo, InitGaugeStats
    <3> QED
      BY <3>1, PolicyKept
  <2>5. ASSUME NEW pod, FetchKubernetesInfo(pod) PROVE PolicyInv'
    BY <2>5, PolicyKept DEF FetchKubernetesInfo
  <2> QED
    BY <2>1, <2>2, <2>3, <2>4, <2>5 DEF ConfigNext
<1> QED
  BY <1>1, <1>2, <1>3, <1>4 DEF CredentialsNext

(* A policy that a connection is made with is whole: no part of it is an   *)
(* error, pki has a pair to log in with, a certificate of the client comes *)
(* with an authority, and neither the user nor the password of a file of   *)
(* one line has a line end in it, whatever the files, variables and        *)
(* certificates contain (createClientPolicy, initAerospikeTLS,             *)
(* readFromFile).                                                          *)
THEOREM PolicyCompleteHolds == CredentialsSpec => []PolicyComplete
<1>1. CredentialsInit => PolicyInv
  BY DEF CredentialsInit, ConfigInit, PolicyInv, PolicyComplete, Validated
<1>2. PolicyInv /\ [CredentialsNext]_vars => PolicyInv'
  BY PolicyStep
<1>3. PolicyInv => PolicyComplete
  BY DEF PolicyInv
<1> QED
  BY <1>1, <1>2, <1>3, PTL DEF CredentialsSpec
=============================================================================
