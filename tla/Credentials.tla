----------------------------- MODULE Credentials -----------------------------
(***************************************************************************)
(* What the executors read, after ConfigInit, from files and environment   *)
(* variables: secrets and certificates (internal/pkg/commons/utils.go), by *)
(* the HTTP listener when it starts and by createClientPolicy of           *)
(* aero_server.go before the first connection.                             *)
(*                                                                         *)
(* A text is a sequence of characters, "\n" and "\r" among them; a         *)
(* certificate or a key is one character.                                  *)
(***************************************************************************)
EXTENDS ConfigInit, SequencesExt

CONSTANTS
  Store,      \* files and variables: [name -> text]
  Base64,     \* base64.StdEncoding.DecodeString: [text that decodes -> text]
  Pairs,      \* certificates with their keys: a set of <<text, text>>
  Encrypted,  \* encrypted keys: [text -> [passphrase : text, key : text]]
  CAs,        \* texts that hold certificates
  Error       \* an error instead of a text

ASSUME CredentialsAssumption ==
  /\ \A name \in DOMAIN Store : Store[name] \in Seq(STRING)
  /\ {Nil, Error} \cap [pool : SUBSET CAs, pair : Pairs \cup {Nil}] = {}

VARIABLES
  http,    \* the goroutine of the HTTP listener, up to ListenAndServe
  policy   \* AerospikeServer.clientPolicy

vars == <<configVars, http, policy>>

(* A configuration value "file:f" has the source "file" and the ref "f", a *)
(* value without a colon the source "" and itself as ref; text is the ref  *)
(* character by character, where it is looked at.                          *)
Given(c) == c.ref # ""

-----------------------------------------------------------------------------
(* Secrets and certificates. *)

Lookup(name) == IF name \in DOMAIN Store THEN Store[name] ELSE Error

\* GetValueFromBase64
Decode64(text) == IF text \in DOMAIN Base64 THEN Base64[text] ELSE Error

\* bytes.ReplaceAll(text, ch, "")
Without(text, ch) ==
  LET kept[i \in 0 .. Len(text)] ==
        IF i = 0 THEN <<>>
        ELSE IF text[i] = ch THEN kept[i - 1] ELSE Append(kept[i - 1], text[i])
  IN  kept[Len(text)]

\* One newline at the end is cut off, then every "\r".
readFromFile(name) ==
  LET text == Lookup(name)
      line == IF text # <<>> /\ Last(text) = "\n" THEN Front(text) ELSE text
  IN  IF text = Error THEN Error ELSE Without(line, "\r")

\* GetValueFromBase64EnvVar
DecodeVariable(name) == IF Lookup(name) = Error THEN Error ELSE Decode64(Lookup(name))

GetSecret(c) ==
  CASE c.source = ""        -> c.text
    [] c.source = "file"    -> readFromFile(c.ref)
    [] c.source = "env"     -> Lookup(c.ref)
    [] c.source = "env-b64" -> DecodeVariable(c.ref)
    [] c.source = "b64"     -> Decode64(c.text)
    [] OTHER                -> Error

\* Without a colon it is the name of a file; there is no plain variable.
getCertificate(c) ==
  CASE c.source \in {"", "file"} -> readFromFile(c.ref)
    [] c.source = "env-b64"      -> DecodeVariable(c.ref)
    [] c.source = "b64"          -> Decode64(c.text)
    [] OTHER                     -> Error

\* The system's pool, with the certificates of the text when there are any.
LoadCACert(c) ==
  IF ~Given(c) THEN {}
  ELSE IF getCertificate(c) = Error THEN Error
  ELSE {getCertificate(c)} \cap CAs

\* The key after decryption, where it is encrypted.
PrivateKey(s) ==
  LET key == getCertificate(s.key) IN
  IF key \notin DOMAIN Encrypted THEN key
  ELSE IF GetSecret(s.passphrase) = Encrypted[key].passphrase THEN Encrypted[key].key
  ELSE Error

\* tls.X509KeyPair refuses a key that is not the certificate's.
LoadServerCertAndKey(s) ==
  LET pair == <<getCertificate(s.cert), PrivateKey(s)>> IN
  IF pair \in Pairs THEN pair ELSE Error

\* initAerospikeTLS with LoadServerOrClientCertificates: pool and pair, or
\* Nil for a connection without TLS.
AerospikeTls(s) ==
  LET pool == LoadCACert(s.ca)
      pair == IF Given(s.cert) \/ Given(s.key) THEN LoadServerCertAndKey(s) ELSE Nil
  IN  IF ~Given(s.ca) /\ ~Given(s.cert) /\ ~Given(s.key) THEN Nil
      ELSE IF pool = Error \/ pair = Error THEN Error
      ELSE [pool |-> pool, pair |-> pair]

-----------------------------------------------------------------------------
CredentialsInit == ConfigInit /\ http = "off" /\ policy = Nil

Config == ConfigNext /\ UNCHANGED <<http, policy>>

Dies == phase' = "fatal" /\ UNCHANGED <<http, policy>>

\* Initialize: user name and password of the scrapes
BasicAuth ==
  /\ phase = "ready" /\ cfg.prometheus /\ http = "off"
  /\ IF Error \in {GetSecret(file.agent.user), GetSecret(file.agent.password)} THEN Dies
     ELSE http' = "starting" /\ UNCHANGED <<phase, policy>>
  /\ UNCHANGED <<file, cfg, asked, cloudInfo>>

\* HTTPS with a certificate and a key, HTTP otherwise; initExporterTLS
ServeTls ==
  LET s == file.agent IN
  /\ phase = "ready" /\ http = "starting"
  /\ IF ~Given(s.cert) \/ ~Given(s.key)
     THEN http' = "http" /\ UNCHANGED <<phase, policy>>
     ELSE IF LoadServerCertAndKey(s) = Error \/ LoadCACert(s.ca) = Error THEN Dies
     ELSE http' = "https" /\ UNCHANGED <<phase, policy>>
  /\ UNCHANGED <<file, cfg, asked, cloudInfo>>

\* Mutant: certificates are not asked of pki.
AuthModeUnchecked(mode, s) == mode \in {"internal", "", "external", "pki"}

AuthModeAccepted(mode, s) ==
  \/ mode \in {"internal", "", "external"}
  \/ mode = "pki" /\ Given(s.cert) /\ Given(s.key)

\* createClientPolicy, in the first scrape or tick: every error is fatal
createClientPolicy ==
  LET s == file.aerospike IN
  /\ phase = "ready" /\ policy = Nil
  /\ IF \/ Error \in {GetSecret(s.user), GetSecret(s.password)}
        \/ ~AuthModeAccepted(cfg.auth, s)
        \/ AerospikeTls(s) = Error
     THEN Dies
     ELSE /\ policy' = [user |-> GetSecret(s.user), password |-> GetSecret(s.password),
                        mode |-> cfg.auth, tls |-> AerospikeTls(s)]
          /\ UNCHANGED <<phase, http>>
  /\ UNCHANGED <<file, cfg, asked, cloudInfo>>

CredentialsNext == Config \/ BasicAuth \/ ServeTls \/ createClientPolicy

CredentialsSpec == CredentialsInit /\ [][CredentialsNext]_vars

-----------------------------------------------------------------------------
(* Properties. *)

\* A secret that is in a file of a single line.
InOneLine(c) ==
  /\ c.source = "file"
  /\ \A i \in 1 .. Len(Lookup(c.ref)) - 1 : Lookup(c.ref)[i] # "\n"

LineEndFree(text) == {text[i] : i \in DOMAIN text} \cap {"\n", "\r"} = {}

(* "we either have server pool only (oneway-tls) or both serverPool and    *)
(* clientPool (mTLS)" (initAerospikeTLS): a policy that is in use has no   *)
(* error in it; pki has a certificate to log in with, whose key fits,      *)
(* although the mode, the files and their contents are checked by three    *)
(* functions at three times; a client certificate is never sent without a  *)
(* configured authority to check the node against; and a user name or a    *)
(* password kept in a file of one line is what one given in any other way  *)
(* is, whichever line end an editor put there (readFromFile).              *)
PolicyComplete ==
  policy # Nil =>
    /\ Error \notin {policy.user, policy.password} /\ policy.tls # Error
    /\ policy.mode = "pki" => policy.tls # Nil /\ policy.tls.pair \in Pairs
    /\ policy.tls # Nil =>
         /\ policy.tls.pair \in Pairs \cup {Nil}
         /\ policy.tls.pair # Nil => Given(file.aerospike.ca)
    /\ InOneLine(file.aerospike.user) => LineEndFree(policy.user)
    /\ InOneLine(file.aerospike.password) => LineEndFree(policy.password)

=============================================================================
