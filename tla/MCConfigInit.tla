---------------------------- MODULE MCConfigInit ----------------------------
(* Model-checking instance of ConfigInit and Credentials.  A configuration  *)
(* file differs from Base in one group of keys that are read together.      *)
EXTENDS Credentials, TLC

Value(source, ref, text) == [source |-> source, ref |-> ref, text |-> text]
None == Value("", "", <<>>)

Section == [cert |-> None, key |-> None, ca |-> None, passphrase |-> None,
            user |-> None, password |-> None, auth |-> ""]

Lists(contexts, list) == [c \in contexts |-> list]

Base ==
  [prometheus |-> Undefined, otel |-> Undefined, number |-> [n \in Numbers |-> 0],
   endpoint |-> "", grpc |-> "", http |-> "", temporality |-> Undefined,
   separator |-> Undefined, logFile |-> "", labels |-> "id" :> "7", cloud |-> Undefined,
   allow |-> Lists(Contexts, Undefined), white |-> Lists(OldContexts, Undefined),
   block |-> Lists(Contexts, Undefined), black |-> Lists(OldContexts, Undefined),
   agent |-> Section, aerospike |-> Section]

Otel == [Base EXCEPT !.otel = TRUE, !.grpc = "collector"]

Executors ==
  {[Base EXCEPT !.prometheus = p, !.otel = o, !.endpoint = e, !.grpc = g, !.http = h] :
     p, o \in {Undefined, TRUE, FALSE}, e, g, h \in {"", "collector"}}

Otels ==
  {[Otel EXCEPT !.temporality = t, !.separator = s, !.number["push_interval"] = p] :
     t \in {Undefined, "", "Delta", "cumulative", "sum"},
     s \in {Undefined, "Underscore", "period", "dot"}, p \in {0, 1, 256}}

Times == {[Base EXCEPT !.number = [n \in Numbers |-> IF n = m THEN t ELSE 0], !.logFile = f] :
            m \in Numbers, t \in {1, 255, 256}, f \in {"", "ape.log"}}

Globs == {Undefined, {}, {"a*"}, {"b*"}}

OldLists ==
  {[Base EXCEPT !.allow["set"] = a, !.white["set"] = w,
                !.block["set"] = b, !.black["set"] = k] : a, w, b, k \in Globs}

NewLists ==
  {[Base EXCEPT !.allow[c] = a, !.block[c] = b, !.white["node"] = w] :
     c \in Contexts, a, b \in Globs, w \in {Undefined, {"c*"}}}

Clouds ==
  {[Base EXCEPT !.cloud = c, !.labels = l] :
     c \in {"aws", "azure", "gcp", "AWS", ""},
     l \in {Undefined, "id" :> "7", "zone" :> "mine"}}

MCStore ==
  ("crt"  :> <<"C">>) @@ ("key"  :> <<"K">>) @@ ("ekey" :> <<"E">>) @@
  ("ca"   :> <<"A", "\n">>) @@ ("pw"   :> <<"p", "\r", "\n">>) @@
  ("PW"   :> <<"p">>) @@ ("PW64" :> <<"q">>) @@ ("BAD"  :> <<"!">>)

MCBase64 == <<"q">> :> <<"p">>
MCPairs  == {<<<<"C">>, <<"K">>>>}
MCEncrypted == <<"E">> :> [passphrase |-> <<"p">>, key |-> <<"K">>]
MCCAs == {<<"A">>}

Secrets ==
  {None, Value("", "p", <<"p">>), Value("file", "pw", <<>>), Value("file", "no", <<>>),
   Value("env", "PW", <<>>), Value("env", "no", <<>>), Value("env-b64", "PW64", <<>>),
   Value("env-b64", "BAD", <<>>), Value("b64", "q", <<"q">>), Value("vault", "pw", <<>>)}

File(name) == Value("file", name, <<>>)

Sections ==
  {[Section EXCEPT !.user = u, !.password = p] : u \in Secrets, p \in {None, Value("env", "no", <<>>), Value("file", "pw", <<>>)}}
  \cup
  {[Section EXCEPT !.cert = c, !.key = k, !.ca = a, !.auth = m, !.passphrase = p] :
     c \in {None, Value("", "crt", <<>>), File("no")}, k \in {None, File("key"), File("ekey"), File("pw")},
     a \in {None, File("ca"), File("pw"), File("no")}, m \in {"", "PKI", "external", "none"},
     p \in {None, Value("env", "PW", <<>>)}}

MCFiles ==
  Executors \cup Otels \cup Times \cup OldLists \cup NewLists \cup Clouds
    \cup {[Base EXCEPT !.aerospike = s] : s \in Sections}
    \cup {[Base EXCEPT !.agent = s] : s \in {t \in Sections : t.auth = ""}}

Words == {"", "delta", "cumulative", "sum", "period", "underscore", "dot",
          "internal", "pki", "external", "none"}

MCLower ==
  [w \in Words |-> w] @@ ("Delta" :> "delta") @@ ("Underscore" :> "underscore") @@ ("PKI" :> "pki")
=============================================================================
