---------------------------- MODULE Configuration ----------------------------
(***************************************************************************)
(* What DrKate makes of its configuration (internal/config/config.go): the *)
(* encryption key, and the namespaces it scrapes                           *)
(* (internal/k8s/namespaces.go).  Of a text only what the code looks at is *)
(* kept: the secret it spells, how it is spelled, and its length.          *)
(***************************************************************************)
EXTENDS Naturals, Sequences

CONSTANTS NoText, NoKey

IsHex(text) == text.form \in {"hex", "HEX"}

LooksLikeSecretValue(text) == text # NoText /\ text.length >= 16 /\ IsHex(text)

\* Load: a secret written where the name of an environment variable belongs is
\* moved to where it belongs.  `s` is [inline, env].
Migrated(s) == IF s.inline = NoText /\ LooksLikeSecretValue(s.env)
                 THEN [inline |-> s.env, env |-> NoText] ELSE s

Getenv(environ, name) == IF name \in DOMAIN environ THEN environ[name] ELSE NoText

SecretValue(s, environ) == IF s.inline # NoText \/ s.env = NoText THEN s.inline
                           ELSE Getenv(environ, s.env)

\* Mutation: the digits are taken as they are written.
DecodeHexMutant(text) == <<text.secret, text.form>>
\* The bytes that hexadecimal digits stand for do not depend on their case.
DecodeHex(text) == <<text.secret>>

ParseSecretBytes(text) ==
  IF text.length = 64 /\ IsHex(text) THEN [bytes |-> DecodeHex(text), length |-> 32]
                                     ELSE [bytes |-> <<text.secret, text.form>>, length |-> text.length]

Hashed(key) == [bytes |-> <<"sha256">> \o key.bytes, length |-> 32]

\* NoKey where main stops with an error.
EncryptionKey(s, environ) ==
  LET text == SecretValue(Migrated(s), environ)
  IN IF text = NoText \/ text.length < 32 THEN NoKey
     ELSE IF ParseSecretBytes(text).length # 32 THEN Hashed(ParseSecretBytes(text))
     ELSE ParseSecretBytes(text)

------------------------------------------------------------------------------
\* Namespaces: `n` is [include, exclude, all, defaultExclude], and the last is
\* "true", "false" or "unset".

ValidNamespaces(n) == /\ n.include = {} \/ ~n.all
                      /\ n.include # {} \/ n.exclude # {} \/ n.all

UseDefaultExclude(n) == n.include = {} /\ n.defaultExclude # "false"

defaultSystemNamespaces == {"kube-system", "kube-public", "kube-node-lease"}

\* Mutation: a namespace that is asked for is not excluded.
ExclusionsMutant(n) == IF n.include # {} THEN {} ELSE n.exclude
Exclusions(n) == n.exclude \cup IF UseDefaultExclude(n) THEN defaultSystemNamespaces ELSE {}

\* `existing` are the namespaces of the source cluster; those that are asked for
\* by name are not looked up.
ResolveNamespaces(n, existing) ==
  (IF n.include # {} THEN n.include ELSE existing) \ Exclusions(n)
=============================================================================
