------------------------------- MODULE Config -------------------------------
(***************************************************************************)
(* The identity of a node from its configuration: src/src/config/config.go *)
(* and the flags of src/cmd/uqda/main.go that read or write one.           *)
(*                                                                         *)
(* A private key is its bytes: a seed and the public key stored after it,  *)
(* or bytes of a wrong length.  The public key of a seed has the seed's    *)
(* name.  A document is what a configuration file says of the key; every   *)
(* other option is copied by the parser and left out, but for AdminListen. *)
(***************************************************************************)
EXTENDS Integers, Sequences

CONSTANTS Seeds, Absent

KeyOf(seed) == [seed |-> seed, pub |-> seed]
WrongLength == [seed |-> Absent, pub |-> Absent]
NotHex == [seed |-> Absent, pub |-> "nothex"]
KeyBytes == [seed: Seeds, pub: Seeds] \cup {WrongLength}

ASSUME AbsentAssumption == Absent \notin Seeds \cup KeyBytes \cup {NotHex}

\* What a configuration file holds: PrivateKey (possibly missing, or not hex),
\* PrivateKeyPath or not, AdminListen or not.
Documents == [key: KeyBytes \cup {Absent, NotHex}, path: BOOLEAN, admin: BOOLEAN]

\* What ReadFile and UnmarshalPEMPrivateKey make of the file at PrivateKeyPath: the
\* key of a seed, as PKCS8 stores the seed alone, or an error.
KeyFiles == Seeds \cup {Absent}

Error == [ok |-> FALSE]
Loaded(key, cert, path, admin) ==
    [ok |-> TRUE, key |-> key, cert |-> cert, path |-> path, admin |-> admin]

\* MarshalPEMPrivateKey, MarshalPEMCertificate and X509KeyPair: bytes of a wrong
\* length panic, a public key that is not the seed's fails the check of the
\* signature; the certificate's key is made of the seed.
GenerateSelfSignedCertificate(cfg) ==
    IF cfg.key = WrongLength \/ cfg.key.seed # cfg.key.pub THEN Error
    ELSE [cfg EXCEPT !.cert = KeyOf(cfg.key.seed)]

\* The first half of postprocessConfig.
ReadPrivateKeyPath(cfg, keyFile) ==
    IF ~cfg.path THEN cfg
    ELSE IF keyFile = Absent THEN Error
    ELSE [cfg EXCEPT !.key = KeyOf(keyFile)]

\* Mutant: a certificate that exists is kept.
postprocessConfig_KeepsCertificate(cfg, keyFile) ==
    LET read == ReadPrivateKeyPath(cfg, keyFile)
    IN  IF ~read.ok THEN Error
        ELSE IF read.cert = Absent THEN GenerateSelfSignedCertificate(read)
        ELSE read

\* The certificate is made again when it is not the private key's.
postprocessConfig(cfg, keyFile) ==
    LET read == ReadPrivateKeyPath(cfg, keyFile)
    IN  IF ~read.ok THEN Error
        ELSE IF read.cert = Absent \/ read.cert # read.key
               THEN GenerateSelfSignedCertificate(read)
        ELSE read

\* GenerateConfig with the seed that the random source gives.
GenerateConfig(random) ==
    postprocessConfig(Loaded(KeyOf(random), Absent, FALSE, TRUE), Absent)

\* UnmarshalHJSON: what the document has replaces what is there.
Overlay(cfg, doc) ==
    IF doc.key = NotHex THEN Error
    ELSE [cfg EXCEPT !.key = IF doc.key = Absent THEN @ ELSE doc.key,
                     !.path = doc.path,
                     !.admin = doc.admin \/ @]

\* ReadFrom: defaults, with a random key and its certificate, then the document.
ReadFrom(doc, keyFile, random) ==
    LET cfg == Overlay(GenerateConfig(random), doc)
    IN  IF cfg.ok THEN postprocessConfig(cfg, keyFile) ELSE Error

\* What main() takes for the node's public key before it starts one: the second
\* half of the bytes.  -address, -subnet and -publickey print what follows from it.
PrintedKey(cfg) == cfg.key.pub

\* The key core.New starts the node with.
StartedKey(cfg) == cfg.cert.pub

\* -normaliseconf: the key goes if there is a path to it; AdminListen is omitted.
normaliseconf(cfg) ==
    [key |-> IF cfg.path THEN Absent ELSE cfg.key, path |-> cfg.path, admin |-> FALSE]

\* -genconf.
genconf(random) == [key |-> GenerateConfig(random).key, path |-> FALSE, admin |-> FALSE]

\* -exportkey: the PEM file, which holds the seed.
exportkey(cfg) == cfg.key.seed

----------------------------------------------------------------------------
(* Properties, of a document, a key file and two draws of the random source: *)
(* the one of the command and the one of the next start.                     *)

\* A node starts with the identity that the command line reports for the same
\* configuration, whichever key the defaults were generated with; and a key that
\* is no key never gets as far as a start.
ReportsIdentity(doc, keyFile, r1) ==
    LET cfg == ReadFrom(doc, keyFile, r1)
    IN  cfg.ok => /\ StartedKey(cfg) = PrintedKey(cfg)
                  /\ doc.path => StartedKey(cfg) = keyFile
                  /\ (~doc.path /\ doc.key # Absent) => KeyOf(StartedKey(cfg)) = doc.key

\* Rewriting a configuration keeps the identity: the output of -normaliseconf or
\* of -genconf read by a later start, and the key of -exportkey referred to by
\* PrivateKeyPath, give the node that the first command would have started.
KeepsIdentity(doc, keyFile, r1, r2) ==
    LET cfg == ReadFrom(doc, keyFile, r1)
        pathDoc == [key |-> Absent, path |-> TRUE, admin |-> FALSE]
    IN  /\ StartedKey(ReadFrom(genconf(r1), keyFile, r2)) = r1
        /\ cfg.ok =>
             LET again == ReadFrom(normaliseconf(cfg), keyFile, r2)
                 fromKey == ReadFrom(pathDoc, exportkey(cfg), r2)
             IN  /\ again.ok /\ StartedKey(again) = StartedKey(cfg)
                 /\ fromKey.ok /\ StartedKey(fromKey) = StartedKey(cfg)
=============================================================================
