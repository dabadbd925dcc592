------------------------------- MODULE CertTools -------------------------------
(***************************************************************************)
(* "wolfssl x509" (src/x509/clu_cert_setup.c), "verify" and "crl"          *)
(* (src/sign-verify/clu_x509_verify.c, clu_crl_verify.c), and "ca" without *)
(* a configuration, with the certificates of two keys it makes             *)
(* (src/x509/clu_ca_setup.c, clu_x509_sign.c); CaSign has "ca -config".    *)
(* In the line of verify, "in" is the last argument.                       *)
(***************************************************************************)
EXTENDS RequestTools

InputFileError == "INPUT_FILE_ERROR"
BadFuncArg == "BAD_FUNC_ARG"

Certs(content) ==
  {content[i].of : i \in {j \in DOMAIN content : content[j] # None /\ content[j].kind = "cert"
                                                 /\ content[j].form = "PEM"}}

(* The first certificate of a file, PEM or else DER.                       *)
CertIn(content) ==
  LET pem == FirstPem(content, "cert")
      der == OnlyDer(content, "cert")
  IN  IF pem # None THEN pem.of ELSE IF der # None THEN der.of ELSE None

-----------------------------------------------------------------------------
(* wolfssl x509.  Its scan ends at the first error.                        *)
CertScan(c, disk) ==
  IF c.in # None /\ disk[c.in] = Absent THEN InputFileError
  ELSE IF \/ c.twice # None
          \/ c.key # None /\ disk[c.key] = Absent
          \/ FormOf(c.inform, "PEM") = InputError \/ OutForm(c) = InputError
       THEN FatalError
  ELSE Success

(* In DER a request is read as if it were a certificate.                   *)
CertInput(c, disk) ==
  LET content == IF c.in = None THEN c.stdin ELSE disk[c.in]
      form    == FormOf(c.inform, "PEM")
  IN  CASE form = "PEM" -> FirstPem(content, IF Has(c, "-req") THEN "request" ELSE "cert")
        [] form = "DER" -> OnlyDer(content, "cert")
        [] OTHER        -> None

CertExtensions(c, disk, x) ==
  LET conf == ConfigOf(disk[c.config])
  IN  IF c.config = None THEN Loaded(Success, x)
      ELSE IF c.ext \notin DOMAIN conf.sections THEN Loaded(FatalError, x)
      ELSE SetExtensions(x, conf, c.ext)

BadCertSign(x, key) == \* the key is not compared with the one of the request
  IF Supported(key) THEN Loaded(Success, Sign([x EXCEPT !.issuer = IF @ = None THEN x.subject ELSE @], key))
  ELSE Loaded(FatalError, x)

(* A request becomes a certificate only under the key it asks for.         *)
CertSelfSign(x, key) ==
  IF key = x.key /\ Supported(key)
  THEN Loaded(Success, Sign([x EXCEPT !.issuer = IF @ = None THEN x.subject ELSE @], key))
  ELSE Loaded(FatalError, x)

CertLoad(c, disk) ==
  LET b      == CertInput(c, disk)
      key    == ReadPrivate(disk[c.key], "PEM", None)
      exts   == CertExtensions(c, disk, b.of)
      x      == Altered(b.of, exts.what)
      signed == IF Has(c, "-req") THEN CertSelfSign(x, key) ELSE Loaded(Success, x)
  IN  IF b = None THEN Loaded(FatalError, None)
      ELSE IF c.key # None /\ key = None THEN Loaded(InputError, None)
      ELSE IF exts.ret # Success THEN Loaded(exts.ret, None)
      ELSE IF c.key = None /\ Has(c, "-req") THEN Loaded(FatalError, None)
      ELSE IF signed.ret # Success THEN Loaded(signed.ret, None)
      ELSE Loaded(Success, [read |-> b.of, x |-> signed.what])

(* The parts that are asked for are those of the certificate in memory.    *)
(* Such a text may be empty: that of -email, of a name without an address. *)
CertPrints == <<"-subject", "-issuer", "-serial", "-dates", "-email", "-fingerprint", "-purpose",
                "-hash", "-text">>
CertText(c, x) ==
  [i \in 1 .. Cardinality({j \in DOMAIN CertPrints : Has(c, CertPrints[j])})
     |-> Block("text", x, "text")]

(* A key that is not of RSA has no modulus, and that is no error.          *)
CertKeyParts(c, x) ==
  LET modulus == IF x.key.alg = "rsa" THEN "modulus" ELSE "wrong algorithm"
  IN  (IF Has(c, "-modulus") THEN <<Block(modulus, x.key, "text")>> ELSE << >>)
      \o (IF Has(c, "-pubkey") THEN <<Block("public", x.key, "PEM")>> ELSE << >>)

(* What is written is the certificate as it was read; only a request that  *)
(* came in PEM is written as what was made of it.                          *)
CertMake(c, got) ==
  LET made == Has(c, "-req") /\ FormOf(c.inform, "PEM") = "PEM"
      body == IF Has(c, "-noout") THEN << >>
              ELSE <<Block("cert", IF made THEN got.x ELSE got.read, OutForm(c))>>
  IN  Made(Success, CertText(c, got.x) \o CertKeyParts(c, got.x) \o body)

-----------------------------------------------------------------------------
(* wolfssl verify goes on after an error in its options.                   *)
VerifyScan(c, disk) ==
  IF \/ c.twice # None
     \/ c.in = None  \* the last argument belongs to an option
     \/ c.in = c.cafile /\ ~Has(c, "-partial_chain")
  THEN FatalError ELSE Success

SelfIssued(x) == x.issuer = x.subject
IssuedBy(x, y) == x.issuer = y.subject /\ x.by = y.key /\ x.by # None /\ y.ca = "yes"

VerifyLoad(c, disk) ==
  LET cert  == CertIn(disk[c.in])
      inter == IF c.untrusted = None THEN None ELSE CertIn(disk[c.untrusted])
      first == IF c.cafile = None THEN None ELSE FirstPem(disk[c.cafile], "cert")
      roots == IF c.cafile = None THEN {} ELSE Certs(disk[c.cafile])
  IN  IF \/ cert = None
         \/ c.untrusted # None /\ inter = None
         \/ c.cafile # None /\ first = None
         \/ c.cafile # None /\ ~Has(c, "-partial_chain") /\ ~SelfIssued(first.of)
      THEN Loaded(FatalError, None)
      ELSE Loaded(Success, [x |-> cert, others |-> {inter} \ {None}, roots |-> roots])

(* X509_verify_cert (the library): a chain to a root, or with              *)
(* -partial_chain to any certificate of the file.                          *)
ChainHolds(c, got) ==
  LET trusted == IF Has(c, "-partial_chain") THEN got.roots ELSE {r \in got.roots : SelfIssued(r)}
  IN  \/ got.x \in trusted
      \/ \E r \in trusted : IssuedBy(got.x, r)
      \/ \E i \in got.others, r \in trusted : IssuedBy(got.x, i) /\ IssuedBy(i, r)

VerifyMake(c, got) ==
  IF ChainHolds(c, got) THEN Made(Success, <<Block("verified", got.x, "text")>>) ELSE Refused

-----------------------------------------------------------------------------
(* wolfssl crl, too, goes on after an error in its options.                *)
CrlScan(c, disk) ==
  IF c.twice # None \/ (c.in # None /\ disk[c.in] = Absent) THEN FatalError ELSE Success

CrlLoad(c, disk) ==
  LET b == IF c.in = None THEN None ELSE Found(disk[c.in], "crl", InForm(c))
  IN  IF b = None THEN Loaded(FatalError, None)
      ELSE Loaded(Success, [x |-> b.of,
             roots |-> IF c.cafile = None THEN {} ELSE Certs(disk[c.cafile])])

(* The list is in the stream before it is verified.                        *)
CrlMake(c, got) ==
  LET form == IF OutForm(c) = "DER" THEN "DER" ELSE "PEM"
      text == IF Has(c, "-text") THEN <<Block("text", got.x, "text")>> ELSE << >>
      body == IF Has(c, "-noout") THEN << >> ELSE <<Block("crl", got.x, form)>>
      holds == \E r \in got.roots : got.x.issuer = r.subject /\ got.x.by = r.key
  IN  Made(IF c.cafile = None \/ holds THEN Success ELSE FatalError, text \o body)

-----------------------------------------------------------------------------
(* wolfssl ca goes on after an error in its options.                       *)
CaScan(c, disk) ==
  IF \/ c.twice # None
     \/ \E f \in {c.in, c.key, c.subjkey, c.altkey, c.altpub} \ {None} : disk[f] = Absent
     \/ c.cert # None /\ CertIn(disk[c.cert]) = None
     \/ c.in = None /\ ~Has(c, "-altextend")
  THEN FatalError ELSE Success

CaLoad(c, disk) ==
  LET alt  == Has(c, "-altextend")
      key  == IF c.key = None \/ alt THEN None ELSE ReadPrivate(disk[c.key], "PEM", None)
      b    == IF c.in = None THEN None
              ELSE IF alt THEN FirstPem(disk[c.in], "cert")
              ELSE Found(disk[c.in], "request", InForm(c))
      file(f) == IF f = None THEN << >> ELSE disk[f]
  IN  IF c.key # None /\ ~alt /\ key = None THEN Loaded(InputError, None)
      ELSE IF b = None THEN Loaded(FatalError, None)
      ELSE Loaded(Success,
             [x |-> b.of, key |-> key, ca |-> IF c.cert = None THEN None ELSE CertIn(disk[c.cert]),
              caKey |-> file(c.key), subjKey |-> file(c.subjkey), altKey |-> file(c.altkey),
              altPub |-> file(c.altpub)])

\* SetCA is called only for a key or a certificate, the second key of
\* -altextend among them: what is issued is then its own issuer, although
\* without -key nobody signs it.
Signer(c, got) ==
  IF Has(c, "-selfsign") /\ {got.key, got.ca, c.altkey, c.altpub} # {None}
  THEN got.x ELSE got.ca

(* wolfCLU_CertSign: a key that is neither of RSA nor of a curve, or no    *)
(* key, makes no signature, and that is no error.  Without a configuration *)
(* the section of -extensions is in no file, and nothing is set.           *)
CertSign(c, got) ==
  LET ca   == Signer(c, got)
      cert == [got.x EXCEPT !.issuer = ca.subject]
      signs == Supported(got.key)
  IN  IF ca = None \/ c.out = None \/ (signs /\ got.key # ca.key) THEN Refused
      ELSE Made(Success, <<Block("cert", Sign(cert, IF signs THEN got.key ELSE None), "PEM")>>)

-----------------------------------------------------------------------------
(* wolfCLU_GenChimeraCertSign: a certificate with a second signature, by   *)
(* an ML-DSA key, over what the first is over.                             *)

ChimeraKey(content, alg) ==
  LET key == ReadPrivate(content, "PEM", None)
  IN  IF key # None /\ key.alg = alg THEN key ELSE None

(* A root when there is neither the key of a subject nor a CA.             *)
ChimeraArgs(c) ==
  /\ None \notin {c.key, c.altkey, c.altpub, c.out}
  /\ (c.subjkey = None) = (c.cert = None)
IsRoot(c) == c.subjkey = None /\ c.cert = None

(* Neither the first key is compared with the CA's nor the second key with *)
(* the public one that goes into the certificate.                          *)
ChimeraCert(c, got, key, subjKey) ==
  [Blank EXCEPT !.subject = got.x.subject,
                !.issuer = IF IsRoot(c) THEN got.x.subject ELSE got.ca.subject,
                !.key = IF IsRoot(c) THEN key ELSE subjKey,
                !.ca = IF IsRoot(c) THEN "yes" ELSE "unset",
                !.by = key,
                !.second = [key |-> ReadPublic(got.altPub, "PEM"), by |-> ChimeraKey(got.altKey, "mldsa")]]

(* A form that is none makes a file of zeros.                              *)
ChimeraForm(c, cert) ==
  IF OutForm(c) \in {"PEM", "DER"} THEN Block("cert", cert, OutForm(c)) ELSE Block("zeros", None, "none")

ChimeraSign(c, got) ==
  LET key     == ChimeraKey(got.caKey, "ec")
      subjKey == ChimeraKey(got.subjKey, "ec")
      found   == /\ key # None /\ (IsRoot(c) \/ subjKey # None)
                 /\ ReadPublic(got.altPub, "PEM") # None /\ ChimeraKey(got.altKey, "mldsa") # None
  IN  IF ~ChimeraArgs(c) THEN Made(BadFuncArg, << >>)
      ELSE IF ~found THEN Refused
      ELSE Made(Success, <<ChimeraForm(c, ChimeraCert(c, got, key, subjKey))>>)

(* With -altextend, only -altkey, -altpub or -cert make it do anything, and*)
(* not beside -selfsign.                                                   *)
CaMake(c, got) ==
  LET alt == Has(c, "-altextend")
  IN  IF ~alt THEN CertSign(c, got)
      ELSE IF Has(c, "-selfsign") \/ (got.ca = None /\ c.altkey = None /\ c.altpub = None)
           THEN Made(Success, << >>)
      ELSE ChimeraSign(c, got)
=============================================================================
