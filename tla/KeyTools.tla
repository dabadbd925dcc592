------------------------------ MODULE KeyTools ------------------------------
(***************************************************************************)
(* "wolfssl pkey", "rsa", "pkcs8", "pkcs12" and "pkcs7": a key, or what a  *)
(* bundle holds, is read from one file and written to another in a         *)
(* different form (src/pkey/clu_pkey.c, clu_rsa.c, src/pkcs/).             *)
(* For each, what its scan of the options returns, what it reads, and what *)
(* it makes of it; FileTools has the steps.  Their scan opens the input,   *)
(* and then the output, which empties it.                                  *)
(***************************************************************************)
EXTENDS ToolFiles

Supported(key) == key # None /\ key.alg \in {"rsa", "ec"}

(* wolfCLU_pKeytoPubKey and wolfCLU_pKeyPEMtoPubKey, wolfCLU_pKeytoPriKey  *)
(* and wolfCLU_pKeyPEMtoPriKey: a key of another kind is refused.          *)
PublicBlock(key, form) ==
  IF Supported(key) THEN Made(Success, <<Block("public", key, form)>>) ELSE Refused
PrivateBlock(key, form) ==
  IF Supported(key) THEN Made(Success, <<Block("private", key, form)>>) ELSE Refused

-----------------------------------------------------------------------------
pkey_options == <<"-in", "-out", "-inform", "-outform", "-pubout", "-pubin", "-help">>

PkeyScan(c, disk) == ScanErrors(pkey_options, c, disk)

(* A public key that was read can only come out as a public key.           *)
PubOut(c) == Has(c, "-pubout") \/ Has(c, "-pubin")

BadPkeyLoad(c, disk) == \* a key that cannot be read is passed over
  Loaded(Success, IF ~InOpened(c, disk) THEN None
                  ELSE ReadPrivate(disk[c.in], InForm(c), None))

(* Without -in there is no key, and that is no error.                      *)
PkeyLoad(c, disk) ==
  LET key == IF Has(c, "-pubin") THEN ReadPublic(disk[c.in], InForm(c))
                                 ELSE ReadPrivate(disk[c.in], InForm(c), None)
  IN  IF ~InOpened(c, disk) THEN Loaded(Success, None)
      ELSE IF key = None THEN Loaded(InputError, None)
      ELSE Loaded(Success, key)

(* A form that is none is DER for a public key, and nothing at all for a   *)
(* private one.                                                            *)
PkeyMake(c, key) ==
  IF key = None THEN Made(Success, << >>)
  ELSE IF PubOut(c) THEN PublicBlock(key, IF OutForm(c) = "PEM" THEN "PEM" ELSE "DER")
  ELSE IF OutForm(c) \in {"PEM", "DER"} THEN PrivateBlock(key, OutForm(c))
  ELSE Made(Success, << >>)

-----------------------------------------------------------------------------
rsa_options == <<"-in", "-inform", "-out", "-outform", "-passin", "-noout", "-modulus",
                 "-RSAPublicKey_in", "-pubin", "-pubout", "-help">>

RsaScan(c, disk) == ScanErrors(rsa_options, c, disk)

RsaPassword(c) ==
  IF Given(c, "-passin", c.passin) = None THEN None ELSE Password(c.passin).text

RsaLoad(c, disk) ==
  LET key == IF Has(c, "-pubin") THEN ReadPublic(disk[c.in], InForm(c))
                                 ELSE ReadPrivate(disk[c.in], InForm(c), RsaPassword(c))
  IN  IF ~InOpened(c, disk) THEN Loaded(Success, None)
      ELSE IF key = None \/ key.alg # "rsa" THEN Loaded(InputError, None)
      ELSE Loaded(Success, key)

(* The modulus comes after the key, in the same file.                      *)
RsaMake(c, key) ==
  LET form   == IF OutForm(c) = "PEM" THEN "PEM" ELSE "DER"
      half   == IF PubOut(c) THEN "public" ELSE "private"
      body   == IF Has(c, "-noout") THEN << >> ELSE <<Block(half, key, form)>>
      modulus == IF Has(c, "-modulus") /\ key # None
                 THEN <<Block("modulus", key, "text")>> ELSE << >>
  IN  IF key = None /\ ~Has(c, "-noout") THEN Refused
      ELSE Made(Success, body \o modulus)

-----------------------------------------------------------------------------
pkcs8_options == <<"-in", "-out", "-inform", "-outform", "-passin", "-traditional",
                   "-topk8", "-nocrypt", "-help">>

Pkcs8Scan(c, disk) == ScanErrors(pkcs8_options, c, disk)

(* The password in the buffer nobody wrote to opens nothing.               *)
Garbage == "garbage"

(* Where the key comes from: standard input when no file could be opened,  *)
(* and then the terminal must be reopened for a password.                  *)
Pkcs8Input(c, disk) ==
  IF InOpened(c, disk) THEN Loaded(Success, disk[c.in])
  ELSE LET terminal == RsaPassword(c) # None \/ c.typed # "no terminal"
       IN  Loaded(IF c.stdin # << >> /\ terminal THEN Success ELSE FatalError, c.stdin)

(* The key as it is; if it cannot be read, with the password of -passin or *)
(* the one typed.  In DER only an encrypted key is read with a password.   *)
Pkcs8Key(c, content) ==
  LET given == RsaPassword(c)
      plain == IF given = None THEN ReadPrivate(content, InForm(c), None) ELSE None
      pass  == IF given # None THEN given ELSE StdinPassword(c.typed, Garbage)
      der   == OnlyDer(content, "private")
  IN  IF plain # None THEN plain
      ELSE IF InForm(c) = "PEM" THEN ReadPrivate(content, "PEM", pass)
      ELSE IF der # None /\ der.coat = "sealed" /\ Opens(der, pass) THEN der.of ELSE None

Pkcs8Load(c, disk) ==
  LET input == Pkcs8Input(c, disk)
      key   == Pkcs8Key(c, input.what)
  IN  IF input.ret # Success THEN Loaded(input.ret, None)
      ELSE IF key = None THEN Loaded(FatalError, None)
      ELSE Loaded(Success, key)

(* In DER what comes out is never in a PKCS #8 coat.                       *)
Pkcs8Make(c, key) ==
  IF Has(c, "-topk8") /\ ~Has(c, "-nocrypt") THEN Refused
  ELSE IF OutForm(c) = "DER" THEN PrivateBlock(key, "DER")
  ELSE IF OutForm(c) = "PEM" /\ Has(c, "-traditional") THEN PrivateBlock(key, "PEM")
  ELSE IF OutForm(c) = "PEM"
  THEN Made(Success, <<[Block("private", key, "PEM") EXCEPT !.coat = "pkcs8"]>>)
  ELSE Made(Success, << >>)

-----------------------------------------------------------------------------
pkcs12_options == <<"-nodes", "-nocerts", "-nokeys", "-passin", "-passout", "-in", "-out",
                    "-help">>

Pkcs12Scan(c, disk) == ScanErrors(pkcs12_options, c, disk)

(* The password the bundle is opened with; without -passin the empty one.  *)
ImportPassword(c) == IF RsaPassword(c) = None THEN "" ELSE RsaPassword(c)

Pkcs12Load(c, disk) ==
  LET b == IF InOpened(c, disk) THEN OnlyDer(disk[c.in], "bundle") ELSE None
  IN  IF b # None /\ b.pass = ImportPassword(c) /\ Parses(b.of.certs)
      THEN Loaded(Success, b.of) ELSE Loaded(FatalError, None)

BadPkcs12Key(c, key) == \* a key that is to be encrypted is written as it is
  PrivateBlock(key, "PEM")

(* wolfCLU_pKeyPEMtoPriKeyEnc seals the key with the password that is      *)
(* typed; the buffer still holds the one of -passin.                       *)
Pkcs12Key(c, key) ==
  IF Has(c, "-nodes") THEN PrivateBlock(key, "PEM")
  ELSE IF Supported(key)
  THEN Made(Success, <<Sealed(key, StdinPassword(c.typed, ImportPassword(c)))>>)
  ELSE Refused

(* The certificates are in the stream before the key turns out to be one   *)
(* that cannot be written.                                                 *)
Pkcs12Make(c, bundle) ==
  LET certs == IF Has(c, "-nocerts") THEN << >> ELSE CertBlocks(bundle.certs)
      made  == IF Has(c, "-nokeys") \/ bundle.key = None THEN Made(Success, << >>)
               ELSE Pkcs12Key(c, bundle.key)
  IN  Made(made.ret, certs \o made.blocks)

-----------------------------------------------------------------------------
pkcs7_options == <<"-print_certs", "-in", "-out", "-inform", "-outform", "-help">>

Pkcs7Scan(c, disk) == ScanErrors(pkcs7_options, c, disk)

(* Signed data is taken only when what signs it, if anything, is right.    *)
Pkcs7Load(c, disk) ==
  LET content == IF InOpened(c, disk) THEN disk[c.in] ELSE c.stdin
      b       == Found(content, "pkcs7", InForm(c))
  IN  IF b # None /\ b.of.right /\ Parses(b.of.certs) THEN Loaded(Success, b.of) ELSE Loaded(FatalError, None)

Pkcs7Make(c, got) ==
  IF Has(c, "-print_certs") THEN Made(Success, CertBlocks(got.certs))
  ELSE IF OutForm(c) \in {"PEM", "DER"} THEN Made(Success, <<Block("pkcs7", got, OutForm(c))>>)
  ELSE Made(Success, << >>)
=============================================================================
