----------------------------- MODULE DigestTools -----------------------------
(***************************************************************************)
(* "wolfssl hash", "md5" and its like, "base64" and "dgst": digests, codes *)
(* and signatures of what is in a file (src/hash/, src/tools/clu_base64.c, *)
(* clu_funcs.c, src/sign-verify/clu_dgst_setup.c).  A block of the content *)
(* stands for a chunk that is read at a time.                              *)
(***************************************************************************)
EXTENDS KeyTools

CONSTANTS
  HashMax,   \* chunks of standard input that hash encodes: MAX_STDINSZ
  Base64Max  \* chunks of standard input that base64 takes

ASSUME LimitsAssumption == HashMax \in Nat /\ Base64Max \in Nat

BadDigest(alg, content) == \* only the first chunk is fed to the hash
  [alg |-> alg, over |-> IF content = << >> THEN << >> ELSE <<Head(content)>>]

(* wolfCLU_streamHashBio: chunk after chunk until nothing is read.         *)
Digest(alg, content) == [alg |-> alg, over |-> content]

FromStdin(c, limit) == SubSeq(c.stdin, 1, IF Len(c.stdin) < limit THEN Len(c.stdin) ELSE limit)

-----------------------------------------------------------------------------
Hashes == {"-md5", "-sha", "-sha256", "-sha384", "-sha512", "-blake2b"}
Codes == {"-base64enc", "-base64dec"}

(* Of the algorithms there must be one; a size that is wrong for Blake2b,  *)
(* the only one with a size, is an error.                                  *)
HashScan(c, disk) ==
  IF \/ c.twice # None
     \/ \A alg \in Hashes \cup Codes : c.flags \cap (Hashes \cup Codes) # {alg}
     \/ "-blake2b" \in c.flags /\ c.bits # "good"
     \/ c.in # None /\ disk[c.in] = Absent
     \/ c.out = Unwritable
  THEN FatalError ELSE Success

HashAlg(c) == CHOOSE f \in c.flags : f \in Hashes \cup Codes

(* A hash takes all of standard input, a code what fits its buffer.        *)
HashLoad(c, disk) ==
  LET limit == IF HashAlg(c) \in Codes THEN HashMax ELSE Len(c.stdin)
  IN  Loaded(Success, IF c.in = None THEN FromStdin(c, limit) ELSE disk[c.in])

Encoded(content) == IF content = << >> THEN << >> ELSE <<Block("base64", content, "text")>>

Decoded(content) ==
  CASE content = << >>                                                     -> Made(Success, << >>)
    [] Len(content) = 1 /\ content # Absent /\ content[1].kind = "base64" -> Made(Success, content[1].of)
    [] OTHER                                                               -> Refused

(* A digest goes raw to a file and as digits to the terminal.              *)
DigestForm(c) == IF c.out = None THEN "hex" ELSE "raw"

(* wolfCLU_hash                                                            *)
HashMake(c, content) ==
  LET alg == HashAlg(c)
  IN  CASE alg = "-base64enc" -> Made(Success, Encoded(content))
        [] alg = "-base64dec" -> Decoded(content)
        [] OTHER -> Made(Success, <<Block("digest", Digest(alg, content), DigestForm(c))>>)

(* wolfCLU_algHashSetup: the only argument is the file.                    *)
AlgHashScan(c, disk) == IF c.in # None /\ disk[c.in] = Absent THEN FatalError ELSE Success

-----------------------------------------------------------------------------
base64_options == <<"-in", "-out", "-d", "-help">>

(* The loop ends at the first error: an input that is not there leaves the *)
(* output alone.                                                           *)
Base64Scan(c, disk) ==
  IF \E i \in DOMAIN base64_options : Fails(c, base64_options[i], disk)
  THEN FatalError ELSE Success
Base64Opens(c, disk) == ~Fails(c, "-in", disk) /\ OutOpened(c)

Base64Load(c, disk) ==
  Loaded(Success, IF c.in = None THEN FromStdin(c, Base64Max) ELSE disk[c.in])

(* PEM input is stripped of its armour: a private key, if there is one that*)
(* needs no password, else a certificate, else a PKCS #7 message.          *)
Unarmoured(content) ==
  LET private == FirstPem(content, "private")
      cert    == FirstPem(content, "cert")
      b       == IF Opens(private, None) THEN private
                 ELSE IF cert # None THEN cert ELSE FirstPem(content, "pkcs7")
  IN  IF b = None THEN Refused ELSE Made(Success, <<[b EXCEPT !.form = "DER"]>>)

(* Writing no bytes counts as an error.                                    *)
Base64Make(c, content) ==
  LET made == IF ~Has(c, "-d") THEN Made(Success, Encoded(content))
              ELSE IF content # << >> /\ content[1].form = "PEM" THEN Unarmoured(content)
              ELSE Decoded(content)
  IN  IF made.blocks = << >> THEN Refused ELSE made

-----------------------------------------------------------------------------
(* Of several digests the last of the table is used.                       *)
DgstHashes == <<"-md5", "-sha", "-sha224", "-sha256", "-sha384", "-sha512">>

DgstHash(c) ==
  LET asked == {i \in DOMAIN DgstHashes : DgstHashes[i] \in c.flags}
  IN  IF asked = {} THEN None ELSE DgstHashes[CHOOSE i \in asked : \A j \in asked : j <= i]

Hmac(c) == Has(c, "-hmac")
Signing(c) == c.sign # None

(* The key is opened by both -verify and -sign, -sign last.                *)
KeyFileOf(c) == IF Signing(c) THEN c.sign ELSE c.verify

(* wolfCLU_dgst_setup up to the dispatch.                                  *)
DgstScan(c, disk) ==
  LET missing(f) == f # None /\ disk[f] = Absent
  IN  IF \/ c.twice # None \/ missing(c.in) \/ missing(c.verify) \/ missing(c.sign)
         \/ FormOf(c.inform, "PEM") = InputError
         \/ /\ ~Hmac(c)
            /\ \/ KeyFileOf(c) = None
               \/ ~Signing(c) /\ c.signature = None
               \/ Signing(c) /\ c.out = None
      THEN FatalError ELSE Success

(* wolfCLU_hexToBin; "odd" stands for what is no hexadecimal string.       *)
HexToBin(text) == IF text = "odd" THEN None ELSE text

(* wolfCLU_dgstHmac's key: "key:" or "hexkey:", and then something.        *)
MacKey(arg) ==
  IF arg # None /\ arg.source \in {"key", "hexkey"} /\ arg.text # ""
     /\ (arg.source = "hexkey" => HexToBin(arg.text) # None)
  THEN arg ELSE None

(* ExtractKey after the key was read: RSA and ECC.                         *)
DgstKey(c, disk) ==
  LET file == disk[KeyFileOf(c)]
      key  == IF Signing(c) THEN ReadPrivate(file, InForm(c), None) ELSE ReadPublic(file, InForm(c))
  IN  IF Supported(key) THEN key ELSE None

(* wolfCLU_dgstSignVerify and wolfCLU_dgstHmac up to the result: the digest*)
(* of the data, the signature to verify, the key.                          *)
DgstLoad(c, disk) ==
  LET data == IF c.in = None THEN c.stdin ELSE disk[c.in]
      sig  == IF Signing(c) \/ Hmac(c) THEN << >> ELSE disk[c.signature]
      key  == IF Hmac(c) THEN MacKey(c.mackey) ELSE DgstKey(c, disk)
      good == /\ DgstHash(c) # None /\ key # None
              /\ ~Hmac(c) /\ ~Signing(c) => sig \notin {Absent, << >>}
  IN  IF good THEN Loaded(Success, [digest |-> Digest(DgstHash(c), data), sig |-> sig, key |-> key])
      ELSE Loaded(FatalError, None)

(* wolfCLU_hmacHash                                                        *)
MacOf(got) == Block("mac", [key |-> got.key, digest |-> got.digest], "raw")
SignatureOf(got) == Block("signature", [key |-> got.key, digest |-> got.digest], "raw")

BadDgstMake(c, got) == \* a signature of the right key is taken for any data
  IF Hmac(c) THEN Made(Success, <<MacOf(got)>>)
  ELSE IF Signing(c) THEN Made(Success, <<SignatureOf(got)>>)
  ELSE IF got.sig[1].kind = "signature" /\ got.sig[1].of.key = got.key
       THEN Made(Success, << >>) ELSE Refused

DgstMake(c, got) ==
  IF Hmac(c) THEN Made(Success, <<MacOf(got)>>)
  ELSE IF Signing(c) THEN Made(Success, <<SignatureOf(got)>>)
  ELSE IF got.sig = <<SignatureOf(got)>> THEN Made(Success, << >>) ELSE Refused

=============================================================================
