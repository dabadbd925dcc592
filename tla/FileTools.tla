------------------------------ MODULE FileTools ------------------------------
(***************************************************************************)
(* The tools that work from file to file, one run after the other over the *)
(* same disk.  A run scans its options, reads its input, makes something   *)
(* of it and closes its output; where its output is opened, which empties  *)
(* the file, differs from tool to tool.  What the run writes stays in the  *)
(* stream's buffer until it is closed, so a run that is killed before      *)
(* leaves what it opened empty; a write that fails may be noticed or not,  *)
(* and closing may fail, and nobody looks.                                 *)
(***************************************************************************)
EXTENDS DigestTools, ParamTools, CertTools

CONSTANTS
  InitDisk,         \* what is on the disk at first
  Contents,         \* what files and standard input may hold that no run wrote
  Lines,            \* the command lines
  LinesAfter(_, _), \* those of a run, from the number of runs and the last line
  MaxRuns           \* runs: a bound

Files == DOMAIN InitDisk

VARIABLES
  disk,     \* the content of every file
  line,     \* the command line of the run, or of the last one
  pc,
  ret,      \* the variable of that name
  got,      \* what the run has read
  held,     \* what is in the buffer of its output
  opened,   \* whether its output is open on a file
  shown,    \* what it wrote to the terminal
  runs,     \* runs started
  taken,    \* history: the run has taken its input in
  before,   \* history: the disk when the run began
  end,      \* history: how the run ended, if it did
  mishap,   \* history: a call of the library failed, or output was lost
  clear,    \* history: the files a run was to write a private key to, unsealed
  signed    \* history: what dgst has signed, or was signed at first

vars == <<disk, line, pc, ret, got, held, opened, shown, runs, taken, before, end,
          mishap, clear, signed>>

Params_ == {"ecparam", "dhparam", "dsaparam"}
Early == {"pkey", "rsa", "pkcs8", "pkcs12", "pkcs7"}
CertTools_ == {"req", "x509", "ca", "crl", "verify"}
OpensLoaded == Params_ \cup {"req", "x509", "crl"}   \* its output, once it has read its input
OpensMade == {"dgst", "ca"}                          \* once there is something to write
Prints == {"md5", "verify"}                          \* never
Tools == Early \cup CertTools_ \cup OpensLoaded \cup OpensMade \cup Prints \cup {"hash", "base64"}

\* The names of the files a run is given are in the disk, if it is only to say
\* that there is no such file; NULL is none of them.  What no run wrote is made of whole blocks, also
\* when it is decoded, and what it has of requests and certificates, also in a
\* bundle, says what those say.  What is typed is a text.
IsWhole(x) == x = [f \in DOMAIN Blank |-> x[f]]
FilesAssumption ==
  /\ MaxRuns \in Nat /\ None # "-out" /\ {None, Unwritable} \cap Files = {}
  /\ Range(InitDisk) \subseteq Contents
  /\ \A s \in Contents :
       /\ s \in Seq(Range(s))
       /\ \A b \in Range(s) \ {None} :
            /\ DOMAIN b = DOMAIN Block("data", None, "text")
            /\ b.kind = "base64" => b.of \in Contents
            /\ b.kind \in {"request", "cert"} => IsWhole(b.of)
            /\ b.kind = "request" => b.of.issuer = None
            /\ b.kind \in {"bundle", "pkcs7"} => \A i \in DOMAIN b.of.certs : IsWhole(b.of.certs[i])
  /\ \A c \in Lines :
       /\ c.tool \in Tools
       /\ c.in \in Files \cup {None} /\ c.out \in Files \cup {None, Unwritable}
       /\ c.keyout \in Files \cup {None, Unwritable}
       /\ {c.verify, c.signature, c.cafile, c.untrusted} \subseteq Files \cup {None}
       /\ c.stdin \in Contents /\ c.typed # None
       /\ c.tool = "md5" => \E alg \in Hashes : c.flags = {alg}
  /\ LinesAfter(0, None) \subseteq Lines
  /\ \A n \in 1 .. MaxRuns - 1, c \in Lines : LinesAfter(n, c) \subseteq Lines
ASSUME FilesAssumption

\* A command does not write to a file when it only verifies, or knows no -out, or
\* when -passin has made it forget that -out could not be opened.
Output == IF \/ line.tool \in Prints
             \/ line.tool \in Early /\ ~OutOpened(line)
             \/ line.tool = "dgst" /\ ~Hmac(line) /\ ~Signing(line)
             \/ line.tool = "crl" /\ Has(line, "-noout")
          THEN None ELSE line.out

AsksHelp(c, d) ==
  /\ "-h" \in c.flags
  /\ c.tool = "hash" => c.twice \notin {"-in", "-out"}
  /\ c.tool = "base64" => Base64Scan(c, d) = Success
  /\ c.tool = "req" => c.twice # "-addext"

Scan(c, d) ==
  CASE c.tool = "pkey"     -> PkeyScan(c, d)
    [] c.tool = "rsa"      -> RsaScan(c, d)
    [] c.tool = "pkcs8"    -> Pkcs8Scan(c, d)
    [] c.tool = "pkcs12"   -> Pkcs12Scan(c, d)
    [] c.tool = "pkcs7"    -> Pkcs7Scan(c, d)
    [] c.tool = "ecparam"  -> EcparamScan(c, d)
    [] c.tool = "dhparam"  -> DhScan(c, d)
    [] c.tool = "dsaparam" -> DsaScan(c, d)
    [] c.tool = "hash"     -> HashScan(c, d)
    [] c.tool = "md5"      -> AlgHashScan(c, d)
    [] c.tool = "base64"   -> Base64Scan(c, d)
    [] c.tool = "dgst"     -> DgstScan(c, d)
    [] c.tool = "req"       -> ReqScan(c, d)
    [] c.tool = "x509"      -> CertScan(c, d)
    [] c.tool = "verify"    -> VerifyScan(c, d)
    [] c.tool = "crl"       -> CrlScan(c, d)
    [] c.tool = "ca"        -> CaScan(c, d)

BadScanOpens(c, d) == \* ecparam and its like open the output with their options
  c.tool # "dgst" /\ OutOpened(c)

\* The scans that open the output: some although they fail, or only give help.
ScanOpens(c, d) ==
  CASE c.tool \in Early   -> OutOpened(c)
    [] c.tool = "base64"  -> Base64Opens(c, d)
    [] c.tool = "hash"    -> ~AsksHelp(c, d) /\ HashScan(c, d) = Success /\ OutOpened(c)
    [] OTHER              -> FALSE

Load(c, d) ==
  CASE c.tool = "pkey"     -> PkeyLoad(c, d)
    [] c.tool = "rsa"      -> RsaLoad(c, d)
    [] c.tool = "pkcs8"    -> Pkcs8Load(c, d)
    [] c.tool = "pkcs12"   -> Pkcs12Load(c, d)
    [] c.tool = "pkcs7"    -> Pkcs7Load(c, d)
    [] c.tool = "ecparam"  -> EcparamLoad(c, d)
    [] c.tool = "dhparam"  -> DhLoad(c, d)
    [] c.tool = "dsaparam" -> DsaLoad(c, d)
    [] c.tool \in {"hash", "md5"} -> HashLoad(c, d)
    [] c.tool = "base64"   -> Base64Load(c, d)
    [] c.tool = "dgst"     -> DgstLoad(c, d)
    [] c.tool = "req"       -> ReqLoad(c, d)
    [] c.tool = "x509"      -> CertLoad(c, d)
    [] c.tool = "verify"    -> VerifyLoad(c, d)
    [] c.tool = "crl"       -> CrlLoad(c, d)
    [] c.tool = "ca"        -> CaLoad(c, d)

Make(c, what) ==
  CASE c.tool = "pkey"     -> PkeyMake(c, what)
    [] c.tool = "rsa"      -> RsaMake(c, what)
    [] c.tool = "pkcs8"    -> Pkcs8Make(c, what)
    [] c.tool = "pkcs12"   -> Pkcs12Make(c, what)
    [] c.tool = "pkcs7"    -> Pkcs7Make(c, what)
    [] c.tool = "ecparam"  -> EcparamMake(c, what)
    [] c.tool = "dhparam"  -> DhMake(c, what)
    [] c.tool = "dsaparam" -> DsaMake(c, what)
    [] c.tool \in {"hash", "md5"} -> HashMake(c, what)
    [] c.tool = "base64"   -> Base64Make(c, what)
    [] c.tool = "dgst"     -> DgstMake(c, what)
    [] c.tool = "req"       -> ReqMake(c, what)
    [] c.tool = "x509"      -> CertMake(c, what)
    [] c.tool = "verify"    -> VerifyMake(c, what)
    [] c.tool = "crl"       -> CrlMake(c, what)
    [] c.tool = "ca"        -> CaMake(c, what)

-----------------------------------------------------------------------------
\* The runs that are asked for a private key that needs no password.
AsksClear(c) ==
  \/ c.tool \in {"pkey", "rsa"} /\ ~PubOut(c)
  \/ c.tool = "pkcs8"
  \/ c.tool = "base64" /\ Has(c, "-d")
  \/ c.tool = "hash" /\ "-base64dec" \in c.flags
  \/ c.tool = "pkcs12" /\ Has(c, "-nodes")
  \/ c.tool \in Params_ /\ Has(c, "-genkey")

\* req writes a second file, that of the key it made.
KeyToo == line.tool = "req" /\ line.newkey # None

AsksClearIn(c) ==
  {f \in Files : \/ f = c.out /\ AsksClear(c)
                 \/ f = c.keyout /\ c.tool = "req" /\ Has(c, "-nodes")}

HasClearKey(content) ==
  \E i \in DOMAIN content : content[i] # None /\ content[i].kind = "private"
                            /\ content[i].coat # "sealed"

SignedIn(content) ==
  {content[i].of : i \in {j \in DOMAIN content : content[j] # None /\ content[j].kind = "signature"}}

Init ==
  /\ disk = InitDisk /\ before = disk
  /\ line = None /\ pc = "idle" /\ ret = Success /\ got = None
  /\ held = << >> /\ opened = FALSE /\ shown = << >>
  /\ runs = 0 /\ taken = FALSE /\ end = "not yet" /\ mishap = FALSE
  /\ clear = {f \in Files : HasClearKey(disk[f])}
  /\ signed = UNION {SignedIn(s) : s \in Contents}

Start(c) ==
  /\ pc = "idle" /\ runs < MaxRuns
  /\ line' = c /\ runs' = runs + 1 /\ pc' = "scan"
  /\ ret' = Success /\ got' = None /\ held' = << >> /\ opened' = FALSE /\ shown' = << >>
  /\ before' = disk /\ taken' = FALSE /\ end' = "not yet" /\ mishap' = FALSE
  /\ clear' = clear \cup AsksClearIn(c)
  /\ UNCHANGED <<disk, signed>>

BadOpen(yes, result, there) == \* an output that cannot be opened counts as open
  /\ opened' = (opened \/ (yes /\ Output # None))
  /\ disk' = IF opened' /\ ~opened THEN [disk EXCEPT ![Output] = << >>] ELSE disk
  /\ ret' = result
  /\ pc' = IF result = Success THEN there ELSE "close"

\* The end of a step: the output is opened if it is time, and the run goes on
\* unless there was an error, or the output cannot be opened.
Open(yes, result, there) ==
  LET unwritable == yes /\ Output = Unwritable
  IN  /\ opened' = (opened \/ (yes /\ Output \notin {None, Unwritable}))
      /\ disk' = IF opened' /\ ~opened THEN [disk EXCEPT ![Output] = << >>] ELSE disk
      /\ ret' = IF unwritable THEN FatalError ELSE result
      /\ pc' = IF ret' = Success THEN there ELSE "close"

ScanOptions ==
  /\ pc = "scan"
  /\ IF AsksHelp(line, disk) THEN Open(ScanOpens(line, disk), Success, "close")
     ELSE Open(ScanOpens(line, disk), Scan(line, disk), "load")
  /\ UNCHANGED <<line, got, held, shown, runs, taken, before, end, mishap, clear, signed>>

ReadInput ==
  /\ pc = "load"
  /\ LET loaded == Load(line, disk)
     IN  /\ got' = loaded.what /\ taken' = (loaded.ret = Success)
         /\ Open(line.tool \in OpensLoaded /\ loaded.ret = Success, loaded.ret, "make")
  /\ UNCHANGED <<line, held, shown, runs, before, end, mishap, clear, signed>>

MakeOutput ==
  /\ pc = "make"
  /\ LET made == Make(line, got)
     IN  /\ held' = made.blocks
         /\ Open(line.tool \in OpensMade /\ made.ret = Success /\ made.blocks # << >>, made.ret,
                 IF KeyToo THEN "key" ELSE "close")
  /\ UNCHANGED <<line, got, shown, runs, taken, before, end, mishap, clear, signed>>

Cut == <<Block("cut off", None, "none")>>

\* Opening -keyout empties it, while the request is still in its buffer.
OpenKeyOut ==
  /\ pc = "key"
  /\ IF line.keyout = Unwritable
     THEN ret' = FatalError /\ pc' = "close" /\ UNCHANGED disk
     ELSE /\ pc' = "seal" /\ UNCHANGED ret
          /\ disk' = IF line.keyout = None THEN disk ELSE [disk EXCEPT ![line.keyout] = << >>]
  /\ UNCHANGED <<line, got, held, opened, shown, runs, taken, before, end, mishap, clear, signed>>

\* The key is written and its file closed, or cut off.
WriteKeyOut ==
  /\ pc = "seal" /\ pc' = "close"
  /\ \E pass \in ReqPasswords(line), fits \in BOOLEAN :
       LET made == ReqKeyOut(line, got, pass)
           left == IF fits THEN made.blocks ELSE Cut
       IN  /\ ~fits => line.keyout # None /\ made.blocks # << >>
           /\ ret' = made.ret /\ mishap' = (mishap \/ ~fits)
           /\ IF line.keyout = None THEN shown' = left /\ UNCHANGED disk
              ELSE disk' = [disk EXCEPT ![line.keyout] = left] /\ UNCHANGED shown
  /\ UNCHANGED <<line, got, held, opened, runs, taken, before, end, clear, signed>>

\* Memory, random numbers, the library: a call that fails, and whose result is
\* looked at, ends the run.  (Some that change a request in memory are not.)
CallFails ==
  /\ pc \in {"load", "make", "seal"}
  /\ ret' = FatalError /\ pc' = "close" /\ mishap' = TRUE
  /\ UNCHANGED <<disk, line, got, held, opened, shown, runs, taken, before, end, clear, signed>>

\* What is left of the output when its block i is cut short, or is not there.
Without(i) == {[held EXCEPT ![i] = Cut[1]], RemoveAt(held, i)}

\* A block is not made, not written or cut short.  Many callers do not look, and
\* those that do mostly ask only whether anything was written: the run goes on,
\* or it ends in an error and writes nothing more.
WriteFails ==
  /\ pc = "key" \/ (pc = "close" /\ ~KeyToo)
  /\ \E i \in DOMAIN held :
       /\ held[i] # Cut[1]
       /\ \/ held' \in Without(i) /\ UNCHANGED <<ret, pc>>
          \/ held' = SubSeq(held, 1, i - 1) /\ ret' = FatalError /\ pc' = "close"
  /\ mishap' = TRUE /\ signed' = signed \cup SignedIn(held)
  /\ UNCHANGED <<disk, line, got, opened, shown, runs, taken, before, end, clear>>

\* What the buffer leaves of what another stream wrote to the same file.
Over(there) ==
  IF held = << >> THEN {there} ELSE IF there = << >> THEN {held} ELSE {held, held \o Cut}

CloseOutput ==
  /\ pc = "close"
  /\ \/ /\ IF opened THEN \E left \in Over(disk[Output]) : disk' = [disk EXCEPT ![Output] = left]
           ELSE UNCHANGED disk
        /\ UNCHANGED mishap
     \/ /\ opened /\ held # << >>
        /\ \E left \in {<< >>, Cut} : disk' = [disk EXCEPT ![Output] = left]
        /\ mishap' = TRUE
  /\ shown' = IF Output # None THEN shown ELSE IF KeyToo THEN held \o shown ELSE held
  /\ signed' = signed \cup SignedIn(held)
  /\ pc' = "idle" /\ end' = "returned"
  /\ UNCHANGED <<line, ret, got, held, opened, runs, taken, before, clear>>

Kill ==
  /\ pc # "idle"
  /\ pc' = "idle" /\ end' = "killed"
  /\ UNCHANGED <<disk, line, ret, got, held, opened, shown, runs, taken, before, mishap, clear, signed>>

Next ==
  \/ \E c \in LinesAfter(runs, line) : Start(c)
  \/ ScanOptions \/ ReadInput \/ MakeOutput \/ OpenKeyOut \/ WriteKeyOut
  \/ CallFails \/ WriteFails \/ CloseOutput \/ Kill

Spec == Init /\ [][Next]_vars

-----------------------------------------------------------------------------
Pcs == {"idle", "scan", "load", "make", "key", "seal", "close"}

TypeOK ==
  /\ DOMAIN disk = Files /\ DOMAIN before = Files
  /\ pc \in Pcs /\ end \in {"not yet", "returned", "killed"}
  /\ ret \in {Success, FatalError, InputError, InputFileError, BadFuncArg}
  /\ opened \in BOOLEAN /\ taken \in BOOLEAN /\ mishap \in BOOLEAN
  /\ runs \in Nat
  /\ clear \subseteq Files
  /\ opened => Output \in Files

Succeeded ==
  pc = "idle" /\ end = "returned" /\ ret = Success /\ ~mishap /\ ~AsksHelp(line, before)

Result == IF Output = None THEN shown ELSE disk[Output]
\* The same of -in: what is read is then standard input.
Forgotten == line.tool \in Early /\ ~InOpened(line, before)
Source == IF line.in = None \/ Forgotten THEN line.stdin ELSE before[line.in]
Kinds(content) == [i \in DOMAIN content |-> content[i].kind]

Of(content, kinds) ==
  {content[i].of : i \in {j \in DOMAIN content : content[j] # None /\ content[j].kind \in kinds}}
KeysIn(content) ==
  Of(content, {"private", "public"}) \cup {b.key : b \in Of(content, {"bundle"})}
IssuedIn(content) == Of(content, {"request", "cert"})

\* The certificates of the bundle or the message that was read.
CertsRead == [i \in DOMAIN got.certs |-> "cert"]

\* What the command line asks for, as the help of each command has it.
Asked ==
  LET one(flag, kind) == IF Has(line, flag) THEN <<kind>> ELSE << >>
      not(flag, kind) == IF Has(line, flag) THEN << >> ELSE <<kind>>
      half == IF PubOut(line) THEN "public" ELSE "private"
      texts == [i \in 1 .. Cardinality({f \in Range(CertPrints) : Has(line, f)}) |-> "text"]
      key  == IF KeyToo /\ line.keyout = None /\ line.out = None THEN <<"private">> ELSE << >>
      issued == IF Has(line, "-x509") THEN "cert" ELSE "request"
  IN  CASE line.tool = "pkey"     -> <<half>>
        [] line.tool = "rsa"      -> not("-noout", half) \o one("-modulus", "modulus")
        [] line.tool = "pkcs8"    -> <<"private">>
        [] line.tool = "pkcs12"   -> (IF Has(line, "-nocerts") THEN << >> ELSE CertsRead)
                                     \o (IF got.key = None THEN << >> ELSE not("-nokeys", "private"))
        [] line.tool = "pkcs7"    -> IF Has(line, "-print_certs") THEN CertsRead ELSE <<"pkcs7">>
        [] line.tool = "ecparam"  -> one("-text", "text") \o <<"params">> \o one("-genkey", "private")
        [] line.tool \in {"dhparam", "dsaparam"} -> not("-noout", "params") \o one("-genkey", "private")
        [] line.tool = "req"      -> one("-text", "text") \o not("-noout", issued) \o key
        [] line.tool = "x509"     -> texts \o one("-modulus", "modulus") \o one("-pubkey", "public")
                                     \o not("-noout", "cert")
        [] line.tool = "crl"      -> one("-text", "text") \o not("-noout", "crl")
        [] line.tool = "verify"   -> <<"verified">>
        [] line.tool = "ca"       -> <<"cert">>

\* The lines that end in success with less than they ask for: nothing is
\* read without -in, a form that is none is not written, a failed -in is
\* forgotten for -passin, parameters without a byte of input are zeros, a
\* key written to the output of its request is written over, and -altextend
\* does nothing without its keys or beside -selfsign.
Silent(c) ==
  \/ c.tool \in {"pkey", "rsa"} /\ ~InOpened(c, before)
  \/ c.tool \in {"pkey", "pkcs8", "pkcs7"} /\ OutForm(c) \notin {"PEM", "DER"}
  \/ c.tool \in {"dhparam", "dsaparam"} /\ c.in # None /\ before[c.in] = << >>
  \/ c.tool = "req" /\ c.newkey # None /\ c.keyout = c.out /\ c.out # None
  \/ c.tool = "ca" /\ Has(c, "-altextend")
     /\ \/ Has(c, "-selfsign") \/ {c.altkey, c.altpub, c.cert} = {None}
        \/ OutForm(c) \notin {"PEM", "DER"}

\* As does x509 -modulus of a key that has no modulus.
NoModulus == line.tool = "x509" /\ Has(line, "-modulus") /\ got.x.key.alg # "rsa"

\* The keys the output may hold.
KeysAsked ==
  IF line.tool \in Params_ /\ Has(line, "-genkey") THEN {k \in KeysIn(Result) : k.id = "new"}
  ELSE IF line.tool = "req" THEN {got.key}
  ELSE IF line.tool = "x509" THEN {x.key : x \in IssuedIn(Source)}
  ELSE KeysIn(Source)

\* Parameters and a key in one file belong together.
KeyFitsParams ==
  \A p \in Of(Result, {"params"}), k \in Of(Result, {"private"}) :
    k.alg = p.alg /\ k.group = p.group

\* What pkcs12 and req seal, the password that was given opens.
TypedPassword == line.typed \notin {"no terminal", "nothing"}
SealedOpens ==
  /\ line.tool = "pkcs12" /\ ~Has(line, "-nodes") /\ ~Has(line, "-nokeys") /\ got.key # None /\ TypedPassword
     => ReadPrivate(Result, "PEM", line.typed) \in KeysIn(Source)
  /\ KeyToo /\ line.keyout # None
     => LET pass == IF line.passout = None THEN line.typed ELSE line.passout.text
        IN  /\ Kinds(disk[line.keyout]) = <<"private">>
            /\ Has(line, "-nodes") \/ line.passout # None \/ TypedPassword
               => ReadPrivate(disk[line.keyout], "PEM", pass) = got.key
            /\ \A x \in IssuedIn(Result) : x.key = got.key

\* A request or certificate says what the one it was made from says, and what
\* its line adds; the certificates of two keys take the subject only.
SaysAsRequested(x) ==
  /\ line.in # None => \E r \in IssuedIn(Source) :
       /\ line.subj = None /\ line.config = None => x.subject = r.subject
       /\ ~Has(line, "-altextend") => r.alt \subseteq x.alt
       /\ ~Has(line, "-altextend") /\ (line.tool = "req" => got.key = None) => x.key = r.key
  /\ line.tool = "req" /\ line.addext # None => Range(line.addext.names) \subseteq x.alt
  /\ line.tool = "req" /\ line.subj # None => x.subject = line.subj

(* A command of keys, parameters, requests or certificates that returns    *)
(* success has written just the blocks its line asks for; every key in them*)
(* is the one of its input or one it made, fits the parameters beside it   *)
(* and opens with the password that was given; the certificates are those  *)
(* of one bundle or message of its input, in their order; and what is      *)
(* certified is what was requested: also when it reads the file it writes, *)
(* and whatever was refused, emptied or cut off by the runs before.  (It is*)
(* about runs no call of which failed: the code does not notice all that   *)
(* do.)                                                                    *)
DoneAsAsked ==
  Succeeded /\ line.tool \in Early \cup Params_ \cup CertTools_ /\ ~Silent(line) /\ ~NoModulus
  => /\ Kinds(Result) = Asked
     /\ KeysIn(Result) \subseteq KeysAsked
     /\ KeyFitsParams /\ SealedOpens
     /\ line.tool \in {"pkcs12", "pkcs7"} =>
          /\ got \in Of(Source, {"bundle", "pkcs7"})
          /\ \A i \in DOMAIN Result : Result[i].kind = "cert" => Result[i].of = got.certs[i]
     /\ line.tool \in {"req", "x509", "ca"} => \A x \in IssuedIn(Result) : SaysAsRequested(x)

\* Hashing a file onto itself hashes the emptied file; a code of standard
\* input covers what fits its buffer.
Emptied(c) == c.in # None /\ c.in = c.out
TakenFromStdin(c) ==
  CASE c.tool = "base64" -> Base64Max
    [] c.tool = "hash" /\ HashAlg(c) \in Codes -> HashMax
    [] OTHER -> Len(c.stdin)

Decodes(c) == (c.tool = "base64" /\ Has(c, "-d")) \/ (c.tool = "hash" /\ "-base64dec" \in c.flags)

\* Whether what is given out was computed from all of the data.
Covers(content, data) ==
  IF Decodes(line)
  THEN Len(data) = 1 /\ data[1].kind = "base64" /\ data[1].form = "text" => content = data[1].of
  ELSE \A i \in DOMAIN content :
         LET b == content[i]
         IN  IF line.tool = "dgst" THEN b.of.digest.over = data
             ELSE IF b.kind = "base64" THEN b.of = data ELSE b.of.over = data

(* A digest, a code or a signature that is given out with success covers   *)
(* every chunk of the data that was there when the run began, and what is  *)
(* decoded is what was encoded.                                            *)
CoversAll ==
  Succeeded /\ line.tool \in {"hash", "md5", "base64", "dgst"}
  /\ (line.tool = "hash" => ~Emptied(line))
  /\ (line.in = None => Len(line.stdin) <= TakenFromStdin(line))
  => Covers(Result, Source)

(* A private key that nothing seals is only in files in which there was one*)
(* at first, or to which a run was asked to write one: never in the output *)
(* of pkcs12 or the key file of req without -nodes, whatever is typed or   *)
(* fails.                                                                  *)
SecretsStay == \A f \in Files : HasClearKey(disk[f]) => f \in clear

(* The commands that open their output late leave every file as it was when*)
(* they end in an error: dgst and ca in any, but for the output to which   *)
(* they could not write, the others in one from before they had taken their*)
(* input in.  A key is not lost to a command that was mistyped.            *)
RefusedKeepsOutput ==
  /\ pc = "idle" /\ line # None /\ ret # Success
  /\ line.tool \in OpensMade \cup Prints \/ (line.tool \in OpensLoaded /\ ~taken)
  => \A f \in Files : (mishap /\ opened /\ f = Output) \/ disk[f] = before[f]

(* What is verified was signed.  dgst -verify says so only of a digest that*)
(* was signed with that key, at first or by some run, whatever was encoded,*)
(* decoded or cut off since (with -hmac or -sign beside it, it does not    *)
(* verify); verify and crl -CAfile only of what a key of the files they are*)
(* given has signed, or of what is itself trusted, whose own signature     *)
(* nobody checks; and req -verify of a request signed by the key it is for,*)
(* or by the one that was given.                                           *)
VerifiedWasSigned ==
  Succeeded =>
    /\ line.tool = "dgst" /\ ~Hmac(line) /\ ~Signing(line)
       => \E s \in signed : /\ s.digest = Digest(DgstHash(line), Source)
                            /\ s.key \in KeysIn(before[line.verify])
    /\ line.tool = "verify" \/ (line.tool = "crl" /\ line.cafile # None)
       => LET files == {line.cafile, line.untrusted} \ {None}
          IN  \/ \E r \in UNION {IssuedIn(before[f]) : f \in files} :
                   got.x.by = r.key /\ got.x.issuer = r.subject
              \/ /\ line.tool = "verify" /\ got.x \in IssuedIn(before[line.cafile])
                 /\ Has(line, "-partial_chain") \/ SelfIssued(got.x)
    /\ line.tool = "req" /\ Has(line, "-verify")
       => IF ReSign(line) \/ got.key = None
          THEN \A x \in IssuedIn(Result) : ~Has(line, "-x509") => x.by # None /\ x.by = x.key
          ELSE got.orig.by = got.key

\* The lines that issue something that nobody, or not its issuer, has signed:
\* req that changes the key or the kind and nothing else, ca without a key that
\* can sign, and the key of a CA that is never compared with its certificate.
Unsigned(c) ==
  \/ c.tool = "req" /\ ~ReSign(c)
  \/ c.tool = "ca" /\ ~Has(c, "-altextend") /\ ~Supported(got.key)
  \/ c.tool = "ca" /\ Has(c, "-altextend") /\ ~IsRoot(c)

\* The certificate whose key is to sign what the run issues: that of the CA,
\* or the one that is issued.
Issuer(x) ==
  IF line.tool = "ca" /\ line.cert # None /\ ~Has(line, "-selfsign")
  THEN CertIn(before[line.cert]) ELSE x

(* A request or certificate that is written with success and was not there *)
(* before is signed by the key of the certificate it names as its issuer,  *)
(* or, when it is its own, by its own key, and over all that it says.      *)
SignedByIssuer ==
  Succeeded /\ line.tool \in {"req", "x509", "ca"} /\ ~Silent(line) /\ ~Unsigned(line)
  => \A x \in IssuedIn(Result) \ IssuedIn(Source) :
       /\ x.by # None /\ x.by = Issuer(x).key
       /\ x \in Of(Result, {"cert"}) => x.issuer = Issuer(x).subject

(* "ca" that returns success has signed the certificate.                   *)
CaAlwaysSigns ==
  Succeeded /\ line.tool = "ca" /\ ~Silent(line) => \A x \in IssuedIn(Result) : x.by # None
=============================================================================
