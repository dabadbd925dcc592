----------------------------- MODULE MCFileTools -----------------------------
(***************************************************************************)
(* FileTools on a small disk: two runs, the second with a line of a fixed  *)
(* set, most of which take what the first run wrote; and a third on what   *)
(* has been signed.                                                        *)
(***************************************************************************)
EXTENDS FileTools, TLC

Key(alg, id) == [alg |-> alg, group |-> IF alg = "ec" THEN "prime256v1" ELSE "one", id |-> id]
Rsa == Key("rsa", "k1")
Ec == Key("ec", "k2")
Dsa == Key("dsa", "k3")
Private(k, form) == Block("private", k, form)
Public(k, form) == Block("public", k, form)
Chunk(x) == Block("data", x, "text")

Name(n) == <<n>>
Ca == [Blank EXCEPT !.subject = Name("root"), !.issuer = Name("root"), !.key = Rsa, !.ca = "yes",
                    !.by = Rsa]
Leaf == [Blank EXCEPT !.subject = Name("leaf"), !.issuer = Name("root"), !.key = Ec, !.by = Rsa]
Csr == [Blank EXCEPT !.subject = Name("leaf"), !.key = Ec, !.by = Ec]
Forged == [Leaf EXCEPT !.by = Ec]
Unproved == [Ca EXCEPT !.by = Ec]  \* a root that its own key did not sign
Crl(k) == [issuer |-> Name("root"), by |-> k]
Cert(x, form) == Block("cert", x, form)
MlDsa == Key("mldsa", "k4")

Bundle(k) == [Block("bundle", [key |-> k, certs |-> <<Leaf>>], "DER")
                EXCEPT !.pass = "pw"]
Chain == [Bundle(None) EXCEPT !.of.certs = <<Leaf, Ca>>]
Signed7(right) == Block("pkcs7", [right |-> right, certs |-> <<Ca, Leaf>>], "PEM")

Torn(b) == [b EXCEPT !.of.certs = 0 :> Leaf]

Alt(type, right) == [type |-> type, right |-> right]
Dns == Alt("DNS", TRUE)
Section == [basic |-> None, skid |-> None, usage |-> None, alt |-> << >>, at |-> None]
Asks == <<[current |-> "x", default |-> "d", allowed |-> {"d", "t"}],
          [current |-> "y", default |-> None, allowed |-> {"t"}]>>
Config(prompt) ==
  Block("config",
    [prompt |-> prompt, dn |-> Asks, exts |-> "v3",
     sections |->
       ("v3" :> [Section EXCEPT !.basic = [critical |-> TRUE, words |-> <<"CA", "true", "pathlen", "0">>],
                                !.skid = "hash", !.usage = {"keyCertSign", "nonsense"}, !.at = "names"]) @@
       ("none" :> [Section EXCEPT !.basic = [critical |-> FALSE, words |-> <<"CA", "FALSE">>],
                                  !.alt = <<Dns>>]) @@
       ("bad" :> [Section EXCEPT !.alt = <<Dns, Alt("IP", FALSE)>>]),
     lists |-> "names" :> <<Alt("IP", TRUE)>>], "text")
Data == <<Chunk(1), Chunk(2)>>
OtherData == <<Chunk(1), Chunk(3)>>

MCDisk ==
  ("rsa.pem" :> <<Private(Rsa, "PEM")>>) @@ ("rsapub.pem" :> <<Public(Rsa, "PEM")>>) @@
  ("ec.der" :> <<Private(Ec, "DER")>>) @@ ("dsa.pem" :> <<Private(Dsa, "PEM")>>) @@
  ("sealed.pem" :> <<Sealed(Rsa, "pw")>>) @@
  ("rsa.p12" :> <<Bundle(Rsa)>>) @@ ("torn.p12" :> <<Torn(Bundle(Rsa))>>) @@ ("dsa.p12" :> <<Bundle(Dsa)>>) @@
  ("chain.p12" :> <<Chain>>) @@ ("both.pem" :> <<Cert(Leaf, "PEM"), Signed7(TRUE)>>) @@
  ("dh.pem" :> <<Block("params", Params("dh", "g1"), "PEM")>>) @@
  ("p7.pem" :> <<Signed7(TRUE)>>) @@ ("torn7.pem" :> <<Torn(Signed7(TRUE))>>) @@ ("bad7.pem" :> <<Signed7(FALSE)>>) @@
  ("ec.pem" :> <<Private(Ec, "PEM")>>) @@ ("mldsa.pem" :> <<Private(MlDsa, "PEM")>>) @@
  ("mldsapub.pem" :> <<Public(MlDsa, "PEM")>>) @@
  ("ca.pem" :> <<Cert(Ca, "PEM")>>) @@ ("leaf.pem" :> <<Cert(Leaf, "PEM")>>) @@
  ("leaf.der" :> <<Cert(Leaf, "DER")>>) @@ ("forged.pem" :> <<Cert(Forged, "PEM")>>) @@
  ("csr.pem" :> <<Block("request", Csr, "PEM")>>) @@
  ("crl.pem" :> <<Block("crl", Crl(Rsa), "PEM")>>) @@ ("badcrl.pem" :> <<Block("crl", Crl(Ec), "PEM")>>) @@
  ("req.cnf" :> <<Config(FALSE)>>) @@ ("ask.cnf" :> <<Config(TRUE)>>) @@
  ("data" :> Data) @@ ("data2" :> OtherData) @@ ("empty" :> << >>) @@
  ("root.pem" :> <<Cert(Unproved, "PEM")>>) @@ ("root.der" :> <<Cert(Unproved, "DER")>>) @@
  ("gone" :> Absent) @@ ("out" :> Absent) @@
  ("out2" :> Absent) @@ ("key.out" :> Absent)

\* What is in no file at first: the data of standard input.
MCContents == Range(MCDisk) \cup {<< >>, Data \o <<Chunk(3)>>}

Line(tool, input) ==
  [tool |-> tool, in |-> input, out |-> "out", inform |-> None, outform |-> None,
   passin |-> None, flags |-> {}, twice |-> None, typed |-> "no terminal", stdin |-> << >>,
   name |-> None, bits |-> None, sign |-> None, verify |-> None, signature |-> None,
   mackey |-> None,
   key |-> None, newkey |-> None, keyout |-> None, passout |-> None, inkey |-> None,
   config |-> None, ext |-> None, addext |-> None, subj |-> None, days |-> 0, answers |-> << >>,
   cert |-> None, cafile |-> None, untrusted |-> None,
   subjkey |-> None, altkey |-> None, altpub |-> None]
With(c, flags) == [c EXCEPT !.flags = @ \cup flags]
Pass(x) == [source |-> "pass", text |-> x]
NoPass == [source |-> "file", text |-> None]

\* One thing that may be amiss in any line.
OddIn(c) == {[c EXCEPT !.in = x] : x \in {None, "gone", "empty", "out", "data"}}
OddOut(c) == {[c EXCEPT !.out = x] : x \in {None, c.in, Unwritable}}
OddForms(c) == {[c EXCEPT !.inform = "DER"], [c EXCEPT !.outform = "DER"], [c EXCEPT !.inform = "bad"],
                [c EXCEPT !.outform = "bad"]}
OddWords(c) == {With(c, {"-h"}), [c EXCEPT !.twice = "-in"], [c EXCEPT !.twice = "-out"]}
Odd(c) == {c} \cup OddIn(c) \cup OddOut(c) \cup OddWords(c)

PkeyLines == UNION {
  LET c == Line("pkey", "rsa.pem") IN Odd(c) \cup OddForms(c),
  OddForms(With(Line("pkey", "rsapub.pem"), {"-pubin"})),
  {With(Line("pkey", f), {"-pubout"}) : f \in {"rsa.pem", "dsa.pem", "rsapub.pem"}},
  {[Line("pkey", "ec.der") EXCEPT !.inform = "DER", !.outform = f] : f \in {"PEM", "DER"}}}

RsaLines == UNION {
  LET c == Line("rsa", "rsa.pem") IN Odd(c) \cup OddForms(c),
  {With(Line("rsa", f), g) : f \in {"rsa.pem", "rsapub.pem"},
                            g \in {{"-pubin"}, {"-pubout"}, {"-modulus"}, {"-noout", "-modulus"}}},
  {[Line("rsa", f) EXCEPT !.passin = x] : f \in {"sealed.pem", "gone"},
                                          x \in {Pass("pw"), Pass("wrong"), NoPass}},
  {[Line("rsa", "sealed.pem") EXCEPT !.passin = Pass("pw"), !.out = x, !.twice = y] :
     x \in {"out", Unwritable}, y \in {None, "-out"}}}

Pkcs8Lines == UNION {
  LET c == Line("pkcs8", "rsa.pem") IN Odd(c) \cup OddForms(c),
  {With(Line("pkcs8", "rsa.pem"), g) : g \in {{"-topk8"}, {"-topk8", "-nocrypt"}, {"-traditional"}}},
  {[Line("pkcs8", "sealed.pem") EXCEPT !.typed = x] : x \in {"pw", "wrong", "nothing"}},
  {[Line("pkcs8", f) EXCEPT !.stdin = MCDisk["sealed.pem"], !.passin = Pass("pw")] : f \in {None, "gone"}}}

Pkcs12Lines == UNION {
  LET c == [Line("pkcs12", f) EXCEPT !.passin = Pass("pw"), !.typed = "new"]
  IN  Odd(c) \cup {With(c, {g}) : g \in {"-nodes", "-nocerts", "-nokeys"}}
      \cup {[c EXCEPT !.typed = x] : x \in {"nothing", "no terminal"}}
      \cup {[c EXCEPT !.passin = x] : x \in {None, NoPass, Pass("wrong")}}
  : f \in {"rsa.p12", "dsa.p12", "torn.p12", "chain.p12"}}

Pkcs7Lines == LET c == With(Line("pkcs7", "p7.pem"), {"-print_certs"})
              IN  Odd(c) \cup Odd([c EXCEPT !.in = "bad7.pem"]) \cup {[c EXCEPT !.in = f] : f \in {"torn7.pem", "both.pem"}}
                  \cup {[Line("pkcs7", "p7.pem") EXCEPT !.outform = f] : f \in {"PEM", "DER", "bad"}}

ParamLines == UNION {
  LET c == With([Line("ecparam", None) EXCEPT !.name = "secp256r1"], {"-genkey"})
  IN  Odd(c) \cup OddForms(c) \cup {With(c, {"-text"}), [c EXCEPT !.name = "nocurve"], [c EXCEPT !.name = None]},
  LET c == Line("ecparam", "rsa.pem") IN Odd(c),
  {[Line("ecparam", "ec.der") EXCEPT !.inform = "DER", !.outform = f] : f \in {None, "bad"}},
  LET c == With(Line("dhparam", "dh.pem"), {"-genkey"})
  IN  Odd(c) \cup {[c EXCEPT !.bits = b] : b \in {"good", "bad"}} \cup {With(c, {g}) : g \in {"-check", "-noout"}}
      \cup {[c EXCEPT !.in = None, !.bits = "good"]},
  LET c == With([Line("dsaparam", None) EXCEPT !.bits = "last"], {"-genkey"})
  IN  Odd(c) \cup {[c EXCEPT !.bits = "good"], [c EXCEPT !.in = "dh.pem"], With(c, {"-noout"})}}

DataLines == UNION {
  LET c == With(Line("hash", "data"), {"-sha256"}) IN Odd(c),
  {With(Line("hash", "data"), g) : g \in {{}, {"-md5", "-sha"}, {"-base64enc"}, {"-base64dec"}, {"-blake2b"}}},
  {With([Line("hash", None) EXCEPT !.stdin = Data], {g}) : g \in {"-sha", "-base64enc"}},
  {With([Line("md5", f) EXCEPT !.stdin = Data], {"-md5"}) : f \in {None, "data", "gone"}},
  LET c == Line("base64", "data")
  IN  Odd(c) \cup {[c EXCEPT !.in = None, !.stdin = s] : s \in {Data, Data \o <<Chunk(3)>>}},
  {With(Line("base64", f), {"-d"}) : f \in {"rsa.pem", "sealed.pem", "data"}}}

SignLine == With([Line("dgst", "data") EXCEPT !.sign = "rsa.pem"], {"-sha256"})
MacLine == With([Line("dgst", "data") EXCEPT !.mackey = [source |-> "key", text |-> "k"]],
                {"-hmac", "-sha256"})
VerifyLine == With([Line("dgst", "data") EXCEPT !.out = None, !.verify = "rsapub.pem",
                                                !.signature = "out"], {"-sha256"})
DgstLines == UNION {
  Odd(SignLine), Odd(MacLine), {VerifyLine},
  {[SignLine EXCEPT !.sign = f] : f \in {"dsa.pem", "gone", "rsapub.pem"}},
  {[SignLine EXCEPT !.in = "data2"], [SignLine EXCEPT !.flags = {}], With(SignLine, {"-md5"})},
  {[MacLine EXCEPT !.mackey = x] : x \in {None, [source |-> "hexkey", text |-> "odd"]}}}

\* Requests.
NewReq == [Line("req", None) EXCEPT !.key = "ec.pem", !.subj = Name("new")]
MakesKey == With([Line("req", None) EXCEPT !.newkey = "rsa:", !.keyout = "key.out", !.subj = Name("new")], {"-nodes"})
SealsKey == [MakesKey EXCEPT !.flags = {}, !.passout = Pass("pw")]
OldReq == Line("req", "csr.pem")
AddExt(names) == [name |-> "subjectAltName", names |-> names]
ReqLines == UNION {
  Odd(NewReq), Odd(OldReq), Odd(MakesKey),
  OddForms(OldReq) \cup {With(OldReq, {g}) : g \in {"-verify", "-text", "-noout", "-x509"}},
  {With([NewReq EXCEPT !.subj = s, !.answers = a], g) :
     s \in {None, Untagged}, a \in {<<"a", "", "b">>}, g \in {{}, {"-x509"}}},
  {[NewReq EXCEPT !.key = f] : f \in {None, "gone", "rsapub.pem", "dsa.pem", "rsa.pem"}},
  {[c EXCEPT !.addext = x] : c \in {NewReq, OldReq},
     x \in {AddExt(<<Dns>>), AddExt(<<Alt("IP", FALSE)>>), [AddExt(<<Dns>>) EXCEPT !.name = "keyUsage"]}},
  {[OldReq EXCEPT !.key = f, !.days = d] : f \in {"ec.pem", "rsa.pem"}, d \in {0, 1}},
  {[NewReq EXCEPT !.subj = None, !.config = f, !.ext = e, !.answers = a] :
     f \in {"req.cnf", "ask.cnf", "data"}, e \in {None, "bad", "gone"}, a \in {<< >>, <<"t", "t">>, <<"z">>}},
  {With([NewReq EXCEPT !.config = "req.cnf", !.ext = "none"], {"-x509"})},
  {[MakesKey EXCEPT !.keyout = f] : f \in {None, "out", Unwritable}},
  {[MakesKey EXCEPT !.newkey = x] : x \in {"ec:", "no colon"}} \cup {[MakesKey EXCEPT !.key = "ec.pem"]},
  {[c EXCEPT !.keyout = "key.out"] : c \in {[SealsKey EXCEPT !.passout = x, !.typed = t] :
     x \in {None, Pass("pw"), NoPass}, t \in {"no terminal", "nothing", "new"}}},
  {[OldReq EXCEPT !.newkey = "rsa:", !.keyout = "key.out"], [NewReq EXCEPT !.twice = "-addext"],
   [NewReq EXCEPT !.inkey = "ec.pem"]}}

\* Certificates.
Show == Line("x509", "leaf.pem")
Certify == With([Line("x509", "csr.pem") EXCEPT !.key = "ec.pem"], {"-req"})
X509Lines == UNION {
  Odd(Show), OddForms(Show), {With(Show, {g}) : g \in {"-text", "-modulus", "-pubkey", "-noout", "-req"}},
  {With(Show, {"-text", "-pubkey", "-noout", "-subject"}), [Show EXCEPT !.key = "data"],
   With(Line("x509", "ca.pem"), {"-modulus"}),
   [Show EXCEPT !.config = "req.cnf", !.ext = "v3"], [Line("x509", None) EXCEPT !.stdin = MCDisk["leaf.pem"]]},
  {[Line("x509", "leaf.der") EXCEPT !.inform = "DER", !.outform = f] : f \in {None, "DER"}},
  {With([Line("x509", "leaf.der") EXCEPT !.inform = "DER", !.key = "ec.pem"], {"-req"})},
  Odd(Certify) \cup {[Certify EXCEPT !.key = f] : f \in {None, "rsa.pem", "gone", "ec.der"}},
  {[Certify EXCEPT !.config = "req.cnf", !.ext = e] : e \in {None, "v3", "bad"}}}

CaLine == [Line("ca", "csr.pem") EXCEPT !.key = "rsa.pem", !.cert = "ca.pem"]
Chimera == With([Line("ca", "leaf.pem") EXCEPT !.key = "ec.pem", !.altkey = "mldsa.pem",
                                               !.altpub = "mldsapub.pem"], {"-altextend"})
ForServer == [Chimera EXCEPT !.subjkey = "ec.pem", !.cert = "ca.pem"]
CaLines == UNION {
  Odd(CaLine) \cup {[CaLine EXCEPT !.key = f] : f \in {None, "ec.pem", "gone", "dsa.pem", "rsapub.pem"}},
  {[CaLine EXCEPT !.cert = f] : f \in {None, "data", "leaf.pem"}},
  {With([CaLine EXCEPT !.key = f, !.cert = None], {"-selfsign"}) : f \in {None, "ec.pem", "rsa.pem"}},
  {[CaLine EXCEPT !.ext = "v3"],
   With([Line("ca", "csr.pem") EXCEPT !.altkey = "mldsa.pem"], {"-selfsign"})},
  Odd(Chimera) \cup OddForms(Chimera) \cup {ForServer, With(Chimera, {"-selfsign"})},
  {[Chimera EXCEPT !.key = f] : f \in {None, "rsa.pem"}} \cup {[ForServer EXCEPT !.key = "rsa.pem"]},
  {[Chimera EXCEPT !.altkey = f] : f \in {None, "ec.pem"}} \cup {[Chimera EXCEPT !.altpub = None, !.altkey = None]},
  {[ForServer EXCEPT !.subjkey = f] : f \in {None, "data"}} \cup {[ForServer EXCEPT !.cert = None]}}

ShowCrl == [Line("crl", "crl.pem") EXCEPT !.cafile = "ca.pem"]
Verify == [Line("verify", "leaf.pem") EXCEPT !.cafile = "ca.pem"]
TrustLines == UNION {
  Odd(ShowCrl) \cup OddForms(ShowCrl) \cup {With(ShowCrl, {g}) : g \in {"-text", "-noout"}},
  {[ShowCrl EXCEPT !.in = "badcrl.pem", !.cafile = f] : f \in {None, "ca.pem"}},
  OddIn(Verify) \cup {Verify, With(Verify, {"-h"}), [Verify EXCEPT !.inform = "DER"], [Verify EXCEPT !.twice = "-CAfile"]},
  {[Verify EXCEPT !.in = f] : f \in {"ca.pem", "forged.pem", "leaf.der"}},
  {[c EXCEPT !.cafile = f] : c \in {Verify, With(Verify, {"-partial_chain"})}, f \in {None, "leaf.pem", "data"}},
  {[Verify EXCEPT !.untrusted = f] : f \in {"forged.pem", "data"}},
  {[Verify EXCEPT !.in = f, !.cafile = "root.pem"] : f \in {"root.der", "leaf.pem"}}}

CertFirst == ReqLines \cup X509Lines \cup CaLines \cup TrustLines
First == PkeyLines \cup RsaLines \cup Pkcs8Lines \cup Pkcs12Lines \cup Pkcs7Lines \cup ParamLines
         \cup DataLines \cup DgstLines \cup CertFirst

\* On what the first run wrote: to the terminal, or onto itself where the
\* output is opened after the input was read.
Again(c) == [c EXCEPT !.in = "out",
                      !.out = IF c.tool \in Early \cup {"base64", "hash"} THEN None ELSE @]

Second ==
  {Again(c) : c \in {d \in First \ CertFirst : d.in # None}}
  \cup {Line("pkey", "out"), With(Line("hash", "out"), {"-sha256"}),
        [Again(Line("rsa", "rsa.pem")) EXCEPT !.passin = Pass("new")],
        [Again(Line("pkcs8", "rsa.pem")) EXCEPT !.typed = "new"],
        With(Line("dsaparam", "out"), {"-genkey", "-noout"}),
        With(Again(Line("base64", "data")), {"-d"}),
        VerifyLine, With(VerifyLine, {"-md5"}), [VerifyLine EXCEPT !.in = "data2"],
        [VerifyLine EXCEPT !.sign = "rsa.pem"], [VerifyLine EXCEPT !.sign = "rsa.pem", !.out = "out"]}

\* What is asked, verified or certified of a request or certificate that a run
\* has written, onto itself or beside it.
Onto(c, out) == [c EXCEPT !.in = "out", !.out = out]
CertSecond ==
  {Onto(c, "out") : c \in {OldReq, Show, Certify, ShowCrl, CaLine}}
  \cup {Onto(CaLine, "out2"), Onto([Certify EXCEPT !.key = "rsa.pem"], "out2"),
        Onto([Certify EXCEPT !.key = "key.out"], "out2"), Onto([CaLine EXCEPT !.key = "key.out", !.cert = "out"], "out2"),
        Onto(With(OldReq, {"-verify"}), "out2"), Onto([OldReq EXCEPT !.addext = AddExt(<<Alt("IP", TRUE)>>), !.key = "ec.pem"], "out2"),
        Onto([Chimera EXCEPT !.in = "out"], "out2"),
        Onto(Verify, None), Onto([Verify EXCEPT !.cafile = "out"], None),
        [CaLine EXCEPT !.cert = "out", !.key = "ec.pem", !.out = "out2"],
        [Line("rsa", "key.out") EXCEPT !.passin = Pass("pw"), !.out = "out2"]}

CertThird ==
  {[c EXCEPT !.in = "out2", !.out = None] : c \in
     {Verify, [Verify EXCEPT !.cafile = "out"], [Verify EXCEPT !.untrusted = "out"], With(OldReq, {"-verify"})}}

MCLines == First \cup Second \cup CertSecond \cup CertThird

MCLinesAfter(n, c) ==
  CASE n = 0                             -> First
    [] n = 1 /\ c.tool \in CertTools_    -> CertSecond
    [] n = 1                             -> Second
    [] n = 2 /\ c.tool \in {"req", "x509", "ca"} /\ c.out = "out2" -> CertThird
    [] OTHER                             -> {}
=============================================================================
