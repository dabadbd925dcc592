----------------------------- MODULE RequestTools -----------------------------
(***************************************************************************)
(* "wolfssl req" (src/x509/clu_request_setup.c) and what it shares with    *)
(* the other commands of certificates: configuration files (clu_config.c)  *)
(* and names (src/tools/clu_funcs.c).                                      *)
(*                                                                         *)
(* What a request or a certificate says is a record; its "by" is the key   *)
(* whose signature is right over just that, if there is one.  A            *)
(* configuration is a block whose sections have been read.                 *)
(***************************************************************************)
EXTENDS KeyTools

Blank == [subject |-> << >>, issuer |-> None, key |-> None, ca |-> "unset", usage |-> {},
          skid |-> None, alt |-> {}, by |-> None, second |-> None]

\* A signature is right over what was signed, and nothing else.
Altered(x, y) == IF [y EXCEPT !.by = x.by] = x THEN x ELSE [y EXCEPT !.by = None]
Sign(x, key) == [x EXCEPT !.by = key]

-----------------------------------------------------------------------------
(* Extensions.                                                             *)

Upper(word) == IF word = "true" THEN "TRUE" ELSE word

(* parseBasicConstraint takes words apart at ':' only: in CA:TRUE,pathlen:0*)
(* the word after CA is TRUE,pathlen, and that makes no CA.                *)
BasicConstraints(x, basic) ==
  IF basic.critical /\ basic.words = << >> THEN x
  ELSE [x EXCEPT !.ca =
          IF \E i \in 1 .. Len(basic.words) - 1 :
               basic.words[i] = "CA" /\ Upper(basic.words[i + 1]) = "TRUE"
          THEN "yes" ELSE "no"]

SubjectKeyID(x, word) ==
  IF word = "hash" /\ Supported(x.key) THEN [x EXCEPT !.skid = x.key] ELSE x

(* A word that is no use of a key is dropped without a word.               *)
Uses == {"digitalSignature", "nonRepudiation", "contentCommitment", "keyEncipherment",
         "dataEncipherment", "keyAgreement", "keyCertSign", "cRLSign", "encipherOnly",
         "decipherOnly"}
KeyUsage(x, words) == [x EXCEPT !.usage = words \cap Uses]

AltTypes == {"IP", "DNS", "URI", "RID", "email"}
AltNameRight(n) == n.type \in AltTypes /\ n.right

(* addAltName for each name of a list, up to the first that is not right.  *)
AddAltNames(x, names) ==
  IF \A i \in DOMAIN names : AltNameRight(names[i])
  THEN Loaded(Success, [x EXCEPT !.alt = @ \cup {names[i] : i \in DOMAIN names}])
  ELSE Loaded(FatalError, x)

(* setExtensions: only an alternative name that is not right is an error;  *)
(* a list of them that is not in the file is an empty one.                 *)
SetExtensions(x, conf, sect) ==
  LET e     == conf.sections[sect]
      basic == IF e.basic = None THEN x ELSE BasicConstraints(x, e.basic)
      skid  == IF e.skid = None THEN basic ELSE SubjectKeyID(basic, e.skid)
      usage == IF e.usage = None THEN skid ELSE KeyUsage(skid, e.usage)
      names == IF e.at \in DOMAIN conf.lists THEN conf.lists[e.at] ELSE << >>
  IN  AddAltNames(usage, IF e.at = None THEN e.alt ELSE names)

ParseAddExt(x, addext) ==
  IF addext.name = "subjectAltName" THEN AddAltNames(x, addext.names) ELSE Loaded(FatalError, x)

-----------------------------------------------------------------------------
(* Names.  A line that is not there, or is empty, answers with nothing.    *)

Answer(c, i) == IF i \in DOMAIN c.answers THEN c.answers[i] ELSE ""

(* CheckDisName: what is typed, or the default; "." leaves the field out.  *)
Field(c, field, i) ==
  IF Answer(c, i) # "" THEN Answer(c, i) ELSE field.default

FieldRight(c, field, i) ==
  Field(c, field, i) \in {None, "."} \/ Field(c, field, i) \in field.allowed

(* setDisNames over the fields the section has, in the order of the code.  *)
DisNames(c, conf, x) ==
  LET typed == [i \in DOMAIN conf.dn |->
                  IF conf.prompt THEN Field(c, conf.dn[i], i) ELSE conf.dn[i].current]
      name  == SelectSeq(typed, LAMBDA text : text \notin {None, "."})
  IN  IF conf.dn = None THEN Loaded(Success, x)
      ELSE IF conf.prompt /\ \E i \in DOMAIN conf.dn : ~FieldRight(c, conf.dn[i], i)
           THEN Loaded(FatalError, x)
      ELSE Loaded(Success, [x EXCEPT !.subject = name])

NoConfig == [prompt |-> TRUE, dn |-> None, exts |-> None, sections |-> << >>, lists |-> << >>]

(* What NCONF_load makes of a file: of one it cannot read, nothing, and    *)
(* nobody looks.                                                           *)
ConfigOf(content) ==
  IF content # Absent /\ content # << >> /\ content[1].kind = "config" THEN content[1].of ELSE NoConfig

ReadConfig(c, content, x) ==
  LET conf == ConfigOf(content)
      sect == IF c.ext # None THEN c.ext ELSE conf.exts
      exts == IF sect \in DOMAIN conf.sections THEN SetExtensions(x, conf, sect)
              ELSE Loaded(IF c.ext # None THEN FatalError ELSE Success, x)
  IN  IF exts.ret = Success THEN DisNames(c, conf, exts.what) ELSE exts

(* CreateX509Name asks for seven fields.                                   *)
CreateX509Name(c) ==
  SelectSeq([i \in 1 .. 7 |-> Answer(c, i)], LAMBDA text : text # "")

(* ParseX509NameString: every part needs a short tag and "=".              *)
Untagged == <<"no tag">>

-----------------------------------------------------------------------------
(* wolfssl req.  The scan of its options ends at the first error.          *)
ReqScan(c, disk) ==
  IF c.twice = "-addext" THEN InputError
  ELSE IF \/ c.twice # None \/ c.inkey # None
          \/ c.in # None /\ disk[c.in] = Absent
          \/ c.key # None /\ disk[c.key] = Absent
          \/ c.newkey = "no colon"
          \/ c.passout # None /\ Password(c.passout).ret # Success
       THEN FatalError
  ELSE Success

MadeKey == [alg |-> "rsa", group |-> "one", id |-> "new"]

ReqInput(c, disk) ==
  LET b == Found(disk[c.in], "request", InForm(c))
  IN  IF c.in = None THEN Loaded(Success, Blank)
      ELSE IF b = None THEN Loaded(FatalError, Blank)
      ELSE Loaded(Success, b.of)

(* The key of -key; without one, the one -newkey makes.                    *)
ReqKey(c, disk) ==
  LET given == ReadPrivate(disk[c.key], "PEM", None)
  IN  IF c.key # None THEN Loaded(IF given = None THEN InputError ELSE Success, given)
      ELSE IF c.newkey = None THEN Loaded(IF c.in = None THEN InputError ELSE Success, None)
      ELSE IF c.newkey = "rsa:" THEN Loaded(Success, MadeKey)
      ELSE Loaded(FatalError, None)

(* What makes a new signature necessary; a new key does not.               *)
ReSign(c) ==
  c.in = None \/ c.days > 0 \/ c.config # None \/ c.subj # None \/ c.addext # None

(* The subject and the extensions, in the order of the options that set    *)
(* them: the configuration, -subj, -addext, then the terminal.             *)
ReqConfig(c, disk, x) == IF c.config = None THEN Loaded(Success, x) ELSE ReadConfig(c, disk[c.config], x)

ReqSubject(c, x) ==
  IF c.subj = Untagged THEN Loaded(InputError, x)
  ELSE IF c.subj # None THEN Loaded(Success, [x EXCEPT !.subject = c.subj])
  ELSE Loaded(Success, x)

ReqAddExt(c, x) == IF c.addext = None THEN Loaded(Success, x) ELSE ParseAddExt(x, c.addext)

ReqTyped(c, x) ==
  IF c.subj = None /\ c.config = None /\ c.in = None
  THEN [x EXCEPT !.subject = CreateX509Name(c)] ELSE x

ReqDefaultCa(c, x) ==
  IF Has(c, "-x509") /\ x.ca = "unset" THEN [x EXCEPT !.ca = "yes"] ELSE x

(* All of it comes before the output is opened.                            *)
ReqLoad(c, disk) ==
  LET input  == ReqInput(c, disk)
      key    == ReqKey(c, disk)
      keyed  == IF key.what = None THEN input.what ELSE [input.what EXCEPT !.key = key.what]
      conf   == ReqConfig(c, disk, keyed)
      named  == ReqSubject(c, conf.what)
      added  == ReqAddExt(c, named.what)
      signer == IF ReSign(c) /\ key.what = None THEN FatalError ELSE Success
      whole  == ReqDefaultCa(c, ReqTyped(c, added.what))
      rets   == <<input.ret, key.ret, conf.ret, named.ret, added.ret, signer>>
      wrong  == {i \in DOMAIN rets : rets[i] # Success}
  IN  IF wrong # {} THEN Loaded(rets[CHOOSE i \in wrong : \A j \in wrong : i <= j], None)
      ELSE Loaded(Success, [orig |-> input.what, x |-> Altered(input.what, whole), key |-> key.what])

(* What goes out as a certificate without a new signature has the one of   *)
(* the request, which is right over the request only.                      *)
Issued(c, x, key) ==
  LET self == IF Has(c, "-x509") THEN [x EXCEPT !.issuer = IF @ = None THEN x.subject ELSE @] ELSE x
  IN  IF ReSign(c) THEN Sign(self, key)
      ELSE IF Has(c, "-x509") THEN Sign(self, None)
      ELSE self

(* -verify takes the key that was read or made, or else the request's.     *)
ReqVerifies(c, got) ==
  LET signed == IF ReSign(c) THEN got.key ELSE got.orig.by
      key    == IF got.key # None THEN got.key ELSE got.x.key
  IN  signed # None /\ signed = key

ReqMake(c, got) ==
  LET form == IF OutForm(c) = "DER" THEN "DER" ELSE "PEM"
      kind == IF Has(c, "-x509") THEN "cert" ELSE "request"
      text == IF Has(c, "-text") THEN <<Block("text", None, "text")>> ELSE << >>
      body == IF Has(c, "-noout") THEN << >>
              ELSE <<Block(kind, Issued(c, got.x, got.key), form)>>
  IN  IF \/ ReSign(c) /\ ~Supported(got.key)
         \/ Has(c, "-verify") /\ ~ReqVerifies(c, got)
      THEN Refused ELSE Made(Success, text \o body)

(* After that -newkey writes the key, the one of -key if that was given.   *)
(* Nobody sets the buffer of the password before it is typed: what is in   *)
(* it then seals the key, or is empty, which is an error.                  *)
ReqPasswords(c) ==
  IF c.passout # None THEN {c.passout.text}
  ELSE IF c.typed \in {"no terminal", "nothing"} THEN {Garbage, ""}
  ELSE {c.typed}

ReqKeyOut(c, got, pass) ==
  IF ~Supported(got.key) THEN Refused
  ELSE IF Has(c, "-nodes") THEN PrivateBlock(got.key, "PEM")
  ELSE IF pass = "" /\ c.passout = None THEN Refused
  ELSE Made(Success, <<Sealed(got.key, pass)>>)
=============================================================================
