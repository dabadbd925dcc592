----------------------------- MODULE MCCommands -----------------------------
(***************************************************************************)
(* Commands on small instances.                                            *)
(***************************************************************************)
EXTENDS Commands, SequencesExt

\* rand: every command line of up to four tokens: the options, help, an
\* unknown flag, a name and numbers on both sides of half of INT_MAX.
MaxTokens == 4
Numbers == [three |-> 3, seven |-> 7]
Tokens == {"-out", "-base64", "-hex", "-h", "-foo", "name", "three", "seven"}

MCDashed == {"-out", "-base64", "-hex", "-h", "-help", "-foo"}
MCAtoi == [t \in Tokens \cup {"wolfssl", "rand"} |->
             IF t \in DOMAIN Numbers THEN Numbers[t] ELSE 0]
MCLines == {<<"wolfssl", "rand">> \o line : line \in BoundedSeq(Tokens, MaxTokens)}

\* number: strings of up to four characters and bounds around powers of ten.
MCStrings == BoundedSeq({0, 1, 2, 5, 9, Other}, 4)
MCBounds == {<<1, 655>>, <<0, 7>>, <<0, 99>>, <<10, 129>>, <<0, 1000>>, <<20, 10>>}

\* ocsp: two CAs, certificates of the first one that the index calls good and
\* revoked or does not have, and signers that may sign for it or not.
MCCert(subject, issuer, by, key, more) ==
  [subject |-> subject, issuer |-> issuer, by |-> by, key |-> key, serial |-> subject,
   ca |-> "ca" \in more, ocsp |-> "ocsp" \in more, aia |-> IF "aia" \in more THEN 1 ELSE None]
MCFile(kind, form, of) == [kind |-> kind, form |-> form, of |-> of]
MCRoot == MCCert("root", "root", "k1", "k1", {"ca"})
MCOcspDisk ==
  ("index" :> ("leaf" :> "good" @@ "left" :> "revoked" @@ "odd" :> "unknown")) @@
  ("root" :> MCFile("cert", "PEM", MCRoot)) @@ ("root.der" :> MCFile("cert", "DER", MCRoot)) @@
  ("fake" :> MCFile("cert", "PEM", MCCert("root", "root", "k4", "k4", {"ca"}))) @@
  ("leaf" :> MCFile("cert", "PEM", MCCert("leaf", "root", "k1", "k2", {"aia"}))) @@
  ("left" :> MCFile("cert", "DER", MCCert("left", "root", "k1", "k2", {}))) @@
  ("odd" :> MCFile("cert", "PEM", MCCert("odd", "root", "k1", "k2", {}))) @@
  ("new" :> MCFile("cert", "PEM", MCCert("new", "root", "k1", "k2", {}))) @@
  ("signer" :> MCFile("cert", "PEM", MCCert("signer", "root", "k1", "k3", {"ocsp"}))) @@
  ("k1" :> MCFile("key", "PEM", "k1")) @@ ("k2" :> MCFile("key", "DER", "k2")) @@
  ("k3" :> MCFile("key", "DER", "k3")) @@ ("k4" :> MCFile("key", "PEM", "k4"))
MCRevised == "leaf" :> "revoked" @@ "new" :> "good"

MCLine(args) == [args |-> args, twice |-> {}]
MCResponder == "-port" :> 1 @@ "-index" :> "index" @@ "-CA" :> "root" @@ "-rsigner" :> "root" @@ "-rkey" :> "k1"
MCDelegated == "-rsigner" :> "signer" @@ "-rkey" :> "k3" @@ MCResponder
MCClient == "-cert" :> "leaf" @@ "-issuer" :> "root" @@ "-url" :> 1
MCWithout(args, option) == [o \in DOMAIN args \ {option} |-> args[o]]
MCResponders == {MCResponder, MCDelegated} \cup {(o :> x) @@ MCResponder : o \in {"-port"}, x \in {None, 0, 2}}
  \cup {(o[1] :> o[2]) @@ MCResponder : o \in
         {<<"-CA", "fake">>, <<"-CA", "root.der">>, <<"-CA", "k2">>, <<"-CA", "gone">>, <<"-rsigner", "k1">>,
          <<"-rsigner", "leaf">>, <<"-rkey", "k3">>, <<"-rkey", "leaf">>, <<"-index", "gone">>,
          <<"-nrequest", 0>>, <<"-nrequest", 1>>, <<"-nrequest", None>>, <<"-scgi", None>>,
          <<"-CAfile", "root">>, <<"-issuer", "root">>}}
  \cup {MCWithout(MCResponder, o) : o \in DOMAIN MCResponder}
  \cup {"-CA" :> "fake" @@ "-rsigner" :> "fake" @@ "-rkey" :> "k4" @@ MCResponder,
        "-rsigner" :> "leaf" @@ "-rkey" :> "k2" @@ MCResponder}
MCClients == {(o[1] :> o[2]) @@ MCClient : o \in
         {<<"-cert", "left">>, <<"-cert", "odd">>, <<"-cert", "new">>, <<"-cert", "k2">>, <<"-cert", "k1">>,
          <<"-cert", None>>, <<"-issuer", "fake">>, <<"-issuer", "leaf">>, <<"-issuer", "root.der">>,
          <<"-CAfile", "fake">>, <<"-CAfile", "gone">>, <<"-CAfile", None>>, <<"-url", 2>>, <<"-help", None>>, <<"-no_nonce", None>>,
          <<"-path", "x">>, <<"-port", 2>>}}
  \cup {MCWithout(MCClient, o) : o \in DOMAIN MCClient}
  \cup {MCClient, "-issuer" :> "fake" @@ "-CAfile" :> "root" @@ MCClient, MCWithout("-cert" :> "left" @@ MCClient, "-url")}
MCTwo(x, y) == "p" :> MCLine(x) @@ "q" :> MCLine(y)
MCOcspSessions == {MCTwo(x, MCClient) : x \in MCResponders} \cup {MCTwo(MCResponder, y) : y \in MCClients \cup {MCResponder}}
  \cup {MCTwo(MCDelegated, y) : y \in {MCClient, "-cert" :> "left" @@ MCClient}}
  \cup {("p" :> MCLine(MCResponder) @@ "q" :> [MCLine(MCClient) EXCEPT !.twice = {"-cert"}])}

\* enc: texts that end in, at and next to the ends of blocks and chunks, with
\* bytes that look like padding and bytes that do not.
MCTexts == {[i \in 1 .. n |-> Byte(i, v)] : n \in {0, 1, 3, 4, 5, 8}, v \in {1, 2}}
MCGivens == SUBSET {crypt_options[i] : i \in DOMAIN crypt_options}

\* genkey: each algorithm and form, onto nothing or onto an older pair; with
\* every size and -output; or, onto an older pair, with one thing amiss in one
\* of the three lines.
MCForms(alg) ==
  CASE alg = "ed25519"         -> {"PEM", "DER", "RAW"}
    [] alg \in {"xmss", "xmssmt"} -> {None}
    [] OTHER                   -> {"PEM", "DER"}
MCOutputs == {None, "pub", "priv"}
MCAlgorithms == {"ed25519", "ecc", "rsa", "dilithium", "ml-dsa", "xmss", "xmssmt"}
MCSizes(alg) ==
  CASE alg = "xmss"   -> {None, 16, 160, 7} \X {None}
    [] alg = "xmssmt" -> {None, 20, 400, 60} \X {None, 4, 12}
    [] OTHER          -> {<<None, None>>}

\* A stateful key is named for its parameters, so that it can be used.
MCMake(alg, form, half, hl) ==
  LET o == [out |-> NoParam, outform |-> form, output |-> half, strength |-> "good",
            height |-> hl[1], layer |-> hl[2], help |-> FALSE, twice |-> FALSE]
  IN  [o EXCEPT !.out = MadeParam(alg, o)]
MCOddMakes(o) ==
  {[o EXCEPT !.out = x] : x \in {None, NoParam, Param(16, 1), Param(20, 2)}}
  \cup {[o EXCEPT !.outform = x] : x \in {None, "RAW", "bad"}}
  \cup {[o EXCEPT !.strength = "bad"], [o EXCEPT !.help = TRUE], [o EXCEPT !.twice = TRUE]}

MCSign(alg, form) ==
  [words |-> {alg}, sign |-> TRUE, verify |-> FALSE, inkey |-> "priv", in |-> "m",
   out |-> TRUE, sigfile |-> None, inform |-> MadeForm(alg, form), pubin |-> FALSE,
   help |-> FALSE, twice |-> FALSE]
MCVerify(alg, form) ==
  [MCSign(alg, form) EXCEPT !.sign = FALSE, !.verify = TRUE, !.inkey = "pub",
                            !.sigfile = "sig", !.pubin = TRUE]
MCOddLines(o) ==
  {[o EXCEPT !.inkey = x] : x \in {None, "priv", "pub"}}
  \cup {[o EXCEPT !.in = x] : x \in {None, "gone", "empty", "n"}}
  \cup {[o EXCEPT !.inform = x] : x \in {None, "PEM", "DER", "RAW", "bad"}}
  \cup {[o EXCEPT !.words = @ \cup {x}] : x \in {"rsa", "ecc"}}
  \cup {[o EXCEPT !.out = FALSE], [o EXCEPT !.pubin = ~@], [o EXCEPT !.sigfile = None],
        [o EXCEPT !.sign = TRUE, !.verify = TRUE], [o EXCEPT !.sign = FALSE, !.verify = FALSE],
        [o EXCEPT !.sign = TRUE, !.verify = TRUE, !.in = None, !.sigfile = "sig"],
        [o EXCEPT !.help = TRUE], [o EXCEPT !.twice = TRUE]}

MCUse(alg, had, make, sign, verify) ==
  [alg |-> alg, had |-> had, make |-> make, sign |-> sign, verify |-> verify]
MCUsesOf(alg, form) ==
  LET m == MCMake(alg, form, None, <<None, None>>)
      s == MCSign(alg, form)
      v == MCVerify(alg, form)
  IN  {MCUse(alg, had, MCMake(alg, form, half, hl), s, v) :
         had \in BOOLEAN, half \in MCOutputs, hl \in MCSizes(alg)}
      \cup {MCUse(alg, TRUE, o, s, v) : o \in MCOddMakes(m)}
      \cup {MCUse(alg, TRUE, m, o, v) : o \in MCOddLines(s)}
      \cup {MCUse(alg, TRUE, m, s, o) : o \in MCOddLines(v)}
MCUses == UNION {UNION {MCUsesOf(alg, form) : form \in MCForms(alg)} : alg \in MCAlgorithms}

\* dhparam: lengths on both sides of each of DER's forms, and an x that is as
\* long as p, and one that is longer.
MCDerNumbers == [len : {0, 100, 127, 128, 129, 255, 300}, lead : BOOLEAN]
=============================================================================
