--------------------------- MODULE FileTools_proofs ---------------------------
(***************************************************************************)
(* Theorems about the tools that work from file to file.                   *)
(***************************************************************************)
EXTENDS FileTools, FiniteSetTheorems, SequenceTheorems, WellFoundedInduction, TLAPS

Rets == {Success, FatalError, InputError, InputFileError, BadFuncArg}

-----------------------------------------------------------------------------
(* What the parts of a run return.                                         *)

LEMMA ScanReturns ==
  ASSUME NEW c, NEW d, c.tool \in Tools
  PROVE  Scan(c, d) \in Rets
<1> USE DEF Rets, ScanErrors
<1>1. CASE c.tool \in Early
  BY <1>1 DEF Early, Scan, PkeyScan, RsaScan, Pkcs8Scan, Pkcs12Scan, Pkcs7Scan
<1>2. CASE c.tool \in Params_
  BY <1>2 DEF Params_, Scan, EcparamScan, DhScan, DsaScan
<1>3. CASE c.tool \in {"hash", "md5", "base64", "dgst"}
  BY <1>3 DEF Scan, HashScan, AlgHashScan, Base64Scan, DgstScan
<1>4. CASE c.tool \in CertTools_
  BY <1>4 DEF CertTools_, Scan, ReqScan, CertScan, VerifyScan, CrlScan, CaScan
<1> QED
  BY <1>1, <1>2, <1>3, <1>4 DEF Tools, OpensLoaded, OpensMade, Prints, Early, CertTools_

LEMMA ExtensionsReturn ==
  ASSUME NEW x, NEW conf, NEW sect
  PROVE  SetExtensions(x, conf, sect).ret \in {Success, FatalError}
BY DEF SetExtensions, AddAltNames, Loaded

LEMMA ConfigReturns ==
  ASSUME NEW c, NEW content, NEW x
  PROVE  ReadConfig(c, content, x).ret \in {Success, FatalError}
<1> DEFINE conf == ConfigOf(content)
           sect == IF c.ext # None THEN c.ext ELSE conf.exts
           exts == IF sect \in DOMAIN conf.sections THEN SetExtensions(x, conf, sect)
                   ELSE Loaded(IF c.ext # None THEN FatalError ELSE Success, x)
<1>1. exts.ret \in {Success, FatalError}
  BY ExtensionsReturn DEF Loaded
<1>2. DisNames(c, conf, exts.what).ret \in {Success, FatalError}
  BY DEF DisNames, Loaded
<1>3. ReadConfig(c, content, x) = IF exts.ret = Success THEN DisNames(c, conf, exts.what) ELSE exts
  BY DEF ReadConfig
<1> QED
  BY <1>1, <1>2, <1>3

LEMMA RequestReturns ==
  ASSUME NEW c, NEW d
  PROVE  /\ ReqLoad(c, d).ret \in Rets
         /\ ReqLoad(c, d).ret = Success
            => /\ ReqInput(c, d).ret = Success
               /\ ReqKey(c, d).ret = Success
<1> DEFINE input  == ReqInput(c, d)
           key    == ReqKey(c, d)
           keyed  == IF key.what = None THEN input.what ELSE [input.what EXCEPT !.key = key.what]
           conf   == ReqConfig(c, d, keyed)
           named  == ReqSubject(c, conf.what)
           added  == ReqAddExt(c, named.what)
           signer == IF ReSign(c) /\ key.what = None THEN FatalError ELSE Success
           rets   == <<input.ret, key.ret, conf.ret, named.ret, added.ret, signer>>
           wrong  == {i \in DOMAIN rets : rets[i] # Success}
           first  == CHOOSE i \in wrong : \A j \in wrong : i <= j
<1>1. input.ret \in Rets
  BY DEF ReqInput, Loaded, Rets
<1>2. key.ret \in Rets
  BY DEF ReqKey, Loaded, Rets
<1>3. conf.ret \in Rets
  BY ConfigReturns DEF ReqConfig, Loaded, Rets
<1>4. named.ret \in Rets
  BY DEF ReqSubject, Loaded, Rets
<1>5. added.ret \in Rets
  BY DEF ReqAddExt, ParseAddExt, AddAltNames, Loaded, Rets
<1>6. signer \in Rets
  BY DEF Rets
<1>7. rets \in [1 .. 6 -> Rets] /\ DOMAIN rets = 1 .. 6
  BY <1>1, <1>2, <1>3, <1>4, <1>5, <1>6
<1>8. ASSUME wrong # {}
      PROVE  first \in wrong
  <2> HIDE DEF rets
  <2>1. wrong \subseteq 1 .. 6
    BY <1>7
  <2>2. \E i \in wrong : \A j \in wrong : i <= j
    <3> HIDE DEF wrong
    <3>1. CASE 1 \in wrong
      BY <3>1, <2>1
    <3>2. CASE 1 \notin wrong /\ 2 \in wrong
      BY <3>2, <2>1
    <3>3. CASE {1, 2} \cap wrong = {} /\ 3 \in wrong
      BY <3>3, <2>1
    <3>4. CASE {1, 2, 3} \cap wrong = {} /\ 4 \in wrong
      BY <3>4, <2>1
    <3>5. CASE {1, 2, 3, 4} \cap wrong = {} /\ 5 \in wrong
      BY <3>5, <2>1
    <3>6. CASE {1, 2, 3, 4, 5} \cap wrong = {}
      <4>1. \A j \in wrong : j = 6
        BY <3>6, <2>1
      <4>2. 6 \in wrong
        BY <4>1, <1>8
      <4> QED
        BY <4>1, <4>2
    <3> QED
      BY <3>1, <3>2, <3>3, <3>4, <3>5, <3>6
  <2> QED
    BY <2>2
<1>9. ReqLoad(c, d) =
        IF wrong # {} THEN Loaded(rets[first], None)
        ELSE Loaded(Success, [orig |-> input.what,
                              x |-> Altered(input.what, ReqDefaultCa(c, ReqTyped(c, added.what))),
                              key |-> key.what])
  BY DEF ReqLoad
<1>10. CASE wrong # {}
  <2>1. first \in 1 .. 6 /\ rets[first] # Success
    <3> HIDE DEF rets, first
    <3> QED
      BY <1>7, <1>8, <1>10
  <2> HIDE DEF rets, first, wrong
  <2> QED
    BY <1>7, <1>9, <1>10, <2>1 DEF Loaded
<1>11. CASE wrong = {}
  <2>1. rets[1] = Success /\ rets[2] = Success
    <3> HIDE DEF rets
    <3> QED
      BY <1>7, <1>11
  <2>2. input.ret = Success /\ key.ret = Success
    BY <2>1
  <2> HIDE DEF rets, first, wrong
  <2> QED
    BY <1>9, <1>11, <2>2 DEF Loaded, Rets
<1> QED
  BY <1>10, <1>11

LEMMA LoadReturns ==
  ASSUME NEW c, NEW d, c.tool \in Tools
  PROVE  Load(c, d).ret \in Rets
<1> USE DEF Rets, Loaded
<1>1. CASE c.tool \in {"pkey", "rsa"}
  BY <1>1 DEF Load, PkeyLoad, RsaLoad
<1>2. CASE c.tool = "pkcs8"
  <2>1. Pkcs8Input(c, d).ret \in Rets
    BY DEF Pkcs8Input
  <2>2. Load(c, d) = Pkcs8Load(c, d)
    BY <1>2 DEF Load
  <2> QED
    BY <2>1, <2>2 DEF Pkcs8Load
<1>3. CASE c.tool \in {"pkcs12", "pkcs7"}
  BY <1>3 DEF Load, Pkcs12Load, Pkcs7Load
<1>4. CASE c.tool \in Params_
  BY <1>4 DEF Params_, Load, EcparamLoad, DhLoad, DsaLoad, ParamLoad
<1>5. CASE c.tool \in {"hash", "md5", "base64", "dgst"}
  BY <1>5 DEF Load, HashLoad, Base64Load, DgstLoad
<1>6. CASE c.tool = "req"
  BY <1>6, RequestReturns DEF Load
<1>7. CASE c.tool = "x509"
  <2>1. ASSUME NEW x PROVE CertExtensions(c, d, x).ret \in Rets
    BY ExtensionsReturn DEF CertExtensions
  <2>2. ASSUME NEW x, NEW key PROVE CertSelfSign(x, key).ret \in Rets
    BY DEF CertSelfSign
  <2>3. Load(c, d) = CertLoad(c, d)
    BY <1>7 DEF Load
  <2> QED
    BY <2>1, <2>2, <2>3 DEF CertLoad
<1>8. CASE c.tool \in {"verify", "crl", "ca"}
  BY <1>8 DEF Load, VerifyLoad, CrlLoad, CaLoad
<1> QED
  BY <1>1, <1>2, <1>3, <1>4, <1>5, <1>6, <1>7, <1>8
     DEF Tools, OpensLoaded, OpensMade, Prints, Early, CertTools_

LEMMA MakeReturns ==
  ASSUME NEW c, NEW what, c.tool \in Tools
  PROVE  Make(c, what).ret \in Rets
<1> USE DEF Rets, Made, Refused
<1>1. CASE c.tool \in {"pkey", "rsa", "pkcs8", "pkcs7"}
  BY <1>1 DEF Make, PkeyMake, RsaMake, Pkcs8Make, Pkcs7Make, PublicBlock, PrivateBlock
<1>2. CASE c.tool = "pkcs12"
  BY <1>2 DEF Make, Pkcs12Make, Pkcs12Key, PrivateBlock
<1>3. CASE c.tool \in Params_
  BY <1>3 DEF Params_, Make, EcparamMake, DhMake, DsaMake
<1>4. CASE c.tool \in {"hash", "md5"}
  <2>1. ASSUME NEW content PROVE Decoded(content).ret \in Rets
    BY DEF Decoded
  <2>2. Make(c, what) = HashMake(c, what)
    BY <1>4 DEF Make
  <2> QED
    BY <2>1, <2>2 DEF HashMake
<1>5. CASE c.tool = "base64"
  <2>1. ASSUME NEW content PROVE Decoded(content).ret \in Rets
    BY DEF Decoded
  <2>2. ASSUME NEW content PROVE Unarmoured(content).ret \in Rets
    BY DEF Unarmoured
  <2>3. Make(c, what) = Base64Make(c, what)
    BY <1>5 DEF Make
  <2> QED
    BY <2>1, <2>2, <2>3 DEF Base64Make
<1>6. CASE c.tool = "dgst"
  BY <1>6 DEF Make, DgstMake
<1>7. CASE c.tool \in {"req", "x509", "verify", "crl"}
  BY <1>7 DEF Make, ReqMake, CertMake, VerifyMake, CrlMake
<1>8. CASE c.tool = "ca"
  BY <1>8 DEF Make, CaMake, CertSign, ChimeraSign
<1> QED
  BY <1>1, <1>2, <1>3, <1>4, <1>5, <1>6, <1>7, <1>8
     DEF Tools, OpensLoaded, OpensMade, Prints, Early, CertTools_

LEMMA KeyOutReturns ==
  ASSUME NEW c, NEW what, NEW pass
  PROVE  ReqKeyOut(c, what, pass).ret \in Rets
BY DEF ReqKeyOut, PrivateBlock, Rets, Made, Refused

-----------------------------------------------------------------------------
(* Types.                                                                  *)

\* Whose line it is that a run has.
LineOK ==
  IF runs = 0 THEN line = None /\ pc = "idle" /\ ~opened /\ ~taken
  ELSE runs \in 1 .. MaxRuns /\ line \in Lines

TypeInv == TypeOK /\ LineOK

LEMMA OutputOfALine ==
  ASSUME line \in Lines
  PROVE  Output \in Files \cup {None, Unwritable}
BY FilesAssumption DEF FilesAssumption, Output

\* What a run reads and writes is settled by its line and the disk it found.
LEMMA SameEnds ==
  ASSUME line' = line, before' = before
  PROVE  Source' = Source /\ Output' = Output
BY DEF Source, Forgotten, Output

LEMMA SourceOfLate ==
  ASSUME line.tool \notin Early
  PROVE  Source = IF line.in = None THEN line.stdin ELSE before[line.in]
BY DEF Source, Forgotten

LEMMA OpenTypes ==
  ASSUME TypeInv, line \in Lines, NEW yes, NEW result \in Rets, NEW there \in Pcs,
         Open(yes, result, there)
  PROVE  /\ DOMAIN disk' = Files /\ pc' \in Pcs /\ ret' \in Rets /\ opened' \in BOOLEAN
         /\ opened' => Output \in Files
<1>1. opened' = (opened \/ (yes /\ Output \notin {None, Unwritable}))
  BY DEF Open
<1>2. opened' => Output \in Files
  BY <1>1, OutputOfALine DEF TypeInv, TypeOK
<1>3. DOMAIN disk' = Files
  BY DEF Open, TypeInv, TypeOK
<1>4. ret' \in Rets /\ pc' \in Pcs
  BY DEF Open, Rets, Pcs
<1> QED
  BY <1>1, <1>2, <1>3, <1>4

LEMMA TypesAtFirst == Init => TypeInv
<1> SUFFICES ASSUME Init PROVE TypeInv
  OBVIOUS
<1>1. /\ disk = InitDisk /\ before = InitDisk /\ line = None /\ pc = "idle" /\ ret = Success
      /\ runs = 0 /\ end = "not yet" /\ clear \subseteq Files
  BY DEF Init
<1>2. opened = FALSE /\ taken = FALSE /\ mishap = FALSE
  BY DEF Init
<1>3. ~opened /\ ~taken
  BY <1>2, Zenon
<1>4. LineOK
  BY <1>1, <1>3 DEF LineOK
<1>5. opened \in BOOLEAN /\ taken \in BOOLEAN /\ mishap \in BOOLEAN
  BY <1>2
<1>6. opened => Output \in Files
  BY <1>3
<1> QED
  BY <1>1, <1>4, <1>5, <1>6 DEF TypeInv, TypeOK, Files, Pcs

LEMMA TypesKept == TypeInv /\ [Next]_vars => TypeInv'
<1> SUFFICES ASSUME TypeInv, [Next]_vars
             PROVE  TypeInv'
  OBVIOUS
<1> USE DEF TypeInv
<1>1. ASSUME NEW c \in LinesAfter(runs, line), Start(c)
      PROVE  TypeInv'
  <2>1. runs \in Nat /\ runs < MaxRuns /\ MaxRuns \in Nat
    BY <1>1, FilesAssumption DEF Start, TypeOK, FilesAssumption
  <2>2. c \in Lines
    BY <1>1, <2>1, FilesAssumption DEF FilesAssumption, LineOK
  <2>3. runs' = runs + 1 /\ line' = c
    BY <1>1 DEF Start
  <2>4. runs' # 0 /\ runs' \in 1 .. MaxRuns /\ runs' \in Nat /\ line' \in Lines
    BY <2>1, <2>2, <2>3
  <2>5. LineOK'
    BY <2>4 DEF LineOK
  <2>6. opened' = FALSE /\ taken' = FALSE /\ mishap' = FALSE
    BY <1>1 DEF Start
  <2>7. ~opened' /\ opened' \in BOOLEAN /\ taken' \in BOOLEAN /\ mishap' \in BOOLEAN
    BY <2>6, Zenon
  <2>8. (opened => Output \in Files)'
    BY <2>7
  <2>9. clear' \subseteq Files
    BY <1>1 DEF Start, TypeOK, AsksClearIn
  <2>10. DOMAIN disk' = Files /\ DOMAIN before' = Files
    BY <1>1 DEF Start, TypeOK
  <2>11. pc' = "scan" /\ end' = "not yet" /\ ret' = Success
    BY <1>1 DEF Start
  <2> QED
    BY <2>4, <2>5, <2>7, <2>8, <2>9, <2>10, <2>11 DEF TypeOK, Pcs
<1>2. ASSUME pc # "idle", line' = line, runs' = runs
      PROVE  LineOK' /\ line \in Lines /\ line.tool \in Tools /\ Output' = Output
  BY <1>2, FilesAssumption DEF LineOK, FilesAssumption, Output
<1>3. CASE ScanOptions
  <2>1. pc # "idle" /\ line' = line /\ runs' = runs
    BY <1>3 DEF ScanOptions
  <2>2. LineOK' /\ line \in Lines /\ line.tool \in Tools /\ Output' = Output
    BY <1>2, <2>1
  <2>3. Success \in Rets /\ Scan(line, disk) \in Rets /\ {"close", "load"} \subseteq Pcs
    BY <2>2, ScanReturns DEF Rets, Pcs
  <2>4. /\ DOMAIN disk' = Files /\ pc' \in Pcs /\ ret' \in Rets /\ opened' \in BOOLEAN
        /\ opened' => Output \in Files
    BY <1>3, <2>2, <2>3, OpenTypes DEF ScanOptions
  <2> QED
    BY <1>3, <2>2, <2>4 DEF ScanOptions, TypeOK, Rets
<1>4. CASE ReadInput
  <2>1. pc # "idle" /\ line' = line /\ runs' = runs
    BY <1>4 DEF ReadInput
  <2>2. LineOK' /\ line \in Lines /\ line.tool \in Tools /\ Output' = Output
    BY <1>2, <2>1
  <2>3. Load(line, disk).ret \in Rets /\ "make" \in Pcs
    BY <2>2, LoadReturns DEF Pcs
  <2>4. /\ DOMAIN disk' = Files /\ pc' \in Pcs /\ ret' \in Rets /\ opened' \in BOOLEAN
        /\ opened' => Output \in Files
    BY <1>4, <2>2, <2>3, OpenTypes DEF ReadInput
  <2>5. taken' \in BOOLEAN
    BY <1>4 DEF ReadInput
  <2> QED
    BY <1>4, <2>2, <2>4, <2>5 DEF ReadInput, TypeOK, Rets
<1>5. CASE MakeOutput
  <2>1. pc # "idle" /\ line' = line /\ runs' = runs
    BY <1>5 DEF MakeOutput
  <2>2. LineOK' /\ line \in Lines /\ line.tool \in Tools /\ Output' = Output
    BY <1>2, <2>1
  <2>3. Make(line, got).ret \in Rets /\ {"key", "close"} \subseteq Pcs
    BY <2>2, MakeReturns DEF Pcs
  <2>4. /\ DOMAIN disk' = Files /\ pc' \in Pcs /\ ret' \in Rets /\ opened' \in BOOLEAN
        /\ opened' => Output \in Files
    BY <1>5, <2>2, <2>3, OpenTypes DEF MakeOutput
  <2> QED
    BY <1>5, <2>2, <2>4 DEF MakeOutput, TypeOK, Rets
<1>6. CASE OpenKeyOut
  <2>1. pc # "idle" /\ line' = line /\ runs' = runs
    BY <1>6 DEF OpenKeyOut
  <2>2. LineOK' /\ Output' = Output
    BY <1>2, <2>1
  <2> QED
    BY <1>6, <2>2 DEF OpenKeyOut, TypeOK, Pcs
<1>7. CASE WriteKeyOut
  <2>1. pc # "idle" /\ line' = line /\ runs' = runs
    BY <1>7 DEF WriteKeyOut
  <2>2. LineOK' /\ Output' = Output
    BY <1>2, <2>1
  <2>3. PICK pass \in ReqPasswords(line), fits \in BOOLEAN :
          /\ ret' = ReqKeyOut(line, got, pass).ret /\ mishap' = (mishap \/ ~fits)
          /\ \/ UNCHANGED disk
             \/ \E left : disk' = [disk EXCEPT ![line.keyout] = left]
    BY <1>7 DEF WriteKeyOut
  <2>4. ret' \in Rets /\ DOMAIN disk' = Files
    BY <2>3, KeyOutReturns DEF TypeOK
  <2>5. mishap' \in BOOLEAN
    BY <2>3, Zenon
  <2> QED
    BY <1>7, <2>2, <2>4, <2>5 DEF WriteKeyOut, TypeOK, Pcs, Rets
<1>8. CASE CallFails
  <2>1. pc # "idle" /\ line' = line /\ runs' = runs
    BY <1>8 DEF CallFails
  <2> QED
    BY <1>2, <1>8, <2>1 DEF CallFails, TypeOK, Pcs
<1>9. CASE CloseOutput
  <2>1. pc # "idle" /\ line' = line /\ runs' = runs
    BY <1>9 DEF CloseOutput
  <2>2. DOMAIN disk' = Files /\ mishap' \in BOOLEAN
    BY <1>9 DEF CloseOutput, TypeOK
  <2> QED
    BY <1>2, <1>9, <2>1, <2>2 DEF CloseOutput, TypeOK, Pcs
<1>10. CASE Kill
  <2>1. pc # "idle" /\ line' = line /\ runs' = runs
    BY <1>10 DEF Kill
  <2> QED
    BY <1>2, <1>10, <2>1 DEF Kill, TypeOK, Pcs
<1>11. CASE UNCHANGED vars
  BY <1>11 DEF vars, TypeOK, LineOK, Output
<1>12. CASE WriteFails
  <2>1. /\ pc # "idle" /\ line' = line /\ runs' = runs
        /\ pc' \in {pc, "close"} /\ ret' \in {ret, FatalError}
    BY <1>12 DEF WriteFails
  <2> QED
    BY <1>2, <1>12, <2>1 DEF WriteFails, TypeOK, Pcs
<1> QED
  BY <1>1, <1>3, <1>4, <1>5, <1>6, <1>7, <1>8, <1>9, <1>10, <1>11, <1>12 DEF Next

(* Every step of every command leaves a disk with the same files, a return *)
(* value of the program's, and an output that is open only on a file that  *)
(* can be written.                                                         *)
THEOREM FileTypes == Spec => []TypeOK
<1>1. TypeInv => TypeOK
  BY DEF TypeInv
<1> QED
  BY <1>1, TypesAtFirst, TypesKept, PTL DEF Spec

-----------------------------------------------------------------------------
(* Refusals.                                                               *)

Late == OpensMade \cup Prints \cup OpensLoaded

\* Nothing is written before the options are known; by a late command nothing
\* before its input is taken in; and by dgst and ca nothing but a result, and
\* that to their output.
Untouched == disk = before /\ ~opened
RefuseInv ==
  /\ pc = "scan" => Untouched
  /\ pc \in {"scan", "load"} => ~taken
  /\ runs # 0 /\ line.tool \in Late /\ ~taken => Untouched /\ pc \notin {"make", "key", "seal"}
  /\ runs # 0 /\ line.tool \in OpensMade \cup Prints
     => /\ pc \notin {"key", "seal"}
        /\ pc \in {"scan", "load", "make"} \/ ~opened \/ (ret # Success /\ ~mishap) => Untouched
        /\ \A f \in Files : f # Output => disk[f] = before[f]

\* A step that opens its output only for a success leaves the disk alone
\* otherwise.
LEMMA OpensOnlySuccess ==
  ASSUME NEW yes, NEW result, NEW there, Open(yes, result, there), ~opened, yes => result = Success
  PROVE  /\ (disk' = disk /\ ~opened') \/ (yes /\ ret' = Success)
         /\ ret' # Success => pc' = "close" /\ disk' = disk /\ ~opened'
         /\ ret' = Success => pc' = there
<1>1. FatalError # Success
  BY DEF FatalError, Success
<1>2. opened' => yes /\ Output \notin {None, Unwritable}
  BY Zenon DEF Open
<1>3. ret' = (IF yes /\ Output = Unwritable THEN FatalError ELSE result)
  BY DEF Open
<1>4. ~opened' => disk' = disk
  BY DEF Open
<1>5. (ret' = Success => pc' = there) /\ (ret' # Success => pc' = "close")
  BY DEF Open
<1>6. opened' => yes /\ ret' = Success
  BY <1>2, <1>3
<1> QED
  BY <1>4, <1>5, <1>6, Zenon

LEMMA RefusalsAtFirst == Init => RefuseInv
<1> SUFFICES ASSUME Init PROVE RefuseInv
  OBVIOUS
<1>1. pc = "idle" /\ runs = 0
  BY DEF Init
<1> QED
  BY <1>1 DEF RefuseInv

LEMMA RefusalsKept == TypeInv /\ RefuseInv /\ [Next]_vars => RefuseInv'
<1> SUFFICES ASSUME TypeInv, RefuseInv, [Next]_vars
             PROVE  RefuseInv'
  OBVIOUS
<1>a. /\ FatalError # Success
      /\ OpensMade \cap OpensLoaded = {} /\ Prints \cap OpensLoaded = {"verify"} \cap OpensLoaded
      /\ OpensMade \cap Prints = {} /\ "req" \notin OpensMade \cup Prints
  BY DEF FatalError, Success, OpensMade, OpensLoaded, Prints, Params_
<1>b. ASSUME pc # "idle", line' = line, runs' = runs
      PROVE  runs # 0 /\ runs' # 0 /\ line'.tool = line.tool /\ Output' = Output
  BY <1>b DEF TypeInv, LineOK, Output
<1>1. ASSUME NEW c \in LinesAfter(runs, line), Start(c)
      PROVE  RefuseInv'
  <2>1. opened' = FALSE /\ taken' = FALSE /\ disk' = disk /\ before' = disk /\ pc' = "scan"
        /\ ret' = Success
    BY <1>1 DEF Start
  <2>2. ~opened' /\ ~taken'
    BY <2>1, Zenon
  <2>3. Untouched' /\ (\A f \in Files : disk'[f] = before'[f])
    BY <2>1, <2>2 DEF Untouched
  <2> QED
    BY <2>1, <2>2, <2>3 DEF RefuseInv
<1>2. CASE ScanOptions
  <2>1. line' = line /\ runs' = runs /\ pc = "scan" /\ taken' = taken /\ before' = before
        /\ mishap' = mishap
    BY <1>2 DEF ScanOptions
  <2>2. runs # 0 /\ runs' # 0 /\ line'.tool = line.tool
    BY <1>b, <2>1
  <2>3. Untouched /\ ~taken
    BY <2>1 DEF RefuseInv
  <2>4. line.tool \in Late => ~ScanOpens(line, disk)
    BY DEF Late, ScanOpens, OpensMade, OpensLoaded, Prints, Params_, Early
  <2>5. line.tool \in Late => disk' = disk /\ ~opened' /\ pc' \in {"load", "close"}
                             /\ (pc' = "load" => ret' = Success)
    BY <1>2, <2>3, <2>4, OpensOnlySuccess DEF ScanOptions, Untouched
  <2>6. pc' \in {"load", "close"}
    BY <1>2 DEF ScanOptions, Open
  <2>7. line.tool \in Late => Untouched'
    BY <2>1, <2>3, <2>5 DEF Untouched
  <2>8. line.tool \in Late => \A f \in Files : disk'[f] = before'[f]
    BY <2>7 DEF Untouched
  <2>9. ~taken'
    BY <2>1, <2>3, Zenon
  <2> QED
    BY <2>1, <2>2, <2>5, <2>6, <2>7, <2>8, <2>9 DEF RefuseInv, Late
<1>3. CASE ReadInput
  <2>1. line' = line /\ runs' = runs /\ pc = "load" /\ before' = before
    BY <1>3 DEF ReadInput
  <2>2. runs # 0 /\ runs' # 0 /\ line'.tool = line.tool
    BY <1>b, <2>1
  <2> DEFINE good == Load(line, disk).ret = Success
             opens == line.tool \in OpensLoaded /\ good
  <2>3. /\ taken' = good
        /\ Open(opens, Load(line, disk).ret, "make")
    BY <1>3 DEF ReadInput
  <2>4. pc' \in {"make", "close"} /\ (pc' = "make" => ret' = Success)
    BY <2>3 DEF Open
  <2>5. ASSUME ~opened
        PROVE  /\ (disk' = disk /\ ~opened') \/ (opens /\ ret' = Success)
               /\ ret' # Success => pc' = "close" /\ disk' = disk /\ ~opened'
    BY <2>3, <2>5, OpensOnlySuccess
  <2>6. ret' = Success => taken'
    BY <2>3, <1>a DEF Open
  <2>7. ASSUME line.tool \in Late, ~taken'
        PROVE  (Untouched /\ pc \notin {"make", "key", "seal"})'
    <3>1. Untouched
      BY <2>1, <2>2, <2>7 DEF RefuseInv
    <3>2. ~good
      BY <2>3, <2>7, Zenon
    <3>3. ~opens
      BY <3>2
    <3>4. disk' = disk /\ ~opened'
      BY <2>5, <3>1, <3>3 DEF Untouched
    <3>5. pc' = "close"
      <4>1. ret' # Success
        BY <2>6, <2>7
      <4> QED
        BY <2>5, <3>1, <4>1 DEF Untouched
    <3> QED
      BY <2>1, <3>1, <3>4, <3>5 DEF Untouched
  <2>8. ASSUME line.tool \in OpensMade \cup Prints
        PROVE  Untouched' /\ (\A f \in Files : disk'[f] = before'[f])
    <3>1. Untouched
      BY <2>1, <2>2, <2>8 DEF RefuseInv
    <3>2. ~opens
      BY <2>8 DEF OpensMade, OpensLoaded, Prints, Params_
    <3>3. disk' = disk /\ ~opened'
      BY <2>5, <3>1, <3>2 DEF Untouched
    <3> QED
      BY <2>1, <3>1, <3>3 DEF Untouched
  <2> QED
    BY <2>1, <2>2, <2>4, <2>7, <2>8 DEF RefuseInv
<1>4. CASE MakeOutput
  <2>1. line' = line /\ runs' = runs /\ pc = "make" /\ before' = before /\ taken' = taken
    BY <1>4 DEF MakeOutput
  <2>2. runs # 0 /\ runs' # 0 /\ line'.tool = line.tool
    BY <1>b, <2>1
  <2> DEFINE made  == Make(line, got)
             opens == line.tool \in OpensMade /\ made.ret = Success /\ made.blocks # << >>
  <2>3. Open(opens, made.ret, IF KeyToo THEN "key" ELSE "close")
    BY <1>4 DEF MakeOutput
  <2>4. pc' \in {"key", "close"} /\ (pc' = "key" => KeyToo)
    BY <2>3 DEF Open
  <2>5. line.tool \in Late => taken
    BY <2>1, <2>2 DEF RefuseInv
  <2>6. ASSUME line.tool \in OpensMade \cup Prints
        PROVE  /\ pc' = "close" /\ (~opened' \/ ret' # Success => Untouched')
               /\ \A f \in Files : f # Output' => disk'[f] = before'[f]
    <3>1. Untouched
      BY <2>1, <2>2, <2>6 DEF RefuseInv
    <3>2. ret' # Success => disk' = disk /\ ~opened'
      BY <2>3, <3>1, OpensOnlySuccess DEF Untouched
    <3>3. ~KeyToo
      BY <2>6, <1>a DEF KeyToo
    <3>4. ~opened' => disk' = disk
      BY <2>3 DEF Open
    <3>5. ~opened' \/ ret' # Success => Untouched'
      BY <2>1, <3>1, <3>2, <3>4 DEF Untouched
    <3>6. disk' = disk \/ disk' = [disk EXCEPT ![Output] = << >>]
      BY <2>3 DEF Open
    <3>7. \A f \in Files : f # Output => disk'[f] = disk[f]
      BY <3>6 DEF TypeInv, TypeOK
    <3> QED
      BY <1>b, <2>1, <2>4, <3>1, <3>3, <3>5, <3>7 DEF Untouched
  <2> QED
    BY <2>1, <2>2, <2>4, <2>5, <2>6 DEF RefuseInv
<1>5. CASE OpenKeyOut \/ WriteKeyOut
  <2>1. line' = line /\ runs' = runs /\ pc \in {"key", "seal"} /\ pc' \in {"seal", "close"} /\ taken' = taken
    BY <1>5 DEF OpenKeyOut, WriteKeyOut
  <2>2. runs # 0 /\ runs' # 0 /\ line'.tool = line.tool
    BY <1>b, <2>1
  <2>3. (line.tool \in Late => taken) /\ line.tool \notin OpensMade \cup Prints
    BY <2>1, <2>2 DEF RefuseInv
  <2> QED
    BY <2>1, <2>2, <2>3 DEF RefuseInv
<1>6. CASE CallFails
  <2>1. /\ line' = line /\ runs' = runs /\ pc \in {"load", "make", "seal"} /\ pc' = "close" /\ taken' = taken
        /\ disk' = disk /\ before' = before /\ opened' = opened
    BY <1>6 DEF CallFails
  <2>2. runs # 0 /\ runs' # 0 /\ line'.tool = line.tool /\ Output' = Output
    BY <1>b, <2>1
  <2>3. line.tool \in OpensMade \cup Prints => Untouched
    BY <2>1, <2>2 DEF RefuseInv
  <2>4. Untouched => Untouched'
    BY <2>1 DEF Untouched
  <2> QED
    BY <2>1, <2>2, <2>3, <2>4 DEF RefuseInv
<1>7. CASE CloseOutput
  <2>1. /\ line' = line /\ runs' = runs /\ pc = "close" /\ pc' = "idle" /\ taken' = taken
        /\ before' = before /\ opened' = opened /\ ret' = ret
    BY <1>7 DEF CloseOutput
  <2>2. runs # 0 /\ runs' # 0 /\ line'.tool = line.tool /\ Output' = Output
    BY <1>b, <2>1
  <2>3. ~opened => disk' = disk
    BY <1>7 DEF CloseOutput
  <2>4. Untouched => Untouched'
    BY <2>1, <2>3 DEF Untouched
  <2>5. \A f \in Files : f # Output => disk'[f] = disk[f]
    BY <1>7 DEF CloseOutput, TypeInv, TypeOK
  <2>6. mishap => mishap'
    BY <1>7, Zenon DEF CloseOutput
  <2>7. line.tool \in OpensMade \cup Prints
        => (~opened' \/ (ret' # Success /\ ~mishap') => Untouched')
    BY <2>1, <2>2, <2>4, <2>6 DEF RefuseInv
  <2> QED
    BY <2>1, <2>2, <2>4, <2>5, <2>7 DEF RefuseInv
<1>8. CASE Kill
  <2>1. /\ line' = line /\ runs' = runs /\ pc # "idle" /\ pc' = "idle" /\ taken' = taken
        /\ disk' = disk /\ before' = before /\ opened' = opened /\ ret' = ret /\ mishap' = mishap
    BY <1>8 DEF Kill
  <2>2. runs # 0 /\ runs' # 0 /\ line'.tool = line.tool /\ Output' = Output
    BY <1>b, <2>1
  <2> QED
    BY <2>1, <2>2 DEF RefuseInv, Untouched
<1>9. CASE UNCHANGED vars
  BY <1>9 DEF vars, RefuseInv, Untouched, Output
<1>10. CASE WriteFails
  <2>1. /\ line' = line /\ runs' = runs /\ pc \in {"key", "close"} /\ pc' \in {pc, "close"}
        /\ taken' = taken /\ disk' = disk /\ before' = before /\ opened' = opened
    BY <1>10 DEF WriteFails
  <2>2. runs # 0 /\ runs' # 0 /\ line'.tool = line.tool /\ Output' = Output
    BY <1>b, <2>1
  <2>3. mishap'
    BY <1>10, Zenon DEF WriteFails
  <2>4. Untouched => Untouched'
    BY <2>1 DEF Untouched
  <2> QED
    BY <2>1, <2>2, <2>3, <2>4 DEF RefuseInv
<1> QED
  BY <1>1, <1>2, <1>3, <1>4, <1>5, <1>6, <1>7, <1>8, <1>9, <1>10 DEF Next

(* A command that opens its output late and ends in an error, dgst and ca  *)
(* in any and the others before they have taken their input in, leaves     *)
(* every file as it was, but for the output of one that could not write, on*)
(* every disk and after every line before it.                              *)
THEOREM RefusalsKeepFiles == Spec => []RefusedKeepsOutput
<1>1. TypeInv /\ RefuseInv => RefusedKeepsOutput
  <2> SUFFICES ASSUME TypeInv, RefuseInv, pc = "idle", line # None, ret # Success,
                      line.tool \in OpensMade \cup Prints \/ (line.tool \in OpensLoaded /\ ~taken),
                      NEW f \in Files, ~(mishap /\ opened /\ f = Output)
               PROVE  disk[f] = before[f]
    BY DEF RefusedKeepsOutput
  <2>1. runs # 0
    BY DEF TypeInv, LineOK
  <2>2. CASE line.tool \in OpensMade \cup Prints /\ f = Output
    BY <2>1, <2>2 DEF RefuseInv, Untouched
  <2>3. CASE line.tool \in OpensMade \cup Prints /\ f # Output
    BY <2>1, <2>3 DEF RefuseInv
  <2>4. CASE line.tool \in OpensLoaded /\ ~taken
    BY <2>1, <2>4 DEF RefuseInv, Untouched, Late
  <2> QED
    BY <2>2, <2>3, <2>4
<1> QED
  BY <1>1, TypesAtFirst, TypesKept, RefusalsAtFirst, RefusalsKept, PTL DEF Spec

-----------------------------------------------------------------------------
(* Contents: sequences of blocks.                                          *)

Sequence(s) == s \in Seq(Range(s))

LEMMA Sequences ==
  ASSUME NEW S, NEW s \in Seq(S)
  PROVE  Sequence(s) /\ Range(s) \subseteq S /\ DOMAIN s = 1 .. Len(s) /\ Len(s) \in Nat
<1>1. Len(s) \in Nat /\ s \in [1 .. Len(s) -> S] /\ DOMAIN s = 1 .. Len(s)
  BY LenProperties
<1>2. Range(s) \subseteq S
  BY <1>1 DEF Range
<1>3. s \in [1 .. Len(s) -> Range(s)]
  BY <1>1 DEF Range
<1>4. Sequence(s)
  BY <1>1, <1>3 DEF Sequence
<1> QED
  BY <1>1, <1>2, <1>4

LEMMA OneBlock ==
  ASSUME NEW b
  PROVE  Sequence(<<b>>) /\ Range(<<b>>) = {b}
BY DEF Sequence, Range

LEMMA NoBlock == Sequence(<< >>) /\ Range(<< >>) = {}
BY DEF Sequence, Range

LEMMA JoinedBlocks ==
  ASSUME NEW s, NEW t, Sequence(s), Sequence(t)
  PROVE  Sequence(s \o t) /\ Range(s \o t) \subseteq Range(s) \cup Range(t)
<1> DEFINE S == Range(s) \cup Range(t)
<1>1. s \in Seq(S) /\ t \in Seq(S)
  <2>1. s \in Seq(Range(s)) /\ t \in Seq(Range(t)) /\ Range(s) \subseteq S /\ Range(t) \subseteq S
    BY DEF Sequence
  <2> HIDE DEF S
  <2> QED
    BY <2>1, SeqMonotonic
<1>2. s \o t \in Seq(S)
  <2> HIDE DEF S
  <2> QED
    BY <1>1, ConcatProperties
<1> HIDE DEF S
<1>3. Sequence(s \o t) /\ Range(s \o t) \subseteq S
  BY <1>2, Sequences
<1> QED
  BY <1>3 DEF S

\* What is left after a write that fails is what there was, but for what is
\* missing or cut short.
LEMMA FailedWrite ==
  ASSUME Sequence(held), WriteFails
  PROVE  Sequence(held') /\ Range(held') \subseteq Range(held) \cup Range(Cut)
<1> DEFINE S == Range(held) \cup Range(Cut)
<1>1. held \in Seq(S) /\ Cut[1] \in S
  <2>1. held \in Seq(Range(held)) /\ Range(held) \subseteq S
    BY DEF Sequence
  <2>2. Cut[1] \in Range(Cut)
    BY OneBlock DEF Cut
  <2> HIDE DEF S
  <2>3. held \in Seq(S)
    BY <2>1, SeqMonotonic
  <2> QED
    BY <2>2, <2>3 DEF S
<1>2. PICK i \in DOMAIN held : held' \in Without(i) \/ held' = SubSeq(held, 1, i - 1)
  BY DEF WriteFails
<1> HIDE DEF S
<1>3. Len(held) \in Nat /\ DOMAIN held = 1 .. Len(held) /\ i \in 1 .. Len(held)
  BY <1>1, <1>2, Sequences
<1>4. [held EXCEPT ![i] = Cut[1]] \in Seq(S)
  BY <1>1, <1>3, ExceptSeq
<1>5. SubSeq(held, 1, i - 1) \in Seq(S)
  BY <1>1, <1>3, SubSeqProperties
<1>6. RemoveAt(held, i) \in Seq(S)
  <2>1. SubSeq(held, i + 1, Len(held)) \in Seq(S)
    BY <1>1, <1>3, SubSeqProperties
  <2> QED
    BY <1>5, <2>1, ConcatProperties DEF RemoveAt
<1>7. held' \in Seq(S)
  BY <1>2, <1>4, <1>5, <1>6 DEF Without
<1>8. Sequence(held') /\ Range(held') \subseteq S
  BY <1>7, Sequences
<1> QED
  BY <1>8 DEF S

-----------------------------------------------------------------------------
(* Private keys that nothing seals.                                        *)

BareKey(b) == b # None /\ b.kind = "private" /\ b.coat # "sealed"
Clean(s) == Sequence(s) /\ \A b \in Range(s) : ~BareKey(b)

LEMMA CleanHasNoKey ==
  ASSUME NEW s, Clean(s)
  PROVE  ~HasClearKey(s)
BY DEF Clean, HasClearKey, BareKey, Range

LEMMA CleanOne ==
  ASSUME NEW b, ~BareKey(b)
  PROVE  Clean(<<b>>)
BY OneBlock DEF Clean

LEMMA CleanNone == Clean(<< >>)
BY NoBlock DEF Clean

LEMMA CleanJoined ==
  ASSUME NEW s, NEW t, Clean(s), Clean(t)
  PROVE  Clean(s \o t)
<1>1. Sequence(s \o t) /\ Range(s \o t) \subseteq Range(s) \cup Range(t)
  BY JoinedBlocks DEF Clean
<1> QED
  BY <1>1 DEF Clean

LEMMA CleanBlock ==
  ASSUME NEW kind, NEW of, NEW form, kind # "private"
  PROVE  Clean(<<Block(kind, of, form)>>)
<1>1. ~BareKey(Block(kind, of, form))
  BY DEF BareKey, Block
<1> QED
  BY <1>1, CleanOne

LEMMA CleanBlockIf ==
  ASSUME NEW yes, NEW b, ~BareKey(b)
  PROVE  Clean(IF yes THEN << >> ELSE <<b>>) /\ Clean(IF yes THEN <<b>> ELSE << >>)
BY CleanOne, CleanNone

LEMMA Certificates ==
  ASSUME NEW certs, Parses(certs)
  PROVE  /\ Sequence(CertBlocks(certs))
         /\ \A b \in Range(CertBlocks(certs)) : \E i \in DOMAIN certs : b = Block("cert", certs[i], "PEM")
<1> DEFINE n == Cardinality(DOMAIN certs)
           s == CertBlocks(certs)
<1>1. n \in Nat /\ DOMAIN certs = 1 .. n
  BY FS_CardinalityType DEF Parses
<1>2. s = [i \in 1 .. n |-> Block("cert", certs[i], "PEM")]
  BY <1>1 DEF CertBlocks
<1>3. DOMAIN s = 1 .. n /\ s \in [1 .. n -> Range(s)]
  BY <1>2 DEF Range
<1>4. Sequence(s)
  BY <1>1, <1>3 DEF Sequence
<1>5. \A b \in Range(s) : \E i \in 1 .. n : b = Block("cert", certs[i], "PEM")
  BY <1>2 DEF Range
<1> QED
  BY <1>1, <1>4, <1>5

LEMMA CleanCertificates ==
  ASSUME NEW certs, Parses(certs)
  PROVE  Clean(CertBlocks(certs))
BY Certificates DEF Clean, BareKey, Block

LEMMA Texts ==
  ASSUME NEW c, NEW x
  PROVE  /\ Sequence(CertText(c, x))
         /\ \A b \in Range(CertText(c, x)) : b = Block("text", x, "text")
<1> DEFINE P == {j \in DOMAIN CertPrints : Has(c, CertPrints[j])}
           n == Cardinality(P)
           s == CertText(c, x)
<1>1. DOMAIN CertPrints = 1 .. 9
  BY DEF CertPrints
<1>2. P \in SUBSET Nat /\ \A j \in P : j <= 9
  BY <1>1
<1>3. IsFiniteSet(P)
  <2> HIDE DEF P
  <2>1. 9 \in Nat
    OBVIOUS
  <2> QED
    BY <1>2, <2>1, FS_BoundedSetOfNaturals
<1>4. n \in Nat
  <2> HIDE DEF P
  <2> QED
    BY <1>3, FS_CardinalityType
<1>5. s = [i \in 1 .. n |-> Block("text", x, "text")]
  BY DEF CertText
<1> HIDE DEF n, P, s
<1>6. DOMAIN s = 1 .. n /\ s \in [1 .. n -> Range(s)]
  BY <1>5 DEF Range
<1>7. Sequence(s)
  BY <1>4, <1>6 DEF Sequence
<1>8. \A b \in Range(s) : b = Block("text", x, "text")
  BY <1>5 DEF Range
<1> QED
  BY <1>7, <1>8 DEF s

LEMMA CleanText ==
  ASSUME NEW c, NEW x
  PROVE  Clean(CertText(c, x))
BY Texts DEF Clean, BareKey, Block

LEMMA CleanCode ==
  ASSUME NEW content
  PROVE  Clean(Encoded(content))
BY CleanBlock, CleanNone DEF Encoded

\* What a command makes holds no bare key unless it is asked for one.
LEMMA KeyToolsMakeClean ==
  ASSUME NEW c, NEW what, ~AsksClear(c),
         c.tool \in {"pkey", "rsa", "pkcs8", "pkcs12", "pkcs7"},
         c.tool \in {"pkcs12", "pkcs7"} => Parses(what.certs)
  PROVE  Clean(Make(c, what).blocks)
<1>1. CASE c.tool = "pkey"
  <2>1. PubOut(c)
    BY <1>1 DEF AsksClear
  <2>2. Make(c, what) = PkeyMake(c, what)
    BY <1>1 DEF Make
  <2> QED
    BY <2>1, <2>2, CleanNone, CleanBlock DEF PkeyMake, PublicBlock, Made, Refused
<1>2. CASE c.tool = "rsa"
  <2>1. PubOut(c)
    BY <1>2 DEF AsksClear
  <2>2. Make(c, what) = RsaMake(c, what)
    BY <1>2 DEF Make
  <2> DEFINE form == IF OutForm(c) = "PEM" THEN "PEM" ELSE "DER"
             body == IF Has(c, "-noout") THEN << >> ELSE <<Block("public", what, form)>>
             modulus == IF Has(c, "-modulus") /\ what # None
                        THEN <<Block("modulus", what, "text")>> ELSE << >>
  <2>3. Make(c, what) = IF what = None /\ ~Has(c, "-noout") THEN Refused
                        ELSE Made(Success, body \o modulus)
    BY <2>1, <2>2 DEF RsaMake
  <2>4. Clean(body) /\ Clean(modulus)
    BY CleanBlock, CleanNone
  <2> HIDE DEF body, modulus
  <2>5. Clean(body \o modulus)
    BY <2>4, CleanJoined
  <2> QED
    BY <2>3, <2>5, CleanNone DEF Made, Refused
<1>3. CASE c.tool = "pkcs8"
  BY <1>3 DEF AsksClear
<1>4. CASE c.tool = "pkcs12"
  <2>1. ~Has(c, "-nodes")
    BY <1>4 DEF AsksClear
  <2>2. Make(c, what) = Pkcs12Make(c, what)
    BY <1>4 DEF Make
  <2> DEFINE certs == IF Has(c, "-nocerts") THEN << >> ELSE CertBlocks(what.certs)
             made  == IF Has(c, "-nokeys") \/ what.key = None THEN Made(Success, << >>)
                      ELSE Pkcs12Key(c, what.key)
  <2>3. Make(c, what).blocks = certs \o made.blocks
    <3>1. Make(c, what) = Made(made.ret, certs \o made.blocks)
      BY <2>2 DEF Pkcs12Make
    <3> HIDE DEF certs, made
    <3> QED
      BY <3>1 DEF Made
  <2>4. Clean(certs)
    BY <1>4, CleanNone, CleanCertificates
  <2>5. ASSUME NEW key, NEW pass PROVE Clean(<<Sealed(key, pass)>>)
    <3>1. ~BareKey(Sealed(key, pass))
      BY DEF BareKey, Sealed, Block
    <3> QED
      BY <3>1, CleanOne
  <2>6. Clean(made.blocks)
    BY <2>1, <2>5, CleanNone DEF Pkcs12Key, Made, Refused
  <2> HIDE DEF certs, made
  <2> QED
    BY <2>3, <2>4, <2>6, CleanJoined
<1>5. CASE c.tool = "pkcs7"
  <2>1. Make(c, what) = Pkcs7Make(c, what)
    BY <1>5 DEF Make
  <2> QED
    BY <1>5, <2>1, CleanCertificates, CleanNone, CleanBlock DEF Pkcs7Make, Made
<1> QED
  BY <1>1, <1>2, <1>3, <1>4, <1>5

LEMMA ParamToolsMakeClean ==
  ASSUME NEW c, NEW what, ~AsksClear(c), c.tool \in Params_
  PROVE  Clean(Make(c, what).blocks)
<1>1. ~Has(c, "-genkey")
  BY DEF AsksClear, Params_
<1>2. CASE c.tool = "ecparam"
  <2> DEFINE form   == IF OutForm(c) = "PEM" THEN "PEM" ELSE "DER"
             text   == IF Has(c, "-text") THEN <<Block("text", what.group, "text")>> ELSE << >>
             params == <<Block("params", Params("ec", what.group), form)>>
             none   == << >>
  <2>1. Make(c, what).blocks = text \o params \o none
    BY <1>1, <1>2 DEF Make, EcparamMake, Made
  <2>2. Clean(text) /\ Clean(params) /\ Clean(none)
    BY CleanBlock, CleanNone
  <2> HIDE DEF text, params, none
  <2>3. Clean(text \o params)
    BY <2>2, CleanJoined
  <2>4. Clean(text \o params \o none)
    BY <2>2, <2>3, CleanJoined
  <2> QED
    BY <2>1, <2>4
<1>3. ASSUME NEW params PROVE Clean(ParamsOf(c, params)) /\ Clean(KeyOf(c, params))
  BY <1>1, CleanBlock, CleanNone DEF ParamsOf, KeyOf
<1>4. ASSUME NEW params PROVE Clean(ParamsOf(c, params) \o KeyOf(c, params))
  BY <1>3, CleanJoined
<1>5. CASE c.tool = "dhparam"
  <2>1. Make(c, what) = DhMake(c, what)
    BY <1>5 DEF Make
  <2> QED
    BY <1>3, <1>4, <2>1, CleanNone DEF DhMake, Made, Refused
<1>6. CASE c.tool = "dsaparam"
  <2>1. Make(c, what) = DsaMake(c, what)
    BY <1>6 DEF Make
  <2> QED
    BY <1>3, <1>4, <2>1, CleanNone DEF DsaMake, Made, Refused
<1> QED
  BY <1>2, <1>5, <1>6 DEF Params_

LEMMA DigestToolsMakeClean ==
  ASSUME NEW c, NEW what, ~AsksClear(c), c.tool \in {"hash", "md5", "base64", "dgst"},
         c.tool \in {"hash", "md5"} => HashAlg(c) # "-base64dec"
  PROVE  Clean(Make(c, what).blocks)
<1>1. CASE c.tool \in {"hash", "md5"}
  <2>1. Make(c, what) = HashMake(c, what)
    BY <1>1 DEF Make
  <2>2. Make(c, what).blocks \in {Encoded(what), <<Block("digest", Digest(HashAlg(c), what), DigestForm(c))>>}
    BY <1>1, <2>1 DEF HashMake, Made
  <2> QED
    BY <2>2, CleanCode, CleanBlock
<1>2. CASE c.tool = "base64"
  <2>1. ~Has(c, "-d")
    BY <1>2 DEF AsksClear
  <2>2. Make(c, what) = Base64Make(c, what)
    BY <1>2 DEF Make
  <2>3. Make(c, what).blocks \in {Encoded(what), << >>}
    BY <2>1, <2>2 DEF Base64Make, Made, Refused
  <2> QED
    BY <2>3, CleanCode, CleanNone
<1>3. CASE c.tool = "dgst"
  <2>1. Make(c, what) = DgstMake(c, what)
    BY <1>3 DEF Make
  <2>2. Make(c, what).blocks \in {<<MacOf(what)>>, <<SignatureOf(what)>>, << >>}
    BY <2>1 DEF DgstMake, Made, Refused
  <2>3. Clean(<<MacOf(what)>>) /\ Clean(<<SignatureOf(what)>>)
    BY CleanBlock DEF MacOf, SignatureOf
  <2> QED
    BY <2>2, <2>3, CleanNone
<1> QED
  BY <1>1, <1>2, <1>3

LEMMA CertToolsMakeClean ==
  ASSUME NEW c, NEW what, c.tool \in CertTools_
  PROVE  Clean(Make(c, what).blocks)
<1>1. CASE c.tool = "req"
  <2> DEFINE form == IF OutForm(c) = "DER" THEN "DER" ELSE "PEM"
             kind == IF Has(c, "-x509") THEN "cert" ELSE "request"
             text == IF Has(c, "-text") THEN <<Block("text", None, "text")>> ELSE << >>
             body == IF Has(c, "-noout") THEN << >>
                     ELSE <<Block(kind, Issued(c, what.x, what.key), form)>>
  <2>1. Make(c, what) = ReqMake(c, what)
    BY <1>1 DEF Make
  <2>2. Make(c, what) \in {Refused, Made(Success, text \o body)}
    BY <2>1 DEF ReqMake
  <2>3. Clean(text) /\ Clean(body)
    BY CleanBlock, CleanNone
  <2> HIDE DEF text, body
  <2>4. PICK u : u = text \o body
    OBVIOUS
  <2>5. Clean(u)
    BY <2>3, <2>4, CleanJoined
  <2>6. Make(c, what) \in {Refused, Made(Success, u)}
    BY <2>2, <2>4
  <2> QED
    BY <2>5, <2>6, CleanNone DEF Refused, Made
<1>2. CASE c.tool = "x509"
  <2> DEFINE made == Has(c, "-req") /\ FormOf(c.inform, "PEM") = "PEM"
             body == IF Has(c, "-noout") THEN << >>
                     ELSE <<Block("cert", IF made THEN what.x ELSE what.read, OutForm(c))>>
             kind == IF what.x.key.alg = "rsa" THEN "modulus" ELSE "wrong algorithm"
             modulus == IF Has(c, "-modulus") THEN <<Block(kind, what.x.key, "text")>> ELSE << >>
             pub == IF Has(c, "-pubkey") THEN <<Block("public", what.x.key, "PEM")>> ELSE << >>
             text == CertText(c, what.x)
  <2>1. Make(c, what) = CertMake(c, what)
    BY <1>2 DEF Make
  <2>2. Make(c, what) = Made(Success, text \o (modulus \o pub) \o body)
    BY <2>1 DEF CertMake, CertKeyParts
  <2>3. Clean(text) /\ Clean(modulus) /\ Clean(pub) /\ Clean(body)
    BY CleanBlock, CleanNone, CleanText
  <2> HIDE DEF text, modulus, pub, body
  <2>4. Clean(modulus \o pub)
    BY <2>3, CleanJoined
  <2>5. Clean(text \o (modulus \o pub))
    BY <2>3, <2>4, CleanJoined
  <2>6. Clean(text \o (modulus \o pub) \o body)
    BY <2>3, <2>5, CleanJoined
  <2> QED
    BY <2>2, <2>6 DEF Made
<1>3. CASE c.tool = "verify"
  <2>1. Make(c, what) = VerifyMake(c, what)
    BY <1>3 DEF Make
  <2> QED
    BY <2>1, CleanBlock, CleanNone DEF VerifyMake, Made, Refused
<1>4. CASE c.tool = "crl"
  <2> DEFINE form == IF OutForm(c) = "DER" THEN "DER" ELSE "PEM"
             text == IF Has(c, "-text") THEN <<Block("text", what.x, "text")>> ELSE << >>
             body == IF Has(c, "-noout") THEN << >> ELSE <<Block("crl", what.x, form)>>
  <2>1. Make(c, what) = CrlMake(c, what)
    BY <1>4 DEF Make
  <2>2. Make(c, what).blocks = text \o body
    <3>1. PICK code : Make(c, what) = Made(code, text \o body)
      BY <2>1 DEF CrlMake
    <3> HIDE DEF text, body
    <3> QED
      BY <3>1 DEF Made
  <2>3. Clean(text) /\ Clean(body)
    BY CleanBlock, CleanNone
  <2> HIDE DEF text, body
  <2> QED
    BY <2>2, <2>3, CleanJoined
<1>5. CASE c.tool = "ca"
  <2>1. Make(c, what) = CaMake(c, what)
    BY <1>5 DEF Make
  <2>2. Clean(CertSign(c, what).blocks)
    BY CleanBlock, CleanNone DEF CertSign, Made, Refused
  <2>3. ASSUME NEW cert PROVE Clean(<<ChimeraForm(c, cert)>>)
    BY CleanBlock DEF ChimeraForm
  <2>4. Clean(ChimeraSign(c, what).blocks)
    BY <2>3, CleanNone DEF ChimeraSign, Made, Refused
  <2> QED
    BY <2>1, <2>2, <2>4, CleanNone DEF CaMake, Made
<1> QED
  BY <1>1, <1>2, <1>3, <1>4, <1>5 DEF CertTools_

LEMMA MakesClean ==
  ASSUME NEW c, NEW what, ~AsksClear(c), c.tool \in Tools,
         c.tool \in {"pkcs12", "pkcs7"} => Parses(what.certs),
         c.tool \in {"hash", "md5"} => HashAlg(c) # "-base64dec"
  PROVE  Clean(Make(c, what).blocks)
BY KeyToolsMakeClean, ParamToolsMakeClean, DigestToolsMakeClean, CertToolsMakeClean
   DEF Tools, OpensLoaded, OpensMade, Prints, Early, CertTools_

\* Cutting a file off, or writing the last block over another stream's, adds no
\* key.
LEMMA LeftOver ==
  ASSUME NEW there, NEW left \in Over(there) \cup {<< >>, Cut}, Clean(held)
  PROVE  left = there \/ ~HasClearKey(left)
<1>1. Clean(Cut)
  BY CleanBlock DEF Cut
<1>2. Clean(<< >>) /\ Clean(held \o Cut)
  BY <1>1, CleanNone, CleanJoined
<1>3. left \in {there, held, held \o Cut, << >>, Cut}
  BY DEF Over
<1> QED
  BY <1>1, <1>2, <1>3, CleanHasNoKey

\* What the line asks for is known from its first step, and what is made of it
\* is clean unless it asks for a key.
SecretInv ==
  /\ SecretsStay
  /\ pc # "idle" => AsksClearIn(line) \subseteq clear
  /\ pc \in {"load", "make"} /\ line.tool = "hash" => line.flags \cap (Hashes \cup Codes) # {}
  /\ pc = "make" /\ line.tool \in {"pkcs12", "pkcs7"} => Parses(got.certs)
  /\ pc # "idle" => AsksClear(line) \/ Clean(held)
  /\ pc \in {"key", "seal"} => line.tool = "req"

LEMMA SecretsAtFirst == Init => SecretInv
<1> SUFFICES ASSUME Init PROVE SecretInv
  OBVIOUS
<1>1. pc = "idle" /\ disk = InitDisk /\ clear = {f \in Files : HasClearKey(disk[f])}
  BY DEF Init
<1> QED
  BY <1>1 DEF SecretInv, SecretsStay

LEMMA OpeningAddsNoKey ==
  ASSUME TypeInv, SecretsStay, NEW yes, NEW result, NEW there, Open(yes, result, there),
         clear' = clear
  PROVE  SecretsStay'
<1>1. disk' = disk \/ disk' = [disk EXCEPT ![Output] = << >>]
  BY DEF Open
<1>2. ~HasClearKey(<< >>)
  BY CleanNone, CleanHasNoKey
<1> QED
  BY <1>1, <1>2 DEF SecretsStay, TypeInv, TypeOK

LEMMA AlgorithmAsked ==
  ASSUME TypeInv, runs # 0, line.tool \in {"hash", "md5"}, ~AsksClear(line),
         line.tool = "hash" => line.flags \cap (Hashes \cup Codes) # {}
  PROVE  HashAlg(line) # "-base64dec"
<1>1. CASE line.tool = "hash"
  <2>1. HashAlg(line) \in line.flags
    BY <1>1 DEF HashAlg
  <2> QED
    BY <1>1, <2>1 DEF AsksClear
<1>2. CASE line.tool = "md5"
  <2>1. PICK alg \in Hashes : line.flags = {alg}
    BY <1>2, FilesAssumption DEF TypeInv, LineOK, FilesAssumption
  <2>2. HashAlg(line) = alg
    BY <2>1 DEF HashAlg
  <2> QED
    BY <2>2 DEF Hashes
<1> QED
  BY <1>1, <1>2

LEMMA SecretsKept == TypeInv /\ SecretInv /\ [Next]_vars => SecretInv'
<1> SUFFICES ASSUME TypeInv, SecretInv, [Next]_vars
             PROVE  SecretInv'
  OBVIOUS
<1>a. ASSUME pc # "idle", line' = line, clear' = clear
      PROVE  AsksClearIn(line') \subseteq clear' /\ runs # 0 /\ line.tool \in Tools
  BY <1>a, FilesAssumption DEF SecretInv, TypeInv, LineOK, FilesAssumption
<1>b. ASSUME pc # "idle", line' = line, held' = held
      PROVE  AsksClear(line') \/ Clean(held')
  BY <1>b DEF SecretInv
<1>c. ASSUME disk' = disk, clear' = clear
      PROVE  SecretsStay'
  BY <1>c DEF SecretInv, SecretsStay
<1>1. ASSUME NEW c \in LinesAfter(runs, line), Start(c)
      PROVE  SecretInv'
  <2>1. disk' = disk /\ line' = c /\ clear' = clear \cup AsksClearIn(c) /\ held' = << >> /\ pc' = "scan"
    BY <1>1 DEF Start
  <2>2. SecretsStay'
    BY <2>1 DEF SecretInv, SecretsStay
  <2>3. Clean(held') /\ AsksClearIn(line') \subseteq clear'
    BY <2>1, CleanNone
  <2> QED
    BY <2>1, <2>2, <2>3 DEF SecretInv
<1>2. CASE ScanOptions
  <2>1. /\ line' = line /\ pc = "scan" /\ held' = held /\ clear' = clear
        /\ pc' \in {"load", "close"}
    BY <1>2 DEF ScanOptions, Open
  <2>2. SecretsStay'
    BY <1>2, <2>1, OpeningAddsNoKey DEF ScanOptions, SecretInv
  <2>3. ASSUME pc' = "load", line.tool = "hash"
        PROVE  line.flags \cap (Hashes \cup Codes) # {}
    <3>1. Scan(line, disk) = Success
      BY <1>2, <2>3 DEF ScanOptions, Open, FatalError, Success
    <3>2. HashScan(line, disk) = Success
      BY <2>3, <3>1 DEF Scan
    <3>3. \E alg \in Hashes \cup Codes : line.flags \cap (Hashes \cup Codes) = {alg}
      BY <3>2 DEF HashScan, FatalError, Success
    <3> QED
      BY <3>3
  <2>4. AsksClearIn(line') \subseteq clear' /\ (AsksClear(line') \/ Clean(held'))
    BY <1>a, <1>b, <2>1
  <2> QED
    BY <2>1, <2>2, <2>3, <2>4 DEF SecretInv
<1>3. CASE ReadInput
  <2>1. /\ line' = line /\ pc = "load" /\ held' = held /\ clear' = clear
        /\ pc' \in {"make", "close"}
    BY <1>3 DEF ReadInput, Open
  <2>2. SecretsStay'
    BY <1>3, <2>1, OpeningAddsNoKey DEF ReadInput, SecretInv
  <2>3. ASSUME pc' = "make", line.tool \in {"pkcs12", "pkcs7"}
        PROVE  Parses(got'.certs)
    <3>1. Load(line, disk).ret = Success /\ got' = Load(line, disk).what
      BY <1>3, <2>3 DEF ReadInput, Open, FatalError, Success
    <3>2. CASE line.tool = "pkcs12"
      <4>1. Load(line, disk) = Pkcs12Load(line, disk)
        BY <3>2 DEF Load
      <4> QED
        BY <3>1, <4>1 DEF Pkcs12Load, Loaded, FatalError, Success
    <3>3. CASE line.tool = "pkcs7"
      <4>1. Load(line, disk) = Pkcs7Load(line, disk)
        BY <3>3 DEF Load
      <4> QED
        BY <3>1, <4>1 DEF Pkcs7Load, Loaded, FatalError, Success
    <3> QED
      BY <2>3, <3>2, <3>3
  <2>4. AsksClearIn(line') \subseteq clear' /\ (AsksClear(line') \/ Clean(held'))
    BY <1>a, <1>b, <2>1
  <2>5. line.tool = "hash" => line.flags \cap (Hashes \cup Codes) # {}
    BY <2>1 DEF SecretInv
  <2> QED
    BY <2>1, <2>2, <2>3, <2>4, <2>5 DEF SecretInv
<1>4. CASE MakeOutput
  <2>1. /\ line' = line /\ pc = "make" /\ held' = Make(line, got).blocks /\ clear' = clear
        /\ pc' \in {"key", "close"}
    BY <1>4 DEF MakeOutput, Open
  <2>2. SecretsStay'
    BY <1>4, <2>1, OpeningAddsNoKey DEF MakeOutput, SecretInv
  <2>3. AsksClearIn(line') \subseteq clear' /\ runs # 0 /\ line.tool \in Tools
    BY <1>a, <2>1
  <2>4. AsksClear(line) \/ Clean(held')
    <3>1. SUFFICES ASSUME ~AsksClear(line) PROVE Clean(held')
      OBVIOUS
    <3>2. line.tool \in {"hash", "md5"} => HashAlg(line) # "-base64dec"
      BY <2>1, <2>3, <3>1, AlgorithmAsked DEF SecretInv
    <3>3. line.tool \in {"pkcs12", "pkcs7"} => Parses(got.certs)
      BY <2>1 DEF SecretInv
    <3> QED
      BY <2>1, <2>3, <3>1, <3>2, <3>3, MakesClean
  <2>5. pc' = "key" => line.tool = "req"
    BY <1>4 DEF MakeOutput, Open, KeyToo
  <2> QED
    BY <2>1, <2>2, <2>3, <2>4, <2>5 DEF SecretInv
<1>5. CASE OpenKeyOut
  <2>1. /\ line' = line /\ pc = "key" /\ held' = held /\ clear' = clear /\ pc' \in {"seal", "close"}
        /\ disk' = disk \/ disk' = [disk EXCEPT ![line.keyout] = << >>]
    BY <1>5 DEF OpenKeyOut
  <2>2. ~HasClearKey(<< >>)
    BY CleanNone, CleanHasNoKey
  <2>3. SecretsStay'
    BY <2>1, <2>2 DEF SecretInv, SecretsStay, TypeInv, TypeOK
  <2>4. AsksClearIn(line') \subseteq clear' /\ (AsksClear(line') \/ Clean(held'))
    BY <1>a, <1>b, <2>1
  <2> QED
    BY <2>1, <2>3, <2>4 DEF SecretInv
<1>6. CASE WriteKeyOut
  <2>1. line' = line /\ pc = "seal" /\ held' = held /\ clear' = clear /\ pc' = "close"
    BY <1>6 DEF WriteKeyOut
  <2>2. PICK pass, left :
          /\ left \in {ReqKeyOut(line, got, pass).blocks, Cut}
          /\ disk' = disk \/ disk' = [disk EXCEPT ![line.keyout] = left]
    BY <1>6 DEF WriteKeyOut
  <2>3. Has(line, "-nodes") \/ Clean(left)
    <3>1. Clean(Cut)
      BY CleanBlock DEF Cut
    <3>2. ~BareKey(Sealed(got.key, pass))
      BY DEF BareKey, Sealed, Block
    <3>3. Has(line, "-nodes") \/ Clean(ReqKeyOut(line, got, pass).blocks)
      BY <3>2, CleanOne, CleanNone DEF ReqKeyOut, Refused, Made
    <3> QED
      BY <2>2, <3>1, <3>3
  <2>4. line.tool = "req"
    BY <2>1 DEF SecretInv
  <2>5. Has(line, "-nodes") /\ line.keyout \in Files => line.keyout \in clear
    BY <2>1, <2>4 DEF SecretInv, AsksClearIn
  <2>6. SecretsStay'
    BY <2>1, <2>2, <2>3, <2>5, CleanHasNoKey DEF SecretInv, SecretsStay, TypeInv, TypeOK
  <2>7. AsksClearIn(line') \subseteq clear' /\ (AsksClear(line') \/ Clean(held'))
    BY <1>a, <1>b, <2>1
  <2> QED
    BY <2>1, <2>6, <2>7 DEF SecretInv
<1>7. CASE CallFails
  <2>1. line' = line /\ held' = held /\ clear' = clear /\ disk' = disk /\ pc # "idle" /\ pc' = "close"
    BY <1>7 DEF CallFails
  <2>2. AsksClearIn(line') \subseteq clear' /\ (AsksClear(line') \/ Clean(held')) /\ SecretsStay'
    BY <1>a, <1>b, <1>c, <2>1
  <2> QED
    BY <2>1, <2>2 DEF SecretInv
<1>8. CASE CloseOutput
  <2>1. line' = line /\ clear' = clear /\ pc = "close" /\ pc' = "idle"
    BY <1>8 DEF CloseOutput
  <2>2. \/ disk' = disk
        \/ opened /\ \E left \in Over(disk[Output]) \cup {<< >>, Cut} : disk' = [disk EXCEPT ![Output] = left]
    BY <1>8 DEF CloseOutput
  <2>3. SecretsStay'
    <3>1. SUFFICES ASSUME opened, NEW left \in Over(disk[Output]) \cup {<< >>, Cut},
                          disk' = [disk EXCEPT ![Output] = left]
                   PROVE  SecretsStay'
      BY <1>c, <2>1, <2>2
    <3>2. Output \in Files /\ DOMAIN disk = Files
      BY <3>1 DEF TypeInv, TypeOK
    <3>3. CASE AsksClear(line)
      <4>1. line.tool \notin Prints \cup {"dgst", "crl"}
        BY <3>3 DEF AsksClear, Prints, Params_
      <4>2. Output = line.out
        BY <3>2, <4>1, FilesAssumption DEF Output, FilesAssumption
      <4>3. Output \in clear
        BY <2>1, <3>2, <3>3, <4>2 DEF AsksClearIn, SecretInv
      <4> QED
        BY <2>1, <3>1, <3>2, <4>3 DEF SecretInv, SecretsStay
    <3>4. CASE ~AsksClear(line)
      <4>1. Clean(held)
        BY <2>1, <3>4 DEF SecretInv
      <4>2. left = disk[Output] \/ ~HasClearKey(left)
        BY <3>1, <4>1, LeftOver
      <4> QED
        BY <2>1, <3>1, <3>2, <4>2 DEF SecretInv, SecretsStay
    <3> QED
      BY <3>3, <3>4
  <2> QED
    BY <2>1, <2>3 DEF SecretInv
<1>9. CASE Kill
  <2>1. clear' = clear /\ disk' = disk /\ pc' = "idle"
    BY <1>9 DEF Kill
  <2> QED
    BY <1>c, <2>1 DEF SecretInv
<1>10. CASE UNCHANGED vars
  BY <1>10 DEF vars, SecretInv, SecretsStay
<1>11. CASE WriteFails
  <2>1. /\ line' = line /\ clear' = clear /\ disk' = disk
        /\ pc \in {"key", "close"} /\ pc' \in {pc, "close"}
    BY <1>11 DEF WriteFails
  <2>2. AsksClear(line') \/ Clean(held')
    <3>1. SUFFICES ASSUME Clean(held) PROVE Clean(held')
      BY <2>1 DEF SecretInv
    <3>2. Clean(Cut)
      BY CleanBlock DEF Cut
    <3>3. Sequence(held') /\ Range(held') \subseteq Range(held) \cup Range(Cut)
      BY <1>11, <3>1, FailedWrite DEF Clean
    <3> QED
      BY <3>1, <3>2, <3>3 DEF Clean
  <2>3. AsksClearIn(line') \subseteq clear' /\ SecretsStay'
    BY <1>a, <1>c, <2>1
  <2> QED
    BY <2>1, <2>2, <2>3 DEF SecretInv
<1> QED
  BY <1>1, <1>2, <1>3, <1>4, <1>5, <1>6, <1>7, <1>8, <1>9, <1>10, <1>11 DEF Next

(* A private key that nothing seals is never in a file unless there was one*)
(* in it at first or a run was asked to write one there, whatever files the*)
(* commands are given, in whatever order they run, and wherever they fail, *)
(* run out of room or are killed.                                          *)
THEOREM SecretsAreKept == Spec => []SecretsStay
<1>1. SecretInv => SecretsStay
  BY DEF SecretInv
<1> QED
  BY <1>1, TypesAtFirst, TypesKept, SecretsAtFirst, SecretsKept, PTL DEF Spec

-----------------------------------------------------------------------------
(* What a digest covers.                                                   *)

DataTools == {"hash", "md5", "base64", "dgst"}

\* The runs CoversAll is about.
Whole ==
  /\ line.tool \in DataTools
  /\ line.tool = "hash" => ~Emptied(line)
  /\ line.in = None => Len(line.stdin) <= TakenFromStdin(line)

\* Only the output is not as it was, and it is empty.
OutputEmptied ==
  /\ \A f \in Files : disk[f] = before[f] \/ (opened /\ f = Output)
  /\ opened => disk[Output] = << >>

\* What has been read when a result is made.
ReadWhole ==
  IF line.tool = "dgst" THEN got.digest.over = Source
  ELSE got = Source \/ (line.tool = "base64" /\ got = << >>)

CoverInv ==
  /\ CoversAll
  /\ pc # "idle" /\ line.tool \in DataTools
     => /\ pc \notin {"key", "seal"} /\ OutputEmptied
        /\ pc \in {"load", "make"} /\ line.tool \in {"hash", "base64"} /\ Output # None => opened
        /\ pc \in {"load", "make"} /\ line.tool = "hash"
           => \E alg \in Hashes \cup Codes : line.flags \cap (Hashes \cup Codes) = {alg}
        /\ pc = "make" /\ Whole => ReadWhole
        /\ pc = "close" /\ ret = Success /\ ~AsksHelp(line, before) /\ ~mishap
           => /\ Output # None => opened
              /\ Whole => Covers(held, Source)

LEMMA CoverAtFirst == Init => CoverInv
<1> SUFFICES ASSUME Init PROVE CoverInv
  OBVIOUS
<1>1. pc = "idle" /\ end = "not yet"
  BY DEF Init
<1> QED
  BY <1>1 DEF CoverInv, CoversAll, Succeeded

LEMMA AllOfStdin ==
  ASSUME TypeInv, runs # 0, NEW limit \in Nat, Len(line.stdin) <= limit
  PROVE  FromStdin(line, limit) = line.stdin /\ Len(line.stdin) \in Nat
<1>1. line.stdin \in Seq(Range(line.stdin))
  BY FilesAssumption DEF TypeInv, LineOK, FilesAssumption
<1> DEFINE S == Range(line.stdin)
           s == line.stdin
<1>2. s \in Seq(S)
  BY <1>1
<1> HIDE DEF S, s
<1>3. Len(s) \in Nat
  BY <1>2, LenProperties
<1>4. SubSeq(s, 1, Len(s)) = s
  BY <1>2, SubSeqFull
<1>5. (IF Len(s) < limit THEN Len(s) ELSE limit) = Len(s)
  BY <1>3 DEF s
<1> QED
  BY <1>3, <1>4, <1>5 DEF FromStdin, s

LEMMA HashAlgorithm ==
  ASSUME TypeInv, runs # 0, line.tool \in {"hash", "md5"},
         line.tool = "hash" => \E alg \in Hashes \cup Codes : line.flags \cap (Hashes \cup Codes) = {alg}
  PROVE  /\ line.tool = "md5" => HashAlg(line) \in Hashes
         /\ Decodes(line) => HashAlg(line) = "-base64dec"
         /\ ~Decodes(line) => HashAlg(line) # "-base64dec"
<1>1. CASE line.tool = "hash"
  <2>1. PICK alg \in Hashes \cup Codes : line.flags \cap (Hashes \cup Codes) = {alg}
    BY <1>1
  <2>2. HashAlg(line) = alg /\ alg \in line.flags
    BY <2>1 DEF HashAlg
  <2>3. "-base64dec" \in Hashes \cup Codes
    BY DEF Codes
  <2>4. "-base64dec" \in line.flags <=> alg = "-base64dec"
    BY <2>1, <2>2, <2>3
  <2> QED
    BY <1>1, <2>2, <2>4 DEF Decodes
<1>2. CASE line.tool = "md5"
  <2>1. PICK alg \in Hashes : line.flags = {alg}
    BY <1>2, FilesAssumption DEF TypeInv, LineOK, FilesAssumption
  <2>2. HashAlg(line) = alg
    BY <2>1 DEF HashAlg
  <2> QED
    BY <1>2, <2>2 DEF Decodes, Hashes
<1> QED
  BY <1>1, <1>2

\* A result that is made with success covers what was read.
LEMMA MadeCovers ==
  ASSUME TypeInv, runs # 0, line.tool \in DataTools, Whole, ReadWhole,
         line.tool = "hash" => \E alg \in Hashes \cup Codes : line.flags \cap (Hashes \cup Codes) = {alg},
         Make(line, got).ret = Success
  PROVE  Covers(Make(line, got).blocks, Source)
<1>0. FatalError # Success
  BY DEF FatalError, Success
<1>1. CASE line.tool \in {"hash", "md5"}
  <2>1. Make(line, got) = HashMake(line, got) /\ got = Source
    BY <1>1 DEF Make, ReadWhole
  <2>2. CASE Decodes(line)
    <3>1. HashAlg(line) = "-base64dec"
      BY <1>1, <2>2, HashAlgorithm
    <3>2. Make(line, got) = Decoded(Source)
      BY <2>1, <3>1 DEF HashMake
    <3> QED
      BY <1>0, <2>2, <3>2 DEF Decoded, Covers, Made, Refused
  <2>3. CASE ~Decodes(line)
    <3>1. HashAlg(line) # "-base64dec"
      BY <1>1, <2>3, HashAlgorithm
    <3>2. Make(line, got).blocks \in
            {Encoded(Source), <<Block("digest", Digest(HashAlg(line), Source), DigestForm(line))>>}
      BY <2>1, <3>1 DEF HashMake, Made
    <3>3. Covers(Encoded(Source), Source)
      BY <1>1, <2>3 DEF Covers, Encoded, Block
    <3>4. Covers(<<Block("digest", Digest(HashAlg(line), Source), DigestForm(line))>>, Source)
      BY <1>1, <2>3 DEF Covers, Digest, Block
    <3> QED
      BY <3>2, <3>3, <3>4
  <2> QED
    BY <2>2, <2>3
<1>2. CASE line.tool = "base64"
  <2>1. Make(line, got) = Base64Make(line, got)
    BY <1>2 DEF Make
  <2>2. Decodes(line) <=> Has(line, "-d")
    BY <1>2 DEF Decodes
  <2>3. got = Source
    <3>1. ASSUME got = << >> PROVE FALSE
      <4>1. Make(line, got) = Refused
        BY <2>1, <3>1 DEF Base64Make, Encoded, Decoded, Made
      <4> QED
        BY <1>0, <4>1 DEF Refused, Made
    <3> QED
      BY <1>2, <3>1 DEF ReadWhole
  <2>4. CASE Decodes(line)
    <3>1. SUFFICES ASSUME Len(Source) = 1, Source[1].kind = "base64", Source[1].form = "text"
                   PROVE  Make(line, got).blocks = Source[1].of
      BY <2>4 DEF Covers
    <3>2. Source # << >>
      <4>1. Len(<< >>) = 0
        OBVIOUS
      <4>2. ASSUME Source = << >> PROVE FALSE
        BY <3>1, <4>1, <4>2 DEF Source
      <4> QED
        BY <4>2
    <3>3. Make(line, got) = IF Decoded(Source).blocks = << >> THEN Refused ELSE Decoded(Source)
      BY <2>1, <2>2, <2>3, <2>4, <3>1, <3>2 DEF Base64Make
    <3>4. Decoded(Source) \in {Made(Success, Source[1].of), Refused}
      BY <3>1, <3>2 DEF Decoded
    <3>5. Decoded(Source) = Made(Success, Source[1].of)
      BY <1>0, <3>3, <3>4 DEF Made, Refused
    <3> QED
      BY <3>3, <3>5, <1>0 DEF Made, Refused
  <2>5. CASE ~Decodes(line)
    <3>1. Make(line, got).blocks = Encoded(Source)
      BY <1>0, <2>1, <2>2, <2>3, <2>5 DEF Base64Make, Made, Refused
    <3> QED
      BY <1>2, <2>5, <3>1 DEF Covers, Encoded, Block
  <2> QED
    BY <2>4, <2>5
<1>3. CASE line.tool = "dgst"
  <2>1. Make(line, got) = DgstMake(line, got) /\ got.digest.over = Source /\ ~Decodes(line)
    BY <1>3 DEF Make, ReadWhole, Decodes
  <2>2. Make(line, got).blocks \in {<<MacOf(got)>>, <<SignatureOf(got)>>, << >>}
    BY <2>1 DEF DgstMake, Made, Refused
  <2>3. Covers(<<MacOf(got)>>, Source) /\ Covers(<<SignatureOf(got)>>, Source) /\ Covers(<< >>, Source)
    BY <1>3, <2>1 DEF Covers, MacOf, SignatureOf, Block
  <2> QED
    BY <2>2, <2>3
<1> QED
  BY <1>1, <1>2, <1>3 DEF DataTools

\* How opening the output leaves it.
LEMMA OpeningEmpties ==
  ASSUME TypeInv, runs # 0, NEW yes, NEW result, NEW there, Open(yes, result, there),
         line' = line, before' = before, OutputEmptied
  PROVE  /\ OutputEmptied'
         /\ opened => opened'
         /\ yes /\ Output \notin {None, Unwritable} => opened'
         /\ ret' = Success => result = Success /\ (yes => Output # Unwritable)
         /\ ret' = Success => pc' = there
         /\ ret' # Success => pc' = "close"
<1>0. FatalError # Success
  BY DEF FatalError, Success
<1>1. Output' = Output
  BY DEF Output, Hmac, Signing, Has
<1>2. opened' = (opened \/ (yes /\ Output \notin {None, Unwritable}))
  BY DEF Open
<1>3. opened' \in BOOLEAN /\ (opened => opened')
  BY <1>2 DEF TypeInv, TypeOK
<1>4. yes /\ Output \notin {None, Unwritable} => opened'
  BY <1>2, Zenon
<1>5. opened' => Output \in Files
  BY <1>2, OutputOfALine DEF TypeInv, TypeOK, LineOK
<1>6. disk' = IF opened' /\ ~opened THEN [disk EXCEPT ![Output] = << >>] ELSE disk
  BY DEF Open
<1>7. DOMAIN disk = Files
  BY DEF TypeInv, TypeOK
<1>8. OutputEmptied'
  <2>1. CASE opened' /\ ~opened
    BY <1>1, <1>5, <1>6, <1>7, <2>1 DEF OutputEmptied
  <2>2. CASE ~(opened' /\ ~opened)
    BY <1>1, <1>3, <1>6, <2>2 DEF OutputEmptied
  <2> QED
    BY <2>1, <2>2
<1>9. ret' = Success => result = Success /\ (yes => Output # Unwritable)
  BY <1>0 DEF Open
<1>10. (ret' = Success => pc' = there) /\ (ret' # Success => pc' = "close")
  BY DEF Open
<1> QED
  BY <1>3, <1>4, <1>8, <1>9, <1>10

\* hash and base64 open their output with their options.
LEMMA ScannedOpens ==
  ASSUME TypeInv, runs # 0, line.tool \in {"hash", "base64"}, ~AsksHelp(line, disk),
         Scan(line, disk) = Success, Output # None
  PROVE  ScanOpens(line, disk) /\ Output \notin {None, Unwritable}
<1>0. FatalError # Success /\ None # "-out" /\ Early \cap {"hash", "base64"} = {}
  BY FilesAssumption DEF FatalError, Success, FilesAssumption, Early
<1>1. Output = line.out
  BY DEF Output, Prints
<1>2. CASE line.tool = "hash"
  <2>1. HashScan(line, disk) = Success
    BY <1>2 DEF Scan
  <2>2. line.twice = None /\ line.out # Unwritable
    BY <1>0, <2>1 DEF HashScan
  <2>3. OutOpened(line)
    BY <1>0, <1>1, <2>2 DEF OutOpened, Given
  <2> QED
    BY <1>0, <1>1, <1>2, <2>1, <2>2, <2>3 DEF ScanOpens
<1>3. CASE line.tool = "base64"
  <2>1. Base64Scan(line, disk) = Success
    BY <1>3 DEF Scan
  <2>2. \A i \in 1 .. 4 : ~Fails(line, base64_options[i], disk)
    BY <1>0, <2>1 DEF Base64Scan, base64_options
  <2>3. ~Fails(line, "-in", disk) /\ ~Fails(line, "-out", disk)
    BY <2>2 DEF base64_options
  <2>4. line.twice # "-out" /\ line.out # Unwritable
    BY <2>3 DEF Fails
  <2>5. OutOpened(line)
    BY <1>1, <2>4 DEF OutOpened, Given
  <2> QED
    BY <1>0, <1>1, <1>3, <2>3, <2>4, <2>5 DEF ScanOpens, Base64Opens
<1> QED
  BY <1>2, <1>3

\* What is read is the whole of the source, but for the file that base64 is to
\* write over, which is empty by then.
LEMMA ReadsWhole ==
  ASSUME TypeInv, RefuseInv, runs # 0, pc = "load", OutputEmptied, Whole,
         line.tool = "hash" => \E alg \in Hashes \cup Codes : line.flags \cap (Hashes \cup Codes) = {alg},
         Load(line, disk).ret = Success, got' = Load(line, disk).what, line' = line, before' = before
  PROVE  ReadWhole'
<1>0. FatalError # Success
  BY DEF FatalError, Success
<1>1. /\ line.tool \in DataTools /\ line.in \in Files \cup {None} /\ Source' = Source
      /\ Source = IF line.in = None THEN line.stdin ELSE before[line.in]
  BY FilesAssumption, SameEnds, SourceOfLate
     DEF Whole, TypeInv, LineOK, FilesAssumption, DataTools, Early
<1>2. line.tool \in {"md5", "dgst"} => disk = before
  BY DEF RefuseInv, Untouched, OpensMade, Prints
<1>3. CASE line.tool \in {"hash", "md5"}
  <2> DEFINE limit == IF HashAlg(line) \in Codes THEN HashMax ELSE Len(line.stdin)
  <2>1. got' = IF line.in = None THEN FromStdin(line, limit) ELSE disk[line.in]
    BY <1>3 DEF Load, HashLoad, Loaded
  <2>2. CASE line.in = None
    <3>1. Len(line.stdin) \in Nat
      BY AllOfStdin, LimitsAssumption, FilesAssumption, LenProperties DEF TypeInv, LineOK, FilesAssumption
    <3>2. limit \in Nat /\ Len(line.stdin) <= limit
      <4>1. CASE line.tool = "hash"
        BY <2>2, <3>1, <4>1, LimitsAssumption DEF Whole, TakenFromStdin
      <4>2. CASE line.tool = "md5"
        <5>1. HashAlg(line) \in Hashes
          BY <4>2, HashAlgorithm
        <5>2. HashAlg(line) \notin Codes
          BY <5>1 DEF Hashes, Codes
        <5> QED
          BY <3>1, <5>2
      <4> QED
        BY <1>3, <4>1, <4>2
    <3>3. FromStdin(line, limit) = line.stdin
      BY <3>2, AllOfStdin
    <3> QED
      BY <1>1, <1>3, <2>1, <2>2, <3>3 DEF ReadWhole, Source
  <2>3. CASE line.in # None
    <3>1. disk[line.in] = before[line.in]
      <4>1. CASE line.tool = "md5"
        BY <1>2, <4>1
      <4>2. CASE line.tool = "hash"
        BY <1>1, <2>3, <4>2 DEF OutputEmptied, Whole, Emptied, Output, Prints, Early
      <4> QED
        BY <1>3, <4>1, <4>2
    <3> QED
      BY <1>1, <1>3, <2>1, <2>3, <3>1 DEF ReadWhole
  <2> QED
    BY <2>2, <2>3
<1>4. CASE line.tool = "base64"
  <2>1. got' = IF line.in = None THEN FromStdin(line, Base64Max) ELSE disk[line.in]
    BY <1>4 DEF Load, Base64Load, Loaded
  <2>2. CASE line.in = None
    <3>1. FromStdin(line, Base64Max) = line.stdin
      BY <1>4, <2>2, AllOfStdin, LimitsAssumption DEF Whole, TakenFromStdin
    <3> QED
      BY <1>1, <1>4, <2>1, <2>2, <3>1 DEF ReadWhole
  <2>3. CASE line.in # None
    <3>1. disk[line.in] = before[line.in] \/ disk[line.in] = << >>
      BY <1>1, <2>3 DEF OutputEmptied
    <3> QED
      BY <1>1, <1>4, <2>1, <2>3, <3>1 DEF ReadWhole
  <2> QED
    BY <2>2, <2>3
<1>5. CASE line.tool = "dgst"
  <2>1. DgstLoad(line, disk).ret = Success /\ got' = DgstLoad(line, disk).what
    BY <1>5 DEF Load
  <2>2. got'.digest = Digest(DgstHash(line), IF line.in = None THEN line.stdin ELSE disk[line.in])
    BY <1>0, <2>1 DEF DgstLoad, Loaded
  <2>3. got'.digest.over = Source
    BY <1>1, <1>2, <1>5, <2>2 DEF Digest
  <2> QED
    BY <1>1, <1>5, <2>3 DEF ReadWhole
<1> QED
  BY <1>1, <1>3, <1>4, <1>5 DEF DataTools

LEMMA CoverKept == TypeInv /\ RefuseInv /\ CoverInv /\ [Next]_vars => CoverInv'
<1> SUFFICES ASSUME TypeInv, RefuseInv, CoverInv, [Next]_vars PROVE CoverInv'
  OBVIOUS
<1>0. FatalError # Success
  BY DEF FatalError, Success
<1>r. pc # "idle" => runs # 0
  BY DEF TypeInv, LineOK
<1>a. ASSUME pc' # "idle" PROVE CoversAll'
  BY <1>a DEF CoversAll, Succeeded
<1>c. ASSUME line' = line PROVE /\ Output' = Output
                                /\ (line'.tool \in DataTools <=> line.tool \in DataTools)
                                /\ (Whole' <=> Whole)
  BY <1>c DEF Output, Hmac, Signing, Has, Whole
<1>1. ASSUME NEW c \in LinesAfter(runs, line), Start(c) PROVE CoverInv'
  <2>1. pc' = "scan" /\ before' = disk /\ disk' = disk
    BY <1>1 DEF Start
  <2>2. opened' = FALSE
    BY <1>1 DEF Start
  <2>3. ~opened'
    BY <2>2, Zenon
  <2>4. OutputEmptied'
    BY <2>1, <2>3 DEF OutputEmptied
  <2> QED
    BY <1>a, <2>1, <2>4 DEF CoverInv
<1>2. CASE ScanOptions
  <2>1. pc = "scan" /\ line' = line /\ before' = before /\ disk = before
    BY <1>2 DEF ScanOptions, RefuseInv, Untouched
  <2>2. PICK result, there :
          /\ Open(ScanOpens(line, disk), result, there)
          /\ AsksHelp(line, disk) => there = "close"
          /\ ~AsksHelp(line, disk) => result = Scan(line, disk) /\ there = "load"
    BY <1>2 DEF ScanOptions
  <2>3. pc' \in {"load", "close"}
    BY <2>2 DEF Open
  <2>4. SUFFICES ASSUME line.tool \in DataTools PROVE CoverInv'
    BY <1>a, <1>c, <2>1, <2>3 DEF CoverInv
  <2>5. OutputEmptied
    BY <2>1, <2>4 DEF CoverInv
  <2>6. /\ OutputEmptied'
        /\ ScanOpens(line, disk) /\ Output \notin {None, Unwritable} => opened'
        /\ ret' = Success => result = Success /\ pc' = there
        /\ ret' # Success => pc' = "close"
    BY <1>r, <2>1, <2>2, <2>5, OpeningEmpties
  <2>7. pc' = "close" /\ ret' = Success => AsksHelp(line, before)'
    BY <2>1, <2>2, <2>6
  <2>8. pc' = "load" => ret' = Success /\ Scan(line, disk) = Success /\ ~AsksHelp(line, disk)
    BY <2>2, <2>6
  <2>9. pc' = "load" /\ line.tool \in {"hash", "base64"} /\ Output # None => opened'
    BY <1>r, <2>1, <2>6, <2>8, ScannedOpens
  <2>10. pc' = "load" /\ line.tool = "hash"
         => \E alg \in Hashes \cup Codes : line.flags \cap (Hashes \cup Codes) = {alg}
    <3>1. SUFFICES ASSUME pc' = "load", line.tool = "hash"
                   PROVE  \E alg \in Hashes \cup Codes : line.flags \cap (Hashes \cup Codes) = {alg}
      OBVIOUS
    <3>2. HashScan(line, disk) = Success
      BY <2>8, <3>1 DEF Scan
    <3> QED
      BY <1>0, <3>2 DEF HashScan
  <2> QED
    BY <1>a, <1>c, <2>1, <2>3, <2>6, <2>7, <2>9, <2>10 DEF CoverInv
<1>3. CASE ReadInput
  <2>1. pc = "load" /\ line' = line /\ before' = before /\ got' = Load(line, disk).what
    BY <1>3 DEF ReadInput
  <2>2. Open(line.tool \in OpensLoaded /\ Load(line, disk).ret = Success, Load(line, disk).ret, "make")
    BY <1>3 DEF ReadInput
  <2>3. pc' \in {"make", "close"}
    BY <2>2 DEF Open
  <2>4. SUFFICES ASSUME line.tool \in DataTools PROVE CoverInv'
    BY <1>a, <1>c, <2>1, <2>3 DEF CoverInv
  <2>5. /\ OutputEmptied
        /\ line.tool \in {"hash", "base64"} /\ Output # None => opened
        /\ line.tool = "hash"
           => \E alg \in Hashes \cup Codes : line.flags \cap (Hashes \cup Codes) = {alg}
    BY <2>1, <2>4 DEF CoverInv
  <2>6. /\ OutputEmptied' /\ (opened => opened')
        /\ ret' = Success => Load(line, disk).ret = Success /\ pc' = "make"
        /\ ret' # Success => pc' = "close"
    BY <1>r, <2>1, <2>2, <2>5, OpeningEmpties
  <2>7. pc' = "make" /\ Whole => ReadWhole'
    BY <1>r, <2>1, <2>5, <2>6, ReadsWhole
  <2>8. pc' = "close" => ret' # Success
    BY <2>6
  <2> QED
    BY <1>a, <1>c, <2>1, <2>3, <2>5, <2>6, <2>7, <2>8 DEF CoverInv
<1>4. CASE MakeOutput
  <2> DEFINE made == Make(line, got)
             late == line.tool \in OpensMade /\ made.ret = Success /\ made.blocks # << >>
  <2>1. pc = "make" /\ line' = line /\ before' = before /\ held' = made.blocks
    BY <1>4 DEF MakeOutput
  <2>2. Open(late, made.ret, IF KeyToo THEN "key" ELSE "close")
    BY <1>4 DEF MakeOutput
  <2>3. pc' \in {"key", "close"} /\ (line.tool # "req" => pc' = "close")
    BY <2>2 DEF Open, KeyToo
  <2>4. SUFFICES ASSUME line.tool \in DataTools PROVE CoverInv'
    BY <1>a, <1>c, <2>1, <2>3 DEF CoverInv
  <2>5. /\ OutputEmptied
        /\ line.tool \in {"hash", "base64"} /\ Output # None => opened
        /\ line.tool = "hash"
           => \E alg \in Hashes \cup Codes : line.flags \cap (Hashes \cup Codes) = {alg}
        /\ Whole => ReadWhole
    BY <2>1, <2>4 DEF CoverInv
  <2> HIDE DEF made, late
  <2>6. /\ OutputEmptied' /\ (opened => opened')
        /\ late /\ Output \notin {None, Unwritable} => opened'
        /\ ret' = Success => made.ret = Success /\ (late => Output # Unwritable)
    BY <1>r, <2>1, <2>2, <2>5, OpeningEmpties
  <2>7. pc' = "close"
    BY <2>3, <2>4 DEF DataTools
  <2>8. ret' = Success /\ Whole => Covers(held', Source)
    BY <1>r, <2>1, <2>4, <2>5, <2>6, MadeCovers DEF made
  <2>9. Covers(held', Source) <=> Covers(held, Source)'
    BY <2>1, SameEnds DEF Covers, Decodes, Has
  <2>10. ret' = Success /\ Output # None => opened'
    <3>1. CASE line.tool \in {"hash", "base64"}
      BY <2>5, <2>6, <3>1
    <3>2. CASE line.tool = "md5"
      BY <3>2 DEF Output, Prints
    <3>3. CASE line.tool = "dgst"
      <4>1. SUFFICES ASSUME ret' = Success, Output # None PROVE opened'
        OBVIOUS
      <4>2. Hmac(line) \/ Signing(line)
        BY <3>3, <4>1 DEF Output
      <4>3. made = DgstMake(line, got)
        BY <3>3 DEF Make, made
      <4>4. made.blocks \in {<<MacOf(got)>>, <<SignatureOf(got)>>}
        BY <4>2, <4>3 DEF DgstMake, Made
      <4>5. late
        BY <2>6, <3>3, <4>1, <4>4 DEF OpensMade, late
      <4> QED
        BY <2>6, <4>1, <4>5
    <3> QED
      BY <2>4, <3>1, <3>2, <3>3 DEF DataTools
  <2> QED
    BY <1>a, <1>c, <2>1, <2>6, <2>7, <2>8, <2>9, <2>10 DEF CoverInv
<1>5. CASE OpenKeyOut
  BY <1>5, <1>a, <1>c DEF OpenKeyOut, CoverInv
<1>6. CASE WriteKeyOut
  BY <1>6, <1>a, <1>c DEF WriteKeyOut, CoverInv
<1>7. CASE CallFails
  <2>1. /\ pc # "idle" /\ pc' = "close" /\ ret' # Success
        /\ line' = line /\ disk' = disk /\ before' = before /\ opened' = opened
    BY <1>0, <1>7 DEF CallFails
  <2>2. OutputEmptied => OutputEmptied'
    BY <1>c, <2>1 DEF OutputEmptied
  <2> QED
    BY <1>a, <1>c, <2>1, <2>2 DEF CoverInv
<1>8. CASE CloseOutput
  <2>1. /\ pc = "close" /\ pc' = "idle" /\ line' = line /\ before' = before /\ ret' = ret
        /\ shown' = IF Output # None THEN shown ELSE IF KeyToo THEN held \o shown ELSE held
    BY <1>8 DEF CloseOutput
  <2>2. SUFFICES ASSUME Succeeded', line.tool \in DataTools, Whole PROVE CoversAll'
    <3>1. CoversAll'
      BY <1>c, <2>1, <2>2 DEF CoversAll, Whole, DataTools
    <3> QED
      BY <2>1, <3>1 DEF CoverInv
  <2>3. ret = Success /\ ~AsksHelp(line, before) /\ ~mishap /\ ~mishap'
    <3>1. ret = Success /\ ~AsksHelp(line, before) /\ ~mishap'
      BY <2>1, <2>2 DEF Succeeded
    <3>2. mishap => mishap'
      BY <1>8, Zenon DEF CloseOutput
    <3> QED
      BY <3>1, <3>2, Zenon
  <2>4. OutputEmptied /\ (Output # None => opened) /\ Covers(held, Source)
    BY <2>1, <2>2, <2>3 DEF CoverInv
  <2>5. opened => \E left \in Over(disk[Output]) : disk' = [disk EXCEPT ![Output] = left]
    BY <1>8, <2>3 DEF CloseOutput
  <2>6. Result' = held
    <3>1. CASE Output = None
      BY <1>c, <2>1, <2>2, <3>1 DEF Result, KeyToo, DataTools
    <3>2. CASE Output # None
      <4>1. opened /\ disk[Output] = << >> /\ Output \in Files /\ DOMAIN disk = Files
        BY <2>4, <3>2 DEF OutputEmptied, TypeInv, TypeOK
      <4>2. disk' = [disk EXCEPT ![Output] = held]
        BY <2>5, <4>1 DEF Over
      <4> QED
        BY <1>c, <2>1, <3>2, <4>1, <4>2 DEF Result
    <3> QED
      BY <3>1, <3>2
  <2>7. Covers(Result, Source)'
    BY <2>1, <2>4, <2>6, SameEnds DEF Covers, Decodes, Has
  <2> QED
    BY <2>7 DEF CoversAll
<1>9. CASE Kill
  <2>1. pc' = "idle" /\ end' = "killed"
    BY <1>9 DEF Kill
  <2> QED
    BY <2>1 DEF CoverInv, CoversAll, Succeeded
<1>10. CASE UNCHANGED vars
  <2>1. CoversAll'
    <3>1. Result' = Result /\ Source' = Source /\ Output' = Output
      BY <1>10, SameEnds DEF vars, Result
    <3> QED
      BY <1>10, <3>1 DEF vars, CoverInv, CoversAll, Succeeded, Covers, Decodes, Has
  <2> QED
    BY <1>10, <2>1, <1>c, SameEnds DEF vars, CoverInv, OutputEmptied, ReadWhole, Covers, Decodes, Has
<1>11. CASE WriteFails
  <2>1. /\ pc \in {"key", "close"} /\ pc' \in {pc, "close"}
        /\ line' = line /\ disk' = disk /\ before' = before /\ opened' = opened
    BY <1>11 DEF WriteFails
  <2>2. mishap'
    BY <1>11, Zenon DEF WriteFails
  <2>3. OutputEmptied => OutputEmptied'
    BY <1>c, <2>1 DEF OutputEmptied
  <2> QED
    BY <1>a, <1>c, <2>1, <2>2, <2>3 DEF CoverInv
<1> QED
  BY <1>1, <1>2, <1>3, <1>4, <1>5, <1>6, <1>7, <1>8, <1>9, <1>10, <1>11 DEF Next

(* A digest, a code or a signature that is given out with success covers   *)
(* every chunk of the data that was there when the run began, whatever the *)
(* output file is and whatever the runs before have left of it, and what is*)
(* decoded is what was encoded.                                            *)
THEOREM ResultsCoverAll == Spec => []CoversAll
<1>1. CoverInv => CoversAll
  BY DEF CoverInv
<1> QED
  BY <1>1, TypesAtFirst, TypesKept, RefusalsAtFirst, RefusalsKept, CoverAtFirst, CoverKept, PTL
     DEF Spec

-----------------------------------------------------------------------------
(* What files hold, and what was signed.                                   *)

\* What a request or a certificate says.
Says(x) == x = [f \in DOMAIN Blank |-> x[f]]
IsRequest(x) == Says(x) /\ x.issuer = None

\* Nothing is missing from the certificates of a block.
AllSay(certs) == \A i \in DOMAIN certs : Says(certs[i])
CertsSay(b) ==
  /\ b.kind = "cert" => Says(b.of)
  /\ b.kind \in {"bundle", "pkcs7"} => AllSay(b.of.certs)

\* A block in which every signature is in S, what is encoded in U, and a
\* request or a certificate is one.
Right(b, U, S) ==
  b = None \/ /\ {"kind", "of"} \subseteq DOMAIN b
              /\ b.kind = "signature" => b.of \in S
              /\ b.kind = "base64" => b.of \in U
              /\ b.kind = "request" => IsRequest(b.of)
              /\ CertsSay(b)

AllRight(s, U, S) == Sequence(s) /\ \A b \in Range(s) : Right(b, U, S)
Closed(U, S) == \A s \in U : AllRight(s, U, S)

\* A content in which every signature is in S, however often it was encoded.
Known(s, S) == \E U : Closed(U, S) /\ AllRight(s, U, S)

LEMMA RightMore ==
  ASSUME NEW b, NEW U, NEW V, NEW S, NEW T, Right(b, U, S), U \subseteq V, S \subseteq T
  PROVE  Right(b, V, T)
BY DEF Right

LEMMA KnownMore ==
  ASSUME NEW s, NEW S, NEW T, Known(s, S), S \subseteq T
  PROVE  Known(s, T)
<1>1. PICK U : Closed(U, S) /\ AllRight(s, U, S)
  BY DEF Known
<1>2. Closed(U, T) /\ AllRight(s, U, T)
  BY <1>1, RightMore DEF Closed, AllRight
<1> QED
  BY <1>2 DEF Known

\* In blocks of these kinds nothing is signed or encoded.
PlainBlock(b) ==
  /\ {"kind", "of"} \subseteq DOMAIN b
  /\ b.kind \notin {"signature", "base64", "request"}
  /\ CertsSay(b)
Plain(s) == Sequence(s) /\ \A b \in Range(s) : PlainBlock(b)

LEMMA PlainIsKnown ==
  ASSUME NEW s, NEW S, Plain(s)
  PROVE  Known(s, S)
<1>1. Closed({}, S) /\ AllRight(s, {}, S)
  BY DEF Closed, AllRight, Right, Plain, PlainBlock
<1> QED
  BY <1>1 DEF Known

LEMMA KnownOne ==
  ASSUME NEW b, NEW S, Right(b, {}, S)
  PROVE  Known(<<b>>, S)
<1>1. Closed({}, S) /\ AllRight(<<b>>, {}, S)
  BY OneBlock DEF Closed, AllRight
<1> QED
  BY <1>1 DEF Known

LEMMA KnownJoined ==
  ASSUME NEW s, NEW t, NEW S, Known(s, S), Known(t, S)
  PROVE  Known(s \o t, S)
<1>1. PICK U : Closed(U, S) /\ AllRight(s, U, S)
  BY DEF Known
<1>2. PICK V : Closed(V, S) /\ AllRight(t, V, S)
  BY DEF Known
<1> DEFINE W == U \cup V
<1>3. Closed(W, S) /\ AllRight(s, W, S) /\ AllRight(t, W, S)
  BY <1>1, <1>2, RightMore DEF Closed, AllRight
<1> HIDE DEF W
<1>4. Sequence(s \o t) /\ Range(s \o t) \subseteq Range(s) \cup Range(t)
  BY <1>3, JoinedBlocks DEF AllRight
<1>5. AllRight(s \o t, W, S)
  BY <1>3, <1>4 DEF AllRight
<1> QED
  BY <1>3, <1>5 DEF Known

\* What is encoded is known like what it encodes.
LEMMA KnownCode ==
  ASSUME NEW s, NEW S, Known(s, S)
  PROVE  Known(Encoded(s), S)
<1>1. PICK U : Closed(U, S) /\ AllRight(s, U, S)
  BY DEF Known
<1> DEFINE W == U \cup {s}
           b == Block("base64", s, "text")
<1>2. Closed(W, S)
  BY <1>1, RightMore DEF Closed, AllRight
<1>3. Right(b, W, S)
  BY DEF Right, Block, CertsSay
<1>4. AllRight(<<b>>, W, S) /\ AllRight(<< >>, W, S)
  BY <1>3, OneBlock, NoBlock DEF AllRight
<1>5. Encoded(s) \in {<<b>>, << >>}
  BY DEF Encoded
<1> HIDE DEF W, b
<1> QED
  BY <1>2, <1>4, <1>5 DEF Known

LEMMA KnownInside ==
  ASSUME NEW s, NEW S, Known(s, S), NEW b \in Range(s), b # None, b.kind = "base64"
  PROVE  Known(b.of, S)
<1>1. PICK U : Closed(U, S) /\ AllRight(s, U, S)
  BY DEF Known
<1>2. b.of \in U
  BY <1>1 DEF AllRight, Right
<1> QED
  BY <1>1, <1>2 DEF Closed, Known

LEMMA KnownPart ==
  ASSUME NEW s, NEW S, Known(s, S), NEW m \in Nat, m <= Len(s)
  PROVE  Known(SubSeq(s, 1, m), S)
<1>1. PICK U : Closed(U, S) /\ AllRight(s, U, S)
  BY DEF Known
<1>2. s \in Seq(Range(s))
  BY <1>1 DEF AllRight, Sequence
<1> DEFINE R == Range(s)
           t == SubSeq(s, 1, m)
<1>3. t \in Seq(R)
  <2>1. Len(s) \in Nat
    BY <1>2, LenProperties
  <2>2. \A i \in 1 .. m : s[i] \in R
    <3>1. DOMAIN s = 1 .. Len(s)
      BY <1>2, LenProperties
    <3> QED
      BY <2>1, <3>1 DEF Range
  <2> HIDE DEF R
  <2> QED
    BY <1>2, <2>1, <2>2, SubSeqProperties DEF R
<1> HIDE DEF R, t
<1>4. Sequence(t) /\ Range(t) \subseteq R
  BY <1>3, Sequences
<1>5. AllRight(t, U, S)
  BY <1>1, <1>4 DEF AllRight, R
<1> QED
  BY <1>1, <1>5 DEF Known, t

\* What is known of a block at the top.
\* Blocks that are missing or cut short make nothing unknown.
LEMMA KnownFewer ==
  ASSUME NEW s, NEW t, NEW S, Known(s, S), Sequence(t), Range(t) \subseteq Range(s) \cup Range(Cut)
  PROVE  Known(t, S)
<1>1. PICK U : Closed(U, S) /\ AllRight(s, U, S)
  BY DEF Known
<1>2. \A b \in Range(Cut) : Right(b, U, S)
  <2>1. Range(Cut) = {Block("cut off", None, "none")}
    BY OneBlock DEF Cut
  <2>2. Right(Block("cut off", None, "none"), U, S)
    BY DEF Block, Right, CertsSay
  <2> QED
    BY <2>1, <2>2
<1>3. AllRight(t, U, S)
  BY <1>1, <1>2 DEF AllRight
<1> QED
  BY <1>1, <1>3 DEF Known

LEMMA KnownBlocks ==
  ASSUME NEW s, NEW S, Known(s, S), NEW b \in Range(s), b # None
  PROVE  /\ {"kind", "of"} \subseteq DOMAIN b
         /\ b.kind = "signature" => b.of \in S
         /\ b.kind = "request" => IsRequest(b.of)
         /\ CertsSay(b)
<1>1. PICK U : Closed(U, S) /\ AllRight(s, U, S)
  BY DEF Known
<1> QED
  BY <1>1 DEF AllRight, Right

LEMMA KnownSequence ==
  ASSUME NEW s, NEW S, Known(s, S)
  PROVE  Sequence(s)
BY DEF Known, AllRight

\* The first place at which something holds is one of those at which it does.
LEMMA LeastIsThere ==
  ASSUME NEW them, them \subseteq Nat, them # {}
  PROVE  (CHOOSE i \in them : \A j \in them : i <= j) \in them
<1>1. PICK i \in them : \A j \in them : ~(<<j, i>> \in OpToRel(<, Nat))
  BY WFMin, NatLessThanWellFounded
<1>2. \A j \in them : ~(j < i)
  BY <1>1 DEF OpToRel
<1>3. \A j \in them : i <= j
  BY <1>2
<1> QED
  BY <1>3

\* The library finds a block that is there.
LEMMA FirstPemIsThere ==
  ASSUME NEW s, NEW kind, Sequence(s), FirstPem(s, kind) # None
  PROVE  FirstPem(s, kind) \in Range(s) /\ FirstPem(s, kind).kind = kind
<1> DEFINE them == {i \in DOMAIN s : s[i] # None /\ s[i].kind = kind /\ s[i].form = "PEM"}
<1>1. DOMAIN s = 1 .. Len(s) /\ Len(s) \in Nat
  BY LenProperties DEF Sequence
<1>2. them \subseteq Nat
  BY <1>1
<1>3. them # {} /\ FirstPem(s, kind) = s[CHOOSE i \in them : \A j \in them : i <= j]
  BY DEF FirstPem
<1>4. (CHOOSE i \in them : \A j \in them : i <= j) \in them
  <2> HIDE DEF them
  <2> QED
    BY <1>2, <1>3, LeastIsThere
<1>5. PICK i \in them : FirstPem(s, kind) = s[i]
  BY <1>3, <1>4
<1> QED
  BY <1>5 DEF Range

LEMMA OnlyDerIsThere ==
  ASSUME NEW s, NEW kind, Sequence(s), OnlyDer(s, kind) # None
  PROVE  OnlyDer(s, kind) \in Range(s) /\ OnlyDer(s, kind).kind = kind
<1>1. DOMAIN s = 1 .. Len(s) /\ Len(s) \in Nat
  BY LenProperties DEF Sequence
<1>2. s # << >> /\ OnlyDer(s, kind) = s[1] /\ s[1].kind = kind
  BY DEF OnlyDer
<1>3. 1 \in DOMAIN s
  BY <1>1, <1>2, EmptySeq DEF Sequence
<1> QED
  BY <1>2, <1>3 DEF Range

LEMMA FoundIsThere ==
  ASSUME NEW s, NEW kind, NEW form, Sequence(s), Found(s, kind, form) # None
  PROVE  Found(s, kind, form) \in Range(s) /\ Found(s, kind, form).kind = kind
BY FirstPemIsThere, OnlyDerIsThere DEF Found

-----------------------------------------------------------------------------
(* What each command makes of what it has read.                            *)

LEMMA PlainOne ==
  ASSUME NEW b, PlainBlock(b)
  PROVE  Plain(<<b>>)
BY OneBlock DEF Plain

LEMMA PlainNone == Plain(<< >>)
BY NoBlock DEF Plain

LEMMA PlainJoined ==
  ASSUME NEW s, NEW t, Plain(s), Plain(t)
  PROVE  Plain(s \o t)
<1>1. Sequence(s \o t) /\ Range(s \o t) \subseteq Range(s) \cup Range(t)
  BY JoinedBlocks DEF Plain
<1> QED
  BY <1>1 DEF Plain

LEMMA PlainMade ==
  ASSUME NEW kind, NEW of, NEW form,
         kind \notin {"signature", "base64", "request", "cert", "bundle", "pkcs7"}
  PROVE  Plain(<<Block(kind, of, form)>>)
<1>1. PlainBlock(Block(kind, of, form))
  BY DEF PlainBlock, Block, CertsSay
<1> QED
  BY <1>1, PlainOne

LEMMA PlainCert ==
  ASSUME NEW x, NEW form, Says(x)
  PROVE  Plain(<<Block("cert", x, form)>>)
<1>1. PlainBlock(Block("cert", x, form))
  BY DEF PlainBlock, Block, CertsSay
<1> QED
  BY <1>1, PlainOne

LEMMA PlainSealed ==
  ASSUME NEW key, NEW pass
  PROVE  Plain(<<Sealed(key, pass)>>)
<1>1. PlainBlock(Sealed(key, pass))
  <2> DEFINE b == Sealed(key, pass)
  <2>1. b.kind = "private" /\ {"kind", "of"} \subseteq DOMAIN b
    BY DEF Sealed, Block
  <2> HIDE DEF b
  <2>2. PlainBlock(b)
    BY <2>1 DEF PlainBlock, CertsSay
  <2> QED
    BY <2>2 DEF b
<1> QED
  BY <1>1, PlainOne

LEMMA PlainCertificates ==
  ASSUME NEW certs, Parses(certs), AllSay(certs)
  PROVE  Plain(CertBlocks(certs))
<1>1. ASSUME NEW i \in DOMAIN certs PROVE PlainBlock(Block("cert", certs[i], "PEM"))
  BY DEF PlainBlock, Block, CertsSay, AllSay
<1> QED
  BY <1>1, Certificates DEF Plain

LEMMA PlainText ==
  ASSUME NEW c, NEW x
  PROVE  Plain(CertText(c, x))
BY Texts DEF Plain, PlainBlock, Block, CertsSay

LEMMA PlainKeys ==
  ASSUME NEW key, NEW form
  PROVE  Plain(PublicBlock(key, form).blocks) /\ Plain(PrivateBlock(key, form).blocks)
BY PlainMade, PlainNone DEF PublicBlock, PrivateBlock, Made, Refused

LEMMA KeyToolsMakePlain ==
  ASSUME NEW c, NEW what, c.tool \in Early,
         c.tool \in {"pkcs12", "pkcs7"}
         => Parses(what.certs) /\ AllSay(what.certs)
  PROVE  Plain(Make(c, what).blocks)
<1>1. CASE c.tool = "pkey"
  <2>1. Make(c, what) = PkeyMake(c, what)
    BY <1>1 DEF Make
  <2> QED
    BY <2>1, PlainNone, PlainKeys DEF PkeyMake, Made
<1>2. CASE c.tool = "rsa"
  <2>1. Make(c, what) = RsaMake(c, what)
    BY <1>2 DEF Make
  <2> DEFINE form == IF OutForm(c) = "PEM" THEN "PEM" ELSE "DER"
             half == IF PubOut(c) THEN "public" ELSE "private"
             body == IF Has(c, "-noout") THEN << >> ELSE <<Block(half, what, form)>>
             modulus == IF Has(c, "-modulus") /\ what # None
                        THEN <<Block("modulus", what, "text")>> ELSE << >>
  <2>2. Make(c, what) = IF what = None /\ ~Has(c, "-noout") THEN Refused
                        ELSE Made(Success, body \o modulus)
    BY <2>1 DEF RsaMake
  <2>3. Plain(body) /\ Plain(modulus)
    BY PlainMade, PlainNone
  <2> HIDE DEF body, modulus
  <2>4. Plain(body \o modulus)
    BY <2>3, PlainJoined
  <2> QED
    BY <2>2, <2>4, PlainNone DEF Made, Refused
<1>3. CASE c.tool = "pkcs8"
  <2>1. Make(c, what) = Pkcs8Make(c, what)
    BY <1>3 DEF Make
  <2>2. Plain(<<[Block("private", what, "PEM") EXCEPT !.coat = "pkcs8"]>>)
    <3> DEFINE b == [Block("private", what, "PEM") EXCEPT !.coat = "pkcs8"]
    <3>1. b.kind = "private" /\ {"kind", "of"} \subseteq DOMAIN b
      BY DEF Block
    <3> HIDE DEF b
    <3>2. PlainBlock(b)
      BY <3>1 DEF PlainBlock, CertsSay
    <3>3. Plain(<<b>>)
      BY <3>2, PlainOne
    <3> QED
      BY <3>3 DEF b
  <2> QED
    BY <2>1, <2>2, PlainNone, PlainKeys DEF Pkcs8Make, Made, Refused
<1>4. CASE c.tool = "pkcs12"
  <2>1. Make(c, what) = Pkcs12Make(c, what)
    BY <1>4 DEF Make
  <2> DEFINE certs == IF Has(c, "-nocerts") THEN << >> ELSE CertBlocks(what.certs)
             made  == IF Has(c, "-nokeys") \/ what.key = None THEN Made(Success, << >>)
                      ELSE Pkcs12Key(c, what.key)
  <2>2. Make(c, what).blocks = certs \o made.blocks
    <3>1. Make(c, what) = Made(made.ret, certs \o made.blocks)
      BY <2>1 DEF Pkcs12Make
    <3> HIDE DEF certs, made
    <3> QED
      BY <3>1 DEF Made
  <2>3. Plain(certs)
    BY <1>4, PlainNone, PlainCertificates
  <2>4. Plain(made.blocks)
    BY PlainNone, PlainKeys, PlainSealed DEF Pkcs12Key, Made, Refused
  <2> HIDE DEF certs, made
  <2> QED
    BY <2>2, <2>3, <2>4, PlainJoined
<1>5. CASE c.tool = "pkcs7"
  <2>1. Make(c, what) = Pkcs7Make(c, what)
    BY <1>5 DEF Make
  <2>2. Plain(<<Block("pkcs7", what, OutForm(c))>>)
    <3>1. PlainBlock(Block("pkcs7", what, OutForm(c)))
      BY <1>5 DEF PlainBlock, Block, CertsSay
    <3> QED
      BY <3>1, PlainOne
  <2> QED
    BY <1>5, <2>1, <2>2, PlainCertificates, PlainNone DEF Pkcs7Make, Made
<1> QED
  BY <1>1, <1>2, <1>3, <1>4, <1>5 DEF Early

LEMMA ParamToolsMakePlain ==
  ASSUME NEW c, NEW what, c.tool \in Params_
  PROVE  Plain(Make(c, what).blocks)
<1>1. CASE c.tool = "ecparam"
  <2> DEFINE form   == IF OutForm(c) = "PEM" THEN "PEM" ELSE "DER"
             text   == IF Has(c, "-text") THEN <<Block("text", what.group, "text")>> ELSE << >>
             params == <<Block("params", Params("ec", what.group), form)>>
             made   == IF Has(c, "-genkey") THEN <<Block("private", what, form)>> ELSE << >>
  <2>1. Make(c, what).blocks = text \o params \o made
    BY <1>1 DEF Make, EcparamMake, Made
  <2>2. Plain(text) /\ Plain(params) /\ Plain(made)
    BY PlainMade, PlainNone
  <2> HIDE DEF text, params, made
  <2>3. Plain(text \o params)
    BY <2>2, PlainJoined
  <2>4. Plain(text \o params \o made)
    BY <2>2, <2>3, PlainJoined
  <2> QED
    BY <2>1, <2>4
<1>2. ASSUME NEW params PROVE Plain(ParamsOf(c, params)) /\ Plain(KeyOf(c, params))
  BY PlainMade, PlainNone DEF ParamsOf, KeyOf
<1>3. ASSUME NEW params PROVE Plain(ParamsOf(c, params) \o KeyOf(c, params))
  BY <1>2, PlainJoined
<1>4. CASE c.tool = "dhparam"
  <2>1. Make(c, what) = DhMake(c, what)
    BY <1>4 DEF Make
  <2> QED
    BY <1>2, <1>3, <2>1, PlainNone DEF DhMake, Made, Refused
<1>5. CASE c.tool = "dsaparam"
  <2>1. Make(c, what) = DsaMake(c, what)
    BY <1>5 DEF Make
  <2> QED
    BY <1>2, <1>3, <2>1, PlainNone DEF DsaMake, Made, Refused
<1> QED
  BY <1>1, <1>4, <1>5 DEF Params_

LEMMA KnownNone == \A S : Known(<< >>, S)
BY PlainNone, PlainIsKnown

LEMMA KnownDecoded ==
  ASSUME NEW s, NEW S, Known(s, S)
  PROVE  Known(Decoded(s).blocks, S)
<1>1. CASE Len(s) = 1 /\ s # << >> /\ s # Absent /\ s[1].kind = "base64"
  <2>1. s \in Seq(Range(s))
    BY KnownSequence DEF Sequence
  <2>2. s = <<s[1]>> /\ DOMAIN s = 1 .. 1
    BY <1>1, <2>1, LenProperties
  <2>3. s[1] \in Range(s) /\ s[1] # None
    BY <1>1, <2>2 DEF Range, Absent
  <2>4. Known(s[1].of, S)
    BY <1>1, <2>3, KnownInside
  <2>5. Decoded(s) = Made(Success, s[1].of)
    BY <1>1 DEF Decoded
  <2> QED
    BY <2>4, <2>5 DEF Made
<1>2. CASE ~(Len(s) = 1 /\ s # << >> /\ s # Absent /\ s[1].kind = "base64")
  <2>1. Decoded(s) \in {Made(Success, << >>), Refused}
    BY <1>2 DEF Decoded
  <2> QED
    BY <2>1, KnownNone DEF Made, Refused
<1> QED
  BY <1>1, <1>2

LEMMA UnarmouredIsPlain ==
  ASSUME NEW s, NEW S, Known(s, S)
  PROVE  Plain(Unarmoured(s).blocks)
<1> DEFINE private == FirstPem(s, "private")
           cert == FirstPem(s, "cert")
           b == IF Opens(private, None) THEN private
                ELSE IF cert # None THEN cert ELSE FirstPem(s, "pkcs7")
<1>1. Unarmoured(s) = IF b = None THEN Refused ELSE Made(Success, <<[b EXCEPT !.form = "DER"]>>)
  BY DEF Unarmoured
<1>2. CASE b = None
  BY <1>1, <1>2, PlainNone DEF Refused, Made
<1>3. CASE b # None
  <2>1. b \in Range(s) /\ b.kind \in {"private", "cert", "pkcs7"}
    BY <1>3, FirstPemIsThere, KnownSequence DEF Opens
  <2> HIDE DEF b
  <2>2. {"kind", "of"} \subseteq DOMAIN b /\ CertsSay(b)
    BY <1>3, <2>1, KnownBlocks
  <2>3. PlainBlock([b EXCEPT !.form = "DER"])
    BY <2>1, <2>2 DEF PlainBlock, CertsSay
  <2> QED
    BY <1>1, <1>3, <2>3, PlainOne DEF Made
<1> QED
  BY <1>2, <1>3

\* What is decoded holds no signature that was not in what was encoded.
LEMMA DataToolsMakeKnown ==
  ASSUME NEW c, NEW what, NEW S, Known(what, S), c.tool \in {"hash", "md5", "base64"}
  PROVE  Known(Make(c, what).blocks, S)
<1>1. Known(Encoded(what), S) /\ Known(Decoded(what).blocks, S) /\ Known(Unarmoured(what).blocks, S)
  BY KnownCode, KnownDecoded, UnarmouredIsPlain, PlainIsKnown
<1>2. CASE c.tool \in {"hash", "md5"}
  <2>1. Make(c, what) = HashMake(c, what)
    BY <1>2 DEF Make
  <2> DEFINE digest == Block("digest", Digest(HashAlg(c), what), DigestForm(c))
  <2>2. Make(c, what).blocks \in {Encoded(what), Decoded(what).blocks, <<digest>>}
    BY <2>1 DEF HashMake, Made
  <2>3. Known(<<digest>>, S)
    BY PlainMade, PlainIsKnown
  <2> QED
    BY <1>1, <2>2, <2>3
<1>3. CASE c.tool = "base64"
  <2>1. Make(c, what) = Base64Make(c, what)
    BY <1>3 DEF Make
  <2>2. Make(c, what).blocks \in {Encoded(what), Decoded(what).blocks, Unarmoured(what).blocks, << >>}
    BY <2>1 DEF Base64Make, Made, Refused
  <2> QED
    BY <1>1, <2>2, KnownNone
<1> QED
  BY <1>2, <1>3

LEMMA DgstMakesKnown ==
  ASSUME NEW c, NEW what, c.tool = "dgst"
  PROVE  Known(Make(c, what).blocks, SignedIn(Make(c, what).blocks))
<1>1. Make(c, what).blocks \in {<<MacOf(what)>>, <<SignatureOf(what)>>, << >>}
  BY DEF Make, DgstMake, Made, Refused
<1>2. Plain(<<MacOf(what)>>)
  BY PlainMade DEF MacOf
<1>3. Known(<<SignatureOf(what)>>, SignedIn(<<SignatureOf(what)>>))
  <2> DEFINE b == SignatureOf(what)
             s == <<b>>
  <2>1. {"kind", "of"} \subseteq DOMAIN b /\ b.kind = "signature" /\ s[1] = b /\ 1 \in DOMAIN s
    BY DEF SignatureOf, Block
  <2>2. b # None => b.of \in SignedIn(s)
    <3> HIDE DEF b
    <3>1. s[1].of = b.of /\ (b # None => s[1] # None) /\ s[1].kind = "signature"
      BY <2>1
    <3> HIDE DEF s
    <3> QED
      BY <2>1, <3>1 DEF SignedIn
  <2> HIDE DEF b
  <2>3. Right(b, {}, SignedIn(s))
    BY <2>1, <2>2 DEF Right, CertsSay
  <2> HIDE DEF s
  <2>4. Known(<<b>>, SignedIn(s))
    BY <2>3, KnownOne
  <2> QED
    BY <2>4 DEF b, s
<1> QED
  BY <1>1, <1>2, <1>3, PlainIsKnown, KnownNone

-----------------------------------------------------------------------------
(* Requests and certificates.                                              *)

Papers(s) == {b \in Range(s) : b # None /\ b.kind \in {"request", "cert"}}

LEMMA PapersAreIssued ==
  ASSUME NEW s
  PROVE  /\ IssuedIn(s) = {b.of : b \in Papers(s)}
         /\ Of(s, {"cert"}) = {b.of : b \in {p \in Papers(s) : p.kind = "cert"}}
BY DEF IssuedIn, Of, Papers, Range

LEMMA PapersJoined ==
  ASSUME NEW s, NEW t, Sequence(s), Sequence(t)
  PROVE  Papers(s \o t) \subseteq Papers(s) \cup Papers(t)
BY JoinedBlocks DEF Papers

LEMMA PapersOfOne ==
  ASSUME NEW b
  PROVE  Papers(<<b>>) \subseteq {b}
BY OneBlock DEF Papers

LEMMA NoPapers == Papers(<< >>) = {}
BY NoBlock DEF Papers

LEMMA NoPaperOf ==
  ASSUME NEW kind, NEW of, NEW form, kind \notin {"request", "cert"}
  PROVE  Papers(<<Block(kind, of, form)>>) = {}
BY OneBlock DEF Papers, Block

LEMMA NoPaperInText ==
  ASSUME NEW c, NEW x
  PROVE  Papers(CertText(c, x)) = {}
BY Texts DEF Papers, Block

\* What setting extensions and names leaves as it was.
Keeps(y, x) == Says(y) /\ y.issuer = x.issuer /\ y.key = x.key /\ x.alt \subseteq y.alt
SameName(y, x) == y.subject = x.subject

LEMMA ExtensionsKeep ==
  ASSUME NEW x, Says(x), NEW conf, NEW sect
  PROVE  LET y == SetExtensions(x, conf, sect).what IN Keeps(y, x) /\ SameName(y, x)
<1> DEFINE e == conf.sections[sect]
           basic == IF e.basic = None THEN x ELSE BasicConstraints(x, e.basic)
           skid  == IF e.skid = None THEN basic ELSE SubjectKeyID(basic, e.skid)
           usage == IF e.usage = None THEN skid ELSE KeyUsage(skid, e.usage)
           names == IF e.at \in DOMAIN conf.lists THEN conf.lists[e.at] ELSE << >>
           alt == IF e.at = None THEN e.alt ELSE names
<1>1. SetExtensions(x, conf, sect) = AddAltNames(usage, alt)
  BY DEF SetExtensions
<1>2. Keeps(basic, x) /\ SameName(basic, x)
  BY DEF BasicConstraints, Keeps, SameName, Says, Blank
<1> HIDE DEF basic
<1>3. Keeps(skid, basic) /\ SameName(skid, basic)
  BY <1>2 DEF SubjectKeyID, Keeps, SameName, Says, Blank
<1> HIDE DEF skid
<1>4. Keeps(usage, skid) /\ SameName(usage, skid)
  BY <1>3 DEF KeyUsage, Keeps, SameName, Says, Blank
<1> HIDE DEF usage, alt
<1>5. Keeps(AddAltNames(usage, alt).what, usage) /\ SameName(AddAltNames(usage, alt).what, usage)
  BY <1>4 DEF AddAltNames, Loaded, Keeps, SameName, Says, Blank
<1> QED
  BY <1>1, <1>2, <1>3, <1>4, <1>5 DEF Keeps, SameName

LEMMA ConfigKeeps ==
  ASSUME NEW x, Says(x), NEW c, NEW content
  PROVE  Keeps(ReadConfig(c, content, x).what, x)
<1> DEFINE conf == ConfigOf(content)
           sect == IF c.ext # None THEN c.ext ELSE conf.exts
           exts == IF sect \in DOMAIN conf.sections THEN SetExtensions(x, conf, sect)
                   ELSE Loaded(IF c.ext # None THEN FatalError ELSE Success, x)
<1>1. Keeps(exts.what, x)
  BY ExtensionsKeep DEF Loaded, Keeps
<1>2. ReadConfig(c, content, x) = IF exts.ret = Success THEN DisNames(c, conf, exts.what) ELSE exts
  BY DEF ReadConfig
<1> HIDE DEF conf, sect, exts
<1>3. Keeps(DisNames(c, conf, exts.what).what, exts.what)
  BY <1>1 DEF DisNames, Loaded, Keeps, Says, Blank
<1> QED
  BY <1>1, <1>2, <1>3 DEF Keeps

LEMMA AlteredKeeps ==
  ASSUME NEW x, NEW y, Says(x), Keeps(y, x)
  PROVE  Keeps(Altered(x, y), x) /\ SameName(Altered(x, y), y)
BY DEF Altered, Keeps, SameName, Says, Blank

LEMMA BlankIsRequest == IsRequest(Blank)
BY DEF IsRequest, Says, Blank

\* What req has in memory before it opens its output.
LEMMA ReqLoads ==
  ASSUME NEW c, NEW d, NEW S, ReqLoad(c, d).ret = Success, c.in # None => Known(d[c.in], S)
  PROVE  LET what == ReqLoad(c, d).what
         IN  /\ IsRequest(what.orig) /\ IsRequest(what.x)
             /\ what.key # None => what.x.key = what.key
             /\ what.key = None => what.x.key = what.orig.key
             /\ ~ReSign(c) /\ what.key = None /\ ~Has(c, "-x509") => what.x = what.orig
             /\ c.in # None => \E b \in Papers(d[c.in]) : what.orig = b.of
             /\ c.in # None /\ c.subj = None /\ c.config = None => SameName(what.x, what.orig)
             /\ what.orig.alt \subseteq what.x.alt
             /\ c.addext # None => Range(c.addext.names) \subseteq what.x.alt
             /\ c.subj # None => what.x.subject = c.subj
<1> DEFINE input  == ReqInput(c, d)
           key    == ReqKey(c, d)
           keyed  == IF key.what = None THEN input.what ELSE [input.what EXCEPT !.key = key.what]
           conf   == ReqConfig(c, d, keyed)
           named  == ReqSubject(c, conf.what)
           added  == ReqAddExt(c, named.what)
           signer == IF ReSign(c) /\ key.what = None THEN FatalError ELSE Success
           typed  == ReqTyped(c, added.what)
           whole  == ReqDefaultCa(c, typed)
           rets   == <<input.ret, key.ret, conf.ret, named.ret, added.ret, signer>>
           wrong  == {i \in DOMAIN rets : rets[i] # Success}
           what   == [orig |-> input.what, x |-> Altered(input.what, whole), key |-> key.what]
<1>1. ReqLoad(c, d) = IF wrong # {} THEN Loaded(rets[CHOOSE i \in wrong : \A j \in wrong : i <= j], None)
                      ELSE Loaded(Success, what)
  BY DEF ReqLoad
<1>2. DOMAIN rets = 1 .. 6
  OBVIOUS
<1>3. ReqLoad(c, d).what = what /\ input.ret = Success /\ named.ret = Success /\ added.ret = Success
  <2>1. ASSUME wrong # {} PROVE FALSE
    <3> DEFINE i == CHOOSE i \in wrong : \A j \in wrong : i <= j
    <3>1. wrong \subseteq Nat
      BY <1>2
    <3>2. i \in wrong
      <4> HIDE DEF wrong
      <4> QED
        BY <2>1, <3>1, LeastIsThere
    <3>3. rets[i] # Success
      BY <3>2
    <3> HIDE DEF rets, wrong, i, what
    <3>4. ReqLoad(c, d).ret = rets[i]
      BY <1>1, <2>1 DEF Loaded, i
    <3> QED
      BY <3>3, <3>4
  <2>2. rets[1] = Success /\ rets[4] = Success /\ rets[5] = Success
    <3> HIDE DEF rets
    <3> QED
      BY <1>2, <2>1
  <2>3. input.ret = Success /\ named.ret = Success /\ added.ret = Success
    BY <2>2
  <2> HIDE DEF wrong, what, rets, input, named, added
  <2> QED
    BY <1>1, <2>1, <2>3 DEF Loaded
<1>4. IsRequest(input.what) /\ (c.in # None => \E b \in Papers(d[c.in]) : input.what = b.of)
  <2> DEFINE b == Found(d[c.in], "request", InForm(c))
  <2>1. c.in # None /\ b # None => IsRequest(b.of) /\ b \in Papers(d[c.in])
    BY FoundIsThere, KnownSequence, KnownBlocks DEF Papers
  <2>2. c.in # None => b # None /\ input.what = b.of
    BY <1>3 DEF ReqInput, Loaded, FatalError, Success
  <2>3. c.in = None => input.what = Blank
    BY DEF ReqInput, Loaded
  <2> HIDE DEF b, input
  <2> QED
    BY <2>1, <2>2, <2>3, BlankIsRequest
<1> HIDE DEF input, key
<1>5. /\ Says(keyed) /\ keyed.issuer = None /\ (key.what # None => keyed.key = key.what)
      /\ keyed.alt = input.what.alt /\ SameName(keyed, input.what)
  BY <1>4 DEF IsRequest, Says, SameName, Blank
<1> HIDE DEF keyed
<1>6. Keeps(conf.what, keyed)
  BY <1>5, ConfigKeeps DEF ReqConfig, Loaded, Keeps
<1> HIDE DEF conf
<1>7. Keeps(named.what, conf.what)
  BY <1>6 DEF ReqSubject, Loaded, Keeps, Says, Blank
<1> HIDE DEF named
<1>8. Keeps(added.what, named.what)
  BY <1>7 DEF ReqAddExt, ParseAddExt, AddAltNames, Loaded, Keeps, Says, Blank
<1> HIDE DEF added
<1>9. Keeps(typed, added.what)
  BY <1>8 DEF ReqTyped, Keeps, Says, Blank
<1> HIDE DEF typed
<1>10. Keeps(whole, typed)
  BY <1>9 DEF ReqDefaultCa, Keeps, Says, Blank
<1> HIDE DEF whole
<1>11. Keeps(whole, keyed)
  BY <1>6, <1>7, <1>8, <1>9, <1>10 DEF Keeps
<1>12. IsRequest(what.x) /\ what.x.key = keyed.key
  BY <1>4, <1>5, <1>11 DEF IsRequest, Altered, Keeps, Says, Blank
<1>13. key.what = None => keyed = input.what
  BY DEF keyed
<1>14. ~ReSign(c) /\ key.what = None /\ ~Has(c, "-x509") => what.x = what.orig
  <2> SUFFICES ASSUME ~ReSign(c), key.what = None, ~Has(c, "-x509") PROVE what.x = what.orig
    OBVIOUS
  <2>1. c.config = None /\ c.subj = None /\ c.addext = None /\ c.in # None
    BY DEF ReSign
  <2>2. conf.what = keyed
    BY <2>1 DEF conf, ReqConfig, Loaded
  <2>3. named.what = conf.what
    BY <2>1 DEF named, ReqSubject, Loaded
  <2>4. added.what = named.what
    BY <2>1 DEF added, ReqAddExt, Loaded
  <2>5. typed = added.what /\ whole = typed
    BY <2>1 DEF typed, whole, ReqTyped, ReqDefaultCa
  <2>6. whole = input.what
    BY <1>13, <2>2, <2>3, <2>4, <2>5
  <2>7. Altered(input.what, input.what) = input.what
    BY <1>4 DEF Altered, IsRequest, Says
  <2> QED
    BY <2>6, <2>7
<1>15. /\ c.config = None => SameName(conf.what, keyed)
       /\ c.subj = None => SameName(named.what, conf.what)
       /\ c.in # None => SameName(typed, added.what)
       /\ c.subj # None => named.what.subject = c.subj /\ SameName(typed, added.what)
       /\ SameName(added.what, named.what) /\ SameName(whole, typed)
       /\ c.addext # None => Range(c.addext.names) \subseteq added.what.alt
  <2>1. c.config = None => SameName(conf.what, keyed)
    BY DEF conf, ReqConfig, Loaded, SameName
  <2>2. c.subj = None => SameName(named.what, conf.what)
    BY DEF named, ReqSubject, Loaded, SameName, Untagged
  <2>3. c.subj # None => named.what.subject = c.subj
    BY <1>3, <1>6 DEF named, ReqSubject, Loaded, Keeps, Says, Blank, Success, InputError
  <2>4. (c.in # None => SameName(typed, added.what)) /\ (c.subj # None => SameName(typed, added.what))
    BY DEF typed, ReqTyped, SameName
  <2>5. SameName(added.what, named.what)
    BY <1>7 DEF added, ReqAddExt, ParseAddExt, AddAltNames, Loaded, SameName, Keeps, Says, Blank
  <2>6. SameName(whole, typed)
    BY <1>9 DEF whole, ReqDefaultCa, SameName, Keeps, Says, Blank
  <2>7. c.addext # None => Range(c.addext.names) \subseteq added.what.alt
    BY <1>3, <1>7 DEF added, ReqAddExt, ParseAddExt, AddAltNames, Loaded, Keeps, Says, Blank, Range,
                       Success, FatalError
  <2> QED
    BY <2>1, <2>2, <2>3, <2>4, <2>5, <2>6, <2>7
<1>16. SameName(what.x, whole) /\ what.x.alt = whole.alt
  BY <1>4, <1>11 DEF SameName, Altered, IsRequest, Keeps, Says, Blank
<1>17. what.orig = input.what /\ what.key = key.what
  OBVIOUS
<1> HIDE DEF what
<1>18. c.in # None /\ c.subj = None /\ c.config = None => SameName(what.x, what.orig)
  BY <1>5, <1>15, <1>16, <1>17 DEF SameName
<1>19. c.subj # None => what.x.subject = c.subj
  BY <1>15, <1>16 DEF SameName
<1>20. what.orig.alt \subseteq what.x.alt
  BY <1>5, <1>11, <1>16, <1>17 DEF Keeps
<1>21. c.addext # None => Range(c.addext.names) \subseteq what.x.alt
  BY <1>9, <1>10, <1>15, <1>16 DEF Keeps
<1> QED
  BY <1>3, <1>4, <1>5, <1>12, <1>13, <1>14, <1>17, <1>18, <1>19, <1>20, <1>21

\* What req writes is a request, or a certificate of its own.
LEMMA ReqIssues ==
  ASSUME NEW c, c.tool = "req", NEW what, IsRequest(what.x),
         what.key # None => what.x.key = what.key
  PROVE  /\ \A S : Known(Make(c, what).blocks, S)
         /\ \A b \in Papers(Make(c, what).blocks) :
              /\ b.kind = (IF Has(c, "-x509") THEN "cert" ELSE "request")
              /\ b.of = Issued(c, what.x, what.key)
         /\ Make(c, what).ret = Success =>
              /\ ReSign(c) => Supported(what.key)
              /\ Has(c, "-verify") => ReqVerifies(c, what)
<1> DEFINE form == IF OutForm(c) = "DER" THEN "DER" ELSE "PEM"
           kind == IF Has(c, "-x509") THEN "cert" ELSE "request"
           x == Issued(c, what.x, what.key)
           paper == Block(kind, x, form)
           text == IF Has(c, "-text") THEN <<Block("text", None, "text")>> ELSE << >>
           body == IF Has(c, "-noout") THEN << >> ELSE <<paper>>
           refuses == \/ ReSign(c) /\ ~Supported(what.key)
                      \/ Has(c, "-verify") /\ ~ReqVerifies(c, what)
<1>1. PICK u : u = text \o body
  OBVIOUS
<1>2. Make(c, what) = IF refuses THEN Refused ELSE Made(Success, u)
  BY <1>1 DEF Make, ReqMake
<1>3. Plain(text) /\ Papers(text) = {}
  BY PlainMade, PlainNone, NoPaperOf, NoPapers
<1>4. Says(x) /\ (~Has(c, "-x509") => IsRequest(x))
  BY DEF Issued, Sign, IsRequest, Says, Blank
<1>5. paper.kind = kind /\ paper.of = x /\ {"kind", "of"} \subseteq DOMAIN paper
  BY DEF Block
<1>6. Right(paper, {}, {})
  BY <1>4, <1>5 DEF Right, CertsSay
<1> HIDE DEF text, paper, x
<1>7. Known(body, {}) /\ Papers(body) \subseteq {paper}
  BY <1>6, KnownOne, KnownNone, PapersOfOne, NoPapers
<1> HIDE DEF body
<1>8. Known(text, {})
  BY <1>3, PlainIsKnown
<1>9. Known(u, {}) /\ Papers(u) \subseteq {paper}
  BY <1>1, <1>3, <1>7, <1>8, KnownJoined, KnownSequence, PapersJoined
<1>10. \A S : Known(u, S)
  BY <1>9, KnownMore
<1> HIDE DEF kind, form, refuses
<1>11. Make(c, what).blocks \in {u, << >>}
  BY <1>2 DEF Refused, Made
<1>12. \A S : Known(Make(c, what).blocks, S)
  BY <1>10, <1>11, KnownNone
<1>13. ASSUME NEW b \in Papers(Make(c, what).blocks)
       PROVE  b.kind = kind /\ b.of = x
  BY <1>5, <1>9, <1>11, <1>13, NoPapers
<1>14. Make(c, what).ret = Success => ~refuses
  BY <1>2 DEF Refused, Made, FatalError, Success
<1> QED
  BY <1>12, <1>13, <1>14 DEF kind, x, refuses

\* What x509 has in memory: what it has read, and what it has made of it.
LEMMA X509Loads ==
  ASSUME NEW c, NEW d, NEW S, CertLoad(c, d).ret = Success,
         Known(IF c.in = None THEN c.stdin ELSE d[c.in], S)
  PROVE  LET what == CertLoad(c, d).what
         IN  \E b \in Papers(IF c.in = None THEN c.stdin ELSE d[c.in]) :
               /\ what.read = b.of /\ Says(b.of)
               /\ b.kind = (IF Has(c, "-req") /\ FormOf(c.inform, "PEM") = "PEM" THEN "request" ELSE "cert")
               /\ Says(what.x) /\ what.x.key = b.of.key /\ b.of.alt \subseteq what.x.alt
               /\ SameName(what.x, b.of)
<1> DEFINE content == IF c.in = None THEN c.stdin ELSE d[c.in]
           b    == CertInput(c, d)
           key  == ReadPrivate(d[c.key], "PEM", None)
           exts == CertExtensions(c, d, b.of)
           x    == Altered(b.of, exts.what)
           made == IF Has(c, "-req") THEN CertSelfSign(x, key) ELSE Loaded(Success, x)
           what == CertLoad(c, d).what
<1>1. b # None /\ made.ret = Success /\ what = [read |-> b.of, x |-> made.what]
  BY DEF CertLoad, Loaded, FatalError, InputError, Success
<1>2. \/ /\ FormOf(c.inform, "PEM") = "PEM"
         /\ b = FirstPem(content, IF Has(c, "-req") THEN "request" ELSE "cert")
      \/ FormOf(c.inform, "PEM") = "DER" /\ b = OnlyDer(content, "cert")
  <2>1. FormOf(c.inform, "PEM") \in {"PEM", "DER", "RAW", InputError}
    BY DEF FormOf, CheckForm
  <2> HIDE DEF made, what
  <2> QED
    BY <1>1, <2>1 DEF CertInput, InputError
<1> HIDE DEF content, b
<1>3. b \in Papers(content)
      /\ b.kind = (IF Has(c, "-req") /\ FormOf(c.inform, "PEM") = "PEM" THEN "request" ELSE "cert")
  <2>1. Sequence(content)
    BY KnownSequence DEF content
  <2> HIDE DEF made, what
  <2> QED
    BY <1>1, <1>2, <2>1, FirstPemIsThere, OnlyDerIsThere DEF Papers
<1>4. Says(b.of)
  BY <1>3, KnownBlocks DEF content, Papers, IsRequest, CertsSay
<1>5. Keeps(exts.what, b.of) /\ SameName(exts.what, b.of)
  BY <1>4, ExtensionsKeep DEF CertExtensions, Loaded, Keeps, SameName
<1> HIDE DEF exts
<1>6. Keeps(x, b.of) /\ SameName(x, b.of)
  BY <1>4, <1>5, AlteredKeeps DEF SameName
<1> HIDE DEF x
<1>7. /\ Says(made.what) /\ made.what.key = x.key /\ made.what.alt = x.alt
      /\ made.what.subject = x.subject
  BY <1>6 DEF CertSelfSign, Sign, Loaded, Keeps, Says, Blank
<1> HIDE DEF made, what
<1>8. what.read = b.of /\ what.x = made.what
  BY <1>1
<1> QED
  BY <1>3, <1>4, <1>6, <1>7, <1>8 DEF what, content, Keeps, SameName

LEMMA CaLoads ==
  ASSUME NEW c, NEW d, NEW S, CaLoad(c, d).ret = Success, c.in # None => Known(d[c.in], S)
  PROVE  LET what == CaLoad(c, d).what
         IN  c.in # None /\ \E b \in Papers(d[c.in]) : what.x = b.of /\ Says(b.of)
<1> DEFINE b == IF c.in = None THEN None
                ELSE IF Has(c, "-altextend") THEN FirstPem(d[c.in], "cert")
                ELSE Found(d[c.in], "request", InForm(c))
<1>1. b # None /\ CaLoad(c, d).what.x = b.of
  BY DEF CaLoad, Loaded, FatalError, InputError, Success
<1>2. c.in # None
  BY <1>1
<1>3. b \in Range(d[c.in]) /\ b.kind \in {"cert", "request"}
  BY <1>1, <1>2, KnownSequence, FirstPemIsThere, FoundIsThere
<1> HIDE DEF b
<1>4. b \in Papers(d[c.in]) /\ Says(b.of)
  BY <1>1, <1>2, <1>3, KnownBlocks DEF Papers, IsRequest, CertsSay
<1> QED
  BY <1>1, <1>2, <1>4

LEMMA CertToolsMakePlain ==
  ASSUME NEW c, NEW what, c.tool \in {"x509", "verify", "crl", "ca"},
         c.tool \in {"x509", "ca"} => Says(what.x), c.tool = "x509" => Says(what.read)
  PROVE  Plain(Make(c, what).blocks)
<1>1. CASE c.tool = "x509"
  <2> DEFINE made == Has(c, "-req") /\ FormOf(c.inform, "PEM") = "PEM"
             body == IF Has(c, "-noout") THEN << >>
                     ELSE <<Block("cert", IF made THEN what.x ELSE what.read, OutForm(c))>>
             kind == IF what.x.key.alg = "rsa" THEN "modulus" ELSE "wrong algorithm"
             modulus == IF Has(c, "-modulus") THEN <<Block(kind, what.x.key, "text")>> ELSE << >>
             pub == IF Has(c, "-pubkey") THEN <<Block("public", what.x.key, "PEM")>> ELSE << >>
             text == CertText(c, what.x)
  <2>1. Make(c, what) = Made(Success, text \o (modulus \o pub) \o body)
    BY <1>1 DEF Make, CertMake, CertKeyParts
  <2>2. Plain(text) /\ Plain(modulus) /\ Plain(pub)
    BY PlainMade, PlainNone, PlainText
  <2>3. Plain(body)
    BY <1>1, PlainCert, PlainNone
  <2> HIDE DEF text, modulus, pub, body
  <2>4. Plain(modulus \o pub)
    BY <2>2, PlainJoined
  <2>5. Plain(text \o (modulus \o pub))
    BY <2>2, <2>4, PlainJoined
  <2>6. Plain(text \o (modulus \o pub) \o body)
    BY <2>3, <2>5, PlainJoined
  <2> QED
    BY <2>1, <2>6 DEF Made
<1>2. CASE c.tool = "verify"
  <2>1. Make(c, what) = VerifyMake(c, what)
    BY <1>2 DEF Make
  <2> QED
    BY <2>1, PlainMade, PlainNone DEF VerifyMake, Made, Refused
<1>3. CASE c.tool = "crl"
  <2> DEFINE form == IF OutForm(c) = "DER" THEN "DER" ELSE "PEM"
             text == IF Has(c, "-text") THEN <<Block("text", what.x, "text")>> ELSE << >>
             body == IF Has(c, "-noout") THEN << >> ELSE <<Block("crl", what.x, form)>>
  <2>1. Make(c, what).blocks = text \o body
    <3>1. PICK code : Make(c, what) = Made(code, text \o body)
      BY <1>3 DEF Make, CrlMake
    <3> HIDE DEF text, body
    <3> QED
      BY <3>1 DEF Made
  <2>2. Plain(text) /\ Plain(body)
    BY PlainMade, PlainNone
  <2> HIDE DEF text, body
  <2> QED
    BY <2>1, <2>2, PlainJoined
<1>4. CASE c.tool = "ca"
  <2>1. Make(c, what) = CaMake(c, what)
    BY <1>4 DEF Make
  <2>2. Plain(CertSign(c, what).blocks)
    <3>1. ASSUME NEW issuer, NEW key
          PROVE  Plain(<<Block("cert", Sign([what.x EXCEPT !.issuer = issuer], key), "PEM")>>)
      <4>1. Says(Sign([what.x EXCEPT !.issuer = issuer], key))
        BY <1>4 DEF Sign, Says, Blank
      <4> QED
        BY <4>1, PlainCert
    <3> QED
      BY <3>1, PlainNone DEF CertSign, Made, Refused
  <2>3. ASSUME NEW key, NEW subjKey
        PROVE  Plain(<<ChimeraForm(c, ChimeraCert(c, what, key, subjKey))>>)
    <3> DEFINE cert == ChimeraCert(c, what, key, subjKey)
    <3>1. Says(cert)
      BY DEF ChimeraCert, Says, Blank
    <3> HIDE DEF cert
    <3>2. Plain(<<ChimeraForm(c, cert)>>)
      BY <3>1, PlainCert, PlainMade DEF ChimeraForm
    <3> QED
      BY <3>2 DEF cert
  <2>4. Plain(ChimeraSign(c, what).blocks)
    BY <2>3, PlainNone DEF ChimeraSign, Made, Refused
  <2> QED
    BY <2>1, <2>2, <2>4, PlainNone DEF CaMake, Made
<1> QED
  BY <1>1, <1>2, <1>3, <1>4

\* What a certificate or a request must be to be written: it was there before,
\* or it is signed by the issuer that it names.
Fair(b) ==
  b.of \notin IssuedIn(Source)
  => /\ b.of.by # None /\ b.of.by = Issuer(b.of).key
     /\ b.kind = "cert" => b.of.issuer = Issuer(b.of).subject

\* A run that has read its input.
HasLoaded == Load(line, before).ret = Success /\ Load(line, before).what = got

LEMMA ReqIsFair ==
  ASSUME line.tool = "req", NEW S, line.in # None => Known(before[line.in], S),
         HasLoaded, Make(line, got).ret = Success, ReSign(line),
         NEW b \in Papers(Make(line, got).blocks)
  PROVE  Fair(b)
<1>2. ReqLoad(line, before).ret = Success /\ ReqLoad(line, before).what = got
  BY DEF HasLoaded, Load
<1>3. IsRequest(got.x) /\ (got.key # None => got.x.key = got.key)
  BY <1>2, ReqLoads
<1>4. /\ b.kind = (IF Has(line, "-x509") THEN "cert" ELSE "request")
      /\ b.of = Issued(line, got.x, got.key) /\ Supported(got.key)
  BY <1>3, ReqIssues
<1>5. got.key # None
  BY <1>4 DEF Supported
<1>6. /\ b.of.by = got.key /\ b.of.key = got.key
      /\ Has(line, "-x509") => b.of.issuer = b.of.subject
  BY <1>3, <1>4, <1>5 DEF Issued, Sign, IsRequest, Says, Blank
<1>7. Issuer(b.of) = b.of
  BY DEF Issuer
<1> QED
  BY <1>4, <1>5, <1>6, <1>7 DEF Fair

LEMMA X509IsFair ==
  ASSUME line.tool = "x509", NEW S, Known(Source, S), HasLoaded,
         NEW b \in Papers(Make(line, got).blocks)
  PROVE  Fair(b)
<1> DEFINE in     == CertInput(line, before)
           key    == ReadPrivate(before[line.key], "PEM", None)
           exts   == CertExtensions(line, before, in.of)
           x      == Altered(in.of, exts.what)
           made   == IF Has(line, "-req") THEN CertSelfSign(x, key) ELSE Loaded(Success, x)
           written == IF Has(line, "-req") /\ FormOf(line.inform, "PEM") = "PEM" THEN got.x ELSE got.read
<1>1. CertLoad(line, before).ret = Success /\ CertLoad(line, before).what = got
  BY DEF HasLoaded, Load
<1>2. in # None /\ made.ret = Success /\ got = [read |-> in.of, x |-> made.what]
  BY <1>1 DEF CertLoad, Loaded, FatalError, InputError, Success
<1>3. b.of = written
  <2> DEFINE body == IF Has(line, "-noout") THEN << >> ELSE <<Block("cert", written, OutForm(line))>>
             kind == IF got.x.key.alg = "rsa" THEN "modulus" ELSE "wrong algorithm"
             modulus == IF Has(line, "-modulus") THEN <<Block(kind, got.x.key, "text")>> ELSE << >>
             pub == IF Has(line, "-pubkey") THEN <<Block("public", got.x.key, "PEM")>> ELSE << >>
             text == CertText(line, got.x)
  <2>1. PICK u : u = text \o (modulus \o pub)
    OBVIOUS
  <2>2. PICK v : v = u \o body
    OBVIOUS
  <2>3. Make(line, got).blocks = v
    BY <2>1, <2>2 DEF Make, CertMake, CertKeyParts, Made
  <2>4. Papers(text) = {} /\ Papers(modulus) = {} /\ Papers(pub) = {}
    BY NoPaperInText, NoPaperOf, NoPapers
  <2>5. Plain(text) /\ Plain(modulus) /\ Plain(pub) /\ Sequence(body)
    BY PlainText, PlainMade, PlainNone, OneBlock, NoBlock
  <2>6. Papers(body) \subseteq {Block("cert", written, OutForm(line))}
    BY PapersOfOne, NoPapers
  <2> HIDE DEF text, modulus, pub, body, written
  <2>7. Plain(modulus \o pub) /\ Papers(modulus \o pub) = {}
    BY <2>4, <2>5, PlainJoined, PapersJoined DEF Plain
  <2>8. Plain(u) /\ Papers(u) = {}
    BY <2>1, <2>4, <2>5, <2>7, PlainJoined, PapersJoined DEF Plain
  <2>9. Papers(v) \subseteq Papers(body)
    BY <2>2, <2>5, <2>8, PapersJoined DEF Plain
  <2> QED
    BY <2>3, <2>6, <2>9 DEF Block
<1>4. in \in Range(Source) /\ in.kind = (IF Has(line, "-req") /\ FormOf(line.inform, "PEM") = "PEM" THEN "request" ELSE "cert")
  <2> DEFINE content == IF line.in = None THEN line.stdin ELSE before[line.in]
  <2>1. content = Source
    BY SourceOfLate DEF Early
  <2> HIDE DEF content
  <2>2. \/ FormOf(line.inform, "PEM") = "PEM" /\ in = FirstPem(content, IF Has(line, "-req") THEN "request" ELSE "cert")
        \/ FormOf(line.inform, "PEM") = "DER" /\ in = OnlyDer(content, "cert")
    <3>1. FormOf(line.inform, "PEM") \in {"PEM", "DER", "RAW", InputError}
      BY DEF FormOf, CheckForm
    <3> QED
      BY <1>2, <3>1 DEF CertInput, content, InputError
  <2> QED
    BY <1>2, <2>1, <2>2, FirstPemIsThere, OnlyDerIsThere, KnownSequence
<1>5. in.kind = "cert" => in.of \in IssuedIn(Source)
  BY <1>2, <1>4, PapersAreIssued DEF Papers
<1>6. CASE in.kind = "cert"
  <2>1. b.of = in.of
    BY <1>2, <1>3, <1>4, <1>6
  <2> QED
    BY <1>5, <1>6, <2>1 DEF Fair
<1>7. CASE in.kind = "request"
  <2>1. IsRequest(in.of)
    BY <1>2, <1>4, <1>7, KnownBlocks
  <2>2. Has(line, "-req") /\ b.of = made.what
    BY <1>2, <1>3, <1>4, <1>7
  <2> HIDE DEF in
  <2>3. Keeps(exts.what, in.of)
    BY <2>1, ExtensionsKeep DEF CertExtensions, Loaded, Keeps, IsRequest
  <2> HIDE DEF exts
  <2>4. Keeps(x, in.of) /\ x.issuer = None
    BY <2>1, <2>3, AlteredKeeps DEF IsRequest, Keeps
  <2> HIDE DEF x
  <2>5. key = x.key /\ Supported(key)
        /\ b.of = Sign([x EXCEPT !.issuer = IF @ = None THEN x.subject ELSE @], key)
    BY <1>2, <2>2 DEF CertSelfSign, Loaded, FatalError, Success
  <2> HIDE DEF key
  <2>6. b.of.by = b.of.key /\ b.of.by # None /\ b.of.issuer = b.of.subject
    BY <2>4, <2>5 DEF Supported, Sign, Keeps, Says, Blank
  <2>7. Issuer(b.of) = b.of
    BY DEF Issuer
  <2> QED
    BY <2>6, <2>7 DEF Fair
<1> QED
  BY <1>4, <1>6, <1>7

LEMMA CaIsFair ==
  ASSUME line.tool = "ca", NEW S, line.in # None => Known(before[line.in], S), HasLoaded,
         Make(line, got).ret = Success, ~Unsigned(line),
         NEW b \in Papers(Make(line, got).blocks)
  PROVE  Fair(b)
<1> DEFINE alt == Has(line, "-altextend")
           request == Found(before[line.in], "request", InForm(line))
<1>1. CaLoad(line, before).ret = Success /\ CaLoad(line, before).what = got
  BY DEF HasLoaded, Load
<1>2. Make(line, got) = CaMake(line, got)
  BY DEF Make
<1>3. CASE ~alt
  <2> DEFINE ca == Signer(line, got)
             cert == [got.x EXCEPT !.issuer = ca.subject]
  <2>1. Supported(got.key) /\ got.key # None
    BY <1>3 DEF Unsigned, Supported
  <2>2. /\ line.in # None /\ request # None /\ got.x = request.of
        /\ got.ca = IF line.cert = None THEN None ELSE CertIn(before[line.cert])
    BY <1>1, <1>3 DEF CaLoad, Loaded, FatalError, InputError, Success
  <2>3. IsRequest(got.x)
    BY <2>2, FoundIsThere, KnownSequence, KnownBlocks
  <2>4. Make(line, got) = CertSign(line, got)
    BY <1>2, <1>3 DEF CaMake
  <2>5. /\ ca # None /\ got.key = ca.key
        /\ Make(line, got).blocks = <<Block("cert", Sign(cert, got.key), "PEM")>>
    BY <2>1, <2>4 DEF CertSign, Made, Refused, FatalError, Success
  <2>6. b.of = Sign(cert, got.key)
    BY <2>5, PapersOfOne DEF Block
  <2>7. b.of.by = got.key /\ b.of.issuer = ca.subject /\ b.of.key = got.x.key /\ b.of.subject = got.x.subject
    BY <2>3, <2>6 DEF Sign, IsRequest, Says, Blank
  <2>8. CASE Has(line, "-selfsign")
    <3>1. ca = got.x
      BY <2>1, <2>8 DEF Signer
    <3>2. Issuer(b.of) = b.of
      BY <2>8 DEF Issuer
    <3> QED
      BY <2>1, <2>5, <2>7, <3>1, <3>2 DEF Fair
  <2>9. CASE ~Has(line, "-selfsign")
    <3>1. ca = got.ca
      BY <2>9 DEF Signer
    <3>2. line.cert # None /\ ca = CertIn(before[line.cert])
      BY <2>2, <2>5, <3>1
    <3>3. Issuer(b.of) = ca
      BY <2>9, <3>2 DEF Issuer
    <3> QED
      BY <2>1, <2>5, <2>7, <3>3 DEF Fair
  <2> QED
    BY <2>8, <2>9
<1>4. CASE alt
  <2> DEFINE key == ChimeraKey(got.caKey, "ec")
             subjKey == ChimeraKey(got.subjKey, "ec")
             cert == ChimeraCert(line, got, key, subjKey)
             done == ChimeraForm(line, cert)
  <2>1. IsRoot(line)
    BY <1>4 DEF Unsigned
  <2>2. Make(line, got) \in {Made(Success, << >>), ChimeraSign(line, got)}
    BY <1>2, <1>4 DEF CaMake
  <2>3. \/ Make(line, got).blocks = << >>
        \/ key # None /\ Make(line, got).blocks = <<done>>
    BY <2>2 DEF ChimeraSign, Made, Refused
  <2>4. key # None /\ b = done
    BY <2>3, NoPapers, PapersOfOne
  <2>5. b.kind \in {"request", "cert"}
    BY DEF Papers
  <2>6. b.of = cert
    <3> HIDE DEF cert
    <3> QED
      BY <2>4, <2>5 DEF ChimeraForm, Block
  <2>7. cert.by = key /\ cert.key = key /\ cert.issuer = cert.subject
    BY <2>1 DEF ChimeraCert, Blank
  <2>8. Issuer(b.of) = b.of
    BY <2>1 DEF Issuer, IsRoot
  <2> QED
    BY <2>4, <2>6, <2>7, <2>8 DEF Fair
<1> QED
  BY <1>3, <1>4

\* The tools that issue something.
Issuing == {"req", "x509", "ca"}

LEMMA IssuesFairly ==
  ASSUME line.tool \in Issuing, NEW S, Known(Source, S), HasLoaded,
         Make(line, got).ret = Success, ~Unsigned(line)
  PROVE  \A b \in Papers(Make(line, got).blocks) : Fair(b)
<1>1. line.in # None => Known(before[line.in], S)
  BY SourceOfLate DEF Issuing, Early
<1>2. line.tool = "req" => ReSign(line)
  BY DEF Unsigned
<1> QED
  BY <1>1, <1>2, ReqIsFair, X509IsFair, CaIsFair DEF Issuing

\* What a run that verifies has found, with the signatures T there are and what
\* it is to write.
Verified(s, T) ==
  /\ line.tool = "dgst" /\ ~Hmac(line) /\ ~Signing(line)
     => \E g \in T : /\ g.digest = Digest(DgstHash(line), Source)
                     /\ g.key \in KeysIn(before[line.verify])
  /\ line.tool = "verify" \/ (line.tool = "crl" /\ line.cafile # None)
     => LET files == {line.cafile, line.untrusted} \ {None}
        IN  \/ \E r \in UNION {IssuedIn(before[f]) : f \in files} :
                 got.x.by = r.key /\ got.x.issuer = r.subject
            \/ /\ line.tool = "verify" /\ got.x \in IssuedIn(before[line.cafile])
               /\ Has(line, "-partial_chain") \/ SelfIssued(got.x)
  /\ line.tool = "req" /\ Has(line, "-verify")
     => IF ReSign(line) \/ got.key = None
        THEN \A b \in Papers(s) : ~Has(line, "-x509") => b.of.by # None /\ b.of.by = b.of.key
        ELSE got.orig.by = got.key

\* dgst takes a signature only when it is one that is there.
LEMMA DgstVerifies ==
  ASSUME line.tool = "dgst", ~Hmac(line), ~Signing(line), line \in Lines, NEW T,
         \A f \in Files : Known(before[f], T), Scan(line, before) = Success, HasLoaded,
         Make(line, got).ret = Success
  PROVE  \E g \in T : /\ g.digest = Digest(DgstHash(line), Source)
                      /\ g.key \in KeysIn(before[line.verify])
<1>1. line.verify \in Files /\ line.signature \in Files /\ KeyFileOf(line) = line.verify
  <2>1. DgstScan(line, before) = Success
    BY DEF Scan
  <2>2. KeyFileOf(line) # None /\ line.signature # None
    BY <2>1 DEF DgstScan, FatalError, Success
  <2> QED
    BY <2>2, FilesAssumption DEF FilesAssumption, KeyFileOf
<1> DEFINE sig == before[line.signature]
           key == DgstKey(line, before)
           file == before[line.verify]
           pub == Found(file, "public", InForm(line))
<1>2. /\ got = [digest |-> Digest(DgstHash(line), Source), sig |-> sig, key |-> key]
      /\ key # None /\ sig \notin {Absent, << >>}
  <2>1. DgstLoad(line, before).ret = Success /\ DgstLoad(line, before).what = got
    BY DEF HasLoaded, Load
  <2> QED
    BY <1>1, <2>1, SourceOfLate DEF DgstLoad, Loaded, FatalError, Success, Early
<1>3. key \in KeysIn(file)
  <2>1. key = ReadPublic(file, InForm(line))
    BY <1>1, <1>2 DEF DgstKey
  <2>2. pub # None /\ key = pub.of
    BY <1>2, <2>1 DEF ReadPublic
  <2>3. pub \in Range(file) /\ pub.kind = "public"
    BY <1>1, <2>2, FoundIsThere, KnownSequence
  <2> HIDE DEF pub, key, file
  <2>4. key \in Of(file, {"private", "public"})
    BY <2>2, <2>3 DEF Of, Range
  <2> QED
    BY <2>4 DEF KeysIn
<1>4. SignatureOf(got).of \in T
  <2>1. sig = <<SignatureOf(got)>>
    <3>1. Make(line, got) = DgstMake(line, got)
      BY DEF Make
    <3>2. got.sig = <<SignatureOf(got)>>
      BY <3>1 DEF DgstMake, Refused, Made, FatalError, Success
    <3> QED
      BY <1>2, <3>2
  <2>2. SignatureOf(got) # None /\ SignatureOf(got) \in Range(sig)
    BY <1>2, <2>1, OneBlock DEF Absent
  <2>3. SignatureOf(got).kind = "signature"
    BY DEF SignatureOf, Block
  <2> QED
    BY <1>1, <2>2, <2>3, KnownBlocks
<1> DEFINE g == [key |-> got.key, digest |-> got.digest]
<1>5. g \in T
  BY <1>4 DEF SignatureOf, Block
<1>6. g.digest = Digest(DgstHash(line), Source) /\ g.key = key
  BY <1>2
<1> QED
  BY <1>3, <1>5, <1>6

LEMMA CertIsThere ==
  ASSUME NEW s, Sequence(s), CertIn(s) # None
  PROVE  CertIn(s) \in IssuedIn(s)
<1>1. \E b \in Range(s) : b # None /\ b.kind = "cert" /\ CertIn(s) = b.of
  BY FirstPemIsThere, OnlyDerIsThere DEF CertIn
<1> QED
  BY <1>1, PapersAreIssued DEF Papers

LEMMA CertsAreIssued ==
  ASSUME NEW s
  PROVE  Certs(s) \subseteq IssuedIn(s)
BY DEF Certs, IssuedIn, Of

\* verify and crl take what a key of their files has signed, or what is trusted.
LEMMA ChainIsSigned ==
  ASSUME line.tool = "verify" \/ (line.tool = "crl" /\ line.cafile # None), line \in Lines,
         NEW T, \A f \in Files : Known(before[f], T), HasLoaded, Make(line, got).ret = Success
  PROVE  \/ \E r \in UNION {IssuedIn(before[f]) : f \in {line.cafile, line.untrusted} \ {None}} :
              got.x.by = r.key /\ got.x.issuer = r.subject
         \/ /\ line.tool = "verify" /\ got.x \in IssuedIn(before[line.cafile])
            /\ Has(line, "-partial_chain") \/ SelfIssued(got.x)
<1> DEFINE given == UNION {IssuedIn(before[f]) : f \in {line.cafile, line.untrusted} \ {None}}
<1>1. CASE line.tool = "crl"
  <2>1. CrlLoad(line, before).ret = Success /\ CrlLoad(line, before).what = got
    BY <1>1 DEF HasLoaded, Load
  <2>2. line.cafile # None /\ got.roots = Certs(before[line.cafile])
    BY <1>1, <2>1 DEF CrlLoad, Loaded, FatalError, Success
  <2>3. \E r \in got.roots : got.x.issuer = r.subject /\ got.x.by = r.key
    <3>1. Make(line, got) = CrlMake(line, got)
      BY <1>1 DEF Make
    <3> DEFINE holds == \E r \in got.roots : got.x.issuer = r.subject /\ got.x.by = r.key
    <3>2. PICK blocks : CrlMake(line, got)
                        = Made(IF line.cafile = None \/ holds THEN Success ELSE FatalError, blocks)
      BY DEF CrlMake
    <3> HIDE DEF holds
    <3>3. holds
      BY <2>2, <3>1, <3>2 DEF Made, FatalError, Success
    <3> QED
      BY <3>3 DEF holds
  <2>4. IssuedIn(before[line.cafile]) \subseteq given
    BY <2>2
  <2>5. got.roots \subseteq given
    BY <2>2, <2>4, CertsAreIssued
  <2> HIDE DEF given
  <2>6. \E r \in given : got.x.by = r.key /\ got.x.issuer = r.subject
    BY <2>3, <2>5
  <2> QED
    BY <2>6 DEF given
<1>2. CASE line.tool = "verify"
  <2> DEFINE inter == IF line.untrusted = None THEN None ELSE CertIn(before[line.untrusted])
             trusted == IF Has(line, "-partial_chain") THEN got.roots ELSE {r \in got.roots : SelfIssued(r)}
  <2>1. VerifyLoad(line, before).ret = Success /\ VerifyLoad(line, before).what = got
    BY <1>2 DEF HasLoaded, Load
  <2>2. /\ got.others = {inter} \ {None}
        /\ got.roots = IF line.cafile = None THEN {} ELSE Certs(before[line.cafile])
    BY <2>1 DEF VerifyLoad, Loaded, FatalError, Success
  <2>3. ChainHolds(line, got)
    BY <1>2 DEF Make, VerifyMake, Refused, Made, FatalError, Success
  <2>4. \/ got.x \in trusted
        \/ \E r \in got.roots : IssuedBy(got.x, r)
        \/ \E i \in got.others : IssuedBy(got.x, i)
    BY <2>3 DEF ChainHolds
  <2>5. got.roots \subseteq given
    BY <2>2, CertsAreIssued
  <2>6. got.others \subseteq given
    <3> SUFFICES ASSUME inter # None PROVE inter \in given
      BY <2>2
    <3>1. line.untrusted # None /\ line.untrusted \in Files /\ inter = CertIn(before[line.untrusted])
      BY FilesAssumption DEF FilesAssumption
    <3>2. inter \in IssuedIn(before[line.untrusted])
      BY <3>1, CertIsThere, KnownSequence
    <3> QED
      BY <3>1, <3>2
  <2>7. got.x \in trusted => /\ got.x \in IssuedIn(before[line.cafile])
                             /\ Has(line, "-partial_chain") \/ SelfIssued(got.x)
    BY <2>2, CertsAreIssued
  <2> HIDE DEF given, trusted, inter
  <2>8. \/ \E r \in given : got.x.by = r.key /\ got.x.issuer = r.subject
        \/ got.x \in trusted
    BY <2>4, <2>5, <2>6 DEF IssuedBy
  <2> QED
    BY <1>2, <2>7, <2>8 DEF given
<1> QED
  BY <1>1, <1>2

LEMMA ReqVerified ==
  ASSUME line.tool = "req", Has(line, "-verify"), NEW S, line.in # None => Known(before[line.in], S),
         HasLoaded, Make(line, got).ret = Success
  PROVE  IF ReSign(line) \/ got.key = None
         THEN \A b \in Papers(Make(line, got).blocks) :
                ~Has(line, "-x509") => b.of.by # None /\ b.of.by = b.of.key
         ELSE got.orig.by = got.key
<1>1. ReqLoad(line, before).ret = Success /\ ReqLoad(line, before).what = got
  BY DEF HasLoaded, Load
<1>2. /\ IsRequest(got.x) /\ (got.key # None => got.x.key = got.key)
      /\ ~ReSign(line) /\ got.key = None /\ ~Has(line, "-x509") => got.x = got.orig
      /\ got.key = None => got.x.key = got.orig.key
  BY <1>1, ReqLoads
<1>3. /\ \A b \in Papers(Make(line, got).blocks) : b.of = Issued(line, got.x, got.key)
      /\ ReSign(line) => Supported(got.key)
      /\ ReqVerifies(line, got)
  BY <1>2, ReqIssues
<1>4. CASE ReSign(line)
  <2>1. got.key # None
    BY <1>3, <1>4 DEF Supported
  <2> SUFFICES ASSUME NEW b \in Papers(Make(line, got).blocks), ~Has(line, "-x509")
               PROVE  b.of.by # None /\ b.of.by = b.of.key
    BY <1>4
  <2>2. b.of = Sign(got.x, got.key)
    BY <1>3, <1>4 DEF Issued
  <2> QED
    BY <1>2, <2>1, <2>2 DEF Sign, IsRequest, Says, Blank
<1>5. CASE ~ReSign(line) /\ got.key = None
  <2> SUFFICES ASSUME NEW b \in Papers(Make(line, got).blocks), ~Has(line, "-x509")
               PROVE  b.of.by # None /\ b.of.by = b.of.key
    BY <1>5
  <2>1. b.of = got.orig
    BY <1>2, <1>3, <1>5 DEF Issued
  <2>2. got.orig.by # None /\ got.orig.by = got.x.key
    BY <1>3, <1>5 DEF ReqVerifies
  <2> QED
    BY <1>2, <1>5, <2>1, <2>2
<1>6. CASE ~ReSign(line) /\ got.key # None
  BY <1>3, <1>6 DEF ReqVerifies
<1> QED
  BY <1>4, <1>5, <1>6

LEMMA FindsVerified ==
  ASSUME line \in Lines, NEW T, \A f \in Files : Known(before[f], T), Scan(line, before) = Success,
         HasLoaded, Make(line, got).ret = Success
  PROVE  Verified(Make(line, got).blocks, T)
<1>1. line.in # None => line.in \in Files
  BY FilesAssumption DEF FilesAssumption
<1> DEFINE dgst == line.tool = "dgst" /\ ~Hmac(line) /\ ~Signing(line)
           chain == line.tool = "verify" \/ (line.tool = "crl" /\ line.cafile # None)
           req == line.tool = "req" /\ Has(line, "-verify")
<1>2. CASE dgst
  BY <1>2, DgstVerifies DEF Verified
<1>3. CASE chain
  BY <1>3, ChainIsSigned DEF Verified
<1>4. CASE req
  BY <1>1, <1>4, ReqVerified DEF Verified
<1>5. CASE ~dgst /\ ~chain /\ ~req
  BY <1>5 DEF Verified
<1> QED
  BY <1>2, <1>3, <1>4, <1>5

-----------------------------------------------------------------------------
(* What is verified was signed, and what is issued is signed.              *)

AtFirst == UNION {SignedIn(s) : s \in Contents}

LEMMA ContentsKnown ==
  ASSUME NEW s \in Contents
  PROVE  Known(s, AtFirst)
<1>1. ASSUME NEW t \in Contents
      PROVE  AllRight(t, Contents, AtFirst)
  <2>1. Sequence(t)
    BY FilesAssumption DEF FilesAssumption, Sequence
  <2>2. ASSUME NEW b \in Range(t), b # None
        PROVE  Right(b, Contents, AtFirst)
    <3>1. /\ DOMAIN b = DOMAIN Block("data", None, "text")
          /\ b.kind = "base64" => b.of \in Contents
          /\ b.kind = "request" => b.of = [f \in DOMAIN Blank |-> b.of[f]] /\ b.of.issuer = None
      BY <2>2, FilesAssumption DEF FilesAssumption, IsWhole
    <3>2. {"kind", "of"} \subseteq DOMAIN b
      BY <3>1 DEF Block
    <3>3. b.kind = "signature" => b.of \in AtFirst
      BY <2>2 DEF AtFirst, SignedIn, Range
    <3>4. CertsSay(b)
      <4>1. /\ b.kind = "cert" => IsWhole(b.of)
            /\ b.kind \in {"bundle", "pkcs7"} => \A i \in DOMAIN b.of.certs : IsWhole(b.of.certs[i])
        BY <2>2, FilesAssumption DEF FilesAssumption
      <4> QED
        BY <4>1 DEF CertsSay, AllSay, Says, IsWhole
    <3> QED
      BY <3>1, <3>2, <3>3, <3>4 DEF Right, IsRequest, Says
  <2> QED
    BY <2>1, <2>2 DEF AllRight, Right
<1>2. Closed(Contents, AtFirst)
  BY <1>1 DEF Closed
<1> QED
  BY <1>1, <1>2 DEF Known

\* The runs that open their output if they end well, which is all of req.
Opening == line.tool = "req" \/ (line.tool \in Issuing /\ ~Silent(line))

\* What a run that is to end well has found and holds.
Verdict ==
  /\ Verified(held, signed)
  /\ line.tool \in Issuing /\ ~Unsigned(line) => \A b \in Papers(held) : Fair(b)
  /\ Opening /\ Output # None => opened

RunInv ==
  /\ Known(held, signed \cup SignedIn(held))
  /\ Sequence(shown) /\ Papers(shown) = {}
  /\ opened => Papers(disk[Output]) = {}
  /\ pc \in {"load", "make"} /\ line.tool \in Late => Scan(line, before) = Success
  /\ pc = "make" /\ line.tool \in Late => HasLoaded
  /\ pc = "make" /\ line.tool \in {"hash", "md5", "base64"} => Known(got, signed)
  /\ pc = "make" /\ line.tool \in {"pkcs12", "pkcs7"} => AllSay(got.certs)
  /\ pc = "make" /\ line.tool \in OpensLoaded /\ Output # None => opened
  /\ pc \in {"key", "seal"} /\ ~mishap => Verdict
  /\ pc = "close" /\ ret = Success /\ ~AsksHelp(line, before) /\ ~mishap => Verdict

AllKnown == \A f \in Files : Known(disk[f], signed) /\ Known(before[f], signed)

TrustInv ==
  /\ VerifiedWasSigned /\ SignedByIssuer
  /\ AtFirst \subseteq signed
  /\ AllKnown
  /\ pc # "idle" => RunInv

LEMMA TrustAtFirst == Init => TrustInv
<1> SUFFICES ASSUME Init PROVE TrustInv
  OBVIOUS
<1>1. /\ pc = "idle" /\ disk = InitDisk /\ before = disk /\ signed = AtFirst /\ end = "not yet"
  BY DEF Init, AtFirst
<1>2. \A f \in Files : InitDisk[f] \in Contents
  BY FilesAssumption DEF FilesAssumption, Files, Range
<1>3. AllKnown
  BY <1>1, <1>2, ContentsKnown DEF AllKnown
<1> QED
  BY <1>1, <1>3 DEF TrustInv, VerifiedWasSigned, SignedByIssuer, Succeeded

LEMMA SourceKnown ==
  ASSUME TypeInv, line \in Lines, AtFirst \subseteq signed, AllKnown
  PROVE  Known(line.stdin, signed) /\ Known(Source, signed) /\ (line.in # None => line.in \in Files)
<1>1. line.stdin \in Contents /\ (line.in # None => line.in \in Files)
  BY FilesAssumption DEF FilesAssumption
<1>2. Known(line.stdin, signed)
  BY <1>1, ContentsKnown, KnownMore
<1> QED
  BY <1>1, <1>2 DEF AllKnown, Source

\* Opening a file, which empties it, puts nothing into it.
LEMMA OpeningKnown ==
  ASSUME TypeInv, line \in Lines, AllKnown, opened => Papers(disk[Output]) = {},
         NEW yes, NEW result \in Rets, NEW there \in Pcs, Open(yes, result, there),
         signed' = signed, before' = before
  PROVE  AllKnown' /\ (opened' => Papers(disk'[Output]) = {})
<1>1. disk' = IF opened' /\ ~opened THEN [disk EXCEPT ![Output] = << >>] ELSE disk
  BY DEF Open
<1>2. opened' => Output \in Files
  BY OpenTypes
<1>3. DOMAIN disk = Files
  BY DEF TypeInv, TypeOK
<1>4. opened => opened'
  BY DEF Open
<1>5. AllKnown'
  BY <1>1, <1>3, KnownNone DEF AllKnown
<1>6. opened' => Papers(disk'[Output]) = {}
  BY <1>1, <1>2, <1>3, <1>4, NoPapers
<1> QED
  BY <1>5, <1>6

\* The verdict of a run stands until it ends.
LEMMA VerdictStands ==
  ASSUME Verdict, line' = line, got' = got, before' = before, held' = held, signed \subseteq signed',
         opened' = opened
  PROVE  Verdict'
<1>1. Source' = Source /\ Output' = Output /\ Opening' = Opening /\ Unsigned(line)' = Unsigned(line)
  BY SameEnds DEF Opening, Silent, Unsigned, InOpened
<1>2. \A b : Fair(b)' <=> Fair(b)
  BY <1>1 DEF Fair, Issuer
<1>3. Verified(held, signed)'
  BY <1>1 DEF Verdict, Verified
<1> QED
  BY <1>1, <1>2, <1>3 DEF Verdict

\* The certificates of a bundle or a message that is read are certificates.
LEMMA CertsReadSay ==
  ASSUME NEW c, NEW d, NEW S, c.tool \in {"pkcs12", "pkcs7"}, Load(c, d).ret = Success,
         Known(c.stdin, S), c.in # None => Known(d[c.in], S)
  PROVE  AllSay(Load(c, d).what.certs)
<1> DEFINE content == IF InOpened(c, d) THEN d[c.in] ELSE c.stdin
<1>1. Known(content, S)
  BY DEF InOpened, Given
<1>2. \E b : /\ b # None /\ Load(c, d).what = b.of
             /\ b \in Range(content) /\ b.kind \in {"bundle", "pkcs7"}
  <2>1. CASE c.tool = "pkcs12"
    <3>1. /\ InOpened(c, d) /\ OnlyDer(content, "bundle") # None
          /\ Load(c, d).what = OnlyDer(content, "bundle").of
      BY <2>1 DEF Load, Pkcs12Load, Loaded, FatalError, Success
    <3> HIDE DEF content
    <3> QED
      BY <1>1, <3>1, OnlyDerIsThere, KnownSequence
  <2>2. CASE c.tool = "pkcs7"
    <3>1. /\ Found(content, "pkcs7", InForm(c)) # None
          /\ Load(c, d).what = Found(content, "pkcs7", InForm(c)).of
      BY <2>2 DEF Load, Pkcs7Load, Loaded, FatalError, Success
    <3> HIDE DEF content
    <3> QED
      BY <1>1, <3>1, FoundIsThere, KnownSequence
  <2> QED
    BY <2>1, <2>2
<1> HIDE DEF content
<1>3. PICK b : /\ b # None /\ Load(c, d).what = b.of
               /\ b \in Range(content) /\ b.kind \in {"bundle", "pkcs7"}
  BY <1>2
<1>4. CertsSay(b)
  BY <1>1, <1>3, KnownBlocks
<1> QED
  BY <1>3, <1>4 DEF CertsSay

\* What a run makes of known files is known, with what it signs itself.
LEMMA MakesKnown ==
  ASSUME TypeInv, SecretInv, TrustInv, line \in Lines, pc = "make"
  PROVE  LET s == Make(line, got).blocks IN Known(s, signed \cup SignedIn(s))
<1> DEFINE s == Make(line, got).blocks
           S == signed \cup SignedIn(s)
<1>1. line.tool \in Tools /\ RunInv
  BY FilesAssumption DEF FilesAssumption, TrustInv
<1>2. CASE line.tool \in Early
  <2>1. line.tool \in {"pkcs12", "pkcs7"}
        => Parses(got.certs) /\ AllSay(got.certs)
    BY <1>1 DEF SecretInv, RunInv
  <2> QED
    BY <1>2, <2>1, KeyToolsMakePlain, PlainIsKnown
<1>3. CASE line.tool \in Params_
  BY <1>3, ParamToolsMakePlain, PlainIsKnown
<1>4. CASE line.tool \in {"hash", "md5", "base64"}
  <2>1. Known(got, signed)
    BY <1>1, <1>4 DEF RunInv
  <2>2. Known(s, signed)
    BY <1>4, <2>1, DataToolsMakeKnown
  <2> HIDE DEF s
  <2> QED
    BY <2>2, KnownMore DEF s
<1>5. CASE line.tool = "dgst"
  <2>1. Known(s, SignedIn(s))
    BY <1>5, DgstMakesKnown
  <2> HIDE DEF s
  <2> QED
    BY <2>1, KnownMore DEF s
<1>6. CASE line.tool \in {"x509", "verify", "crl", "ca"}
  <2>1. HasLoaded
    BY <1>1, <1>6 DEF RunInv, Late, OpensLoaded, OpensMade, Prints
  <2>2. Known(line.stdin, signed) /\ (line.in # None => Known(before[line.in], signed))
    BY SourceKnown DEF TrustInv, AllKnown
  <2>3. line.tool = "x509" => Says(got.x) /\ Says(got.read)
    <3> SUFFICES ASSUME line.tool = "x509" PROVE Says(got.x) /\ Says(got.read)
      OBVIOUS
    <3>1. CertLoad(line, before).ret = Success /\ CertLoad(line, before).what = got
      BY <2>1 DEF HasLoaded, Load
    <3>2. Known(IF line.in = None THEN line.stdin ELSE before[line.in], signed)
      BY <2>2
    <3> QED
      BY <3>1, <3>2, X509Loads
  <2>4. line.tool = "ca" => Says(got.x)
    <3> SUFFICES ASSUME line.tool = "ca" PROVE Says(got.x)
      OBVIOUS
    <3>1. CaLoad(line, before).ret = Success /\ CaLoad(line, before).what = got
      BY <2>1 DEF HasLoaded, Load
    <3> QED
      BY <2>2, <3>1, CaLoads
  <2> QED
    BY <1>6, <2>3, <2>4, CertToolsMakePlain, PlainIsKnown
<1>7. CASE line.tool = "req"
  <2>1. HasLoaded
    BY <1>1, <1>7 DEF RunInv, Late, OpensLoaded
  <2>2. line.in # None => Known(before[line.in], signed)
    BY SourceKnown DEF TrustInv, AllKnown
  <2>3. ReqLoad(line, before).ret = Success /\ ReqLoad(line, before).what = got
    BY <1>7, <2>1 DEF HasLoaded, Load
  <2>4. IsRequest(got.x) /\ (got.key # None => got.x.key = got.key)
    BY <2>2, <2>3, ReqLoads
  <2> QED
    BY <1>7, <2>4, ReqIssues
<1> QED
  BY <1>1, <1>2, <1>3, <1>4, <1>5, <1>6, <1>7
     DEF Tools, OpensLoaded, OpensMade, Prints, Early, CertTools_, Params_

\* ca writes a certificate unless it says in vain that it did.
LEMMA CaWrites ==
  ASSUME line.tool = "ca", ~Silent(line), Scan(line, before) = Success, HasLoaded,
         Make(line, got).ret = Success
  PROVE  Make(line, got).blocks # << >>
<1>1. Make(line, got) = CaMake(line, got)
  BY DEF Make
<1>2. ASSUME NEW b PROVE <<b>> # << >>
  OBVIOUS
<1>3. CASE ~Has(line, "-altextend")
  <2>1. CertSign(line, got).ret = Success
    BY <1>1, <1>3 DEF CaMake
  <2>2. \E b : CertSign(line, got).blocks = <<b>>
    BY <2>1 DEF CertSign, Made, Refused, FatalError, Success
  <2> QED
    BY <1>1, <1>2, <1>3, <2>2 DEF CaMake
<1>4. CASE Has(line, "-altextend")
  <2>1. ~Has(line, "-selfsign") /\ ~(line.altkey = None /\ line.altpub = None /\ line.cert = None)
    BY <1>4 DEF Silent
  <2>2. line.cert # None => CertIn(before[line.cert]) # None
    <3>1. CaScan(line, before) = Success
      BY DEF Scan
    <3> QED
      BY <3>1 DEF CaScan, FatalError, Success
  <2>3. got.ca = IF line.cert = None THEN None ELSE CertIn(before[line.cert])
    <3>1. CaLoad(line, before).ret = Success /\ CaLoad(line, before).what = got
      BY DEF HasLoaded, Load
    <3> QED
      BY <3>1 DEF CaLoad, Loaded, FatalError, InputError, Success
  <2>4. Make(line, got) = ChimeraSign(line, got)
    BY <1>1, <1>4, <2>1, <2>2, <2>3 DEF CaMake
  <2>5. \E b : ChimeraSign(line, got).blocks = <<b>>
    BY <2>4 DEF ChimeraSign, Made, Refused, FatalError, Success, BadFuncArg
  <2> QED
    BY <1>2, <2>4, <2>5
<1> QED
  BY <1>3, <1>4

LEMMA MakesVerdict ==
  ASSUME TypeInv, SecretInv, TrustInv, line \in Lines, pc = "make", MakeOutput, ret' = Success
  PROVE  Verdict'
<1>1. /\ line' = line /\ got' = got /\ before' = before /\ signed' = signed
      /\ held' = Make(line, got).blocks
      /\ Open(line.tool \in OpensMade /\ Make(line, got).ret = Success /\ held' # << >>,
              Make(line, got).ret, IF KeyToo THEN "key" ELSE "close")
  BY DEF MakeOutput
<1>2. Make(line, got).ret = Success
  BY <1>1 DEF Open, FatalError, Success
<1>3. RunInv /\ AllKnown /\ AtFirst \subseteq signed
  BY DEF TrustInv
<1>4. Source' = Source /\ Output' = Output /\ Opening' = Opening /\ Unsigned(line)' = Unsigned(line)
  BY <1>1, SameEnds DEF Opening, Silent, Unsigned, InOpened
<1>5. \A b : Fair(b)' <=> Fair(b)
  BY <1>1, <1>4 DEF Fair, Issuer
<1>6. line.tool \in Late => Scan(line, before) = Success /\ HasLoaded
  BY <1>3 DEF RunInv
<1>7. Verified(held, signed)'
  <2>1. Verified(held', signed)
    <3>1. CASE line.tool \in Late
      BY <1>1, <1>2, <1>3, <1>6, <3>1, FindsVerified DEF AllKnown
    <3>2. CASE line.tool \notin Late
      BY <3>2 DEF Verified, Late, OpensMade, Prints, OpensLoaded
    <3> QED
      BY <3>1, <3>2
  <2> QED
    BY <1>1, <1>4, <2>1 DEF Verified
<1>8. line.tool \in Issuing /\ ~Unsigned(line) => \A b \in Papers(held') : Fair(b)
  <2>1. Known(Source, signed)
    BY <1>3, SourceKnown
  <2>2. Issuing \subseteq Late
    BY DEF Issuing, Late, OpensMade, OpensLoaded
  <2> QED
    BY <1>1, <1>2, <1>6, <2>1, <2>2, IssuesFairly
<1>9. Opening /\ Output # None => opened'
  <2> SUFFICES ASSUME Opening, Output # None PROVE opened'
    OBVIOUS
  <2>1. CASE line.tool \in OpensLoaded
    BY <1>1, <1>3, <2>1 DEF RunInv, Open
  <2>2. CASE line.tool = "ca"
    <3>1. ~Silent(line)
      BY <2>2 DEF Opening
    <3>2. held' # << >>
      BY <1>1, <1>2, <1>6, <2>2, <3>1, CaWrites DEF Late, OpensMade
    <3>3. Output # Unwritable
      BY <1>1, <1>2, <2>2, <3>2 DEF Open, OpensMade, FatalError, Success
    <3> QED
      BY <1>1, <1>2, <2>2, <3>2, <3>3 DEF Open, OpensMade
  <2> QED
    BY <2>1, <2>2 DEF Opening, Issuing, OpensLoaded
<1> QED
  BY <1>1, <1>4, <1>5, <1>7, <1>8, <1>9 DEF Verdict

\* What a run leaves holds no more papers than what it had to write.
LEMMA LeftPapers ==
  ASSUME NEW there, NEW left \in Over(there), Sequence(held), Papers(there) = {}
  PROVE  Papers(left) \subseteq Papers(held)
<1>1. left \in {there, held, held \o Cut}
  BY DEF Over
<1>2. Plain(Cut) /\ Papers(Cut) = {}
  BY PlainMade, NoPaperOf DEF Cut
<1>3. Papers(held \o Cut) \subseteq Papers(held)
  BY <1>2, PapersJoined DEF Plain
<1> QED
  BY <1>1, <1>3

LEMMA ResultHeld ==
  ASSUME TypeInv, TrustInv, CloseOutput, mishap' = mishap, Output # None => opened,
         Source' = Source, Output' = Output,
         ~(opened /\ held # << >> /\ mishap' = TRUE)
  PROVE  Papers(Result') \subseteq Papers(held)
<1>1. RunInv /\ DOMAIN disk = Files /\ (opened => Output \in Files)
  BY DEF CloseOutput, TrustInv, TypeInv, TypeOK
<1>2. Sequence(held) /\ Sequence(shown) /\ Papers(shown) = {}
  BY <1>1, KnownSequence DEF RunInv
<1>3. CASE Output = None
  <2>1. Result' = shown' /\ shown' \in {held, held \o shown}
    BY <1>3 DEF CloseOutput, Result
  <2>2. Papers(held \o shown) \subseteq Papers(held)
    BY <1>2, PapersJoined
  <2> QED
    BY <2>1, <2>2
<1>4. CASE Output # None
  <2>1. \E left \in Over(disk[Output]) : disk' = [disk EXCEPT ![Output] = left]
    BY <1>4 DEF CloseOutput
  <2>2. PICK left \in Over(disk[Output]) : disk'[Output] = left
    BY <1>1, <1>4, <2>1
  <2>3. Papers(left) \subseteq Papers(held)
    BY <1>1, <1>2, <1>4, LeftPapers DEF RunInv
  <2> QED
    BY <1>4, <2>2, <2>3 DEF Result
<1> QED
  BY <1>3, <1>4

\* What a run that ends well leaves is what its verdict was about.
LEMMA ClosesVerified ==
  ASSUME TypeInv, TrustInv, CloseOutput
  PROVE  VerifiedWasSigned' /\ SignedByIssuer'
<1> SUFFICES ASSUME Succeeded' PROVE VerifiedWasSigned' /\ SignedByIssuer'
  BY DEF VerifiedWasSigned, SignedByIssuer
<1>1. /\ line' = line /\ got' = got /\ before' = before /\ held' = held /\ ret' = ret
      /\ signed' = signed \cup SignedIn(held) /\ opened' = opened /\ pc = "close"
  BY DEF CloseOutput
<1>2. ret = Success /\ ~AsksHelp(line, before) /\ ~mishap'
  BY <1>1 DEF Succeeded
<1>3. Verdict
  <2>1. mishap => mishap'
    BY Zenon DEF CloseOutput
  <2> QED
    BY <1>1, <1>2, <2>1 DEF TrustInv, RunInv
<1>4. Verdict'
  BY <1>1, <1>3, VerdictStands
<1>5. Source' = Source /\ Output' = Output /\ Opening' = Opening
      /\ Unsigned(line') = Unsigned(line) /\ Unsigned(line)' = Unsigned(line)
  BY <1>1, SameEnds DEF Opening, Silent, Unsigned, InOpened
<1>6. ASSUME Opening
      PROVE  Papers(Result') \subseteq Papers(held)
  <2>1. mishap' # TRUE
    BY <1>2
  <2>2. mishap' = mishap
    BY <2>1 DEF CloseOutput
  <2> QED
    BY <1>3, <1>5, <1>6, <2>1, <2>2, ResultHeld DEF Verdict
<1>7. VerifiedWasSigned'
  <2>1. ASSUME line.tool = "req", Has(line, "-verify"), ReSign(line) \/ got.key = None
        PROVE  \A x \in IssuedIn(Result') : ~Has(line, "-x509") => x.by # None /\ x.by = x.key
    <3>1. \A b \in Papers(held) : ~Has(line, "-x509") => b.of.by # None /\ b.of.by = b.of.key
      BY <1>3, <2>1 DEF Verdict, Verified
    <3>2. Papers(Result') \subseteq Papers(held)
      BY <1>6, <2>1 DEF Opening
    <3> QED
      BY <3>1, <3>2, PapersAreIssued
  <2> QED
    BY <1>1, <1>4, <1>5, <2>1 DEF Verdict, Verified, VerifiedWasSigned
<1>8. SignedByIssuer'
  <2> SUFFICES ASSUME line.tool \in Issuing, ~Silent(line)', ~Unsigned(line)',
                      NEW x \in IssuedIn(Result'), x \notin IssuedIn(Source)
               PROVE  /\ x.by # None /\ x.by = Issuer(x)'.key
                      /\ x \in Of(Result', {"cert"}) => x.issuer = Issuer(x)'.subject
    BY <1>1, <1>5 DEF SignedByIssuer, Issuing
  <2>1. ~Silent(line) /\ ~Unsigned(line) /\ Issuer(x)' = Issuer(x)
    BY <1>1, <1>5 DEF Silent, InOpened, Issuer
  <2>2. Papers(Result') \subseteq Papers(held)
    BY <1>6, <2>1 DEF Opening
  <2>3. \A b \in Papers(Result') : Fair(b)
    BY <1>3, <2>1, <2>2 DEF Verdict
  <2>4. PICK b \in Papers(Result') : x = b.of
    BY PapersAreIssued
  <2>5. x.by # None /\ x.by = Issuer(x).key
    BY <2>3, <2>4 DEF Fair
  <2>6. ASSUME x \in Of(Result', {"cert"})
        PROVE  x.issuer = Issuer(x).subject
    <3>1. PICK p \in Papers(Result') : p.kind = "cert" /\ x = p.of
      BY <2>6, PapersAreIssued
    <3> QED
      BY <2>3, <3>1 DEF Fair
  <2> QED
    BY <2>1, <2>5, <2>6
<1> QED
  BY <1>7, <1>8

LEMMA TrustKept ==
  TypeInv /\ RefuseInv /\ SecretInv /\ TrustInv /\ [Next]_vars => TrustInv'
<1> SUFFICES ASSUME TypeInv, RefuseInv, SecretInv, TrustInv, [Next]_vars
             PROVE  TrustInv'
  OBVIOUS
<1>a. AllKnown /\ AtFirst \subseteq signed /\ AtFirst' = AtFirst /\ DOMAIN disk = Files
  BY DEF TrustInv, TypeInv, TypeOK, AtFirst
<1>b. ASSUME ~Succeeded'
      PROVE  VerifiedWasSigned' /\ SignedByIssuer'
  BY <1>b DEF VerifiedWasSigned, SignedByIssuer
<1>c. ASSUME pc' # "idle" PROVE ~Succeeded'
  BY <1>c DEF Succeeded
<1>d. ASSUME pc # "idle"
      PROVE  line \in Lines /\ RunInv /\ runs # 0 /\ line.tool \in Tools
  BY <1>d, FilesAssumption DEF FilesAssumption, TypeInv, LineOK, TrustInv
<1>e. FatalError # Success
  BY DEF FatalError, Success
<1>1. ASSUME NEW c \in LinesAfter(runs, line), Start(c)
      PROVE  TrustInv'
  <2>1. /\ disk' = disk /\ before' = disk /\ signed' = signed /\ held' = << >> /\ shown' = << >>
        /\ pc' = "scan"
    BY <1>1 DEF Start
  <2>2. ~opened'
    BY <1>1 DEF Start
  <2>3. AllKnown'
    BY <1>a, <2>1 DEF AllKnown
  <2>4. RunInv'
    BY <2>1, <2>2, KnownNone, NoPapers, NoBlock DEF RunInv
  <2> QED
    BY <1>a, <1>b, <1>c, <2>1, <2>3, <2>4 DEF TrustInv
<1>2. CASE ScanOptions
  <2>1. /\ line' = line /\ before' = before /\ held' = held /\ shown' = shown /\ signed' = signed
        /\ pc = "scan" /\ Output' = Output
    BY <1>2 DEF ScanOptions, Output
  <2>2. line \in Lines /\ RunInv /\ line.tool \in Tools /\ disk = before
    BY <1>d, <2>1 DEF RefuseInv, Untouched
  <2>3. PICK result \in Rets, there \in {"load", "close"} :
          /\ Open(ScanOpens(line, disk), result, there)
          /\ IF AsksHelp(line, disk) THEN there = "close"
             ELSE there = "load" /\ result = Scan(line, disk)
    <3>1. Scan(line, disk) \in Rets /\ Success \in Rets
      BY <2>2, ScanReturns DEF Rets
    <3> QED
      BY <1>2, <3>1 DEF ScanOptions
  <2>4. AllKnown' /\ (opened' => Papers(disk'[Output]) = {})
    <3>1. there \in Pcs
      BY <2>3 DEF Pcs
    <3> QED
      BY <1>a, <2>1, <2>2, <2>3, <3>1, OpeningKnown DEF RunInv
  <2>5. pc' \in {"load", "close"} /\ (pc' = "load" => Scan(line, before) = Success)
    BY <1>e, <2>2, <2>3 DEF Open
  <2>6. pc' = "close" /\ ret' = Success => AsksHelp(line, before)
    BY <1>e, <2>2, <2>3 DEF Open
  <2>7. RunInv'
    BY <2>1, <2>2, <2>4, <2>5, <2>6 DEF RunInv
  <2> QED
    BY <1>a, <1>b, <1>c, <2>1, <2>4, <2>5, <2>7 DEF TrustInv
<1>3. CASE ReadInput
  <2>1. /\ line' = line /\ before' = before /\ held' = held /\ shown' = shown /\ signed' = signed
        /\ pc = "load" /\ Output' = Output
    BY <1>3 DEF ReadInput, Output
  <2>2. line \in Lines /\ RunInv /\ line.tool \in Tools /\ runs # 0
    BY <1>d, <2>1
  <2> DEFINE loaded == Load(line, disk)
  <2>3. /\ got' = loaded.what
        /\ Open(line.tool \in OpensLoaded /\ loaded.ret = Success, loaded.ret, "make")
    BY <1>3 DEF ReadInput
  <2>4. AllKnown' /\ (opened' => Papers(disk'[Output]) = {})
    <3>1. loaded.ret \in Rets /\ "make" \in Pcs
      BY <2>2, LoadReturns DEF Pcs
    <3> QED
      BY <1>a, <2>1, <2>2, <2>3, <3>1, OpeningKnown DEF RunInv
  <2>5. pc' \in {"make", "close"} /\ (pc' = "close" => ret' # Success)
        /\ (pc' = "make" => loaded.ret = Success)
    BY <1>e, <2>3 DEF Open
  <2>6. line.tool \in Late => disk = before
    BY <2>1, <2>2 DEF RefuseInv, Untouched
  <2>7. pc' = "make" /\ line.tool \in Late => HasLoaded'
    BY <2>1, <2>3, <2>5, <2>6 DEF HasLoaded
  <2>8. line.tool \in {"hash", "md5", "base64"} => Known(got', signed)
    <3> SUFFICES ASSUME line.tool \in {"hash", "md5", "base64"} PROVE Known(got', signed)
      OBVIOUS
    <3>1. Known(line.stdin, signed) /\ (line.in # None => Known(disk[line.in], signed))
      BY <1>a, <2>2, SourceKnown DEF AllKnown
    <3>2. ASSUME NEW limit \in Nat PROVE Known(FromStdin(line, limit), signed)
      <4> DEFINE m == IF Len(line.stdin) < limit THEN Len(line.stdin) ELSE limit
      <4>1. line.stdin \in Seq(Range(line.stdin))
        BY <3>1, KnownSequence DEF Sequence
      <4>2. Len(line.stdin) \in Nat
        BY <4>1, LenProperties
      <4>3. m \in Nat /\ m <= Len(line.stdin)
        BY <4>2
      <4>4. FromStdin(line, limit) = SubSeq(line.stdin, 1, m)
        BY DEF FromStdin
      <4> HIDE DEF m
      <4> QED
        BY <3>1, <4>3, <4>4, KnownPart
    <3>3. \E limit \in Nat : got' = IF line.in = None THEN FromStdin(line, limit) ELSE disk[line.in]
      <4>1. line.stdin \in Seq(Range(line.stdin))
        BY <3>1, KnownSequence DEF Sequence
      <4>2. Len(line.stdin) \in Nat /\ HashMax \in Nat /\ Base64Max \in Nat
        BY <4>1, LenProperties, LimitsAssumption
      <4>3. CASE line.tool = "base64"
        BY <2>3, <4>2, <4>3 DEF Load, Base64Load, Loaded
      <4>4. CASE line.tool \in {"hash", "md5"}
        <5>1. \E limit \in {HashMax, Len(line.stdin)} :
                got' = IF line.in = None THEN FromStdin(line, limit) ELSE disk[line.in]
          BY <2>3, <4>4 DEF Load, HashLoad, Loaded
        <5> QED
          BY <4>2, <5>1
      <4> QED
        BY <4>3, <4>4
    <3> QED
      BY <3>1, <3>2, <3>3
  <2>9. pc' = "make" /\ line.tool \in OpensLoaded /\ Output # None => opened'
    BY <1>e, <2>3 DEF Open
  <2>10. pc' = "make" /\ line.tool \in {"pkcs12", "pkcs7"} => AllSay(got'.certs)
    <3>1. Known(line.stdin, signed) /\ (line.in # None => Known(disk[line.in], signed))
      BY <1>a, <2>2, SourceKnown DEF AllKnown
    <3>2. loaded.ret = Success /\ line.tool \in {"pkcs12", "pkcs7"}
          => AllSay(loaded.what.certs)
      BY <3>1, CertsReadSay
    <3>3. got' = loaded.what /\ (pc' = "make" => loaded.ret = Success)
      BY <2>3, <2>5
    <3> HIDE DEF loaded
    <3> QED
      BY <3>2, <3>3
  <2>11. RunInv'
    BY <2>1, <2>2, <2>4, <2>5, <2>7, <2>8, <2>9, <2>10 DEF RunInv
  <2> QED
    BY <1>a, <1>b, <1>c, <2>1, <2>4, <2>5, <2>11 DEF TrustInv
<1>4. CASE MakeOutput
  <2>1. /\ line' = line /\ before' = before /\ shown' = shown /\ signed' = signed
        /\ pc = "make" /\ Output' = Output
    BY <1>4 DEF MakeOutput, Output
  <2>2. line \in Lines /\ RunInv /\ line.tool \in Tools
    BY <1>d, <2>1
  <2> DEFINE made == Make(line, got)
             there == IF KeyToo THEN "key" ELSE "close"
  <2>3. /\ held' = made.blocks
        /\ Open(line.tool \in OpensMade /\ made.ret = Success /\ made.blocks # << >>, made.ret, there)
    BY <1>4 DEF MakeOutput
  <2>4. AllKnown' /\ (opened' => Papers(disk'[Output]) = {})
    <3>1. made.ret \in Rets /\ there \in Pcs
      BY <2>2, MakeReturns DEF Pcs
    <3> HIDE DEF there
    <3> QED
      BY <1>a, <2>1, <2>2, <2>3, <3>1, OpeningKnown DEF RunInv
  <2>5. Known(held', signed \cup SignedIn(held'))
    BY <2>1, <2>2, <2>3, MakesKnown
  <2>6. ret' = Success => Verdict'
    BY <1>4, <2>1, <2>2, MakesVerdict
  <2>7. pc' \in {"key", "close"} /\ (pc' = "key" => ret' = Success)
    BY <2>3 DEF Open
  <2>8. RunInv'
    BY <2>1, <2>2, <2>4, <2>5, <2>6, <2>7 DEF RunInv
  <2> QED
    BY <1>a, <1>b, <1>c, <2>1, <2>4, <2>7, <2>8 DEF TrustInv
<1>5. CASE OpenKeyOut
  <2>1. /\ line' = line /\ got' = got /\ before' = before /\ held' = held /\ opened' = opened
        /\ shown' = shown /\ signed' = signed /\ pc = "key" /\ pc' \in {"seal", "close"}
        /\ Output' = Output /\ (pc' = "close" => ret' = FatalError)
        /\ disk' = disk \/ disk' = [disk EXCEPT ![line.keyout] = << >>]
    BY <1>5 DEF OpenKeyOut, Output
  <2>2. RunInv
    BY <1>d, <2>1
  <2>3. AllKnown'
    BY <1>a, <2>1, KnownNone DEF AllKnown
  <2>4. opened' => Papers(disk'[Output]) = {}
    BY <1>a, <2>1, <2>2, NoPapers DEF RunInv, TypeInv, TypeOK
  <2>5. ~mishap' => Verdict'
    <3>1. mishap' = mishap
      BY <1>5 DEF OpenKeyOut
    <3> QED
      BY <2>1, <2>2, <3>1, VerdictStands DEF RunInv
  <2>6. RunInv'
    BY <1>e, <2>1, <2>2, <2>4, <2>5 DEF RunInv
  <2> QED
    BY <1>a, <1>b, <1>c, <2>1, <2>3, <2>6 DEF TrustInv
<1>6. CASE WriteKeyOut
  <2>1. /\ line' = line /\ got' = got /\ before' = before /\ held' = held /\ opened' = opened
        /\ signed' = signed /\ pc = "seal" /\ pc' = "close" /\ Output' = Output
    BY <1>6 DEF WriteKeyOut, Output
  <2>2. PICK pass, left :
          /\ left \in {ReqKeyOut(line, got, pass).blocks, Cut}
          /\ \/ shown' = left /\ disk' = disk
             \/ shown' = shown /\ disk' = [disk EXCEPT ![line.keyout] = left]
    BY <1>6 DEF WriteKeyOut
  <2>3. RunInv
    BY <1>d, <2>1
  <2>4. Plain(left) /\ Papers(left) = {}
    <3>1. Plain(Cut) /\ Papers(Cut) = {}
      BY PlainMade, NoPaperOf DEF Cut
    <3>2. Papers(<<Sealed(got.key, pass)>>) = {}
      <4>1. Sealed(got.key, pass).kind = "private"
        BY DEF Sealed, Block
      <4>2. Papers(<<Sealed(got.key, pass)>>) \subseteq {Sealed(got.key, pass)}
        BY PapersOfOne
      <4> QED
        BY <4>1, <4>2 DEF Papers
    <3>3. Plain(ReqKeyOut(line, got, pass).blocks) /\ Papers(ReqKeyOut(line, got, pass).blocks) = {}
      BY <3>2, PlainSealed, PlainMade, PlainNone, NoPaperOf, NoPapers
         DEF ReqKeyOut, PrivateBlock, Refused, Made
    <3> QED
      BY <2>2, <3>1, <3>3
  <2>5. Known(left, signed) /\ Sequence(left)
    BY <2>4, PlainIsKnown DEF Plain
  <2>6. AllKnown'
    BY <1>a, <2>1, <2>2, <2>5 DEF AllKnown
  <2>7. opened' => Papers(disk'[Output]) = {}
    BY <1>a, <2>1, <2>2, <2>3, <2>4 DEF RunInv, TypeInv, TypeOK
  <2>8. Sequence(shown') /\ Papers(shown') = {}
    BY <2>2, <2>3, <2>4, <2>5 DEF RunInv
  <2>9. ~mishap' => Verdict'
    <3>1. mishap => mishap'
      BY <1>6, Zenon DEF WriteKeyOut
    <3> QED
      BY <2>1, <2>3, <3>1, VerdictStands DEF RunInv
  <2>10. RunInv'
    BY <2>1, <2>3, <2>7, <2>8, <2>9 DEF RunInv
  <2> QED
    BY <1>a, <1>b, <1>c, <2>1, <2>6, <2>10 DEF TrustInv
<1>7. CASE CallFails
  <2>1. /\ line' = line /\ disk' = disk /\ before' = before /\ held' = held /\ opened' = opened
        /\ shown' = shown /\ signed' = signed /\ pc # "idle" /\ pc' = "close" /\ Output' = Output
        /\ ret' # Success
    BY <1>7, <1>e DEF CallFails, Output
  <2>2. RunInv
    BY <1>d, <2>1
  <2>3. AllKnown' /\ RunInv'
    BY <1>a, <2>1, <2>2 DEF AllKnown, RunInv
  <2> QED
    BY <1>a, <1>b, <1>c, <2>1, <2>3 DEF TrustInv
<1>8. CASE CloseOutput
  <2>1. /\ before' = before /\ signed' = signed \cup SignedIn(held) /\ pc = "close" /\ pc' = "idle"
    BY <1>8 DEF CloseOutput
  <2>2. RunInv
    BY <1>d, <2>1
  <2>3. Known(held, signed') /\ signed \subseteq signed'
    BY <2>1, <2>2 DEF RunInv
  <2>4. Known(Cut, signed') /\ Known(<< >>, signed')
    BY PlainMade, PlainIsKnown, KnownNone DEF Cut
  <2>5. \A f \in Files : Known(disk[f], signed') /\ Known(before[f], signed')
    BY <1>a, <2>3, KnownMore DEF AllKnown
  <2>6. \/ disk' = disk
        \/ opened /\ \E left \in Over(disk[Output]) \cup {<< >>, Cut} : disk' = [disk EXCEPT ![Output] = left]
    BY <1>8 DEF CloseOutput
  <2>7. AllKnown'
    <3>1. CASE disk' = disk
      BY <2>1, <2>5, <3>1 DEF AllKnown
    <3>2. ASSUME opened, NEW left \in Over(disk[Output]) \cup {<< >>, Cut}, disk' = [disk EXCEPT ![Output] = left]
          PROVE  AllKnown'
      <4>1. Output \in Files
        BY <3>2 DEF TypeInv, TypeOK
      <4>2. Known(held \o Cut, signed')
        BY <2>3, <2>4, KnownJoined
      <4>3. left \in {disk[Output], held, held \o Cut, << >>, Cut}
        BY <3>2 DEF Over
      <4>4. Known(left, signed')
        BY <2>3, <2>4, <2>5, <4>1, <4>2, <4>3
      <4> QED
        BY <1>a, <2>1, <2>5, <3>2, <4>4 DEF AllKnown
    <3> QED
      BY <2>6, <3>1, <3>2
  <2>8. VerifiedWasSigned' /\ SignedByIssuer'
    BY <1>8, ClosesVerified
  <2> QED
    BY <1>a, <2>1, <2>3, <2>7, <2>8 DEF TrustInv
<1>9. CASE Kill
  <2>1. disk' = disk /\ before' = before /\ signed' = signed /\ pc' = "idle" /\ end' = "killed"
    BY <1>9 DEF Kill
  <2>2. AllKnown' /\ ~Succeeded'
    BY <1>a, <2>1 DEF AllKnown, Succeeded
  <2> QED
    BY <1>a, <1>b, <2>1, <2>2 DEF TrustInv
<1>10. CASE UNCHANGED vars
  <2>1. VerifiedWasSigned' /\ SignedByIssuer'
    BY <1>10, SameEnds DEF vars, TrustInv, VerifiedWasSigned, SignedByIssuer, Succeeded, Result,
                 KeyToo, Silent, InOpened, Unsigned, Issuer
  <2>2. AllKnown'
    BY <1>10 DEF vars, TrustInv, AllKnown
  <2>3. pc # "idle" => RunInv'
    <3> SUFFICES ASSUME pc # "idle" PROVE RunInv'
      OBVIOUS
    <3>1. RunInv
      BY <1>d
    <3>2. Output' = Output /\ (HasLoaded => HasLoaded')
      BY <1>10 DEF vars, Output, HasLoaded
    <3>3. Verdict => Verdict'
      BY <1>10, VerdictStands DEF vars
    <3> QED
      BY <1>10, <3>1, <3>2, <3>3 DEF vars, RunInv
  <2> QED
    BY <1>10, <1>a, <2>1, <2>2, <2>3 DEF vars, TrustInv
<1>11. CASE WriteFails
  <2>1. /\ line' = line /\ disk' = disk /\ before' = before /\ opened' = opened /\ shown' = shown
        /\ signed' = signed \cup SignedIn(held) /\ Output' = Output
        /\ pc \in {"key", "close"} /\ pc' \in {pc, "close"}
    BY <1>11 DEF WriteFails, Output
  <2>2. mishap'
    BY <1>11, Zenon DEF WriteFails
  <2>3. RunInv
    BY <1>d, <2>1
  <2>4. AllKnown'
    BY <1>a, <2>1, KnownMore DEF AllKnown
  <2>5. Known(held', signed' \cup SignedIn(held'))
    <3>1. Known(held, signed') /\ Sequence(held)
      BY <2>1, <2>3, KnownSequence DEF RunInv
    <3>2. Sequence(held') /\ Range(held') \subseteq Range(held) \cup Range(Cut)
      BY <1>11, <3>1, FailedWrite
    <3>3. Known(held', signed')
      BY <3>1, <3>2, KnownFewer
    <3> QED
      BY <3>3, KnownMore
  <2>6. RunInv'
    BY <2>1, <2>2, <2>3, <2>5 DEF RunInv
  <2> QED
    BY <1>a, <1>b, <1>c, <2>1, <2>4, <2>6 DEF TrustInv
<1> QED
  BY <1>1, <1>2, <1>3, <1>4, <1>5, <1>6, <1>7, <1>8, <1>9, <1>10, <1>11 DEF Next

(* dgst -verify succeeds only for data whose digest was signed with that   *)
(* key, by a run or before, however the signature has come into the file it*)
(* is read from; verify and crl only for what a key of their files signed, *)
(* or what is trusted; and req -verify only for a request that the key it  *)
(* is for, or the one that is given, has signed: on every disk, after every*)
(* line, and wherever the runs before failed or were killed.               *)
THEOREM OnlySignedIsVerified == Spec => []VerifiedWasSigned
<1>1. TrustInv => VerifiedWasSigned
  BY DEF TrustInv
<1> QED
  BY <1>1, TypesAtFirst, TypesKept, RefusalsAtFirst, RefusalsKept, SecretsAtFirst, SecretsKept,
     TrustAtFirst, TrustKept, PTL DEF Spec

(* A request or certificate that req, x509 or ca writes with success is one*)
(* that was in its input, or it is signed by the key of the certificate it *)
(* names as its issuer, or, when it is its own, by its own key: for every  *)
(* content of the files it is made from.                                   *)
THEOREM IssuersSign == Spec => []SignedByIssuer
<1>1. TrustInv => SignedByIssuer
  BY DEF TrustInv
<1> QED
  BY <1>1, TypesAtFirst, TypesKept, RefusalsAtFirst, RefusalsKept, SecretsAtFirst, SecretsKept,
     TrustAtFirst, TrustKept, PTL DEF Spec

-----------------------------------------------------------------------------
(* What a run has written when it ends well.                               *)

LEMMA KindsOfNone == Kinds(<< >>) = << >>
BY DEF Kinds

LEMMA KindsOfOne ==
  ASSUME NEW b
  PROVE  Kinds(<<b>>) = <<b.kind>>
BY DEF Kinds

LEMMA KindsJoined ==
  ASSUME NEW s, NEW t, Sequence(s), Sequence(t)
  PROVE  Kinds(s \o t) = Kinds(s) \o Kinds(t)
<1> DEFINE A == Range(s) \cup Range(t)
           K == {b.kind : b \in A}
<1>1. s \in Seq(A) /\ t \in Seq(A)
  <2>1. s \in Seq(Range(s)) /\ t \in Seq(Range(t)) /\ Range(s) \subseteq A /\ Range(t) \subseteq A
    BY DEF Sequence
  <2> HIDE DEF A
  <2> QED
    BY <2>1, SeqMonotonic
<1>2. ASSUME NEW u \in Seq(A)
      PROVE  /\ Kinds(u) \in Seq(K) /\ Len(Kinds(u)) = Len(u)
             /\ \A i \in 1 .. Len(u) : Kinds(u)[i] = u[i].kind
  <2> HIDE DEF A
  <2>1. DOMAIN u = 1 .. Len(u) /\ Len(u) \in Nat /\ \A i \in 1 .. Len(u) : u[i] \in A
    BY LenProperties, ElementOfSeq
  <2>2. Kinds(u) = [i \in 1 .. Len(u) |-> u[i].kind]
    BY <2>1 DEF Kinds
  <2>3. Kinds(u) \in Seq(K)
    <3> HIDE DEF K
    <3>1. \A i \in 1 .. Len(u) : u[i].kind \in K
      BY <2>1 DEF K
    <3> QED
      BY <2>1, <2>2, <3>1, IsASeq
  <2>4. Len(Kinds(u)) = Len(u)
    <3> HIDE DEF K
    <3>1. DOMAIN Kinds(u) = 1 .. Len(u)
      BY <2>2
    <3> QED
      BY <2>1, <2>3, <3>1, LenProperties
  <2> QED
    BY <2>2, <2>3, <2>4
<1> HIDE DEF A, K
<1>3. /\ s \o t \in Seq(A) /\ Len(s \o t) = Len(s) + Len(t) /\ Len(s) \in Nat /\ Len(t) \in Nat
      /\ \A i \in 1 .. Len(s) + Len(t) : (s \o t)[i] = IF i <= Len(s) THEN s[i] ELSE t[i - Len(s)]
  BY <1>1, ConcatProperties, LenProperties
<1>4. /\ Kinds(s) \o Kinds(t) \in Seq(K) /\ Len(Kinds(s) \o Kinds(t)) = Len(s) + Len(t)
      /\ \A i \in 1 .. Len(s) + Len(t) :
           (Kinds(s) \o Kinds(t))[i] = IF i <= Len(s) THEN Kinds(s)[i] ELSE Kinds(t)[i - Len(s)]
  <2>1. Kinds(s) \in Seq(K) /\ Kinds(t) \in Seq(K) /\ Len(Kinds(s)) = Len(s) /\ Len(Kinds(t)) = Len(t)
    BY <1>1, <1>2
  <2>2. PICK a : a = Kinds(s)
    OBVIOUS
  <2>3. PICK b : b = Kinds(t)
    OBVIOUS
  <2>4. /\ a \o b \in Seq(K) /\ Len(a \o b) = Len(a) + Len(b)
        /\ \A i \in 1 .. Len(a) + Len(b) : (a \o b)[i] = IF i <= Len(a) THEN a[i] ELSE b[i - Len(a)]
    BY <2>1, <2>2, <2>3, ConcatProperties
  <2> QED
    BY <2>1, <2>2, <2>3, <2>4
<1>5. PICK u : u = s \o t
  OBVIOUS
<1>6. PICK k : k = Kinds(s) \o Kinds(t)
  OBVIOUS
<1>7. Kinds(u) \in Seq(K) /\ Len(Kinds(u)) = Len(k)
  BY <1>2, <1>3, <1>4, <1>5, <1>6
<1>8. ASSUME NEW i \in 1 .. Len(k)
      PROVE  Kinds(u)[i] = k[i]
  <2>1. i \in 1 .. Len(s) + Len(t) /\ Kinds(u)[i] = u[i].kind
    BY <1>2, <1>3, <1>4, <1>5, <1>6
  <2>2. CASE i <= Len(s)
    <3>1. i \in 1 .. Len(s) /\ u[i] = s[i] /\ k[i] = Kinds(s)[i]
      BY <1>3, <1>4, <1>5, <1>6, <2>1, <2>2
    <3> QED
      BY <1>1, <1>2, <2>1, <3>1
  <2>3. CASE ~(i <= Len(s))
    <3>1. i - Len(s) \in 1 .. Len(t) /\ u[i] = t[i - Len(s)] /\ k[i] = Kinds(t)[i - Len(s)]
      BY <1>3, <1>4, <1>5, <1>6, <2>1, <2>3
    <3> QED
      BY <1>1, <1>2, <2>1, <3>1
  <2> QED
    BY <2>2, <2>3
<1>9. Kinds(u) = k
  BY <1>4, <1>6, <1>7, <1>8, SeqEqual
<1> QED
  BY <1>5, <1>6, <1>9

\* Blocks of these kinds, in this order, with keys of K and parameters of P.
Written(s, kinds, K, P) ==
  /\ Sequence(s) /\ Kinds(s) = kinds
  /\ \A b \in Range(s) :
       /\ b.kind # "bundle"
       /\ b.kind \in {"private", "public"} => b.of \in K
       /\ b.kind = "params" => b.of \in P

LEMMA WrittenNone == \A K, P : Written(<< >>, << >>, K, P)
BY NoBlock, KindsOfNone DEF Written

LEMMA WrittenOne ==
  ASSUME NEW b, NEW K, NEW P, b.kind # "bundle", b.kind \in {"private", "public"} => b.of \in K,
         b.kind = "params" => b.of \in P
  PROVE  Written(<<b>>, <<b.kind>>, K, P)
BY OneBlock, KindsOfOne DEF Written

LEMMA WrittenBlock ==
  ASSUME NEW kind, NEW of, NEW form, NEW K, NEW P,
         kind # "bundle", kind \in {"private", "public"} => of \in K, kind = "params" => of \in P
  PROVE  Written(<<Block(kind, of, form)>>, <<kind>>, K, P)
<1> DEFINE b == Block(kind, of, form)
<1>1. b.kind = kind /\ b.of = of
  BY DEF Block
<1> HIDE DEF b
<1>2. Written(<<b>>, <<b.kind>>, K, P)
  BY <1>1, WrittenOne
<1> QED
  BY <1>1, <1>2 DEF b

LEMMA WrittenJoined ==
  ASSUME NEW s, NEW t, NEW k, NEW l, NEW K, NEW P, Written(s, k, K, P), Written(t, l, K, P)
  PROVE  Written(s \o t, k \o l, K, P)
<1>1. Sequence(s \o t) /\ Range(s \o t) \subseteq Range(s) \cup Range(t)
  BY JoinedBlocks DEF Written
<1>2. Kinds(s \o t) = k \o l
  BY KindsJoined DEF Written
<1> QED
  BY <1>1, <1>2 DEF Written

LEMMA WrittenCertificates ==
  ASSUME NEW certs, Parses(certs), NEW K, NEW P
  PROVE  Written(CertBlocks(certs), [i \in DOMAIN certs |-> "cert"], K, P)
<1>1. /\ Sequence(CertBlocks(certs))
      /\ \A b \in Range(CertBlocks(certs)) : b.kind = "cert"
  BY Certificates DEF Block
<1>2. Kinds(CertBlocks(certs)) = [i \in DOMAIN certs |-> "cert"]
  BY DEF CertBlocks, Kinds, Block
<1> QED
  BY <1>1, <1>2 DEF Written

\* Where a block of a kind is, what it is of is found.
LEMMA BlockIsOf ==
  ASSUME NEW s, NEW b \in Range(s), b # None, NEW kinds, b.kind \in kinds
  PROVE  b.of \in Of(s, kinds)
BY DEF Of, Range

LEMMA WrittenHolds ==
  ASSUME NEW s, NEW kinds, NEW K, NEW P, Written(s, kinds, K, P)
  PROVE  /\ KeysIn(s) \subseteq K
         /\ Of(s, {"private"}) \subseteq K
         /\ Of(s, {"params"}) \subseteq P
<1>1. ASSUME NEW sorts, NEW x \in Of(s, sorts)
      PROVE  \E b \in Range(s) : b.kind \in sorts /\ x = b.of
  BY DEF Of, Range
<1>2. Of(s, {"bundle"}) = {}
  BY <1>1 DEF Written
<1>3. Of(s, {"private", "public"}) \subseteq K
  BY <1>1 DEF Written
<1>4. Of(s, {"private"}) \subseteq K /\ Of(s, {"params"}) \subseteq P
  BY <1>1 DEF Written
<1> QED
  BY <1>2, <1>3, <1>4 DEF KeysIn

\* A key that is read is one of those that are there.
LEMMA ReadKeysAreThere ==
  ASSUME NEW s, Sequence(s), NEW form, NEW pass
  PROVE  /\ ReadPrivate(s, form, pass) # None => ReadPrivate(s, form, pass) \in KeysIn(s)
         /\ ReadPublic(s, form) # None => ReadPublic(s, form) \in KeysIn(s)
<1>1. ASSUME NEW kind \in {"private", "public"}, Found(s, kind, form) # None
      PROVE  Found(s, kind, form).of \in KeysIn(s)
  BY <1>1, FoundIsThere, BlockIsOf DEF KeysIn
<1> QED
  BY <1>1 DEF ReadPrivate, ReadPublic, Opens

\* A run that has gone all the way, on a line that is not one of those that do
\* nothing in silence.
Performed ==
  /\ Scan(line, before) = Success /\ HasLoaded
  /\ Make(line, got).ret = Success /\ ~Silent(line) /\ ~NoModulus

LEMMA PkeyWrites ==
  ASSUME line.tool = "pkey", Performed, Sequence(Source)
  PROVE  Written(Make(line, got).blocks, Asked, KeysIn(Source), {})
<1> DEFINE key == IF Has(line, "-pubin") THEN ReadPublic(before[line.in], InForm(line))
                                         ELSE ReadPrivate(before[line.in], InForm(line), None)
           kind == IF PubOut(line) THEN "public" ELSE "private"
<1>1. InOpened(line, before) /\ OutForm(line) \in {"PEM", "DER"}
  BY DEF Performed, Silent
<1>2. Source = before[line.in]
  BY <1>1 DEF Source, Forgotten, InOpened, Given
<1>3. PkeyLoad(line, before).ret = Success /\ PkeyLoad(line, before).what = got
  BY DEF Performed, HasLoaded, Load
<1>4. key # None /\ got = key
  BY <1>1, <1>3 DEF PkeyLoad, Loaded, InputError, Success
<1>5. key \in KeysIn(Source)
  BY <1>2, <1>4, ReadKeysAreThere
<1> HIDE DEF key
<1>6. PkeyMake(line, got).ret = Success /\ Make(line, got) = PkeyMake(line, got)
  BY DEF Performed, Make
<1>7. \E form : Make(line, got).blocks = <<Block(kind, got, form)>>
  BY <1>1, <1>4, <1>6 DEF PkeyMake, PublicBlock, PrivateBlock, Made, Refused, FatalError, Success
<1>8. Asked = <<kind>>
  BY DEF Asked
<1> HIDE DEF kind
<1> QED
  BY <1>4, <1>5, <1>7, <1>8, WrittenBlock DEF kind

LEMMA RsaWrites ==
  ASSUME line.tool = "rsa", Performed, Sequence(Source)
  PROVE  Written(Make(line, got).blocks, Asked, KeysIn(Source), {})
<1> DEFINE key == IF Has(line, "-pubin") THEN ReadPublic(before[line.in], InForm(line))
                  ELSE ReadPrivate(before[line.in], InForm(line), RsaPassword(line))
           kind == IF PubOut(line) THEN "public" ELSE "private"
           form == IF OutForm(line) = "PEM" THEN "PEM" ELSE "DER"
           body == IF Has(line, "-noout") THEN << >> ELSE <<Block(kind, got, form)>>
           modulus == IF Has(line, "-modulus") THEN <<Block("modulus", got, "text")>> ELSE << >>
           first == IF Has(line, "-noout") THEN << >> ELSE <<kind>>
           second == IF Has(line, "-modulus") THEN <<"modulus">> ELSE << >>
<1>1. InOpened(line, before)
  BY DEF Performed, Silent
<1>2. Source = before[line.in]
  BY <1>1 DEF Source, Forgotten, InOpened, Given
<1>3. RsaLoad(line, before).ret = Success /\ RsaLoad(line, before).what = got
  BY DEF Performed, HasLoaded, Load
<1>4. key # None /\ got = key
  BY <1>1, <1>3 DEF RsaLoad, Loaded, InputError, Success
<1>5. got \in KeysIn(Source)
  BY <1>2, <1>4, ReadKeysAreThere
<1> HIDE DEF key
<1>6. Make(line, got) = Made(Success, body \o modulus)
  BY <1>4 DEF RsaMake, Make
<1>7. Asked = first \o second
  BY DEF Asked
<1>8. /\ Written(body, first, KeysIn(Source), {})
      /\ Written(modulus, second, KeysIn(Source), {})
  BY <1>5, WrittenBlock, WrittenNone
<1> HIDE DEF body, modulus, first, second
<1>9. Written(body \o modulus, first \o second, KeysIn(Source), {})
  BY <1>8, WrittenJoined
<1> QED
  BY <1>6, <1>7, <1>9 DEF Made

LEMMA Pkcs8Writes ==
  ASSUME line.tool = "pkcs8", Performed, Sequence(Source)
  PROVE  Written(Make(line, got).blocks, Asked, KeysIn(Source), {})
<1> DEFINE coated == [Block("private", got, "PEM") EXCEPT !.coat = "pkcs8"]
<1>1. Pkcs8Load(line, before).ret = Success /\ Pkcs8Load(line, before).what = got
  BY DEF Performed, HasLoaded, Load
<1>2. Pkcs8Input(line, before).what = Source
  BY DEF Pkcs8Input, Source, Forgotten, InOpened, Given, Early, Loaded
<1>3. got = Pkcs8Key(line, Source) /\ got # None
  BY <1>1, <1>2 DEF Pkcs8Load, Loaded, FatalError, Success
<1>4. got \in KeysIn(Source)
  <2> DEFINE der == OnlyDer(Source, "private")
  <2>1. \/ \E form, pass : got = ReadPrivate(Source, form, pass)
        \/ der # None /\ got = der.of
    BY <1>3 DEF Pkcs8Key
  <2>2. der # None => der.of \in KeysIn(Source)
    BY OnlyDerIsThere, BlockIsOf DEF KeysIn
  <2> HIDE DEF der
  <2> QED
    BY <1>3, <2>1, <2>2, ReadKeysAreThere
<1>5. Make(line, got) = Pkcs8Make(line, got) /\ Pkcs8Make(line, got).ret = Success
  BY DEF Performed, Make
<1>6. OutForm(line) \in {"PEM", "DER"}
  BY DEF Performed, Silent
<1>7. \/ \E form : Make(line, got).blocks = <<Block("private", got, form)>>
      \/ Make(line, got).blocks = <<coated>>
  BY <1>5, <1>6 DEF Pkcs8Make, PrivateBlock, Made, Refused, FatalError, Success
<1>8. Asked = <<"private">>
  BY DEF Asked
<1>9. coated.kind = "private" /\ coated.of = got
  BY DEF Block
<1> HIDE DEF coated
<1>10. Written(<<coated>>, <<"private">>, KeysIn(Source), {})
  BY <1>4, <1>9, WrittenOne
<1> QED
  BY <1>4, <1>7, <1>8, <1>10, WrittenBlock

\* The value that stands for NULL is no block of a file.
NoneIsNoBlock == DOMAIN None # DOMAIN Block("data", None, "text")

LEMMA BlocksAreThere ==
  ASSUME NoneIsNoBlock, NEW kind, NEW of, NEW form, NEW pass
  PROVE  Block(kind, of, form) # None /\ Sealed(of, pass) # None
<1>1. DOMAIN Block(kind, of, form) = DOMAIN Block("data", None, "text")
  BY DEF Block
<1>2. DOMAIN Sealed(of, pass) = DOMAIN Block("data", None, "text")
  BY DEF Block, Sealed
<1> QED
  BY <1>1, <1>2 DEF NoneIsNoBlock

\* The only block of its kind is the one the library finds.
LEMMA FirstPemOnly ==
  ASSUME NEW s, Sequence(s), NEW b \in Range(s), b # None, b.form = "PEM",
         \A x \in Range(s) : x.kind = b.kind => x = b
  PROVE  FirstPem(s, b.kind) = b
<1> DEFINE them == {i \in DOMAIN s : s[i] # None /\ s[i].kind = b.kind /\ s[i].form = "PEM"}
           first == CHOOSE i \in them : \A j \in them : i <= j
<1>1. DOMAIN s = 1 .. Len(s) /\ Len(s) \in Nat
  BY LenProperties DEF Sequence
<1>2. them \subseteq Nat
  BY <1>1
<1>3. them # {}
  BY DEF Range
<1>4. first \in them
  <2> HIDE DEF them
  <2> QED
    BY <1>2, <1>3, LeastIsThere
<1>5. s[first] = b
  <2> HIDE DEF first
  <2> QED
    BY <1>4 DEF Range
<1> QED
  BY <1>3, <1>5 DEF FirstPem

\* The certificates that are written are those that were read, in their order.
LEMMA CertsInOrder ==
  ASSUME NEW certs, Parses(certs), NEW t, Sequence(t), \A b \in Range(t) : b.kind # "cert"
  PROVE  LET s == CertBlocks(certs) \o t
         IN  \A i \in DOMAIN s : s[i].kind = "cert" => s[i].of = certs[i]
<1> DEFINE c == CertBlocks(certs)
           A == Range(c) \cup Range(t)
<1>1. Sequence(c)
  BY Certificates
<1>2. \A i \in DOMAIN c : c[i].of = certs[i]
  BY DEF CertBlocks, Block
<1> HIDE DEF c
<1>3. c \in Seq(A) /\ t \in Seq(A)
  <2>1. c \in Seq(Range(c)) /\ t \in Seq(Range(t)) /\ Range(c) \subseteq A /\ Range(t) \subseteq A
    BY <1>1 DEF Sequence
  <2> HIDE DEF A
  <2> QED
    BY <2>1, SeqMonotonic
<1> HIDE DEF A
<1>4. PICK s : s = c \o t
  OBVIOUS
<1>5. /\ s \in Seq(A) /\ Len(s) = Len(c) + Len(t) /\ Len(c) \in Nat /\ Len(t) \in Nat
      /\ \A i \in 1 .. Len(c) + Len(t) : s[i] = IF i <= Len(c) THEN c[i] ELSE t[i - Len(c)]
  BY <1>3, <1>4, ConcatProperties, LenProperties
<1>6. DOMAIN s = 1 .. Len(s) /\ DOMAIN c = 1 .. Len(c) /\ DOMAIN t = 1 .. Len(t)
  BY <1>3, <1>5, LenProperties
<1>7. ASSUME NEW i \in DOMAIN s, s[i].kind = "cert"
      PROVE  s[i].of = certs[i]
  <2>1. CASE i <= Len(c)
    BY <1>2, <1>5, <1>6, <2>1
  <2>2. CASE ~(i <= Len(c))
    <3>1. i - Len(c) \in DOMAIN t /\ s[i] = t[i - Len(c)]
      BY <1>5, <1>6, <2>2
    <3>2. s[i].kind # "cert"
      BY <3>1 DEF Range
    <3> QED
      BY <1>7, <3>2
  <2> QED
    BY <2>1, <2>2
<1> QED
  BY <1>4, <1>7 DEF c

\* Nothing is lost where two contents are joined.
LEMMA BlocksStay ==
  ASSUME NEW s, NEW t, Sequence(s), Sequence(t)
  PROVE  Range(s) \cup Range(t) \subseteq Range(s \o t)
<1> DEFINE A == Range(s) \cup Range(t)
<1>1. s \in Seq(A) /\ t \in Seq(A)
  <2>1. s \in Seq(Range(s)) /\ t \in Seq(Range(t)) /\ Range(s) \subseteq A /\ Range(t) \subseteq A
    BY DEF Sequence
  <2> HIDE DEF A
  <2> QED
    BY <2>1, SeqMonotonic
<1> HIDE DEF A
<1>2. PICK u : u = s \o t
  OBVIOUS
<1>3. /\ u \in Seq(A) /\ Len(u) = Len(s) + Len(t) /\ Len(s) \in Nat /\ Len(t) \in Nat
      /\ \A i \in 1 .. Len(s) + Len(t) : u[i] = IF i <= Len(s) THEN s[i] ELSE t[i - Len(s)]
  BY <1>1, <1>2, ConcatProperties, LenProperties
<1>4. DOMAIN u = 1 .. Len(s) + Len(t) /\ DOMAIN s = 1 .. Len(s) /\ DOMAIN t = 1 .. Len(t)
  BY <1>1, <1>3, LenProperties
<1>5. ASSUME NEW i \in DOMAIN s
      PROVE  i \in DOMAIN u /\ u[i] = s[i]
  BY <1>3, <1>4
<1>6. ASSUME NEW i \in DOMAIN t
      PROVE  Len(s) + i \in DOMAIN u /\ u[Len(s) + i] = t[i]
  <2>1. Len(s) + i \in 1 .. Len(s) + Len(t) /\ ~(Len(s) + i <= Len(s)) /\ (Len(s) + i) - Len(s) = i
    BY <1>3, <1>4
  <2> QED
    BY <1>3, <1>4, <2>1
<1> QED
  BY <1>2, <1>5, <1>6 DEF Range

\* What pkcs12 and pkcs7 write is one bundle or message of their input.
FromBundle(s) ==
  /\ got \in Of(Source, {"bundle", "pkcs7"})
  /\ \A i \in DOMAIN s : s[i].kind = "cert" => s[i].of = got.certs[i]

LEMMA Pkcs12Writes ==
  ASSUME NoneIsNoBlock, line \in Lines, line.tool = "pkcs12", Performed, Sequence(Source)
  PROVE  LET s == Make(line, got).blocks
         IN  /\ Written(s, Asked, KeysIn(Source), {}) /\ FromBundle(s)
             /\ ~Has(line, "-nodes") /\ ~Has(line, "-nokeys") /\ got.key # None /\ TypedPassword
                => ReadPrivate(s, "PEM", line.typed) \in KeysIn(Source)
<1> DEFINE K == KeysIn(Source)
           certs == IF Has(line, "-nocerts") THEN << >> ELSE CertBlocks(got.certs)
           sorts == IF Has(line, "-nocerts") THEN << >> ELSE CertsRead
           pass == StdinPassword(line.typed, ImportPassword(line))
           plain == Block("private", got.key, "PEM")
           sealed == Sealed(got.key, pass)
           none == Has(line, "-nokeys") \/ got.key = None
           key == IF none THEN << >> ELSE IF Has(line, "-nodes") THEN <<plain>> ELSE <<sealed>>
           sort == IF none THEN << >> ELSE <<"private">>
<1>1. Pkcs12Load(line, before).ret = Success /\ Pkcs12Load(line, before).what = got
  BY DEF Performed, HasLoaded, Load
<1>2. /\ InOpened(line, before) /\ OnlyDer(before[line.in], "bundle") # None
      /\ got = OnlyDer(before[line.in], "bundle").of /\ Parses(got.certs)
  BY <1>1 DEF Pkcs12Load, Loaded, FatalError, Success
<1>3. Source = before[line.in]
  BY <1>2 DEF Source, Forgotten, InOpened, Given
<1>4. PICK b \in Range(Source) : b # None /\ b.kind = "bundle" /\ b.of = got
  BY <1>2, <1>3, OnlyDerIsThere
<1>5. got \in Of(Source, {"bundle"}) /\ got \in Of(Source, {"bundle", "pkcs7"})
  BY <1>4, BlockIsOf
<1>6. got.key \in K
  BY <1>5 DEF KeysIn
<1>7. PICK u : u = certs \o key
  OBVIOUS
<1>8. Make(line, got).blocks = u
  <2>1. Make(line, got) = Pkcs12Make(line, got) /\ Pkcs12Make(line, got).ret = Success
    BY DEF Performed, Make
  <2>2. PICK made : made = IF none THEN Made(Success, << >>) ELSE Pkcs12Key(line, got.key)
    OBVIOUS
  <2>3. Pkcs12Make(line, got) = Made(made.ret, certs \o made.blocks)
    BY <2>2 DEF Pkcs12Make
  <2>4. made.ret = Success
    BY <2>1, <2>3 DEF Made
  <2> HIDE DEF certs, plain, sealed
  <2>5. made.blocks = key
    BY <2>2, <2>4 DEF Pkcs12Key, PrivateBlock, Made, Refused, FatalError, Success, plain, sealed
  <2> QED
    BY <1>7, <2>1, <2>3, <2>5 DEF Made
<1>9. PICK k : k = sorts \o sort
  OBVIOUS
<1>10. Asked = k
  BY <1>9 DEF Asked
<1>11. Written(certs, sorts, K, {}) /\ Sequence(certs) /\ \A c \in Range(certs) : c.kind = "cert"
  BY <1>2, WrittenCertificates, WrittenNone, NoBlock, Certificates DEF CertsRead, Written, Block
<1>12. /\ plain.kind = "private" /\ plain.of = got.key
       /\ sealed.kind = "private" /\ sealed.of = got.key /\ sealed.form = "PEM" /\ sealed.pass = pass
  BY DEF Sealed, Block
<1>13. sealed # None
  BY BlocksAreThere
<1> HIDE DEF K, certs, sorts, plain, sealed
<1>14. Written(key, sort, K, {}) /\ Range(key) \subseteq {plain, sealed}
  BY <1>6, <1>12, WrittenOne, WrittenNone, OneBlock, NoBlock
<1>15. Sequence(key) /\ \A c \in Range(key) : c.kind # "cert"
  BY <1>12, <1>14 DEF Written
<1>16. Written(u, k, K, {})
  <2> HIDE DEF key, sort
  <2> QED
    BY <1>7, <1>9, <1>11, <1>14, WrittenJoined
<1>17. \A i \in DOMAIN u : u[i].kind = "cert" => u[i].of = got.certs[i]
  <2> HIDE DEF key, sort
  <2>1. CASE Has(line, "-nocerts")
    <3>1. certs = << >>
      BY <2>1 DEF certs
    <3>2. Range(u) \subseteq Range(certs) \cup Range(key)
      BY <1>7, <1>11, <1>15, JoinedBlocks
    <3>3. \A c \in Range(u) : c.kind # "cert"
      BY <1>15, <3>1, <3>2, NoBlock
    <3> QED
      BY <3>3 DEF Range
  <2>2. CASE ~Has(line, "-nocerts")
    <3>1. certs = CertBlocks(got.certs)
      BY <2>2 DEF certs
    <3> QED
      BY <1>2, <1>7, <1>15, <3>1, CertsInOrder
  <2> QED
    BY <2>1, <2>2
<1>18. ASSUME ~Has(line, "-nodes"), ~Has(line, "-nokeys"), got.key # None, TypedPassword
       PROVE  ReadPrivate(u, "PEM", line.typed) \in K
  <2>1. key = <<sealed>>
    BY <1>18
  <2>2. pass = line.typed /\ line.typed # None
    BY <1>18, FilesAssumption DEF FilesAssumption, TypedPassword, StdinPassword
  <2> HIDE DEF key, sort, pass
  <2>3. Range(u) \subseteq Range(certs) \cup {sealed} /\ sealed \in Range(u) /\ Sequence(u)
    <3>1. Range(u) = Range(certs) \cup Range(key) /\ Sequence(u)
      BY <1>7, <1>11, <1>15, JoinedBlocks, BlocksStay
    <3> QED
      BY <2>1, <3>1, OneBlock
  <2>4. \A c \in Range(u) : c.kind = sealed.kind => c = sealed
    BY <1>11, <1>12, <2>3
  <2>5. FirstPem(u, "private") = sealed
    BY <1>12, <1>13, <2>3, <2>4, FirstPemOnly
  <2> QED
    BY <1>6, <1>12, <1>13, <2>2, <2>5 DEF ReadPrivate, Found, Opens
<1> QED
  BY <1>5, <1>8, <1>10, <1>16, <1>17, <1>18 DEF K, FromBundle

LEMMA Pkcs7Writes ==
  ASSUME line.tool = "pkcs7", Performed, Sequence(Source)
  PROVE  LET s == Make(line, got).blocks
         IN  Written(s, Asked, KeysIn(Source), {}) /\ FromBundle(s)
<1> DEFINE b == Found(Source, "pkcs7", InForm(line))
           s == Make(line, got).blocks
<1>1. Pkcs7Load(line, before).ret = Success /\ Pkcs7Load(line, before).what = got
  BY DEF Performed, HasLoaded, Load
<1>2. Source = IF InOpened(line, before) THEN before[line.in] ELSE line.stdin
  BY DEF Source, Forgotten, InOpened, Given, Early
<1>3. b # None /\ got = b.of /\ Parses(got.certs)
  BY <1>1, <1>2 DEF Pkcs7Load, Loaded, FatalError, Success
<1>4. b \in Range(Source) /\ b.kind = "pkcs7"
  BY <1>3, FoundIsThere
<1> HIDE DEF b
<1>5. got \in Of(Source, {"bundle", "pkcs7"})
  BY <1>3, <1>4, BlockIsOf
<1>6. CASE Has(line, "-print_certs")
  <2>1. s = CertBlocks(got.certs) /\ Asked = CertsRead
    BY <1>6 DEF Make, Pkcs7Make, Made, Asked
  <2>2. Written(s, Asked, KeysIn(Source), {})
    BY <1>3, <2>1, WrittenCertificates DEF CertsRead
  <2>3. \A i \in DOMAIN s : s[i].of = got.certs[i]
    BY <2>1 DEF CertBlocks, Block
  <2> QED
    BY <1>5, <2>2, <2>3 DEF FromBundle
<1>7. CASE ~Has(line, "-print_certs")
  <2> DEFINE paper == Block("pkcs7", got, OutForm(line))
  <2>1. s = <<paper>> /\ Asked = <<"pkcs7">>
    BY <1>7 DEF Make, Pkcs7Make, Made, Asked, Performed, Silent
  <2>2. paper.kind = "pkcs7"
    BY DEF Block
  <2> HIDE DEF s, paper
  <2>3. Written(s, Asked, KeysIn(Source), {})
    BY <2>1, <2>2, WrittenOne
  <2>4. \A i \in DOMAIN s : s[i].kind # "cert"
    BY <2>1, <2>2
  <2> QED
    BY <1>5, <2>3, <2>4 DEF FromBundle, s
<1> QED
  BY <1>6, <1>7

\* Parameters, and a key that is new and fits them if one is asked for.
WithParams(s, key, params) ==
  /\ Written(s, Asked, IF Has(line, "-genkey") THEN {key} ELSE {}, {params})
  /\ Has(line, "-genkey") => key.id = "new" /\ key.alg = params.alg /\ key.group = params.group

LEMMA EcparamWrites ==
  ASSUME line.tool = "ecparam", Performed
  PROVE  \E key, params : WithParams(Make(line, got).blocks, key, params)
<1> DEFINE params == Params("ec", got.group)
           form   == IF OutForm(line) = "PEM" THEN "PEM" ELSE "DER"
           text   == IF Has(line, "-text") THEN <<Block("text", got.group, "text")>> ELSE << >>
           body   == <<Block("params", params, form)>>
           made   == IF Has(line, "-genkey") THEN <<Block("private", got, form)>> ELSE << >>
           sort1 == IF Has(line, "-text") THEN <<"text">> ELSE << >>
           sort2 == IF Has(line, "-genkey") THEN <<"private">> ELSE << >>
           K == IF Has(line, "-genkey") THEN {got} ELSE {}
<1>1. Make(line, got).blocks = text \o body \o made
  BY DEF Make, EcparamMake, Made
<1>2. Asked = sort1 \o <<"params">> \o sort2
  BY DEF Asked
<1>3. /\ Written(text, sort1, K, {params}) /\ Written(body, <<"params">>, K, {params})
      /\ Written(made, sort2, K, {params})
  BY WrittenBlock, WrittenNone
<1>4. Has(line, "-genkey") => got.id = "new" /\ got.alg = params.alg /\ got.group = params.group
  <2>1. EcparamLoad(line, before).ret = Success /\ EcparamLoad(line, before).what = got
    BY DEF Performed, HasLoaded, Load
  <2>2. Has(line, "-genkey") => got = GenKeyECC(line.name) /\ got # None /\ got.alg = "ec"
    BY <2>1 DEF EcparamLoad, Loaded, FatalError, Success
  <2> QED
    BY <2>2 DEF GenKeyECC, NewKey, Params
<1> HIDE DEF params, text, body, made, sort1, sort2
<1>5. PICK u : u = text \o body
  OBVIOUS
<1>6. PICK k : k = sort1 \o <<"params">>
  OBVIOUS
<1> HIDE DEF K
<1>7. Written(u, k, K, {params})
  BY <1>3, <1>5, <1>6, WrittenJoined
<1>8. Written(u \o made, k \o sort2, K, {params})
  BY <1>3, <1>7, WrittenJoined
<1> QED
  BY <1>1, <1>2, <1>4, <1>5, <1>6, <1>8 DEF WithParams, K

LEMMA SizedParamsWrite ==
  ASSUME line.tool \in {"dhparam", "dsaparam"}, Performed
  PROVE  \E key, params : WithParams(Make(line, got).blocks, key, params)
<1> DEFINE params == IF line.tool = "dhparam" THEN ParamsFor("dh", line.bits # None, got)
                     ELSE ParamsFor("dsa", line.bits = "last", got)
           key == NewKey(params)
           body == ParamsOf(line, params)
           made == KeyOf(line, params)
           sort1 == IF Has(line, "-noout") THEN << >> ELSE <<"params">>
           sort2 == IF Has(line, "-genkey") THEN <<"private">> ELSE << >>
           K == IF Has(line, "-genkey") THEN {key} ELSE {}
<1>1. Make(line, got).blocks = body \o made
  <2>1. Make(line, got).ret = Success
    BY DEF Performed
  <2>2. Make(line, got) = IF line.tool = "dhparam" THEN DhMake(line, got) ELSE DsaMake(line, got)
    BY DEF Make
  <2> QED
    BY <2>1, <2>2 DEF DhMake, DsaMake, Made, Refused, FatalError, Success
<1>2. Asked = sort1 \o sort2
  BY DEF Asked
<1>3. key.id = "new" /\ key.alg = params.alg /\ key.group = params.group
  BY DEF NewKey
<1> HIDE DEF params, key
<1>4. Written(body, sort1, K, {params}) /\ Written(made, sort2, K, {params})
  BY WrittenBlock, WrittenNone DEF ParamsOf, KeyOf, key
<1> HIDE DEF body, made, sort1, sort2
<1>5. Written(body \o made, sort1 \o sort2, K, {params})
  BY <1>4, WrittenJoined
<1> QED
  BY <1>1, <1>2, <1>3, <1>5 DEF WithParams

\* What req is asked to write, but for the key.
ReqAsked ==
  (IF Has(line, "-text") THEN <<"text">> ELSE << >>)
  \o (IF Has(line, "-noout") THEN << >> ELSE <<IF Has(line, "-x509") THEN "cert" ELSE "request">>)

LEMMA ReqWrites ==
  ASSUME line.tool = "req", Performed, NEW S, Known(Source, S)
  PROVE  LET s == Make(line, got).blocks
         IN  /\ Written(s, ReqAsked, {}, {})
             /\ \A x \in IssuedIn(s) : SaysAsRequested(x) /\ (got.key # None => x.key = got.key)
<1> DEFINE s == Make(line, got).blocks
<1>1. Source = (IF line.in = None THEN line.stdin ELSE before[line.in])
  BY SourceOfLate DEF Early
<1>2. ReqLoad(line, before).ret = Success /\ ReqLoad(line, before).what = got
  BY DEF Performed, HasLoaded, Load
<1>3. /\ IsRequest(got.orig) /\ IsRequest(got.x)
      /\ got.key # None => got.x.key = got.key
      /\ got.key = None => got.x.key = got.orig.key
      /\ line.in # None => \E b \in Papers(before[line.in]) : got.orig = b.of
      /\ line.in # None /\ line.subj = None /\ line.config = None => SameName(got.x, got.orig)
      /\ got.orig.alt \subseteq got.x.alt
      /\ line.addext # None => Range(line.addext.names) \subseteq got.x.alt
      /\ line.subj # None => got.x.subject = line.subj
  BY <1>1, <1>2, ReqLoads
<1>4. \A b \in Papers(s) : b.of = Issued(line, got.x, got.key)
  BY <1>3, ReqIssues
<1>5. ASSUME NEW x \in IssuedIn(s)
      PROVE  SaysAsRequested(x) /\ (got.key # None => x.key = got.key)
  <2>1. x = Issued(line, got.x, got.key)
    BY <1>4, PapersAreIssued
  <2>2. x.subject = got.x.subject /\ x.alt = got.x.alt /\ x.key = got.x.key
    BY <1>3, <2>1 DEF Issued, Sign, IsRequest, Says, Blank
  <2> HIDE DEF s
  <2>3. line.in # None => got.orig \in IssuedIn(Source)
    BY <1>1, <1>3, PapersAreIssued
  <2>4. line.in # None /\ line.subj = None /\ line.config = None => x.subject = got.orig.subject
    BY <1>3, <2>2 DEF SameName
  <2> QED
    BY <1>3, <2>2, <2>3, <2>4 DEF SaysAsRequested
<1>6. Written(s, ReqAsked, {}, {})
  <2> DEFINE form == IF OutForm(line) = "DER" THEN "DER" ELSE "PEM"
             kind == IF Has(line, "-x509") THEN "cert" ELSE "request"
             x == Issued(line, got.x, got.key)
             text == IF Has(line, "-text") THEN <<Block("text", None, "text")>> ELSE << >>
             body == IF Has(line, "-noout") THEN << >> ELSE <<Block(kind, x, form)>>
             sort1 == IF Has(line, "-text") THEN <<"text">> ELSE << >>
             sort2 == IF Has(line, "-noout") THEN << >> ELSE <<kind>>
  <2>1. s = text \o body
    <3>1. Make(line, got) = ReqMake(line, got) /\ ReqMake(line, got).ret = Success
      BY DEF Performed, Make
    <3> QED
      BY <3>1 DEF ReqMake, Made, Refused, FatalError, Success
  <2>2. ReqAsked = sort1 \o sort2
    BY DEF ReqAsked
  <2> HIDE DEF x
  <2>3. Written(text, sort1, {}, {}) /\ Written(body, sort2, {}, {})
    BY WrittenBlock, WrittenNone
  <2> HIDE DEF s, text, body, sort1, sort2
  <2> QED
    BY <2>1, <2>2, <2>3, WrittenJoined
<1> QED
  BY <1>5, <1>6

\* The key that req writes is the one it was given or has made, and the password
\* that was given opens it.
LEMMA ReqKeyWrites ==
  ASSUME NoneIsNoBlock, line \in Lines, line.tool = "req", Scan(line, before) = Success,
         NEW pass \in ReqPasswords(line), ReqKeyOut(line, got, pass).ret = Success
  PROVE  LET s == ReqKeyOut(line, got, pass).blocks
             given == IF line.passout = None THEN line.typed ELSE line.passout.text
         IN  /\ Written(s, <<"private">>, {got.key}, {}) /\ got.key # None
             /\ Has(line, "-nodes") \/ line.passout # None \/ TypedPassword
                => ReadPrivate(s, "PEM", given) = got.key
<1> DEFINE s == ReqKeyOut(line, got, pass).blocks
           given == IF line.passout = None THEN line.typed ELSE line.passout.text
           plain == Block("private", got.key, "PEM")
           sealed == Sealed(got.key, pass)
<1>1. /\ Supported(got.key)
      /\ Has(line, "-nodes") => s = <<plain>>
      /\ ~Has(line, "-nodes") => s = <<sealed>>
  BY DEF ReqKeyOut, PrivateBlock, Made, Refused, FatalError, Success
<1>2. /\ plain.kind = "private" /\ plain.of = got.key /\ plain.form = "PEM" /\ plain.coat = "plain"
      /\ sealed.kind = "private" /\ sealed.of = got.key /\ sealed.form = "PEM" /\ sealed.pass = pass
      /\ plain # None /\ sealed # None
  BY BlocksAreThere DEF Sealed, Block
<1>3. (line.passout # None \/ TypedPassword) => pass = given /\ given # None
  <2>1. line.passout # None => line.passout.text # None
    <3>1. ReqScan(line, before) = Success
      BY DEF Scan
    <3> QED
      BY <3>1 DEF ReqScan, Password, FatalError, InputError, Success
  <2>2. line.typed # None
    BY FilesAssumption DEF FilesAssumption
  <2> QED
    BY <2>1, <2>2 DEF ReqPasswords, TypedPassword
<1> HIDE DEF s, plain, sealed, given
<1>4. PICK b \in {plain, sealed} : s = <<b>> /\ (Has(line, "-nodes") => b = plain)
  BY <1>1
<1>5. Written(s, <<"private">>, {got.key}, {})
  BY <1>2, <1>4, WrittenOne
<1>6. FirstPem(s, "private") = b
  <2>1. Sequence(s) /\ Range(s) = {b}
    BY <1>4, OneBlock
  <2> QED
    BY <1>2, <2>1, FirstPemOnly
<1>7. ASSUME Has(line, "-nodes") \/ line.passout # None \/ TypedPassword
      PROVE  ReadPrivate(s, "PEM", given) = got.key
  <2>1. Opens(b, given)
    BY <1>2, <1>3, <1>4, <1>7 DEF Opens
  <2> QED
    BY <1>2, <1>6, <2>1 DEF ReadPrivate, Found
<1> QED
  BY <1>1, <1>5, <1>7 DEF Supported, s, given

\* As many texts as are asked for.
TextsAsked == [i \in 1 .. Cardinality({f \in Range(CertPrints) : Has(line, f)}) |-> "text"]

LEMMA TextsAreWritten ==
  ASSUME NEW x, NEW K, NEW P
  PROVE  Written(CertText(line, x), TextsAsked, K, P) /\ TextsAsked \in Seq({"text"})
<1> DEFINE J == {j \in DOMAIN CertPrints : Has(line, CertPrints[j])}
           F == {f \in Range(CertPrints) : Has(line, f)}
           g == [j \in J |-> CertPrints[j]]
<1>1. DOMAIN CertPrints = 1 .. 9
  BY DEF CertPrints
<1>2. IsFiniteSet(J)
  <2>1. J \in SUBSET Nat /\ \A j \in J : j <= 9
    BY <1>1
  <2> HIDE DEF J
  <2>2. 9 \in Nat
    OBVIOUS
  <2> QED
    BY <2>1, <2>2, FS_BoundedSetOfNaturals
<1>3. \A i, j \in 1 .. 9 : CertPrints[i] = CertPrints[j] => i = j
  BY DEF CertPrints
<1>4. \A i, j \in J : g[i] = g[j] => i = j
  BY <1>1, <1>3
<1>5. g \in [J -> F] /\ \A f \in F : \E j \in J : g[j] = f
  BY DEF Range
<1> HIDE DEF J, F, g
<1>6. g \in Bijection(J, F)
  BY <1>4, <1>5 DEF Bijection, Injection, Surjection, IsInjective
<1>7. Cardinality(F) = Cardinality(J)
  BY <1>2, <1>6, FS_Bijection DEF ExistsBijection
<1>8. CertText(line, x) = [i \in 1 .. Cardinality(J) |-> Block("text", x, "text")]
  BY DEF CertText, J
<1>9. TextsAsked = [i \in 1 .. Cardinality(J) |-> "text"]
  BY <1>7 DEF TextsAsked, F
<1>10. Kinds(CertText(line, x)) = TextsAsked
  BY <1>8, <1>9 DEF Kinds, Block
<1>11. /\ Sequence(CertText(line, x))
       /\ \A b \in Range(CertText(line, x)) : b.kind = "text"
  BY Texts DEF Block
<1>12. Cardinality(J) \in Nat
  BY <1>2, FS_CardinalityType
<1>13. TextsAsked \in Seq({"text"})
  BY <1>9, <1>12
<1> QED
  BY <1>10, <1>11, <1>13 DEF Written

LEMMA X509Writes ==
  ASSUME line.tool = "x509", Performed, NEW S, Known(Source, S)
  PROVE  LET s == Make(line, got).blocks
         IN  /\ Written(s, Asked, {x.key : x \in IssuedIn(Source)}, {})
             /\ \A x \in IssuedIn(s) : SaysAsRequested(x)
<1> DEFINE K == {x.key : x \in IssuedIn(Source)}
           written == IF Has(line, "-req") /\ FormOf(line.inform, "PEM") = "PEM" THEN got.x ELSE got.read
           paper == Block("cert", written, OutForm(line))
           body == IF Has(line, "-noout") THEN << >> ELSE <<paper>>
           modulus == IF Has(line, "-modulus") THEN <<Block("modulus", got.x.key, "text")>> ELSE << >>
           pub == IF Has(line, "-pubkey") THEN <<Block("public", got.x.key, "PEM")>> ELSE << >>
           text == CertText(line, got.x)
           sort2 == IF Has(line, "-modulus") THEN <<"modulus">> ELSE << >>
           sort3 == IF Has(line, "-pubkey") THEN <<"public">> ELSE << >>
           sort4 == IF Has(line, "-noout") THEN << >> ELSE <<"cert">>
<1>1. Source = IF line.in = None THEN line.stdin ELSE before[line.in]
  BY SourceOfLate DEF Early
<1>2. CertLoad(line, before).ret = Success /\ CertLoad(line, before).what = got
  BY DEF Performed, HasLoaded, Load
<1>3. PICK b \in Papers(Source) :
        /\ got.read = b.of /\ got.x.key = b.of.key /\ b.of.alt \subseteq got.x.alt
        /\ SameName(got.x, b.of)
  BY <1>1, <1>2, X509Loads
<1>4. b.of \in IssuedIn(Source)
  BY <1>3, PapersAreIssued
<1>5. got.x.key \in K
  BY <1>3, <1>4
<1>6. Make(line, got).blocks = (text \o (modulus \o pub)) \o body
  <2>1. Has(line, "-modulus") => got.x.key.alg = "rsa"
    BY DEF Performed, NoModulus
  <2> QED
    BY <2>1 DEF Make, CertMake, CertKeyParts, Made
<1>7. Asked = ((TextsAsked \o sort2) \o sort3) \o sort4
  BY DEF Asked, TextsAsked
<1> HIDE DEF K, written
<1>8. paper.kind = "cert" /\ paper.of = written
  BY DEF Block
<1> HIDE DEF paper
<1>9. /\ Written(text, TextsAsked, K, {}) /\ Written(modulus, sort2, K, {})
      /\ Written(pub, sort3, K, {}) /\ Written(body, sort4, K, {})
  BY <1>5, <1>8, TextsAreWritten, WrittenBlock, WrittenOne, WrittenNone
<1>10. /\ \A c \in Range(text) \cup Range(modulus) \cup Range(pub) : c.kind # "cert" /\ c.kind # "request"
       /\ Range(body) \subseteq {paper}
  BY Texts, OneBlock, NoBlock DEF Block
<1>11. (TextsAsked \o sort2) \o sort3 = TextsAsked \o (sort2 \o sort3)
  <2> DEFINE A == {"text", "modulus", "public"}
  <2>1. << >> \in Seq(A) /\ <<"modulus">> \in Seq(A) /\ <<"public">> \in Seq(A)
    OBVIOUS
  <2>2. sort2 \in Seq(A) /\ sort3 \in Seq(A)
    BY <2>1
  <2>3. TextsAsked \in Seq(A)
    <3>1. TextsAsked \in Seq({"text"}) /\ {"text"} \subseteq A
      BY TextsAreWritten
    <3> QED
      BY <3>1, SeqMonotonic
  <2> HIDE DEF A, sort2, sort3
  <2> QED
    BY <2>2, <2>3, ConcatAssociative
<1> HIDE DEF text, modulus, pub, body, sort2, sort3, sort4
<1>12. PICK v : v = modulus \o pub
  OBVIOUS
<1>13. PICK u : u = text \o v
  OBVIOUS
<1>14. PICK k : k = sort2 \o sort3
  OBVIOUS
<1>15. PICK l : l = TextsAsked \o k
  OBVIOUS
<1>16. Written(v, k, K, {})
  BY <1>9, <1>12, <1>14, WrittenJoined
<1>17. Written(u, l, K, {})
  BY <1>9, <1>13, <1>15, <1>16, WrittenJoined
<1>18. Written(u \o body, l \o sort4, K, {})
  BY <1>9, <1>17, WrittenJoined
<1>19. Range(u \o body) \subseteq Range(text) \cup Range(modulus) \cup Range(pub) \cup Range(body)
  BY <1>9, <1>12, <1>13, <1>16, <1>17, JoinedBlocks DEF Written
<1>20. PICK s : s = u \o body
  OBVIOUS
<1>21. Make(line, got).blocks = s /\ Asked = l \o sort4
  BY <1>6, <1>7, <1>11, <1>12, <1>13, <1>14, <1>15, <1>20
<1>22. ASSUME NEW x \in IssuedIn(s)
       PROVE  SaysAsRequested(x)
  <2>1. PICK c \in Papers(s) : x = c.of
    BY PapersAreIssued
  <2>2. c = paper
    BY <1>10, <1>19, <1>20, <2>1 DEF Papers
  <2>3. x \in {got.x, b.of}
    BY <1>3, <1>8, <2>1, <2>2 DEF written
  <2>4. x.subject = b.of.subject /\ b.of.alt \subseteq x.alt /\ x.key = b.of.key
    BY <1>3, <2>3 DEF SameName
  <2> QED
    BY <1>4, <2>4 DEF SaysAsRequested
<1> QED
  BY <1>18, <1>20, <1>21, <1>22 DEF K

LEMMA CrlWrites ==
  ASSUME line.tool = "crl"
  PROVE  Written(Make(line, got).blocks, Asked, {}, {})
<1> DEFINE form == IF OutForm(line) = "DER" THEN "DER" ELSE "PEM"
           text == IF Has(line, "-text") THEN <<Block("text", got.x, "text")>> ELSE << >>
           body == IF Has(line, "-noout") THEN << >> ELSE <<Block("crl", got.x, form)>>
           sort1 == IF Has(line, "-text") THEN <<"text">> ELSE << >>
           sort2 == IF Has(line, "-noout") THEN << >> ELSE <<"crl">>
<1>1. Make(line, got).blocks = text \o body
  BY DEF Make, CrlMake, Made
<1>2. Asked = sort1 \o sort2
  BY DEF Asked
<1>3. Written(text, sort1, {}, {}) /\ Written(body, sort2, {}, {})
  BY WrittenBlock, WrittenNone
<1> HIDE DEF text, body, sort1, sort2
<1> QED
  BY <1>1, <1>2, <1>3, WrittenJoined

LEMMA VerifyWrites ==
  ASSUME line.tool = "verify", Performed
  PROVE  Written(Make(line, got).blocks, Asked, {}, {})
<1>1. Make(line, got).ret = Success /\ Make(line, got) = VerifyMake(line, got)
  BY DEF Performed, Make
<1>2. Make(line, got).blocks = <<Block("verified", got.x, "text")>>
  BY <1>1 DEF VerifyMake, Made, Refused, FatalError, Success
<1>3. Asked = <<"verified">>
  BY DEF Asked
<1> QED
  BY <1>2, <1>3, WrittenBlock

LEMMA CaWritesAsked ==
  ASSUME line.tool = "ca", Performed, NEW S, Known(Source, S)
  PROVE  LET s == Make(line, got).blocks
         IN  Written(s, Asked, {}, {}) /\ \A x \in IssuedIn(s) : SaysAsRequested(x)
<1>1. Source = IF line.in = None THEN line.stdin ELSE before[line.in]
  BY SourceOfLate DEF Early
<1>2. CaLoad(line, before).ret = Success /\ CaLoad(line, before).what = got
  BY DEF Performed, HasLoaded, Load
<1>3. line.in # None /\ \E b \in Papers(Source) : got.x = b.of /\ Says(b.of)
  BY <1>1, <1>2, CaLoads
<1>4. got.x \in IssuedIn(Source) /\ Says(got.x)
  BY <1>3, PapersAreIssued
<1>5. Make(line, got) = CaMake(line, got) /\ Make(line, got).ret = Success
      /\ Make(line, got).blocks # << >>
  BY CaWrites DEF Make, Performed
<1>6. \E form, x : /\ Make(line, got).blocks = <<Block("cert", x, form)>>
                   /\ x.subject = got.x.subject
                   /\ ~Has(line, "-altextend") => x.alt = got.x.alt /\ x.key = got.x.key
  <2>1. CASE ~Has(line, "-altextend")
    <3> DEFINE ca == Signer(line, got)
               cert == [got.x EXCEPT !.issuer = ca.subject]
               x == Sign(cert, IF Supported(got.key) THEN got.key ELSE None)
    <3>1. CertSign(line, got).ret = Success /\ Make(line, got) = CertSign(line, got)
      BY <1>5, <2>1 DEF CaMake
    <3>2. Make(line, got).blocks = <<Block("cert", x, "PEM")>>
      BY <3>1 DEF CertSign, Made, Refused, FatalError, Success
    <3>3. x.subject = got.x.subject /\ x.alt = got.x.alt /\ x.key = got.x.key
      BY <1>4 DEF Sign, Says, Blank
    <3> QED
      BY <3>2, <3>3
  <2>2. CASE Has(line, "-altextend")
    <3> DEFINE key == ChimeraKey(got.caKey, "ec")
               subjKey == ChimeraKey(got.subjKey, "ec")
               x == ChimeraCert(line, got, key, subjKey)
    <3>1. Make(line, got) = ChimeraSign(line, got)
      BY <1>5, <2>2 DEF CaMake, Made
    <3>2. OutForm(line) \in {"PEM", "DER"}
      BY <2>2 DEF Performed, Silent
    <3>3. Make(line, got).blocks = <<Block("cert", x, OutForm(line))>>
      BY <1>5, <3>1, <3>2 DEF ChimeraSign, ChimeraForm, Made, Refused, FatalError, Success, BadFuncArg
    <3>4. x.subject = got.x.subject
      BY DEF ChimeraCert, Blank
    <3> QED
      BY <2>2, <3>3, <3>4
  <2> QED
    BY <2>1, <2>2
<1>7. PICK form, x : /\ Make(line, got).blocks = <<Block("cert", x, form)>>
                     /\ x.subject = got.x.subject
                     /\ ~Has(line, "-altextend") => x.alt = got.x.alt /\ x.key = got.x.key
  BY <1>6
<1>8. Written(Make(line, got).blocks, Asked, {}, {})
  BY <1>7, WrittenBlock DEF Asked
<1>9. IssuedIn(Make(line, got).blocks) \subseteq {x}
  BY <1>7, PapersAreIssued, PapersOfOne DEF Block
<1> QED
  BY <1>4, <1>7, <1>8, <1>9 DEF SaysAsRequested

-----------------------------------------------------------------------------
(* A run that ends well has done as it was asked.                          *)

Asking == Early \cup Params_ \cup CertTools_

LEMMA WrittenAsAsked ==
  ASSUME NEW K, NEW P, Written(Result, Asked, K, P), KeysIn(Result) \subseteq KeysAsked,
         \A p \in P, k \in K : k.alg = p.alg /\ k.group = p.group, SealedOpens,
         line.tool \in {"pkcs12", "pkcs7"} => FromBundle(Result),
         line.tool \in Issuing => \A x \in IssuedIn(Result) : SaysAsRequested(x)
  PROVE  DoneAsAsked
<1>1. Kinds(Result) = Asked
  BY DEF Written
<1>2. KeyFitsParams
  <2>1. Of(Result, {"private"}) \subseteq K /\ Of(Result, {"params"}) \subseteq P
    BY WrittenHolds
  <2> QED
    BY <2>1 DEF KeyFitsParams
<1> QED
  BY <1>1, <1>2 DEF DoneAsAsked, FromBundle, Issuing

\* What a run that has gone all the way has left where its output goes.
LeftAsMade ==
  LET s == Make(line, got).blocks
  IN  IF ~KeyToo THEN Result = s
      ELSE \E pass \in ReqPasswords(line) :
             LET k == ReqKeyOut(line, got, pass)
             IN  /\ k.ret = Success
                 /\ Result = IF line.keyout = None /\ Output = None THEN s \o k.blocks ELSE s
                 /\ line.keyout # None => disk[line.keyout] = k.blocks

LEMMA KeysAsAsked ==
  ASSUME NoneIsNoBlock, line \in Lines, line.tool \in Early, Performed, LeftAsMade, NEW S, Known(Source, S)
  PROVE  DoneAsAsked
<1>1. Sequence(Source)
  BY KnownSequence
<1>2. Result = Make(line, got).blocks
  BY DEF LeftAsMade, KeyToo, Early
<1>3. Written(Result, Asked, KeysIn(Source), {})
  BY <1>1, <1>2, PkeyWrites, RsaWrites, Pkcs8Writes, Pkcs12Writes, Pkcs7Writes DEF Early
<1>4. KeysIn(Result) \subseteq KeysAsked
  <2>1. KeysAsked = KeysIn(Source)
    BY DEF KeysAsked, Early, Params_
  <2> QED
    BY <1>3, <2>1, WrittenHolds
<1>5. line.tool \in {"pkcs12", "pkcs7"} => FromBundle(Result)
  BY <1>1, <1>2, Pkcs12Writes, Pkcs7Writes
<1>6. SealedOpens
  BY <1>1, <1>2, Pkcs12Writes DEF SealedOpens, KeyToo, Early
<1>7. line.tool \notin Issuing
  BY DEF Issuing, Early
<1> QED
  BY <1>3, <1>4, <1>5, <1>6, <1>7, WrittenAsAsked

LEMMA ParamsAsAsked ==
  ASSUME line.tool \in Params_, Performed, LeftAsMade
  PROVE  DoneAsAsked
<1>1. Result = Make(line, got).blocks
  BY DEF LeftAsMade, KeyToo, Params_
<1>2. PICK key, params : WithParams(Result, key, params)
  BY <1>1, EcparamWrites, SizedParamsWrite DEF Params_
<1> DEFINE K == IF Has(line, "-genkey") THEN {key} ELSE {}
<1>3. Written(Result, Asked, K, {params})
  BY <1>2 DEF WithParams
<1>4. \A k \in K : k.id = "new" /\ k.alg = params.alg /\ k.group = params.group
  BY <1>2 DEF WithParams
<1>5. Has(line, "-genkey") \/ K = {}
  OBVIOUS
<1> HIDE DEF K
<1>6. KeysIn(Result) \subseteq K
  BY <1>3, WrittenHolds
<1>7. KeysIn(Result) \subseteq KeysAsked
  BY <1>4, <1>5, <1>6 DEF KeysAsked
<1>8. SealedOpens /\ line.tool \notin Issuing /\ line.tool \notin {"pkcs12", "pkcs7"}
  BY DEF SealedOpens, KeyToo, Issuing, Params_
<1> QED
  BY <1>3, <1>4, <1>7, <1>8, WrittenAsAsked

LEMMA CertsAsAsked ==
  ASSUME line.tool \in CertTools_ \ {"req"}, Performed, LeftAsMade, NEW S, Known(Source, S)
  PROVE  DoneAsAsked
<1>1. Result = Make(line, got).blocks
  BY DEF LeftAsMade, KeyToo
<1>2. PICK K : /\ Written(Result, Asked, K, {})
               /\ K = IF line.tool = "x509" THEN {x.key : x \in IssuedIn(Source)} ELSE {}
  BY <1>1, X509Writes, CrlWrites, VerifyWrites, CaWritesAsked DEF CertTools_
<1>3. KeysIn(Result) \subseteq K
  BY <1>2, WrittenHolds
<1>4. KeysIn(Result) \subseteq KeysAsked
  BY <1>2, <1>3 DEF KeysAsked, CertTools_, Params_
<1>5. line.tool \in Issuing => \A x \in IssuedIn(Result) : SaysAsRequested(x)
  BY <1>1, X509Writes, CaWritesAsked DEF Issuing
<1>6. SealedOpens /\ line.tool \notin {"pkcs12", "pkcs7"}
  BY DEF SealedOpens, KeyToo, CertTools_
<1> QED
  BY <1>2, <1>4, <1>5, <1>6, WrittenAsAsked

LEMMA RequestAsAsked ==
  ASSUME NoneIsNoBlock, line \in Lines, line.tool = "req", Performed, LeftAsMade, NEW S, Known(Source, S)
  PROVE  DoneAsAsked
<1> DEFINE s == Make(line, got).blocks
           given == IF line.passout = None THEN line.typed ELSE line.passout.text
<1>1. /\ Written(s, ReqAsked, {}, {})
      /\ \A x \in IssuedIn(s) : SaysAsRequested(x) /\ (got.key # None => x.key = got.key)
  BY ReqWrites
<1>2. Output = line.out
  BY DEF Output, Prints, Early
<1>3. KeysAsked = {got.key}
  BY DEF KeysAsked, Params_
<1>4. Asked = ReqAsked \o (IF KeyToo /\ line.keyout = None /\ line.out = None THEN <<"private">> ELSE << >>)
  BY DEF Asked, ReqAsked
<1> HIDE DEF s
<1>5. CASE ~KeyToo
  <2>1. Result = s
    BY <1>5 DEF LeftAsMade, s
  <2>2. Asked = ReqAsked \o << >>
    BY <1>4, <1>5
  <2>3. Written(s, ReqAsked, {}, {}) /\ s \o << >> = s
    BY <1>1 DEF Written, Sequence
  <2>4. Written(s \o << >>, ReqAsked \o << >>, {}, {})
    BY <1>1, WrittenNone, WrittenJoined
  <2>5. Written(Result, Asked, {}, {})
    BY <2>1, <2>2, <2>3, <2>4
  <2>6. SealedOpens
    BY <1>5 DEF SealedOpens
  <2> QED
    BY <1>1, <2>1, <2>5, <2>6, WrittenHolds, WrittenAsAsked
<1>6. CASE KeyToo
  <2>1. PICK pass \in ReqPasswords(line) :
          /\ ReqKeyOut(line, got, pass).ret = Success
          /\ Result = IF line.keyout = None /\ Output = None THEN s \o ReqKeyOut(line, got, pass).blocks ELSE s
          /\ line.keyout # None => disk[line.keyout] = ReqKeyOut(line, got, pass).blocks
    BY <1>6 DEF LeftAsMade, s
  <2>2. PICK k : k = ReqKeyOut(line, got, pass).blocks
    OBVIOUS
  <2>3. /\ Written(k, <<"private">>, {got.key}, {}) /\ got.key # None
        /\ Has(line, "-nodes") \/ line.passout # None \/ TypedPassword => ReadPrivate(k, "PEM", given) = got.key
    BY <2>1, <2>2, ReqKeyWrites DEF Performed
  <2>4. Written(s, ReqAsked, {got.key}, {}) /\ Sequence(s) /\ Sequence(k)
    BY <1>1, <2>3 DEF Written
  <2>5. Papers(k) = {}
    <3>1. Kinds(k) = <<"private">>
      BY <2>3 DEF Written
    <3>2. \A i \in DOMAIN k : k[i].kind = "private"
      <4>1. DOMAIN Kinds(k) = DOMAIN k /\ \A i \in DOMAIN k : Kinds(k)[i] = k[i].kind
        BY DEF Kinds
      <4> QED
        BY <3>1, <4>1
    <3> QED
      BY <3>2 DEF Papers, Range
  <2>6. CASE line.keyout = None /\ Output = None
    <3>1. Result = s \o k
      BY <2>1, <2>2, <2>6
    <3>2. Asked = ReqAsked \o <<"private">>
      BY <1>2, <1>4, <1>6, <2>6
    <3>3. Written(Result, Asked, {got.key}, {})
      BY <2>3, <2>4, <3>1, <3>2, WrittenJoined
    <3>4. Papers(Result) \subseteq Papers(s)
      BY <2>4, <2>5, <3>1, PapersJoined
    <3>5. \A x \in IssuedIn(Result) : SaysAsRequested(x)
      BY <1>1, <3>4, PapersAreIssued
    <3>6. SealedOpens
      BY <2>6 DEF SealedOpens
    <3> QED
      BY <1>3, <3>3, <3>5, <3>6, WrittenHolds, WrittenAsAsked
  <2>7. CASE ~(line.keyout = None /\ Output = None)
    <3>1. Result = s
      BY <2>1, <2>7
    <3>2. Asked = ReqAsked \o << >>
      BY <1>2, <1>4, <2>7
    <3>3. Written(s \o << >>, Asked, {got.key}, {})
      BY <2>4, <3>2, WrittenNone, WrittenJoined
    <3>4. s \o << >> = s
      BY <2>4 DEF Sequence
    <3>5. Written(Result, Asked, {got.key}, {})
      BY <3>1, <3>3, <3>4
    <3>6. SealedOpens
      <4>1. line.keyout # None => Kinds(disk[line.keyout]) = <<"private">>
        BY <2>1, <2>2, <2>3 DEF Written
      <4>2. line.keyout # None /\ (Has(line, "-nodes") \/ line.passout # None \/ TypedPassword)
            => ReadPrivate(disk[line.keyout], "PEM", given) = got.key
        BY <2>1, <2>2, <2>3
      <4>3. \A x \in IssuedIn(Result) : x.key = got.key
        BY <1>1, <2>3, <3>1
      <4> QED
        BY <4>1, <4>2, <4>3 DEF SealedOpens
    <3> QED
      BY <1>1, <1>3, <3>1, <3>5, <3>6, WrittenHolds, WrittenAsAsked
  <2> QED
    BY <2>6, <2>7
<1> QED
  BY <1>5, <1>6

LEMMA PerformedAsAsked ==
  ASSUME NoneIsNoBlock, line \in Lines, line.tool \in Asking, Performed, LeftAsMade, NEW S, Known(Source, S)
  PROVE  DoneAsAsked
BY KeysAsAsked, ParamsAsAsked, CertsAsAsked, RequestAsAsked DEF Asking

\* All is made that goes to the output, which is open.
AllMade ==
  /\ Scan(line, before) = Success /\ HasLoaded
  /\ Make(line, got).ret = Success /\ held = Make(line, got).blocks
  /\ Output # None /\ ~Silent(line) => opened

\* The key is where it goes.
KeyLeft ==
  /\ line.keyout \in Files \cup {None}
  /\ \E pass \in ReqPasswords(line) :
       LET k == ReqKeyOut(line, got, pass)
       IN  /\ k.ret = Success
           /\ shown = IF line.keyout = None THEN k.blocks ELSE << >>
           /\ line.keyout # None => disk[line.keyout] = k.blocks

\* How far a run has come.
OnTheWay ==
  /\ pc \in {"scan", "load", "make", "key"} => OutputEmptied /\ shown = << >>
  /\ pc \in {"load", "make"} => Scan(line, before) = Success
  /\ pc \in {"load", "make"} /\ line.tool \in Early /\ Output # None => opened
  /\ pc = "make" => HasLoaded
  /\ pc \in {"key", "seal"} => KeyToo /\ (~mishap => AllMade)
  /\ pc = "seal" => /\ shown = << >> /\ line.keyout \in Files \cup {None}
                    /\ opened => disk[Output] = << >>
  /\ pc = "close" /\ ret = Success /\ ~AsksHelp(line, before) /\ ~mishap /\ ~Silent(line)
     => AllMade /\ (opened => disk[Output] = << >>) /\ (KeyToo => KeyLeft)

DoneInv ==
  /\ pc # "idle" /\ line.tool \in Asking => OnTheWay
  /\ Succeeded /\ line.tool \in Asking /\ ~Silent(line) /\ ~NoModulus
     => line \in Lines /\ Performed /\ LeftAsMade

\* A tool that has opened its output before it reads cannot read what it has
\* emptied.
LEMMA EarlyReads ==
  ASSUME TypeInv, line \in Lines, line.tool \in Early, OutputEmptied, Load(line, disk).ret = Success
  PROVE  Load(line, disk) = Load(line, before)
<1>0. FatalError # Success /\ InputError # Success
  BY DEF FatalError, InputError, Success
<1>1. line.in \in Files \cup {None}
  BY FilesAssumption DEF FilesAssumption
<1>2. CASE InOpened(line, disk) = FALSE /\ InOpened(line, before) = FALSE
  BY <1>2 DEF Early, Load, PkeyLoad, RsaLoad, Pkcs8Load, Pkcs8Input, Pkcs12Load, Pkcs7Load
<1>3. CASE line.in \in Files /\ disk[line.in] = before[line.in]
  <2>1. InOpened(line, disk) <=> InOpened(line, before)
    BY <1>3 DEF InOpened
  <2>2. CASE line.tool \in {"pkey", "rsa"}
    BY <1>3, <2>1, <2>2 DEF Load, PkeyLoad, RsaLoad
  <2>3. CASE line.tool = "pkcs8"
    <3>1. Pkcs8Input(line, disk) = Pkcs8Input(line, before)
      BY <1>3, <2>1 DEF Pkcs8Input
    <3>2. Load(line, disk) = Pkcs8Load(line, disk) /\ Load(line, before) = Pkcs8Load(line, before)
      BY <2>3 DEF Load
    <3> QED
      BY <3>1, <3>2 DEF Pkcs8Load
  <2>4. CASE line.tool = "pkcs12"
    BY <1>3, <2>1, <2>4 DEF Load, Pkcs12Load
  <2>5. CASE line.tool = "pkcs7"
    BY <1>3, <2>1, <2>5 DEF Load, Pkcs7Load
  <2> QED
    BY <2>2, <2>3, <2>4, <2>5 DEF Early
<1>4. CASE InOpened(line, disk) /\ disk[line.in] = << >>
  <2>1. \A kind, form : Found(<< >>, kind, form) = None /\ OnlyDer(<< >>, kind) = None
    BY DEF Found, FirstPem, OnlyDer
  <2>2. \A form, pass : ReadPrivate(<< >>, form, pass) = None /\ ReadPublic(<< >>, form) = None
    BY <2>1 DEF ReadPrivate, ReadPublic, Opens
  <2>3. Pkcs8Key(line, << >>) = None
    BY <2>1, <2>2 DEF Pkcs8Key
  <2>4. CASE line.tool = "pkey"
    BY <1>0, <1>4, <2>2, <2>4 DEF Load, PkeyLoad, Loaded
  <2>5. CASE line.tool = "rsa"
    BY <1>0, <1>4, <2>2, <2>5 DEF Load, RsaLoad, Loaded
  <2>6. CASE line.tool = "pkcs8"
    BY <1>0, <1>4, <2>3, <2>6 DEF Load, Pkcs8Load, Pkcs8Input, Loaded
  <2>7. CASE line.tool \in {"pkcs12", "pkcs7"}
    BY <1>0, <1>4, <2>1, <2>7 DEF Load, Pkcs12Load, Pkcs7Load, Loaded
  <2> QED
    BY <2>4, <2>5, <2>6, <2>7 DEF Early
<1>5. line.in = None => InOpened(line, disk) = FALSE /\ InOpened(line, before) = FALSE
  BY DEF InOpened, Given
<1>6. line.in \in Files => disk[line.in] \in {before[line.in], << >>}
  BY DEF OutputEmptied
<1>7. disk[line.in] = << >> => InOpened(line, disk) \/ (InOpened(line, disk) = FALSE /\ InOpened(line, before) = FALSE)
  BY DEF InOpened, Absent
<1> QED
  BY <1>1, <1>2, <1>3, <1>4, <1>5, <1>6, <1>7

LEMMA SameAsking ==
  ASSUME line' = line, before' = before
  PROVE  /\ Output' = Output /\ (KeyToo' <=> KeyToo) /\ (Silent(line)' <=> Silent(line))
         /\ Scan(line, before)' = Scan(line, before)
         /\ (AsksHelp(line, before)' <=> AsksHelp(line, before))
         /\ got' = got => (HasLoaded' <=> HasLoaded) /\ (NoModulus' <=> NoModulus)
BY SameEnds DEF KeyToo, Silent, InOpened, HasLoaded, NoModulus

LEMMA DoneAtFirst == Init => DoneInv
<1> SUFFICES ASSUME Init PROVE DoneInv
  OBVIOUS
<1>1. pc = "idle" /\ end = "not yet"
  BY DEF Init
<1> QED
  BY <1>1 DEF DoneInv, Succeeded

\* Where a run has made all of its output, the output is open.
LEMMA AllIsMade ==
  ASSUME TypeInv, SecretInv, TrustInv, DoneInv, line \in Lines, line.tool \in Asking, pc = "make",
         MakeOutput, ret' = Success
  PROVE  AllMade'
<1>0. FatalError # Success
  BY DEF FatalError, Success
<1> DEFINE made == Make(line, got)
           late == line.tool \in OpensMade /\ made.ret = Success /\ made.blocks # << >>
<1>1. /\ line' = line /\ got' = got /\ before' = before /\ held' = made.blocks
      /\ Open(late, made.ret, IF KeyToo THEN "key" ELSE "close")
  BY DEF MakeOutput
<1>2. made.ret = Success
  BY <1>0, <1>1 DEF Open
<1>3. Scan(line, before) = Success /\ HasLoaded /\ (line.tool \in Early /\ Output # None => opened)
  BY DEF DoneInv, OnTheWay
<1>4. opened => opened'
  BY <1>1 DEF Open
<1>5. Output # None /\ ~Silent(line) => opened'
  <2> SUFFICES ASSUME Output # None, ~Silent(line) PROVE opened'
    OBVIOUS
  <2>1. CASE line.tool \in Early
    BY <1>3, <1>4, <2>1
  <2>2. CASE line.tool \in OpensLoaded
    BY <1>4, <2>2 DEF TrustInv, RunInv
  <2>3. CASE line.tool = "ca"
    <3>1. made.blocks # << >>
      BY <1>2, <1>3, <2>3, CaWrites
    <3>2. late
      BY <1>2, <2>3, <3>1 DEF OpensMade
    <3> HIDE DEF late, made
    <3>3. Output # Unwritable
      BY <1>0, <1>1, <3>2, <1>2 DEF Open, MakeOutput
    <3> QED
      BY <1>1, <3>2, <3>3 DEF Open
  <2>4. CASE line.tool = "verify"
    BY <2>4 DEF Output, Prints
  <2> QED
    BY <2>1, <2>2, <2>3, <2>4 DEF Asking, CertTools_, OpensLoaded
<1>6. Make(line, got)' = Make(line, got)
  BY <1>1
<1> QED
  BY <1>1, <1>2, <1>3, <1>5, <1>6, SameAsking DEF AllMade

\* What a run that ends well leaves is what it has made.
LEMMA LeavesAsMade ==
  ASSUME TypeInv, TrustInv, DoneInv, line \in Lines, line.tool \in Asking, CloseOutput, Succeeded',
         ~Silent(line), ~NoModulus
  PROVE  Performed' /\ LeftAsMade'
<1>1. /\ line' = line /\ got' = got /\ before' = before /\ ret' = ret /\ pc = "close"
      /\ shown' = IF Output # None THEN shown ELSE IF KeyToo THEN held \o shown ELSE held
  BY DEF CloseOutput
<1>2. ret = Success /\ ~AsksHelp(line, before) /\ ~mishap'
  BY <1>1, SameAsking DEF Succeeded
<1>3. /\ IF opened THEN \E left \in Over(disk[Output]) : disk' = [disk EXCEPT ![Output] = left]
         ELSE disk' = disk
      /\ ~mishap
  BY <1>2 DEF CloseOutput
<1>4. AllMade /\ (opened => disk[Output] = << >>) /\ (KeyToo => KeyLeft)
  BY <1>1, <1>2, <1>3 DEF DoneInv, OnTheWay
<1>5. Performed'
  BY <1>1, <1>4, SameAsking DEF AllMade, Performed
<1>6. DOMAIN disk = Files /\ (opened => Output \in Files) /\ None \notin Files
  BY FilesAssumption DEF TypeInv, TypeOK, FilesAssumption
<1>7. Output # None => opened /\ disk' = [disk EXCEPT ![Output] = held]
  BY <1>3, <1>4 DEF Over, AllMade
<1>8. Output' = Output /\ (KeyToo' <=> KeyToo)
  BY <1>1, SameAsking
<1>9. Sequence(held)
  BY <1>1, KnownSequence DEF TrustInv, RunInv
<1>10. CASE ~KeyToo
  <2>1. Result' = held
    BY <1>1, <1>6, <1>7, <1>8, <1>10 DEF Result
  <2> QED
    BY <1>1, <1>4, <1>5, <1>8, <1>10, <2>1 DEF LeftAsMade, AllMade
<1>11. CASE KeyToo
  <2>1. PICK pass \in ReqPasswords(line) :
          /\ ReqKeyOut(line, got, pass).ret = Success
          /\ shown = IF line.keyout = None THEN ReqKeyOut(line, got, pass).blocks ELSE << >>
          /\ line.keyout # None => disk[line.keyout] = ReqKeyOut(line, got, pass).blocks
    BY <1>4, <1>11 DEF KeyLeft
  <2>2. held \o << >> = held
    BY <1>9 DEF Sequence
  <2>3. Result' = IF line.keyout = None /\ Output = None THEN held \o ReqKeyOut(line, got, pass).blocks
                  ELSE held
    <3>1. CASE Output = None
      BY <1>1, <1>8, <1>11, <2>1, <2>2, <3>1 DEF Result
    <3>2. CASE Output # None
      BY <1>6, <1>7, <1>8, <3>2 DEF Result
    <3> QED
      BY <3>1, <3>2
  <2>4. line.keyout # None => disk'[line.keyout] = ReqKeyOut(line, got, pass).blocks
    <3>1. line.tool = "req" /\ Output = line.out
      BY <1>11 DEF KeyToo, Output, Prints, Early
    <3>2. opened /\ line.keyout # None => line.keyout # Output
      BY <1>6, <1>11, <3>1 DEF Silent, KeyToo
    <3>3. line.keyout # None => line.keyout \in DOMAIN disk
      BY <1>4, <1>6, <1>11 DEF KeyLeft
    <3>4. line.keyout # None => disk'[line.keyout] = disk[line.keyout]
      BY <1>3, <3>2, <3>3
    <3> QED
      BY <2>1, <3>4
  <2>5. held = Make(line, got).blocks
    BY <1>4 DEF AllMade
  <2> QED
    BY <1>1, <1>5, <1>8, <1>11, <2>1, <2>3, <2>4, <2>5 DEF LeftAsMade
<1> QED
  BY <1>10, <1>11

LEMMA DoneKept ==
  TypeInv /\ RefuseInv /\ SecretInv /\ TrustInv /\ DoneInv /\ [Next]_vars => DoneInv'
<1> SUFFICES ASSUME TypeInv, RefuseInv, SecretInv, TrustInv, DoneInv, [Next]_vars
             PROVE  DoneInv'
  OBVIOUS
<1>a. FatalError # Success
  BY DEF FatalError, Success
<1>b. pc # "idle" => runs # 0 /\ line \in Lines
  BY DEF TypeInv, LineOK
<1>c. ASSUME pc' # "idle", line'.tool \in Asking => OnTheWay'
      PROVE  DoneInv'
  BY <1>c DEF DoneInv, Succeeded
<1>d. ASSUME line' = line, before' = before
      PROVE  /\ Output' = Output /\ (KeyToo' <=> KeyToo) /\ (Silent(line)' <=> Silent(line))
             /\ Scan(line, before)' = Scan(line, before)
             /\ (AsksHelp(line, before)' <=> AsksHelp(line, before))
             /\ got' = got => (HasLoaded' <=> HasLoaded) /\ (NoModulus' <=> NoModulus)
  BY <1>d, SameAsking
<1>1. ASSUME NEW c \in LinesAfter(runs, line), Start(c)
      PROVE  DoneInv'
  <2>1. disk' = disk /\ before' = disk /\ shown' = << >> /\ pc' = "scan" /\ opened' = FALSE
    BY <1>1 DEF Start
  <2>2. ~opened'
    BY <2>1, Zenon
  <2>3. OutputEmptied'
    BY <2>1, <2>2 DEF OutputEmptied
  <2> QED
    BY <1>c, <2>1, <2>3 DEF OnTheWay
<1>2. CASE ScanOptions
  <2>1. pc = "scan" /\ line' = line /\ before' = before /\ shown' = shown /\ disk = before
    BY <1>2 DEF ScanOptions, RefuseInv, Untouched
  <2>2. PICK result, there :
          /\ Open(ScanOpens(line, disk), result, there)
          /\ AsksHelp(line, disk) => there = "close"
          /\ ~AsksHelp(line, disk) => result = Scan(line, disk) /\ there = "load"
    BY <1>2 DEF ScanOptions
  <2>3. pc' \in {"load", "close"}
    BY <2>2 DEF Open
  <2>4. SUFFICES ASSUME line.tool \in Asking PROVE OnTheWay'
    BY <1>c, <2>1, <2>3
  <2>5. OutputEmptied /\ shown = << >>
    BY <2>1, <2>4 DEF DoneInv, OnTheWay
  <2>6. /\ OutputEmptied'
        /\ ScanOpens(line, disk) /\ Output \notin {None, Unwritable} => opened'
        /\ ret' = Success => result = Success /\ pc' = there
        /\ ret' # Success => pc' = "close"
    BY <1>b, <2>1, <2>2, <2>5, OpeningEmpties
  <2>7. pc' = "close" /\ ret' = Success => AsksHelp(line, before)
    BY <2>1, <2>2, <2>6
  <2>8. pc' = "load" => Scan(line, before) = Success
    BY <2>1, <2>2, <2>6
  <2>9. line.tool \in Early /\ Output # None => opened'
    <3> SUFFICES ASSUME line.tool \in Early, Output # None PROVE opened'
      OBVIOUS
    <3>1. OutOpened(line) /\ Output = line.out
      BY DEF Output
    <3>2. ScanOpens(line, disk)
      <4>1. line.tool \notin {"base64", "hash"}
        BY DEF Early
      <4> QED
        BY <3>1, <4>1 DEF ScanOpens
    <3>3. Output \notin {None, Unwritable}
      BY <3>1 DEF OutOpened, Given
    <3> QED
      BY <2>6, <3>2, <3>3
  <2> QED
    BY <1>d, <2>1, <2>3, <2>5, <2>6, <2>7, <2>8, <2>9 DEF OnTheWay
<1>3. CASE ReadInput
  <2> DEFINE loaded == Load(line, disk)
  <2>1. pc = "load" /\ line' = line /\ before' = before /\ shown' = shown /\ got' = loaded.what
    BY <1>3 DEF ReadInput
  <2>2. Open(line.tool \in OpensLoaded /\ loaded.ret = Success, loaded.ret, "make")
    BY <1>3 DEF ReadInput
  <2>3. pc' \in {"make", "close"}
    BY <2>2 DEF Open
  <2>4. SUFFICES ASSUME line.tool \in Asking PROVE OnTheWay'
    BY <1>c, <2>1, <2>3
  <2>5. /\ OutputEmptied /\ shown = << >> /\ Scan(line, before) = Success
        /\ line.tool \in Early /\ Output # None => opened
    BY <2>1, <2>4 DEF DoneInv, OnTheWay
  <2>6. /\ OutputEmptied' /\ (opened => opened')
        /\ ret' = Success => loaded.ret = Success /\ pc' = "make"
        /\ ret' # Success => pc' = "close"
    BY <1>b, <2>1, <2>2, <2>5, OpeningEmpties
  <2>7. loaded.ret = Success => loaded = Load(line, before)
    <3>1. CASE line.tool \in Early
      BY <1>b, <2>1, <2>5, <3>1, EarlyReads
    <3>2. CASE line.tool \notin Early
      <4>1. disk = before
        BY <1>b, <2>1, <2>4, <3>2
           DEF RefuseInv, Untouched, Late, Asking, CertTools_, OpensMade, OpensLoaded, Prints
      <4> QED
        BY <4>1
    <3> QED
      BY <3>1, <3>2
  <2>8. pc' = "make" => HasLoaded'
    <3>1. pc' = "make" => loaded.ret = Success /\ Load(line, before) = loaded
      BY <2>6, <2>7
    <3>2. Load(line, before)' = Load(line, before)
      BY <2>1
    <3> QED
      BY <2>1, <3>1, <3>2 DEF HasLoaded
  <2>9. pc' = "close" => ret' # Success
    BY <2>6
  <2> HIDE DEF loaded
  <2> QED
    BY <1>d, <2>1, <2>3, <2>5, <2>6, <2>8, <2>9 DEF OnTheWay
<1>4. CASE MakeOutput
  <2> DEFINE made == Make(line, got)
             late == line.tool \in OpensMade /\ made.ret = Success /\ made.blocks # << >>
             there == IF KeyToo THEN "key" ELSE "close"
  <2>1. /\ pc = "make" /\ line' = line /\ before' = before /\ shown' = shown /\ got' = got
        /\ mishap' = mishap
    BY <1>4 DEF MakeOutput
  <2>2. Open(late, made.ret, there)
    BY <1>4 DEF MakeOutput
  <2>3. there \in {"key", "close"} /\ (there = "key" <=> KeyToo)
    OBVIOUS
  <2> HIDE DEF there, late, made
  <2>4. pc' \in {"key", "close"}
    BY <2>2, <2>3 DEF Open
  <2>5. SUFFICES ASSUME line.tool \in Asking PROVE OnTheWay'
    BY <1>c, <2>1, <2>4
  <2>6. OutputEmptied /\ shown = << >>
    BY <2>1, <2>5 DEF DoneInv, OnTheWay
  <2>7. /\ OutputEmptied'
        /\ ret' = Success => pc' = there
        /\ ret' # Success => pc' = "close"
    BY <1>b, <2>1, <2>2, <2>6, OpeningEmpties
  <2>8. ret' = Success => AllMade'
    BY <1>4, <1>b, <2>1, <2>5, AllIsMade
  <2>9. (pc' = "key" => ret' = Success /\ KeyToo) /\ (pc' = "close" /\ ret' = Success => ~KeyToo)
    BY <2>3, <2>7
  <2>10. (opened => disk[Output] = << >>)'
    BY <2>7 DEF OutputEmptied
  <2> QED
    BY <1>d, <2>1, <2>4, <2>6, <2>7, <2>8, <2>9, <2>10 DEF OnTheWay
<1>5. CASE OpenKeyOut
  <2>1. /\ pc = "key" /\ line' = line /\ before' = before /\ shown' = shown /\ got' = got
        /\ held' = held /\ opened' = opened /\ mishap' = mishap /\ pc' \in {"seal", "close"}
        /\ pc' = "close" => ret' = FatalError
        /\ pc' = "seal" => /\ line.keyout # Unwritable
                           /\ disk' = IF line.keyout = None THEN disk
                                      ELSE [disk EXCEPT ![line.keyout] = << >>]
    BY <1>5 DEF OpenKeyOut
  <2>2. SUFFICES ASSUME line.tool \in Asking PROVE OnTheWay'
    BY <1>c, <2>1
  <2>3. OutputEmptied /\ shown = << >> /\ KeyToo /\ (~mishap => AllMade)
    BY <2>1, <2>2 DEF DoneInv, OnTheWay
  <2>4. DOMAIN disk = Files /\ (opened => Output \in Files)
    BY DEF TypeInv, TypeOK
  <2>5. pc' = "seal" => line.keyout \in Files \cup {None} /\ (opened => disk'[Output] = << >>)
    <3>1. line.keyout \in Files \cup {None, Unwritable}
      BY <1>b, <2>1, FilesAssumption DEF FilesAssumption
    <3> QED
      BY <2>1, <2>3, <2>4, <3>1 DEF OutputEmptied
  <2>6. ~mishap' => AllMade'
    BY <1>d, <2>1, <2>3 DEF AllMade
  <2> QED
    BY <1>a, <1>d, <2>1, <2>3, <2>5, <2>6 DEF OnTheWay
<1>6. CASE WriteKeyOut
  <2>1. /\ pc = "seal" /\ line' = line /\ before' = before /\ got' = got
        /\ held' = held /\ opened' = opened /\ pc' = "close"
    BY <1>6 DEF WriteKeyOut
  <2>2. SUFFICES ASSUME line.tool \in Asking PROVE OnTheWay'
    BY <1>c, <2>1
  <2>3. /\ KeyToo /\ (~mishap => AllMade) /\ shown = << >> /\ line.keyout \in Files \cup {None}
        /\ opened => disk[Output] = << >>
    BY <2>1, <2>2 DEF DoneInv, OnTheWay
  <2>4. ~mishap' => AllMade'
    <3>1. mishap => mishap'
      BY <1>6, Zenon DEF WriteKeyOut
    <3> QED
      BY <1>d, <2>1, <2>3, <3>1 DEF AllMade
  <2>5. ASSUME ret' = Success, ~mishap', ~Silent(line)
        PROVE  KeyLeft' /\ (opened' => disk'[Output] = << >>)
    <3>1. PICK pass \in ReqPasswords(line) :
            LET k == ReqKeyOut(line, got, pass)
            IN  /\ k.ret = Success
                /\ IF line.keyout = None THEN shown' = k.blocks /\ disk' = disk
                   ELSE disk' = [disk EXCEPT ![line.keyout] = k.blocks] /\ shown' = shown
      BY <1>6, <2>5 DEF WriteKeyOut
    <3>2. PICK k : k = ReqKeyOut(line, got, pass)
      OBVIOUS
    <3>3. /\ k.ret = Success
          /\ line.keyout = None => shown' = k.blocks /\ disk' = disk
          /\ line.keyout # None => disk' = [disk EXCEPT ![line.keyout] = k.blocks] /\ shown' = shown
      BY <3>1, <3>2
    <3>4. DOMAIN disk = Files /\ (opened => Output \in Files) /\ None \notin Files
      BY FilesAssumption DEF TypeInv, TypeOK, FilesAssumption
    <3>5. opened => line.keyout # Output
      <4>1. line.tool = "req" /\ Output = line.out
        BY <2>3 DEF KeyToo, Output, Prints, Early
      <4> QED
        BY <2>3, <2>5, <3>4, <4>1 DEF Silent, KeyToo
    <3>6. opened' => disk'[Output] = << >>
      BY <2>1, <2>3, <3>3, <3>4, <3>5
    <3>7. shown' = (IF line.keyout = None THEN k.blocks ELSE << >>)
          /\ (line.keyout # None => disk'[line.keyout] = k.blocks)
      BY <2>3, <3>3, <3>4
    <3> QED
      BY <2>1, <2>3, <3>2, <3>3, <3>6, <3>7 DEF KeyLeft
  <2> QED
    BY <1>d, <2>1, <2>4, <2>5 DEF OnTheWay
<1>7. CASE CallFails
  <2>1. pc' = "close" /\ ret' # Success
    BY <1>7, <1>a DEF CallFails
  <2> QED
    BY <1>c, <2>1 DEF OnTheWay
<1>8. CASE CloseOutput
  <2>1. pc = "close" /\ pc' = "idle" /\ line' = line /\ before' = before /\ got' = got
    BY <1>8 DEF CloseOutput
  <2>2. ASSUME Succeeded', line.tool \in Asking, ~Silent(line), ~NoModulus
        PROVE  line \in Lines /\ Performed' /\ LeftAsMade'
    BY <1>8, <1>b, <2>1, <2>2, LeavesAsMade
  <2> QED
    BY <1>d, <2>1, <2>2 DEF DoneInv
<1>9. CASE Kill
  <2>1. pc' = "idle" /\ end' = "killed"
    BY <1>9 DEF Kill
  <2> QED
    BY <2>1 DEF DoneInv, Succeeded
<1>10. CASE UNCHANGED vars
  <2>1. line' = line /\ before' = before /\ got' = got
    BY <1>10 DEF vars
  <2>2. Performed' <=> Performed
    BY <1>d, <2>1 DEF Performed
  <2>3. LeftAsMade' <=> LeftAsMade
    BY <1>10, <1>d, <2>1 DEF vars, LeftAsMade, Result
  <2>4. OutputEmptied' <=> OutputEmptied
    BY <1>10, <1>d, <2>1 DEF vars, OutputEmptied
  <2>5. (AllMade' <=> AllMade) /\ (KeyLeft' <=> KeyLeft)
    BY <1>10, <1>d, <2>1 DEF vars, AllMade, KeyLeft
  <2>6. OnTheWay' <=> OnTheWay
    BY <1>10, <1>d, <2>1, <2>4, <2>5 DEF vars, OnTheWay
  <2> QED
    BY <1>10, <1>d, <2>1, <2>2, <2>3, <2>6 DEF vars, DoneInv, Succeeded
<1>11. CASE WriteFails
  <2>1. /\ line' = line /\ before' = before /\ disk' = disk /\ opened' = opened /\ shown' = shown
        /\ (pc = "key" /\ pc' = "key") \/ pc' = "close"
    BY <1>11 DEF WriteFails
  <2>2. mishap'
    BY <1>11, Zenon DEF WriteFails
  <2>3. OutputEmptied' <=> OutputEmptied
    BY <1>d, <2>1 DEF OutputEmptied
  <2>4. line.tool \in Asking => OnTheWay'
    BY <1>d, <2>1, <2>2, <2>3 DEF DoneInv, OnTheWay
  <2> QED
    BY <1>c, <2>1, <2>4
<1> QED
  BY <1>1, <1>2, <1>3, <1>4, <1>5, <1>6, <1>7, <1>8, <1>9, <1>10, <1>11 DEF Next

(* A command of keys, parameters, requests or certificates that returns    *)
(* success has written just the blocks its line asks for: its keys are     *)
(* those of its input or one it made, fit the parameters beside them and   *)
(* open with the password that was given, the certificates of a bundle come*)
(* out in their order, and what is certified is what was requested.  So it *)
(* is for every disk and every line, when a run reads the file it writes,  *)
(* and wherever the runs before were refused, cut off or killed.  It is    *)
(* about runs in which no call and no write failed, for those the code may *)
(* take for a success, and not about the lines that Silent and NoModulus   *)
(* name.  The hypothesis only says that NULL, any value the model takes for*)
(* it, does not look like a block.                                         *)
THEOREM SuccessIsAsAsked == NoneIsNoBlock => (Spec => []DoneAsAsked)
<1> SUFFICES ASSUME NoneIsNoBlock PROVE Spec => []DoneAsAsked
  OBVIOUS
<1>1. TypeInv /\ TrustInv /\ DoneInv => DoneAsAsked
  <2> SUFFICES ASSUME TypeInv, TrustInv, DoneInv, Succeeded, line.tool \in Asking,
                      ~Silent(line), ~NoModulus
               PROVE  DoneAsAsked
    BY DEF DoneAsAsked, Asking
  <2>1. line \in Lines /\ Performed /\ LeftAsMade
    BY DEF DoneInv
  <2>2. Known(Source, signed)
    BY <2>1, SourceKnown DEF TrustInv
  <2> QED
    BY <2>1, <2>2, PerformedAsAsked
<1> QED
  BY <1>1, TypesAtFirst, TypesKept, RefusalsAtFirst, RefusalsKept, SecretsAtFirst, SecretsKept,
     TrustAtFirst, TrustKept, DoneAtFirst, DoneKept, PTL DEF Spec

=============================================================================
