--------------------------- MODULE Commands_proofs ---------------------------
(***************************************************************************)
(* The theorems about one process of wolfssl.                              *)
(***************************************************************************)
EXTENDS Commands, FiniteSetTheorems, SequenceTheorems, TLAPS

-----------------------------------------------------------------------------
(* rand: the two scans of the command line and the output.                 *)

LEMMA Options ==
  /\ Len(rand_options) = 3 /\ DOMAIN rand_options = 1 .. 3
  /\ rand_options[1] = [name |-> "-out", has_arg |-> TRUE, val |-> "OUTFILE"]
  /\ rand_options[2] = [name |-> "-base64", has_arg |-> FALSE, val |-> "BASE64"]
  /\ rand_options[3] = [name |-> "-hex", has_arg |-> FALSE, val |-> "HEX"]
  /\ OptionNames = {"-out", "-base64", "-hex"}
<1>1. Len(rand_options) = 3 /\ DOMAIN rand_options = 1 .. 3
  BY DEF rand_options
<1>2. /\ rand_options[1] = [name |-> "-out", has_arg |-> TRUE, val |-> "OUTFILE"]
      /\ rand_options[2] = [name |-> "-base64", has_arg |-> FALSE, val |-> "BASE64"]
      /\ rand_options[3] = [name |-> "-hex", has_arg |-> FALSE, val |-> "HEX"]
  BY DEF rand_options
<1>3. OptionNames = {"-out", "-base64", "-hex"}
  BY <1>1, <1>2 DEF OptionNames
<1> QED BY <1>1, <1>2, <1>3

\* An option stands on the line once and only once.
Once(o) == \E i \in Args : argv[i] = o /\ \A j \in Args : argv[j] = o => j = i

\* wolfCLU_checkForArg tells the options that are not there, there twice and there once.
LEMMA Checked ==
  ASSUME IsLine(argv), NEW o \in OptionNames
  PROVE  \/ CheckForArg(o, argv) = 0 /\ ~Wants(o)
         \/ CheckForArg(o, argv) = UserInputError /\ Wants(o) /\ ~Once(o)
         \/ \E i \in Args : /\ argv[i] = o /\ CheckForArg(o, argv) = i - 1
                            /\ \A j \in Args : argv[j] = o => j = i
<1> DEFINE found == {i \in DOMAIN argv : argv[i] = o}
<1>1. o \notin HelpPrefixes
  BY Options DEF HelpPrefixes
<1>2. CheckForArg(o, argv) = IF Cardinality(found) > 1 THEN UserInputError
                             ELSE IF found = {} THEN 0 ELSE (CHOOSE i \in found : TRUE) - 1
  BY <1>1 DEF CheckForArg
<1>3. Len(argv) \in Nat /\ DOMAIN argv = 1 .. Len(argv)
  BY DEF IsLine
<1>4. found = {i \in Args : argv[i] = o}
  <2>1. \A i \in DOMAIN argv : argv[i] = o => i \in Args
    BY <1>3, Options, RandAssumption DEF IsLine, Args
  <2> QED BY <1>3, <2>1 DEF Args
<1>5. IsFiniteSet(found)
  <2>1. IsFiniteSet(1 .. Len(argv)) /\ found \subseteq 1 .. Len(argv)
    BY <1>3, FS_Interval
  <2> QED BY <2>1, FS_Subset
<1>6. Cardinality(found) \in Nat
  BY <1>5, FS_CardinalityType
<1> HIDE DEF found
<1>7. CASE found = {}
  <2>1. Cardinality(found) = 0
    BY <1>5, <1>7, FS_EmptySet
  <2> QED BY <1>2, <1>4, <1>7, <2>1 DEF Wants
<1>8. CASE \E i : found = {i}
  <2>1. PICK i : found = {i}
    BY <1>8
  <2>2. Cardinality(found) = 1
    BY <2>1, FS_Singleton
  <2>3. (CHOOSE k \in found : TRUE) = i
    BY <2>1
  <2>4. i \in Args /\ argv[i] = o /\ \A j \in Args : argv[j] = o => j = i
    BY <1>4, <2>1
  <2>5. CheckForArg(o, argv) = i - 1
    BY <1>2, <2>1, <2>2, <2>3
  <2> QED BY <2>4, <2>5
<1>9. CASE found # {} /\ ~\E i : found = {i}
  <2>1. Cardinality(found) # 0 /\ Cardinality(found) # 1
    BY <1>5, <1>9, FS_EmptySet, FS_Singleton
  <2>2. Cardinality(found) > 1
    BY <1>6, <2>1
  <2> QED BY <1>2, <1>4, <1>9, <2>2 DEF Wants, Once
<1> QED BY <1>7, <1>8, <1>9

\* wolfCLU_GetOpt returns the next option of the table that the line has.
LEMMA Got ==
  ASSUME IsLine(argv), optind \in 0 .. 3
  PROVE  LET got == GetOpt(rand_options, argv, optind)
             name(j) == rand_options[j].name
         IN  \/ /\ got = [option |-> EndOfArgs, optarg |-> None, optind |-> 3]
                /\ \A j \in optind + 1 .. 3 : ~Wants(name(j))
             \/ \E j \in optind + 1 .. 3 :
                  /\ got.optind = j /\ Wants(name(j))
                  /\ \A k \in optind + 1 .. j - 1 : ~Wants(name(k))
                  /\ \/ got.option = ArgFoundTwice /\ got.optarg = None /\ ~Once(name(j))
                     \/ /\ got.option = rand_options[j].val /\ Once(name(j))
                        /\ \E i \in Args : /\ argv[i] = name(j)
                                           /\ got.optarg = IF rand_options[j].has_arg /\ i + 1 <= Len(argv)
                                                           THEN argv[i + 1] ELSE None
<1> DEFINE name(j) == rand_options[j].name
           stops == Stops(rand_options, argv, optind)
           least == CHOOSE k \in stops : \A l \in stops : k <= l
<1>1. \A j \in 1 .. 3 : name(j) \in OptionNames
  BY Options
<1>2. \A j \in 1 .. 3 : CheckForArg(name(j), argv) # 0 <=> Wants(name(j))
  <2> SUFFICES ASSUME NEW j \in 1 .. 3 PROVE CheckForArg(name(j), argv) # 0 <=> Wants(name(j))
    OBVIOUS
  <2>1. name(j) \in OptionNames
    BY <1>1
  <2> HIDE DEF name
  <2> QED BY <2>1, Checked DEF Wants, Args, UserInputError
<1>3. stops = {j \in optind + 1 .. 3 : Wants(name(j))}
  <2>1. stops = {j \in 1 .. 3 : j > optind /\ CheckForArg(name(j), argv) # 0}
    BY Options DEF Stops
  <2> QED BY <1>2, <2>1
<1>4. CASE stops = {}
  <2>1. GetOpt(rand_options, argv, optind) = [option |-> EndOfArgs, optarg |-> None, optind |-> 3]
    BY <1>4, Options DEF GetOpt
  <2> QED BY <1>3, <1>4, <2>1
<1>5. CASE stops # {}
  <2>1. \E k \in stops : \A l \in stops : k <= l
    BY <1>3, <1>5
  <2>2. least \in stops /\ \A l \in stops : least <= l
    BY <2>1
  <2> DEFINE index == CheckForArg(name(least), argv)
             got   == GetOpt(rand_options, argv, optind)
  <2>3. least \in optind + 1 .. 3 /\ least \in 1 .. 3 /\ Wants(name(least))
        /\ \A k \in optind + 1 .. least - 1 : ~Wants(name(k))
    BY <1>3, <2>2
  <2>4. got = IF index = UserInputError
              THEN [option |-> ArgFoundTwice, optarg |-> None, optind |-> least]
              ELSE [option |-> rand_options[least].val,
                    optarg |-> IF rand_options[least].has_arg /\ index + 2 <= Len(argv)
                               THEN argv[index + 2] ELSE None,
                    optind |-> least]
    <3>1. CASE index = UserInputError
      BY <1>5, <3>1 DEF GetOpt
    <3>2. CASE index # UserInputError
      BY <1>5, <3>2 DEF GetOpt
    <3> QED BY <3>1, <3>2
  <2>5. \/ index = UserInputError /\ ~Once(name(least))
        \/ \E i \in Args : argv[i] = name(least) /\ index = i - 1
                           /\ \A j \in Args : argv[j] = name(least) => j = i
    <3>1. name(least) \in OptionNames
      BY <1>1, <2>3
    <3> HIDE DEF name, least
    <3> QED BY <2>3, <3>1, Checked
  <2> HIDE DEF least, index, got
  <2>6. CASE index = UserInputError /\ ~Once(name(least))
    <3>1. got.option = ArgFoundTwice /\ got.optarg = None /\ got.optind = least
      BY <2>4, <2>6
    <3> QED BY <2>3, <2>6, <3>1 DEF got
  <2>7. CASE \E i \in Args : argv[i] = name(least) /\ index = i - 1
                             /\ \A j \in Args : argv[j] = name(least) => j = i
    <3>1. PICK i \in Args : argv[i] = name(least) /\ index = i - 1
                            /\ \A j \in Args : argv[j] = name(least) => j = i
      BY <2>7
    <3>2. i \in Nat /\ i >= 3 /\ index # UserInputError /\ index + 2 = i + 1
      BY <3>1 DEF Args, UserInputError, IsLine
    <3>3. /\ got.option = rand_options[least].val /\ got.optind = least
          /\ got.optarg = IF rand_options[least].has_arg /\ i + 1 <= Len(argv)
                          THEN argv[i + 1] ELSE None
      BY <2>4, <3>2
    <3>4. Once(name(least))
      BY <3>1 DEF Once
    <3> QED BY <2>3, <3>1, <3>3, <3>4 DEF got
  <2> QED BY <2>5, <2>6, <2>7
<1> QED BY <1>4, <1>5

\* What the turns over wolfCLU_GetOpt leave in flags, outFile and ret.
NameMissing == argv[Len(argv)] = "-out"

FlagsRead(n) == (IF n >= 2 /\ Wants("-base64") THEN {"base64"} ELSE {})
                \cup (IF n = 3 /\ Wants("-hex") THEN {"hex"} ELSE {})

OptionsRead ==
  /\ ~Helped
  /\ \A j \in 1 .. optind : Wants(rand_options[j].name) => Once(rand_options[j].name)
  /\ flags = FlagsRead(optind)
  /\ outFile # None <=> optind >= 1 /\ Wants("-out") /\ ~NameMissing
  /\ randRet = IF optind >= 1 /\ NameMissing THEN FatalError ELSE Success

AllRead == OptionsRead /\ optind = 3 /\ randRet = Success

\* Nothing is generated, opened or written.
Fresh == generated = 0 /\ file = Untouched /\ stdout = 0 /\ ~trouble

\* The rescan has seen the tokens before scan.i, and refused none of them.
Rescanned ==
  /\ scan.skipNext = Bound(scan.i)
  /\ scan.seen = {argv[k] : k \in 3 .. scan.i - 1} \cap OptionNames
  /\ \A k \in 3 .. scan.i - 1 : argv[k] \in Dashed \ (OptionNames \cup Helps) => Bound(k)
  /\ Counts \cap 3 .. scan.i - 1 = IF scan.countIdx = 0 THEN {} ELSE {scan.countIdx}

TheForm == IF Wants("-hex") THEN 2 * TheCount
           ELSE IF Wants("-base64") THEN Base64Size(TheCount) ELSE TheCount

\* The bytes from the opening of the file to the writing.
Produced ==
  /\ stdout = 0 /\ ~trouble
  /\ file = IF randPc # "open" /\ outFile # None THEN 0 ELSE Untouched
  /\ size = IF randPc = "write" THEN TheForm ELSE TheCount
  /\ randPc \in {"open", "alloc"} => generated = 0
  /\ generated <= TheCount
  /\ randPc \in {"encode", "write"} => generated = TheCount

RandInv ==
  /\ RandTypeOK /\ IsLine(argv)
  /\ randPc = "start" => Fresh /\ size = 0 /\ optind = 0 /\ flags = {} /\ outFile = None /\ randRet = Success
                         /\ scan = [i |-> 3, skipNext |-> FALSE, seen |-> {}, countIdx |-> 0]
  /\ randPc = "options" => Fresh /\ OptionsRead
                         /\ scan = [i |-> 3, skipNext |-> FALSE, seen |-> {}, countIdx |-> 0]
  /\ randPc = "rescan" => Fresh /\ AllRead /\ Rescanned
  /\ randPc \in {"open", "alloc", "fill", "encode", "write"} => AllRead /\ Valid /\ Produced
  /\ NotTruncated /\ NoLeak /\ Decides /\ WholeOutput

\* No step changes the command line, nor what it means.
LEMMA SameLine ==
  ASSUME argv' = argv
  PROVE  /\ IsLine(argv)' = IsLine(argv) /\ Helped' = Helped /\ NameMissing' = NameMissing
         /\ Args' = Args /\ Counts' = Counts /\ TheCount' = TheCount /\ Valid' = Valid
         /\ TheForm' = TheForm
         /\ \A o : Wants(o)' = Wants(o) /\ Once(o)' = Once(o)
         /\ \A i : Bound(i)' = Bound(i) /\ FlagsRead(i)' = FlagsRead(i)
<1>1. IsLine(argv)' = IsLine(argv) /\ Helped' = Helped /\ NameMissing' = NameMissing /\ Args' = Args
  BY DEF IsLine, Helped, NameMissing, Args
<1>2. \A i : Bound(i)' = Bound(i)
  BY DEF Bound
<1>3. \A o : Wants(o)' = Wants(o) /\ Once(o)' = Once(o)
  BY <1>1 DEF Wants, Once
<1>4. Counts' = Counts
  BY <1>1, <1>2 DEF Counts
<1>5. TheCount' = TheCount
  BY <1>4 DEF TheCount
<1>6. \A i : FlagsRead(i)' = FlagsRead(i)
  BY <1>3 DEF FlagsRead
<1>7. Valid' = Valid
  BY <1>1, <1>2, <1>3, <1>4 DEF Valid
<1>8. TheForm' = TheForm
  BY <1>3, <1>5 DEF TheForm
<1> QED BY <1>1, <1>2, <1>3, <1>4, <1>5, <1>6, <1>7, <1>8

LEMMA LineFacts ==
  ASSUME IsLine(argv)
  PROVE  /\ Len(argv) \in Nat /\ Len(argv) >= 2 /\ argv \in Seq(STRING)
         /\ \A i \in Args : i \in Nat /\ i >= 3 /\ i <= Len(argv) /\ i \in 1 .. Len(argv)
         /\ \A i \in 1 .. Len(argv) : argv[i] # None /\ argv[i] \in STRING /\ Atoi[argv[i]] \in Int
                                      /\ Atoi[argv[i]] <= IntMax
         /\ NameMissing => Len(argv) \in Args /\ Wants("-out")
         /\ \A o \in OptionNames : Wants(o) /\ ~Once(o) => ~Valid
         /\ NameMissing => ~Valid
<1>1. Len(argv) \in Nat /\ Len(argv) >= 2 /\ argv \in Seq(STRING)
  BY DEF IsLine
<1>2. \A i \in Args : i \in Nat /\ i >= 3 /\ i <= Len(argv) /\ i \in 1 .. Len(argv)
  BY <1>1 DEF Args
<1>3. \A i \in 1 .. Len(argv) : argv[i] # None /\ argv[i] \in STRING /\ Atoi[argv[i]] \in Int
                                /\ Atoi[argv[i]] <= IntMax
  BY <1>1 DEF IsLine
<1>4. NameMissing => Len(argv) \in Args /\ Wants("-out")
  <2> SUFFICES ASSUME NameMissing PROVE Len(argv) \in Args /\ Wants("-out")
    OBVIOUS
  <2>1. argv[2] # argv[Len(argv)]
    BY Options, RandAssumption DEF IsLine, NameMissing
  <2>2. Len(argv) \in Args
    BY <1>1, <2>1 DEF Args
  <2> QED BY <2>2 DEF Wants, NameMissing
<1>5. \A o \in OptionNames : Wants(o) /\ ~Once(o) => ~Valid
  BY DEF Wants, Once, Valid
<1>6. NameMissing => ~Valid
  BY <1>1, <1>4 DEF NameMissing, Valid
<1> QED BY <1>1, <1>2, <1>3, <1>4, <1>5, <1>6

\* One turn of the loop over wolfCLU_GetOpt.
LEMMA OptionTurn ==
  ASSUME RandInv, NextOption
  PROVE  RandInv'
<1> DEFINE got == GetOpt(rand_options, argv, optind)
           name(j) == rand_options[j].name
<1>1. /\ IsLine(argv) /\ Fresh /\ OptionsRead /\ optind \in 0 .. 3
      /\ scan = [i |-> 3, skipNext |-> FALSE, seen |-> {}, countIdx |-> 0]
      /\ randPc = "options" /\ size \in 0 .. IntMax /\ generated \in 0 .. IntMax
      /\ outFile = None \/ \E i \in 1 .. Len(argv) : outFile = argv[i]
  BY Options DEF RandInv, RandTypeOK, NextOption
<1>2. /\ argv' = argv /\ scan' = scan /\ size' = size /\ generated' = generated /\ file' = file
      /\ stdout' = stdout /\ trouble' = trouble
      /\ optind' = got.optind
      /\ outFile' = IF got.option = "OUTFILE" THEN got.optarg ELSE outFile
      /\ flags' = flags \cup (IF got.option = "BASE64" THEN {"base64"} ELSE {})
                        \cup (IF got.option = "HEX" THEN {"hex"} ELSE {})
      /\ randRet' = IF \/ got.option = ArgFoundTwice
                       \/ got.option = "OUTFILE" /\ got.optarg = None
                    THEN FatalError ELSE randRet
  BY DEF NextOption, Outside
<1>3. /\ got.option = ArgFoundTwice => randPc' = "done"
      /\ got.option = EndOfArgs /\ randRet = Success => randPc' = "rescan"
      /\ got.option = EndOfArgs /\ randRet # Success => randPc' = "done"
      /\ got.option \notin {ArgFoundTwice, EndOfArgs} => randPc' = "options"
  BY DEF NextOption, ArgFoundTwice, EndOfArgs
<1>4. /\ IsLine(argv)' /\ Helped' = Helped /\ NameMissing' = NameMissing
      /\ Args' = Args /\ Counts' = Counts /\ Valid' = Valid
      /\ \A o : Wants(o)' = Wants(o) /\ Once(o)' = Once(o)
      /\ \A i : Bound(i)' = Bound(i) /\ FlagsRead(i)' = FlagsRead(i)
  BY <1>1, <1>2, SameLine
<1>5. Fresh'
  BY <1>1, <1>2 DEF Fresh
<1>6. \/ /\ got = [option |-> EndOfArgs, optarg |-> None, optind |-> 3]
         /\ \A j \in optind + 1 .. 3 : ~Wants(name(j))
      \/ \E j \in optind + 1 .. 3 :
           /\ got.optind = j /\ Wants(name(j))
           /\ \A k \in optind + 1 .. j - 1 : ~Wants(name(k))
           /\ \/ got.option = ArgFoundTwice /\ got.optarg = None /\ ~Once(name(j))
              \/ /\ got.option = rand_options[j].val /\ Once(name(j))
                 /\ \E i \in Args : /\ argv[i] = name(j)
                                    /\ got.optarg = IF rand_options[j].has_arg /\ i + 1 <= Len(argv)
                                                    THEN argv[i + 1] ELSE None
  BY <1>1, Got
<1>7. ASSUME randPc' \in {"options", "rescan", "done"}, randPc' # "done" => OptionsRead',
             randRet' \in {Success, FatalError}, flags' \subseteq {"base64", "hex"}, optind' \in 0 .. 3,
             outFile' = None \/ \E i \in 1 .. Len(argv) : outFile' = argv[i],
             randPc' = "rescan" => optind' = 3 /\ randRet' = Success,
             randPc' = "done" => randRet' = FatalError /\ ~Valid
      PROVE  RandInv'
  <2>1. scan'.i = 3 /\ scan'.skipNext = FALSE /\ scan'.seen = {} /\ scan'.countIdx = 0
    BY <1>1, <1>2
  <2>2. RandTypeOK'
    <3>1. Len(argv) \in Nat /\ Len(argv) >= 2 /\ argv' \in Seq(STRING)
      BY <1>1, <1>2, LineFacts
    <3>2. (scan \in [i : 3 .. Len(argv) + 1, skipNext : BOOLEAN,
                    seen : SUBSET OptionNames, countIdx : 0 .. Len(argv)])'
      BY <1>1, <1>2, <3>1
    <3>3. (size \in 0 .. IntMax /\ generated \in 0 .. IntMax)'
      BY <1>1, <1>2
    <3>4. (file \in {Untouched} \cup (0 .. IntMax) /\ stdout \in 0 .. IntMax + 1)'
      BY <1>5, RandAssumption DEF Fresh
    <3>5. trouble' \in BOOLEAN
      BY <1>2 DEF RandInv, RandTypeOK
    <3>6. optind' \in 0 .. Len(rand_options)
      BY <1>7, Options
    <3>7. (outFile = None \/ \E i \in 1 .. Len(argv) : outFile = argv[i])'
      BY <1>2, <1>7
    <3> QED BY <1>7, <3>1, <3>2, <3>3, <3>4, <3>5, <3>6, <3>7 DEF RandTypeOK
  <2>3. Rescanned'
    <3>1. (3 .. scan.i - 1 = {} /\ ~Bound(scan.i))'
      BY <2>1 DEF Bound
    <3>2. (scan.skipNext = Bound(scan.i))'
      BY <2>1, <3>1 DEF Bound
    <3>3. (scan.seen = {argv[k] : k \in 3 .. scan.i - 1} \cap OptionNames)'
      BY <2>1, <3>1
    <3>4. (\A k \in 3 .. scan.i - 1 : argv[k] \in Dashed \ (OptionNames \cup Helps) => Bound(k))'
      BY <3>1
    <3>5. (Counts \cap 3 .. scan.i - 1 = IF scan.countIdx = 0 THEN {} ELSE {scan.countIdx})'
      BY <2>1, <3>1
    <3> QED BY <3>2, <3>3, <3>4, <3>5 DEF Rescanned
  <2>4. (NotTruncated /\ NoLeak /\ Decides /\ WholeOutput)'
    <3>1. randPc' = "done" => randRet' # Success /\ ~Valid' /\ ~Helped'
      BY <1>1, <1>4, <1>7 DEF Success, FatalError, OptionsRead
    <3> QED BY <1>5, <3>1 DEF NotTruncated, NoLeak, Decides, WholeOutput, Fresh
  <2> QED BY <1>2, <1>4, <1>5, <1>7, <2>2, <2>3, <2>4, <1>1 DEF RandInv, AllRead
<1>8. name(1) = "-out" /\ name(2) = "-base64" /\ name(3) = "-hex"
  BY Options
<1>9. CASE /\ got = [option |-> EndOfArgs, optarg |-> None, optind |-> 3]
           /\ \A j \in optind + 1 .. 3 : ~Wants(name(j))
  <2>1. /\ optind' = 3 /\ outFile' = outFile /\ flags' = flags /\ randRet' = randRet
        /\ randPc' = IF randRet = Success THEN "rescan" ELSE "done"
    BY <1>2, <1>3, <1>9 DEF EndOfArgs, ArgFoundTwice
  <2>2. FlagsRead(3) = FlagsRead(optind)
    BY <1>1, <1>8, <1>9 DEF FlagsRead
  <2>3. optind = 0 => ~Wants("-out") /\ ~NameMissing
    BY <1>1, <1>8, <1>9, LineFacts
  <2>4. OptionsRead'
    BY <1>1, <1>4, <1>9, <2>1, <2>2, <2>3 DEF OptionsRead
  <2>5. randRet # Success => randRet = FatalError /\ NameMissing
    BY <1>1 DEF OptionsRead
  <2>6. (randRet \in {Success, FatalError} /\ flags \subseteq {"base64", "hex"})'
    BY <2>4, Zenon DEF OptionsRead, FlagsRead
  <2>7. randPc' = "done" => randRet' = FatalError /\ ~Valid
    BY <1>1, <2>1, <2>5, LineFacts
  <2>8. (outFile = None \/ \E i \in 1 .. Len(argv) : outFile = argv[i])'
    BY <1>1, <1>2, <2>1
  <2> QED BY <1>7, <2>1, <2>4, <2>6, <2>7, <2>8, <1>2
<1>10. ASSUME NEW j \in optind + 1 .. 3, got.optind = j, Wants(name(j)),
              got.option = ArgFoundTwice, got.optarg = None, ~Once(name(j))
       PROVE  RandInv'
  <2>1. /\ optind' = j /\ outFile' = outFile /\ flags' = flags /\ randRet' = FatalError
        /\ randPc' = "done"
    BY <1>2, <1>3, <1>10 DEF ArgFoundTwice
  <2>2. name(j) \in OptionNames /\ j \in 1 .. 3
    BY <1>1, <1>8, Options
  <2>3. ~Valid
    BY <1>1, <1>10, <2>2, LineFacts
  <2>4. flags \subseteq {"base64", "hex"}
    BY <1>1 DEF OptionsRead, FlagsRead
  <2>5. (outFile = None \/ \E i \in 1 .. Len(argv) : outFile = argv[i])'
    BY <1>1, <1>2, <2>1
  <2> QED BY <1>2, <1>7, <2>1, <2>2, <2>3, <2>4, <2>5
<1>11. ASSUME NEW j \in optind + 1 .. 3, got.optind = j, Wants(name(j)),
              \A k \in optind + 1 .. j - 1 : ~Wants(name(k)),
              got.option = rand_options[j].val, Once(name(j)),
              NEW i \in Args, argv[i] = name(j),
              got.optarg = IF rand_options[j].has_arg /\ i + 1 <= Len(argv) THEN argv[i + 1] ELSE None
       PROVE  RandInv'
  <2>1. optind' = j /\ j \in 1 .. 3 /\ randPc' = "options"
    BY <1>1, <1>2, <1>3, <1>11, Options DEF ArgFoundTwice, EndOfArgs
  <2>2. \A k \in 1 .. optind' : Wants(name(k)) => Once(name(k))
    BY <1>1, <1>11, <2>1 DEF OptionsRead
  <2>3. optind = 0 /\ j # 1 => ~Wants("-out") /\ ~NameMissing
    BY <1>1, <1>8, <1>11, LineFacts
  <2>4. CASE j = 1
    <3>1. /\ optind = 0 /\ got.option = "OUTFILE" /\ flags' = flags /\ flags = {} /\ argv[i] = "-out"
          /\ outFile' = got.optarg /\ got.optarg = (IF i + 1 <= Len(argv) THEN argv[i + 1] ELSE None)
          /\ randRet' = (IF got.optarg = None THEN FatalError ELSE Success)
      BY <1>1, <1>2, <1>8, <1>11, <2>4, Options DEF OptionsRead, FlagsRead, ArgFoundTwice
    <3>2. NameMissing <=> i = Len(argv)
      <4>1. \A k \in Args : argv[k] = "-out" => k = i
        BY <1>8, <1>11, <2>4 DEF Once
      <4> QED BY <1>1, <3>1, <4>1, LineFacts DEF NameMissing
    <3>3. outFile' = None <=> NameMissing
      BY <1>1, <3>1, <3>2, LineFacts
    <3>4. FlagsRead(1) = {}
      BY DEF FlagsRead
    <3>5. OptionsRead'
      BY <1>1, <1>4, <1>8, <1>11, <2>1, <2>2, <2>4, <3>1, <3>3, <3>4 DEF OptionsRead
    <3>6. (outFile = None \/ \E k \in 1 .. Len(argv) : outFile = argv[k])'
      BY <1>1, <1>2, <3>1, LineFacts
    <3>7. randRet' \in {Success, FatalError} /\ flags' \subseteq {"base64", "hex"}
      BY <3>1
    <3> QED BY <1>7, <2>1, <2>4, <3>5, <3>6, <3>7, <1>2
  <2>5. CASE j # 1
    <3>1. outFile' = outFile /\ randRet' = randRet
      BY <1>2, <1>11, <2>1, <2>5, Options DEF ArgFoundTwice
    <3>2. flags' = FlagsRead(j)
      <4>1. CASE j = 2
        BY <1>1, <1>2, <1>8, <1>11, <4>1, Options DEF OptionsRead, FlagsRead
      <4>2. CASE j = 3
        BY <1>1, <1>2, <1>8, <1>11, <4>2, Options DEF OptionsRead, FlagsRead
      <4> QED BY <2>1, <2>5, <4>1, <4>2
    <3>3. OptionsRead'
      BY <1>1, <1>4, <2>1, <2>2, <2>3, <2>5, <3>1, <3>2 DEF OptionsRead
    <3>4. randRet' \in {Success, FatalError} /\ flags' \subseteq {"base64", "hex"}
      BY <1>1, <3>1, <3>2 DEF OptionsRead, FlagsRead
    <3>5. (outFile = None \/ \E k \in 1 .. Len(argv) : outFile = argv[k])'
      BY <1>1, <1>2, <3>1
    <3> QED BY <1>7, <2>1, <3>3, <3>4, <3>5, <1>2
  <2> QED BY <2>4, <2>5
<1> HIDE DEF got, name
<1> QED BY <1>6, <1>9, <1>10, <1>11

\* The rescan passes one token.
LEMMA TokenPassed ==
  ASSUME RandInv, Rescanning,
         UNCHANGED <<randPc, randRet, argv, optind, outFile, flags, size, generated, file, stdout, trouble>>,
         scan' \in [i : {scan.i + 1}, skipNext : {Token = "-out"},
                    seen : {scan.seen \cup ({Token} \cap OptionNames)},
                    countIdx : {IF scan.i \in Counts THEN scan.i ELSE scan.countIdx}],
         scan.i \in Counts => scan.countIdx = 0,
         Token \in Dashed \ (OptionNames \cup Helps) => Bound(scan.i)
  PROVE  RandInv'
<1>1. /\ IsLine(argv) /\ Fresh /\ AllRead /\ Rescanned /\ randPc = "rescan"
      /\ scan \in [i : 3 .. Len(argv) + 1, skipNext : BOOLEAN,
                   seen : SUBSET OptionNames, countIdx : 0 .. Len(argv)]
      /\ scan.i <= Len(argv)
  BY DEF RandInv, RandTypeOK, Rescanning
<1>2. /\ IsLine(argv)' /\ Helped' = Helped /\ NameMissing' = NameMissing
      /\ Args' = Args /\ Counts' = Counts /\ Valid' = Valid
      /\ \A o : Wants(o)' = Wants(o) /\ Once(o)' = Once(o)
      /\ \A i : Bound(i)' = Bound(i) /\ FlagsRead(i)' = FlagsRead(i)
  BY <1>1, SameLine
<1>3. scan.i \in 3 .. Len(argv) /\ scan.i \in Nat /\ Len(argv) \in Nat /\ scan.i \in Args
  BY <1>1, LineFacts DEF Args
<1>4. /\ scan'.i = scan.i + 1 /\ scan'.skipNext = (Token = "-out")
      /\ scan'.seen = scan.seen \cup ({Token} \cap OptionNames)
      /\ scan'.countIdx = IF scan.i \in Counts THEN scan.i ELSE scan.countIdx
  OBVIOUS
<1>5. RandTypeOK'
  <2>1. scan' \in [i : 3 .. Len(argv) + 1, skipNext : BOOLEAN,
                   seen : SUBSET OptionNames, countIdx : 0 .. Len(argv)]
    <3>1. scan.i + 1 \in 3 .. Len(argv) + 1
      BY <1>3
    <3>2. (Token = "-out") \in BOOLEAN
      OBVIOUS
    <3>3. scan.seen \cup ({Token} \cap OptionNames) \in SUBSET OptionNames
      BY <1>1
    <3>4. (IF scan.i \in Counts THEN scan.i ELSE scan.countIdx) \in 0 .. Len(argv)
      BY <1>1, <1>3
    <3> QED BY <3>1, <3>2, <3>3, <3>4
  <2> QED BY <2>1 DEF RandInv, RandTypeOK
<1>6. Rescanned'
  <2> DEFINE past == 3 .. scan.i - 1
  <2>1. 3 .. scan'.i - 1 = past \cup {scan.i}
    BY <1>3, <1>4
  <2>2. (scan.skipNext = Bound(scan.i))'
    BY <1>3, <1>4 DEF Bound, Token
  <2>3. (scan.seen = {argv[k] : k \in 3 .. scan.i - 1} \cap OptionNames)'
    BY <1>1, <1>4, <2>1 DEF Rescanned, Token
  <2>4. (\A k \in 3 .. scan.i - 1 : argv[k] \in Dashed \ (OptionNames \cup Helps) => Bound(k))'
    BY <1>1, <1>2, <2>1 DEF Rescanned, Token
  <2>5. (Counts \cap 3 .. scan.i - 1 = IF scan.countIdx = 0 THEN {} ELSE {scan.countIdx})'
    <3>1. Counts \cap past = IF scan.countIdx = 0 THEN {} ELSE {scan.countIdx}
      BY <1>1 DEF Rescanned
    <3>2. Counts' \cap 3 .. scan'.i - 1 = (Counts \cap past) \cup (Counts \cap {scan.i})
      BY <1>2, <2>1
    <3> HIDE DEF past
    <3> QED BY <1>3, <1>4, <3>1, <3>2
  <2> QED BY <2>2, <2>3, <2>4, <2>5 DEF Rescanned
<1>7. Fresh' /\ AllRead'
  <2>1. Fresh'
    BY <1>1 DEF Fresh
  <2>2. OptionsRead'
    BY <1>1, <1>2 DEF AllRead, OptionsRead
  <2> QED BY <1>1, <2>1, <2>2 DEF AllRead
<1>8. (NotTruncated /\ NoLeak /\ Decides /\ WholeOutput)'
  BY <1>1, <1>7 DEF NotTruncated, NoLeak, Decides, WholeOutput, Fresh
<1> QED BY <1>1, <1>2, <1>5, <1>6, <1>7, <1>8 DEF RandInv

\* No option stands on the line twice by now, so that no token is one seen before.
LEMMA NoneSeen ==
  ASSUME RandInv, Rescanning
  PROVE  Token \notin scan.seen
<1> SUFFICES ASSUME Token \in scan.seen PROVE FALSE
  OBVIOUS
<1>1. /\ IsLine(argv) /\ AllRead /\ Rescanned /\ scan.i \in 3 .. Len(argv) + 1 /\ scan.i <= Len(argv)
  BY DEF RandInv, RandTypeOK, Rescanning
<1>2. PICK k \in 3 .. scan.i - 1 : argv[k] = Token
  BY <1>1 DEF Rescanned
<1>3. Token \in OptionNames
  BY <1>1 DEF Rescanned
<1>4. k \in Args /\ scan.i \in Args /\ k # scan.i
  BY <1>1, LineFacts DEF Args
<1>5. \A o \in OptionNames : Wants(o) => Once(o)
  BY <1>1, Options DEF AllRead, OptionsRead
<1>6. Wants(Token) /\ argv[scan.i] = Token
  BY <1>4 DEF Wants, Token
<1> QED BY <1>2, <1>3, <1>4, <1>5, <1>6 DEF Once

\* One turn of the rescan that refuses nothing.
LEMMA ScanTurn ==
  ASSUME RandInv, ScanValue \/ ScanOption \/ ScanHelp \/ ScanCount
  PROVE  RandInv'
<1>1. /\ Rescanning /\ IsLine(argv) /\ AllRead /\ Rescanned
      /\ scan \in [i : 3 .. Len(argv) + 1, skipNext : BOOLEAN,
                   seen : SUBSET OptionNames, countIdx : 0 .. Len(argv)]
      /\ scan.i \in Args
  <2>1. Rescanning
    BY DEF ScanValue, ScanOption, ScanHelp, ScanCount
  <2>2. IsLine(argv) /\ AllRead /\ Rescanned
    BY <2>1 DEF RandInv, Rescanning
  <2>3. scan \in [i : 3 .. Len(argv) + 1, skipNext : BOOLEAN,
                 seen : SUBSET OptionNames, countIdx : 0 .. Len(argv)]
    BY DEF RandInv, RandTypeOK
  <2>4. scan.i \in Args
    BY <2>1, <2>2, <2>3, LineFacts DEF Rescanning, Args
  <2> QED BY <2>1, <2>2, <2>3, <2>4
<1>2. UNCHANGED <<argv, optind, outFile, flags, size, generated, file, stdout, trouble>>
  BY DEF ScanValue, ScanOption, ScanHelp, ScanCount, Mark, Outside
<1>3. Token \notin scan.seen
  BY <1>1, NoneSeen
<1>4. UNCHANGED <<randPc, randRet>>
  BY <1>3 DEF ScanValue, ScanOption, ScanHelp, ScanCount, Mark
<1>5. scan.skipNext = Bound(scan.i) /\ Token = argv[scan.i]
  BY <1>1 DEF Rescanned, Token
<1>6. \A o \in OptionNames : Wants(o) => Once(o)
  BY <1>1, Options DEF AllRead, OptionsRead
<1>7. Bound(scan.i) => Token # "-out"
  <2> SUFFICES ASSUME Bound(scan.i), Token = "-out" PROVE FALSE
    OBVIOUS
  <2>1. scan.i - 1 \in Args /\ argv[scan.i - 1] = "-out" /\ argv[scan.i] = "-out"
    BY <1>1, <1>5, LineFacts DEF Bound, Args
  <2>2. Once("-out")
    BY <1>6, <2>1, Options DEF Wants
  <2> QED BY <1>1, <2>1, <2>2, LineFacts DEF Once
<1>8. OptionNames \subseteq Dashed /\ Helps \subseteq Dashed /\ OptionNames \cap Helps = {} /\ "-out" \in OptionNames
  BY RandAssumption, Options DEF Helps
<1>9. scan.i \in Counts <=> ~Bound(scan.i) /\ Token \notin Dashed
  BY <1>1, <1>5 DEF Counts
<1> DEFINE on == [i : {scan.i + 1}, skipNext : {Token = "-out"},
                  seen : {scan.seen \cup ({Token} \cap OptionNames)},
                  countIdx : {IF scan.i \in Counts THEN scan.i ELSE scan.countIdx}]
<1>10. CASE ScanValue
  <2>1. scan' = [scan EXCEPT !.i = @ + 1, !.skipNext = FALSE, !.seen = @ \cup ({Token} \cap OptionNames)]
    BY <1>3, <1>10 DEF ScanValue, Mark
  <2>2. Bound(scan.i)
    BY <1>5, <1>10 DEF ScanValue
  <2>3. scan' \in on
    BY <1>1, <1>7, <1>9, <2>1, <2>2
  <2> QED BY <1>1, <1>2, <1>4, <1>9, <2>2, <2>3, TokenPassed
<1>11. CASE ScanOption
  <2>1. /\ scan' = [scan EXCEPT !.i = @ + 1, !.skipNext = (Token = "-out"),
                                !.seen = @ \cup ({Token} \cap OptionNames)]
        /\ Token \in OptionNames
    BY <1>3, <1>11 DEF ScanOption, Mark
  <2>2. scan.i \notin Counts
    BY <1>8, <1>9, <2>1
  <2>3. scan' \in on
    BY <1>1, <2>1, <2>2
  <2> QED BY <1>1, <1>2, <1>4, <2>1, <2>2, <2>3, TokenPassed
<1>12. CASE ScanHelp
  <2>1. scan' = [scan EXCEPT !.i = @ + 1] /\ Token \in Helps /\ ~scan.skipNext
    BY <1>12 DEF ScanHelp
  <2>2. scan.i \notin Counts /\ Token \notin OptionNames /\ Token # "-out"
    BY <1>8, <1>9, <2>1
  <2>3. scan' \in on
    BY <1>1, <2>1, <2>2
  <2> QED BY <1>1, <1>2, <1>4, <2>1, <2>2, <2>3, TokenPassed
<1>13. CASE ScanCount
  <2>1. /\ scan' = [scan EXCEPT !.i = @ + 1, !.countIdx = scan.i]
        /\ Token \notin Dashed /\ ~scan.skipNext /\ scan.countIdx = 0
    BY <1>13 DEF ScanCount
  <2>2. scan.i \in Counts /\ Token \notin OptionNames /\ Token # "-out"
    BY <1>5, <1>8, <1>9, <2>1
  <2>3. scan' \in on
    BY <1>1, <2>1, <2>2
  <2> QED BY <1>1, <1>2, <1>4, <2>1, <2>2, <2>3, TokenPassed
<1> QED BY <1>10, <1>11, <1>12, <1>13

\* The command ends, and its output is as the properties ask.
LEMMA Ends ==
  ASSUME RandInv, randPc' = "done", randRet' \in {Success, FatalError}, trouble' \in BOOLEAN,
         UNCHANGED <<argv, optind, outFile, flags, scan, size, generated>>,
         file' \in {Untouched} \cup (0 .. IntMax), stdout' \in 0 .. IntMax + 1,
         (NotTruncated /\ NoLeak /\ Decides /\ WholeOutput)'
  PROVE  RandInv'
<1>1. RandTypeOK'
  BY DEF RandInv, RandTypeOK
<1>2. IsLine(argv)'
  BY SameLine DEF RandInv
<1> QED BY <1>1, <1>2 DEF RandInv

\* A line that is refused before anything was done.
LEMMA Refuses ==
  ASSUME RandInv, Fresh, ~Valid, ~Helped, Fail,
         UNCHANGED <<argv, optind, outFile, flags, scan, size, generated, file, stdout, trouble>>
  PROVE  RandInv'
<1>1. ~Valid' /\ ~Helped'
  BY SameLine
<1>2. randPc' = "done" /\ randRet' = FatalError /\ FatalError # Success
  BY DEF Fail, FatalError, Success
<1>3. (NotTruncated /\ NoLeak /\ Decides /\ WholeOutput)'
  BY <1>1, <1>2 DEF NotTruncated, NoLeak, Decides, WholeOutput, Fresh
<1>4. trouble' \in BOOLEAN /\ file' \in {Untouched} \cup (0 .. IntMax) /\ stdout' \in 0 .. IntMax + 1
  BY DEF RandInv, RandTypeOK
<1> QED BY <1>2, <1>3, <1>4, Ends

LEMMA ScanEnds ==
  ASSUME RandInv, ScanRefuse
  PROVE  RandInv'
<1>1. IsLine(argv) /\ AllRead /\ Rescanned /\ Fresh /\ ~Helped
  BY DEF RandInv, ScanRefuse, Rescanning, AllRead, OptionsRead
<1>2. scan \in [i : 3 .. Len(argv) + 1, skipNext : BOOLEAN,
                seen : SUBSET OptionNames, countIdx : 0 .. Len(argv)]
  BY DEF RandInv, RandTypeOK
<1>3. scan.i \in Args /\ ~Bound(scan.i) /\ Token = argv[scan.i]
  BY <1>1, <1>2, LineFacts DEF Rescanned, ScanRefuse, Rescanning, Args, Token
<1>4. ~Valid
  <2>1. CASE Token \in Dashed
    BY <1>3, <2>1 DEF ScanRefuse, Valid
  <2>2. CASE Token \notin Dashed
    <3>1. scan.i \in Counts /\ scan.countIdx # 0
      BY <1>3, <2>2 DEF Counts, ScanRefuse
    <3>2. scan.countIdx \in Counts /\ scan.countIdx \in 3 .. scan.i - 1
      BY <1>1, <3>1 DEF Rescanned
    <3>3. scan.countIdx # scan.i
      BY <1>2, <3>2
    <3> QED BY <3>1, <3>2, <3>3 DEF Valid
  <2> QED BY <2>1, <2>2
<1> QED BY <1>1, <1>4, Refuses DEF ScanRefuse, Outside

LEMMA CountTaken ==
  ASSUME RandInv, TakeCount
  PROVE  RandInv'
<1>1. IsLine(argv) /\ AllRead /\ Rescanned /\ Fresh /\ ~Helped /\ scan.i > Len(argv)
  BY DEF RandInv, TakeCount, AllRead, OptionsRead
<1>2. scan \in [i : 3 .. Len(argv) + 1, skipNext : BOOLEAN,
                seen : SUBSET OptionNames, countIdx : 0 .. Len(argv)]
  BY DEF RandInv, RandTypeOK
<1>3. 3 .. scan.i - 1 = Args
  BY <1>1, <1>2, LineFacts DEF Args
<1>4. Counts = IF scan.countIdx = 0 THEN {} ELSE {scan.countIdx}
  BY <1>1, <1>3 DEF Rescanned, Counts
<1>5. flags = (IF Wants("-base64") THEN {"base64"} ELSE {}) \cup (IF Wants("-hex") THEN {"hex"} ELSE {})
  BY <1>1 DEF AllRead, OptionsRead, FlagsRead
<1> DEFINE wrong == \/ scan.countIdx = 0
                    \/ Atoi[argv[scan.countIdx]] <= 0
                    \/ flags = {"base64", "hex"}
                    \/ flags # {} /\ Atoi[argv[scan.countIdx]] > IntMax \div 2
<1>6. CASE wrong
  <2>1. ~Valid
    <3>1. CASE scan.countIdx = 0
      BY <1>4, <3>1 DEF Valid
    <3>2. CASE scan.countIdx # 0 /\ flags = {"base64", "hex"}
      <4>1. Wants("-hex") /\ Wants("-base64")
        BY <1>5, <3>2
      <4> QED BY <4>1 DEF Valid
    <3>3. CASE scan.countIdx # 0 /\ Atoi[argv[scan.countIdx]] <= 0
      <4>1. Counts = {scan.countIdx} /\ Atoi[argv[scan.countIdx]] \in Int
        BY <1>1, <1>2, <1>4, <3>3, LineFacts
      <4> QED BY <3>3, <4>1 DEF Valid
    <3>4. CASE scan.countIdx # 0 /\ flags # {} /\ Atoi[argv[scan.countIdx]] > IntMax \div 2
      <4>1. Counts = {scan.countIdx} /\ Atoi[argv[scan.countIdx]] \in Int /\ IntMax \div 2 \in Int
        BY <1>1, <1>2, <1>4, <3>4, LineFacts, RandAssumption
      <4>2. Wants("-hex") \/ Wants("-base64")
        BY <1>5, <3>4
      <4>3. ~(Atoi[argv[scan.countIdx]] <= IntMax \div 2)
        BY <3>4, <4>1
      <4> HIDE DEF wrong
      <4> QED BY <4>1, <4>2, <4>3 DEF Valid
    <3> QED BY <1>6, <3>1, <3>2, <3>3, <3>4
  <2>2. Fail /\ UNCHANGED <<argv, optind, outFile, flags, scan, size, generated, file, stdout, trouble>>
    BY <1>6 DEF TakeCount, Outside
  <2> QED BY <1>1, <2>1, <2>2, Refuses
<1>7. CASE ~wrong
  <2>1. /\ randPc' = "open" /\ size' = Atoi[argv[scan.countIdx]] /\ randRet' = randRet
        /\ UNCHANGED <<argv, optind, outFile, flags, scan, generated, file, stdout, trouble>>
    BY <1>7 DEF TakeCount, Outside
  <2>2. Counts = {scan.countIdx} /\ scan.countIdx \in 1 .. Len(argv)
    BY <1>2, <1>4, <1>7, LineFacts
  <2>3. /\ Atoi[argv[scan.countIdx]] \in 1 .. IntMax
        /\ Wants("-hex") \/ Wants("-base64") => Atoi[argv[scan.countIdx]] <= IntMax \div 2
    BY <1>1, <1>5, <1>7, <2>2, LineFacts, RandAssumption
  <2>4. Valid
    <3>1. \A i, j \in Args : argv[i] = argv[j] /\ argv[i] \in OptionNames => i = j
      BY <1>1, Options DEF AllRead, OptionsRead, Wants, Once
    <3>2. \A i \in Args : argv[i] = "-out" => i < Len(argv)
      <4>1. ~NameMissing
        BY <1>1 DEF AllRead, OptionsRead, Success, FatalError
      <4> QED BY <1>1, <4>1, LineFacts DEF NameMissing
    <3>3. \A i \in Args : argv[i] \in Dashed \ (OptionNames \cup Helps) => Bound(i)
      BY <1>1, <1>3 DEF Rescanned
    <3>4. ~(Wants("-hex") /\ Wants("-base64"))
      BY <1>5, <1>7
    <3>5. \E i \in Counts : /\ Counts = {i} /\ Atoi[argv[i]] > 0
                            /\ Wants("-hex") \/ Wants("-base64") => Atoi[argv[i]] <= IntMax \div 2
      <4>1. Atoi[argv[scan.countIdx]] > 0
        BY <2>3, RandAssumption
      <4> QED BY <2>2, <2>3, <4>1
    <3> QED BY <3>1, <3>2, <3>3, <3>4, <3>5 DEF Valid
  <2>5. TheCount = Atoi[argv[scan.countIdx]]
    BY <2>2 DEF TheCount
  <2>6. RandTypeOK'
    <3>1. size' \in 0 .. IntMax
      BY <2>1, <2>3, RandAssumption
    <3> QED BY <2>1, <3>1 DEF RandInv, RandTypeOK
  <2>7. AllRead'
    BY <1>1, <2>1, SameLine DEF AllRead, OptionsRead
  <2>8. Produced'
    BY <1>1, <2>1, <2>3, <2>5, SameLine, RandAssumption DEF Produced, Fresh
  <2>9. (NotTruncated /\ NoLeak /\ Decides /\ WholeOutput)'
    BY <1>1, <2>1 DEF NotTruncated, NoLeak, Decides, WholeOutput, Fresh
  <2>10. Valid' /\ IsLine(argv)'
    BY <1>1, <2>1, <2>4, SameLine
  <2> QED BY <2>1, <2>6, <2>7, <2>8, <2>9, <2>10 DEF RandInv
<1> QED BY <1>6, <1>7

LEMMA HelpAsked ==
  ASSUME RandInv, AskHelp
  PROVE  RandInv'
<1>1. /\ IsLine(argv) /\ Fresh /\ size = 0 /\ optind = 0 /\ flags = {} /\ outFile = None /\ randRet = Success
      /\ scan = [i |-> 3, skipNext |-> FALSE, seen |-> {}, countIdx |-> 0]
  BY DEF RandInv, AskHelp
<1>2. UNCHANGED <<randRet, argv, optind, outFile, flags, scan, size, generated, file, stdout, trouble>>
  BY DEF AskHelp
<1>3. randPc' = IF Helped THEN "done" ELSE "options"
  BY DEF AskHelp, Helped
<1>4. CASE Helped
  <2>1. (NotTruncated /\ NoLeak /\ Decides /\ WholeOutput)'
    BY <1>1, <1>2, <1>4, SameLine DEF NotTruncated, NoLeak, Decides, WholeOutput, Fresh
  <2> QED BY <1>1, <1>2, <1>3, <1>4, <2>1, Ends DEF RandInv, RandTypeOK
<1>5. CASE ~Helped
  <2>1. FlagsRead(0) = {}
    BY DEF FlagsRead
  <2>2. OptionsRead'
    BY <1>1, <1>2, <1>5, <2>1, SameLine DEF OptionsRead
  <2>3. RandTypeOK' /\ IsLine(argv)' /\ Fresh'
    BY <1>1, <1>2, <1>3, <1>5, SameLine DEF RandInv, RandTypeOK, Fresh
  <2>4. (NotTruncated /\ NoLeak /\ Decides /\ WholeOutput)'
    BY <1>3, <1>5, <2>3 DEF NotTruncated, NoLeak, Decides, WholeOutput, Fresh
  <2> QED BY <1>1, <1>2, <1>3, <1>5, <2>2, <2>3, <2>4 DEF RandInv
<1> QED BY <1>4, <1>5

LEMMA Encoding ==
  ASSUME IsLine(argv), Valid
  PROVE  /\ TheCount \in 1 .. IntMax
         /\ Wants("-hex") \/ Wants("-base64") => TheCount <= IntMax \div 2
         /\ TheForm \in 0 .. IntMax
<1>1. PICK i \in Counts : /\ Counts = {i} /\ Atoi[argv[i]] > 0
                          /\ Wants("-hex") \/ Wants("-base64") => Atoi[argv[i]] <= IntMax \div 2
  BY DEF Valid
<1>2. TheCount = Atoi[argv[i]] /\ i \in 1 .. Len(argv)
  BY <1>1, LineFacts DEF TheCount, Counts
<1>3. TheCount \in 1 .. IntMax /\ IntMax \in Nat
  BY <1>1, <1>2, LineFacts, RandAssumption
<1>4. Wants("-hex") \/ Wants("-base64") => TheCount <= IntMax \div 2
  BY <1>1, <1>2
<1>5. CASE Wants("-hex")
  BY <1>3, <1>4, <1>5 DEF TheForm
<1>6. CASE ~Wants("-hex") /\ Wants("-base64")
  <2>1. TheCount \in 0 .. IntMax \div 2
    BY <1>3, <1>4, <1>6
  <2>2. Base64Size(TheCount) <= IntMax
    BY <2>1, RandAssumption
  <2>3. Base64Size(TheCount) \in Nat
    BY <1>3 DEF Base64Size
  <2>4. TheForm = Base64Size(TheCount)
    BY <1>6 DEF TheForm
  <2> QED BY <1>3, <1>4, <2>2, <2>3, <2>4
<1>7. CASE ~Wants("-hex") /\ ~Wants("-base64")
  BY <1>3, <1>7 DEF TheForm
<1> QED BY <1>3, <1>4, <1>5, <1>6, <1>7

\* The bytes: from the opening of the file to the last byte written, or to a call that fails.
LEMMA BytesOut ==
  ASSUME RandInv, Open \/ OpenFails \/ Allocate \/ Fill \/ Encode \/ PrepareFails \/ Write \/ WriteFails
         \/ WriteIsLost
  PROVE  RandInv'
<1>1. randPc \in {"open", "alloc", "fill", "encode", "write"}
  BY DEF Open, OpenFails, Allocate, Fill, Encode, PrepareFails, Write, WriteFails, WriteIsLost
<1>2. /\ IsLine(argv) /\ AllRead /\ Valid /\ Produced /\ ~Helped
      /\ size \in 0 .. IntMax /\ generated \in 0 .. IntMax
  BY <1>1 DEF RandInv, RandTypeOK, AllRead, OptionsRead
<1>3. UNCHANGED <<argv, optind, outFile, flags, scan>>
  BY DEF Open, OpenFails, Allocate, Fill, Encode, PrepareFails, Write, WriteFails, WriteIsLost, Outside
<1>4. /\ IsLine(argv)' /\ ~Helped' /\ Valid' /\ TheCount' = TheCount /\ TheForm' = TheForm
      /\ \A o : Wants(o)' = Wants(o)
  BY <1>2, <1>3, SameLine
<1>5. /\ TheCount \in 1 .. IntMax /\ TheForm \in 0 .. IntMax
      /\ Wants("-hex") \/ Wants("-base64") => TheCount <= IntMax \div 2
  BY <1>2, Encoding
<1>6. (outFile # None <=> Wants("-out")) /\ (IntMax \in Nat /\ BlockLen \in Nat \ {0})
  BY <1>2, RandAssumption DEF AllRead, OptionsRead, Success, FatalError
<1>7. flags = (IF Wants("-base64") THEN {"base64"} ELSE {}) \cup (IF Wants("-hex") THEN {"hex"} ELSE {})
  BY <1>2 DEF AllRead, OptionsRead, FlagsRead
<1>8. ASSUME randPc' \in {"alloc", "fill", "encode", "write"}, randRet' = randRet, Produced',
             size' \in 0 .. IntMax, generated' \in 0 .. IntMax
      PROVE  RandInv'
  <2>1. stdout' = 0 /\ trouble' = FALSE /\ file' \in {Untouched, 0}
    BY <1>8 DEF Produced
  <2>2. RandTypeOK'
    <3>1. randRet = Success
      BY <1>2 DEF AllRead
    <3>2. (file \in {Untouched} \cup (0 .. IntMax) /\ stdout \in 0 .. IntMax + 1)'
      BY <1>6, <2>1
    <3>3. trouble' \in BOOLEAN
      BY <2>1
    <3> QED BY <1>3, <1>8, <3>1, <3>2, <3>3 DEF RandInv, RandTypeOK
  <2>3. AllRead'
    BY <1>2, <1>3, <1>8, SameLine DEF AllRead, OptionsRead
  <2>4. (NotTruncated /\ NoLeak /\ Decides /\ WholeOutput)'
    BY <1>4, <1>8, <2>1 DEF NotTruncated, NoLeak, Decides, WholeOutput
  <2> QED BY <1>4, <1>8, <2>2, <2>3, <2>4 DEF RandInv
<1>9. CASE Open
  <2>1. /\ randPc = "open" /\ randPc' = "alloc" /\ file' = IF outFile # None THEN 0 ELSE file
        /\ UNCHANGED <<randRet, size, generated, stdout, trouble>>
    BY <1>9 DEF Open
  <2>2. Produced'
    BY <1>2, <1>3, <1>4, <2>1 DEF Produced
  <2> QED BY <1>2, <1>8, <2>1, <2>2
<1>10. CASE Allocate
  <2>1. /\ randPc = "alloc" /\ randPc' = "fill"
        /\ UNCHANGED <<randRet, size, generated, file, stdout, trouble>>
    BY <1>10 DEF Allocate, Outside
  <2>2. Produced'
    BY <1>2, <1>3, <1>4, <2>1 DEF Produced
  <2> QED BY <1>2, <1>8, <2>1, <2>2
<1>11. CASE Fill
  <2>1. randPc = "fill" /\ UNCHANGED <<randRet, size, file, stdout, trouble>>
    BY <1>11 DEF Fill, Outside
  <2>2. size = TheCount /\ generated <= size
    BY <1>2, <2>1 DEF Produced
  <2>3. CASE generated < size
    <3>1. randPc' = "fill" /\ generated' = IF size - generated > BlockLen THEN generated + BlockLen ELSE size
      BY <1>11, <2>1, <2>3 DEF Fill
    <3>2. generated' \in 0 .. size
      BY <1>2, <1>6, <2>3, <3>1
    <3>3. Produced'
      BY <1>2, <1>3, <1>4, <1>5, <2>1, <2>2, <3>1, <3>2 DEF Produced
    <3> QED BY <1>2, <1>5, <1>6, <1>8, <2>1, <2>2, <3>1, <3>2, <3>3
  <2>4. CASE ~(generated < size)
    <3>1. randPc' = "encode" /\ generated' = generated /\ generated = TheCount
      BY <1>2, <1>11, <2>2, <2>4 DEF Fill
    <3>2. Produced'
      BY <1>2, <1>3, <1>4, <2>1, <2>2, <3>1 DEF Produced
    <3> QED BY <1>2, <1>8, <2>1, <3>1, <3>2
  <2> QED BY <2>3, <2>4
<1>12. CASE Encode
  <2>1. /\ randPc = "encode" /\ randPc' = "write"
        /\ size' = IF "hex" \in flags THEN 2 * size ELSE IF "base64" \in flags THEN Base64Size(size) ELSE size
        /\ UNCHANGED <<randRet, generated, file, stdout, trouble>>
    BY <1>12 DEF Encode, Outside
  <2>2. size = TheCount /\ generated = TheCount
    BY <1>2, <2>1 DEF Produced
  <2>3. ("hex" \in flags <=> Wants("-hex")) /\ ("base64" \in flags <=> Wants("-base64"))
    BY <1>7
  <2>4. size' = TheForm
    BY <2>1, <2>2, <2>3 DEF TheForm
  <2>5. Produced'
    BY <1>2, <1>3, <1>4, <2>1, <2>2, <2>4 DEF Produced
  <2> QED BY <1>2, <1>5, <1>8, <2>1, <2>4, <2>5
\* A call fails: nothing was put out but the bytes of a write cut short.
<1>13. ASSUME Trouble, UNCHANGED <<size, generated>>, file' \in {Untouched} \cup (0 .. IntMax),
              stdout' \in 0 .. IntMax + 1, outFile # None => stdout' = 0
       PROVE  RandInv'
  <2>1. randPc' = "done" /\ randRet' = FatalError /\ trouble' = TRUE /\ FatalError # Success
    BY <1>13 DEF Trouble, Fail, FatalError, Success
  <2>2. (NotTruncated /\ NoLeak /\ Decides /\ WholeOutput)'
    BY <1>4, <1>6, <1>13, <2>1 DEF NotTruncated, NoLeak, Decides, WholeOutput
  <2> QED BY <1>3, <1>13, <2>1, <2>2, Ends
<1>14. CASE OpenFails \/ PrepareFails
  <2>1. Trouble /\ UNCHANGED <<size, generated, file, stdout>>
    BY <1>14 DEF OpenFails, PrepareFails, Outside
  <2>2. stdout = 0 /\ file \in {Untouched, 0}
    BY <1>2 DEF Produced
  <2> QED BY <1>6, <1>13, <2>1, <2>2
<1>15. CASE WriteFails
  <2>1. /\ Trouble /\ UNCHANGED <<size, generated>>
        /\ \E n \in 0 .. size - 1 : IF outFile # None THEN file' = n /\ UNCHANGED stdout
                                    ELSE stdout' = n /\ UNCHANGED file
    BY <1>15 DEF WriteFails
  <2>2. stdout = 0 /\ file \in {Untouched, 0}
    BY <1>2 DEF Produced
  <2>3. \A n \in 0 .. size - 1 : n \in 0 .. IntMax /\ n \in 0 .. IntMax + 1
    BY <1>2, <1>6
  <2>4. /\ file' \in {Untouched} \cup (0 .. IntMax) /\ stdout' \in 0 .. IntMax + 1
        /\ outFile # None => stdout' = 0
    BY <1>6, <2>1, <2>2, <2>3
  <2> QED BY <1>13, <2>1, <2>4
<1>16. CASE Write
  <2>1. /\ randPc = "write" /\ randPc' = "done" /\ UNCHANGED <<randRet, size, generated, trouble>>
        /\ IF outFile # None THEN file' = size /\ UNCHANGED stdout
           ELSE stdout' = (IF "hex" \in flags THEN size + 1 ELSE size) /\ UNCHANGED file
    BY <1>16 DEF Write
  <2>2. /\ size = TheForm /\ generated = TheCount /\ stdout = 0 /\ randRet = Success /\ trouble = FALSE
        /\ outFile = None => file = Untouched
    BY <1>2, <2>1 DEF Produced, AllRead
  <2>3. "hex" \in flags <=> Wants("-hex")
    BY <1>7
  <2>4. NoLeak' /\ NotTruncated' /\ Decides'
    BY <1>4, <1>6, <2>1, <2>2 DEF NoLeak, NotTruncated, Decides
  <2>5. WholeOutput'
    <3>1. generated' = TheCount'
      BY <1>4, <2>1, <2>2
    <3>2. IF Wants("-out") THEN file' = TheForm
          ELSE file' = Untouched /\ stdout' = TheForm + IF Wants("-hex") THEN 1 ELSE 0
      BY <1>5, <1>6, <2>1, <2>2, <2>3
    <3>3. (IF Wants("-out") THEN file = TheForm
           ELSE file = Untouched /\ stdout = TheForm + IF Wants("-hex") THEN 1 ELSE 0)'
      BY <1>4, <3>2
    <3>4. (Wants("-out") \/ file = Untouched)'
      BY <1>4, <3>2
    <3> QED BY <3>1, <3>3, <3>4 DEF WholeOutput, TheForm
  <2>6. file' \in {Untouched} \cup (0 .. IntMax) /\ stdout' \in 0 .. IntMax + 1
    BY <1>5, <1>6, <2>1, <2>2
  <2> QED BY <1>3, <2>1, <2>2, <2>4, <2>5, <2>6, Ends
<1>17. CASE WriteIsLost
  <2>1. /\ randPc = "write" /\ randPc' = "done" /\ trouble' = TRUE /\ UNCHANGED <<randRet, size, generated>>
        /\ \E n \in 0 .. size : IF outFile # None THEN file' = n /\ UNCHANGED stdout
                                ELSE stdout' = n /\ UNCHANGED file
    BY <1>17 DEF WriteIsLost
  <2>2. /\ generated = TheCount /\ stdout = 0 /\ randRet = Success /\ file \in {Untouched, 0}
        /\ outFile = None => file = Untouched
    BY <1>2, <2>1 DEF Produced, AllRead
  <2>3. \A n \in 0 .. size : n \in 0 .. IntMax /\ n \in 0 .. IntMax + 1
    BY <1>2, <1>6
  <2>4. /\ file' \in {Untouched} \cup (0 .. IntMax) /\ stdout' \in 0 .. IntMax + 1
        /\ outFile # None => stdout' = 0
        /\ outFile = None => file' = Untouched
    BY <1>6, <2>1, <2>2, <2>3
  <2>5. NoLeak' /\ NotTruncated' /\ Decides'
    BY <1>4, <1>6, <2>1, <2>4 DEF NoLeak, NotTruncated, Decides
  <2>6. WholeOutput'
    BY <1>4, <1>6, <2>1, <2>2, <2>4 DEF WholeOutput
  <2> QED BY <1>3, <2>1, <2>2, <2>4, <2>5, <2>6, Ends
<1> QED BY <1>9, <1>10, <1>11, <1>12, <1>14, <1>15, <1>16, <1>17

LEMMA RandStarts ==
  ASSUME NEW l \in Lines, RandStart(l)
  PROVE  RandInv
<1>1. IsLine(argv) /\ argv = l
  BY RandAssumption DEF RandStart
<1>2. RandTypeOK
  <2>1. Len(argv) \in Nat /\ Len(argv) >= 2 /\ argv \in Seq(STRING) /\ IntMax \in Nat
    BY <1>1, LineFacts, RandAssumption
  <2>2. scan \in [i : 3 .. Len(argv) + 1, skipNext : BOOLEAN,
                 seen : SUBSET OptionNames, countIdx : 0 .. Len(argv)]
    BY <2>1 DEF RandStart
  <2>3. size \in 0 .. IntMax /\ generated \in 0 .. IntMax /\ stdout \in 0 .. IntMax + 1
    BY <2>1 DEF RandStart
  <2>4. optind \in 0 .. Len(rand_options) /\ file \in {Untouched} \cup (0 .. IntMax)
    BY Options DEF RandStart
  <2>5. /\ randRet \in {Success, FatalError} /\ randPc = "start" /\ outFile = None /\ flags = {}
        /\ trouble \in BOOLEAN
    BY DEF RandStart
  <2> QED BY <2>1, <2>2, <2>3, <2>4, <2>5 DEF RandTypeOK
<1>3. NotTruncated /\ NoLeak /\ Decides /\ WholeOutput
  BY DEF RandStart, NotTruncated, NoLeak, Decides, WholeOutput
<1> QED BY <1>1, <1>2, <1>3 DEF RandInv, RandStart, Fresh

LEMMA RandSteps ==
  ASSUME RandInv, [RandNext]_randVars
  PROVE  RandInv'
<1>1. CASE UNCHANGED randVars
  <2>1. RandTypeOK' /\ IsLine(argv)' /\ NoLeak' /\ WholeOutput' /\ Decides' /\ NotTruncated'
    BY <1>1, SameLine DEF randVars, RandInv, RandTypeOK, NoLeak, WholeOutput, Decides, NotTruncated, TheForm
  <2>2. (OptionsRead => OptionsRead') /\ (Fresh => Fresh') /\ (AllRead => AllRead')
    BY <1>1, SameLine DEF randVars, OptionsRead, Fresh, AllRead
  <2>3. (Rescanned => Rescanned') /\ (Produced => Produced') /\ (Valid => Valid')
    BY <1>1, SameLine DEF randVars, Rescanned, Produced
  <2> QED BY <1>1, <2>1, <2>2, <2>3 DEF randVars, RandInv
<1>2. CASE RandEnded
  <2>1. RandTypeOK' /\ IsLine(argv)' /\ NoLeak' /\ WholeOutput' /\ Decides' /\ NotTruncated' /\ randPc' = "done"
    BY <1>2, SameLine DEF RandEnded, randVars, RandInv, RandTypeOK, NoLeak, WholeOutput, Decides,
                          NotTruncated, TheForm
  <2> QED BY <2>1 DEF RandInv
<1> QED BY <1>1, <1>2, HelpAsked, OptionTurn, ScanTurn, ScanEnds, CountTaken, BytesOut DEF RandNext

LEMMA RandInvariance == RandSpec => []RandInv
<1>1. RandInit => RandInv
  BY RandStarts DEF RandInit
<1> QED BY <1>1, RandSteps, PTL DEF RandSpec

-----------------------------------------------------------------------------
(* number: the value the loop keeps is the number the digits denote, until *)
(* the number passes the bound, and it never comes back.                   *)

(* The value is the number unless the number is over the bound.            *)
Follows == IF over THEN number > maxVal ELSE val = number /\ val <= maxVal

(* Everything read so far is a digit, and nothing read denotes zero.       *)
Prefix == /\ \A i \in 1 .. p : str[i] \in Digit
          /\ out = Unset \/ result = Success

DecimalInv == DecimalTypeOK /\ Follows /\ Prefix /\ DecimalCorrect

(* What a digit does to the bound: the test before the multiplication says *)
(* exactly whether the multiplication would pass the bound.                *)
LEMMA BoundTest ==
  ASSUME NEW m \in Nat, NEW v \in Nat, NEW d \in Digit
  PROVE  (m < d \/ v > (m - d) \div 10) <=> 10 * v + d > m
  BY DEF Digit

LEMMA DecimalInvariance == DecimalSpec => []DecimalInv
<1> USE DecimalAssumption DEF DecimalTypeOK, Follows, Prefix, DecimalCorrect
<1>1. DecimalInit => DecimalInv
  <2> SUFFICES ASSUME DecimalInit PROVE DecimalInv
    OBVIOUS
  <2> USE DEF DecimalStart
  <2>1. PICK s \in Strings, b \in Bounds : DecimalStart(s, b)
    BY DEF DecimalInit
  <2>2. b \in Nat \X Nat /\ b[2] <= LongMax
    OBVIOUS
  <2>3. minVal \in Nat /\ maxVal \in 0 .. LongMax
    BY <2>1, <2>2
  <2>4. str \in Seq(Digit \cup {Other}) /\ Len(str) \in Nat
    BY <2>1
  <2>5. DecimalTypeOK
    <3>1. LongMax \in Nat
      OBVIOUS
    <3>2. p \in 0 .. Len(str) /\ val \in 0 .. LongMax /\ number \in Nat
      BY <2>1, <2>4, <3>1
    <3>3. result \in {Unfinished, Success, FatalError} /\ over \in BOOLEAN
      BY <2>1
    <3>4. out \in {Unset} \cup 0 .. LongMax
      BY <2>1
    <3> QED
      BY <2>1, <2>3, <3>2, <3>3, <3>4
  <2>6. Follows /\ Prefix
    BY <2>1, <2>3
  <2>7. DecimalCorrect
    BY <2>1 DEF Unfinished, Success, FatalError
  <2> QED
    BY <2>5, <2>6, <2>7 DEF DecimalInv
<1>2. DecimalInv /\ [DecimalNext]_decimalVars => DecimalInv'
  <2> SUFFICES ASSUME DecimalInv, [DecimalNext]_decimalVars PROVE DecimalInv'
    OBVIOUS
  <2> USE DEF DecimalInv, Unfinished, Success, FatalError, Unset
  <2>0. /\ str \in Seq(Digit \cup {Other}) /\ Len(str) \in Nat
        /\ val \in Nat /\ maxVal \in Nat /\ LongMax \in Nat
    OBVIOUS
  <2>1. CASE ReadDigit
    <3> DEFINE d == str[p + 1]
    <3>1. d \in Digit /\ number' = 10 * number + d /\ p' = p + 1 /\ d \in Nat
      BY <2>1 DEF ReadDigit, Digit
    <3>2. TooBig(d) <=> 10 * val + d > maxVal
      BY <2>0, <3>1, BoundTest DEF TooBig
    <3>3. CASE over \/ TooBig(d)
      <4>1. number' > maxVal /\ over' = TRUE /\ val' = val
        BY <2>0, <2>1, <3>1, <3>2, <3>3 DEF ReadDigit, Digit
      <4> QED
        BY <2>0, <2>1, <3>1, <4>1 DEF ReadDigit
    <3>4. CASE ~(over \/ TooBig(d))
      <4>1. /\ val' = number' /\ over' = FALSE
            /\ val' <= maxVal /\ val' \in 0 .. LongMax
        <5>1. val' = 10 * val + d /\ over' = FALSE /\ val = number
          BY <2>1, <3>4 DEF ReadDigit
        <5>2. 10 * val + d <= maxVal /\ 10 * val + d \in Nat
          BY <2>0, <3>1, <3>2, <3>4
        <5> HIDE DEF d
        <5> QED
          BY <2>0, <3>1, <5>1, <5>2
      <4> QED
        BY <2>0, <2>1, <3>1, <4>1 DEF ReadDigit
    <3> QED
      BY <3>3, <3>4
  <2>2. CASE ReadOther
    BY <2>0, <2>2 DEF ReadOther, Digit, Other
  <2>3. CASE Finish
    <3>1. p = 0 <=> str = << >>
      BY <2>0, <2>3 DEF Finish
    <3> QED
      BY <2>0, <2>3, <3>1 DEF Finish
  <2>4. CASE DecimalEnded \/ UNCHANGED decimalVars
    BY <2>4 DEF DecimalEnded, decimalVars
  <2> QED
    BY <2>1, <2>2, <2>3, <2>4 DEF DecimalNext
<1> QED
  BY <1>1, <1>2, PTL DEF DecimalSpec

-----------------------------------------------------------------------------
(* dhparam: how far the writing has come, at every place of it.            *)

(* A length takes one to four bytes.                                       *)
LEMMA LengthSize == ASSUME NEW n \in Nat PROVE SetLength(n) \in 1 .. 4
  BY DEF SetLength

(* An integer takes its bytes, and two to six more.                        *)
LEMMA IntSize ==
  ASSUME NEW n \in [len : Nat, lead : BOOLEAN]
  PROVE  SetASNIntMP(n) \in Nat /\ SetASNIntMP(n) >= n.len + 2 /\ SetASNIntMP(n) <= n.len + 6
<1>1. CASE n.lead
  <2>1. SetLength(n.len + 1) \in 1 .. 4 BY LengthSize
  <2> QED BY <1>1, <2>1 DEF SetASNIntMP, SetASNInt
<1>2. CASE ~n.lead
  <2>1. n.len + 0 \in Nat BY SMT
  <2>2. SetLength(n.len + 0) \in 1 .. 4 BY <2>1, LengthSize
  <2> QED BY <1>2, <2>2 DEF SetASNIntMP, SetASNInt
<1> QED BY <1>1, <1>2

Numeric == prime \in DerNumbers /\ generator \in DerNumbers /\ secret \in DerNumbers

(* The sums of the first pass, and between what bounds they lie.           *)
LEMMA Sums ==
  ASSUME Numeric
  PROVE  /\ SetASNIntMP(prime) \in Nat /\ SetASNIntMP(generator) \in Nat
         /\ ParamsBody \in Nat /\ ParamsBody = SetASNIntMP(generator) + SetASNIntMP(prime)
         /\ ParamsSize \in Nat /\ ParamsSize = ParamsBody + SetSequence(ParamsBody)
         /\ PrivSize \in Nat /\ KeySize \in Nat /\ KeySize = SetOctetString(PrivSize) + PrivSize
         /\ InfoBody \in Nat /\ KeyBody \in Nat /\ KeyTotal \in Nat
         /\ SetSequence(ParamsBody) \in Nat /\ SetSequence(InfoBody) \in Nat
         /\ SetSequence(KeyBody) \in Nat /\ SetOctetString(PrivSize) \in Nat
         /\ SetObjectId \in Nat /\ InfoBody = ParamsSize + SetObjectId + OidSize
         /\ ParamsSize >= prime.len + 6 /\ KeyTotal <= ParamsSize + secret.len + 35
<1>1. prime \in [len : Nat, lead : BOOLEAN] /\ generator \in [len : Nat, lead : BOOLEAN]
      /\ secret \in [len : Nat, lead : BOOLEAN]
  BY DerNumbersAssumption DEF Numeric
<1>2. /\ SetASNIntMP(prime) \in Nat /\ SetASNIntMP(prime) >= prime.len + 2
      /\ SetASNIntMP(generator) \in Nat /\ SetASNIntMP(generator) >= 2
      /\ SetASNIntMP(secret) \in Nat /\ SetASNIntMP(secret) <= secret.len + 6
      /\ prime.len \in Nat /\ secret.len \in Nat /\ generator.len \in Nat
  BY <1>1, IntSize
<1>3. ParamsBody \in Nat /\ ParamsBody = SetASNIntMP(generator) + SetASNIntMP(prime)
      /\ ParamsBody >= prime.len + 4
  BY <1>2 DEF ParamsBody
<1>4. SetLength(ParamsBody) \in 1 .. 4 BY <1>3, LengthSize
<1>5. ParamsSize \in Nat /\ ParamsSize = ParamsBody + SetSequence(ParamsBody)
      /\ ParamsSize >= prime.len + 6 /\ SetSequence(ParamsBody) \in Nat
  BY <1>2, <1>3, <1>4 DEF ParamsSize, SetSequence
<1>6. PrivSize \in Nat /\ PrivSize <= secret.len + 6 BY <1>2 DEF PrivSize
<1>7. SetLength(PrivSize) \in 1 .. 4 BY <1>6, LengthSize
<1>8. /\ KeySize \in Nat /\ KeySize <= secret.len + 11 /\ SetOctetString(PrivSize) \in Nat
      /\ KeySize = SetOctetString(PrivSize) + PrivSize
  BY <1>2, <1>6, <1>7 DEF KeySize, SetOctetString
<1>9. SetObjectId = 2 BY DEF SetObjectId, SetLength, OidSize
<1>10. InfoBody \in Nat /\ InfoBody = ParamsSize + 11 BY <1>5, <1>9 DEF InfoBody, OidSize
<1>11. SetLength(InfoBody) \in 1 .. 4 BY <1>10, LengthSize
<1>12. SetSequence(InfoBody) \in 2 .. 5 BY <1>11 DEF SetSequence
<1>13. KeyBody \in Nat /\ KeyBody <= ParamsSize + secret.len + 30
  BY <1>2, <1>5, <1>8, <1>10, <1>12 DEF KeyBody, VersionSize
<1>14. SetLength(KeyBody) \in 1 .. 4 BY <1>13, LengthSize
<1>15. SetSequence(KeyBody) \in 2 .. 5 BY <1>14 DEF SetSequence
<1>16. KeyTotal \in Nat /\ KeyTotal <= ParamsSize + secret.len + 35
  BY <1>2, <1>5, <1>13, <1>15 DEF KeyTotal
<1> QED BY <1>2, <1>3, <1>5, <1>6, <1>8, <1>9, <1>10, <1>12, <1>13, <1>15, <1>16
        DEF OidSize

\* How far the writing has come, with every pc, and what is declared to end where.
InKey == {"outer", "version", "info", "oid", "kparams", "kp", "kg", "octets", "x", "done"}

AfterInfo == SetSequence(KeyBody) + VersionSize + SetSequence(InfoBody)
AfterOid == AfterInfo + SetObjectId + OidSize
AfterParams == AfterOid + ParamsSize

Places ==
  /\ derPc \in {"params", "p", "g", "made"} => derCap = ParamsSize
  /\ derPc \in {"size", "params", "outer"} => derIdx = 0
  /\ derPc = "p" => derIdx = SetSequence(ParamsBody) /\ derEnds.params = ParamsSize
  /\ derPc = "g" => derIdx = SetSequence(ParamsBody) + SetASNIntMP(prime) /\ derEnds.params = ParamsSize
  /\ derPc = "made" => derIdx = ParamsSize /\ derEnds.params = ParamsSize
  /\ derPc \in InKey => derCap >= KeyTotal
  /\ derPc \in InKey \ {"outer"} => derEnds.outer = KeyTotal
  /\ derPc = "version" => derIdx = SetSequence(KeyBody)
  /\ derPc = "info" => derIdx = SetSequence(KeyBody) + VersionSize
  /\ derPc = "oid" => derIdx = AfterInfo
  /\ derPc \in {"oid", "kparams", "kp", "kg", "octets"} => derEnds.info = AfterParams
  /\ derPc = "kparams" => derIdx = AfterOid
  /\ derPc = "kp" => derIdx = AfterOid + SetSequence(ParamsBody)
  /\ derPc = "kg" => derIdx = AfterOid + SetSequence(ParamsBody) + SetASNIntMP(prime)
  /\ derPc \in {"kp", "kg", "octets"} => derEnds.params = AfterParams
  /\ derPc = "octets" => derIdx = AfterParams
  /\ derPc = "x" => derIdx = AfterParams + SetOctetString(PrivSize)
  /\ derPc \in {"x", "done"} => derEnds.octets = KeyTotal
  /\ derPc = "done" => derIdx = KeyTotal
  /\ derPc = "refused" => derIdx <= derCap /\ secret.len + 24 > prime.len

DerInv == DerTypeOK /\ Places

(* What the first pass adds up to, from the places of the second.          *)
LEMMA Whole ==
  ASSUME Numeric
  PROVE  /\ KeyTotal = AfterParams + KeySize
         /\ KeyTotal = SetSequence(KeyBody) + KeyBody
         /\ AfterInfo + InfoBody = AfterParams
         /\ AfterInfo \in Nat /\ AfterOid \in Nat /\ AfterParams \in Nat
  BY Sums DEF KeyTotal, KeyBody, AfterParams, AfterOid, AfterInfo, VersionSize, OidSize

\* The numbers stay what they are, and every sum with them.
Sums_ == <<ParamsBody, ParamsSize, PrivSize, KeySize, InfoBody, KeyBody, KeyTotal,
           AfterInfo, AfterOid, AfterParams, SetASNIntMP(prime), SetASNIntMP(generator), SetASNIntMP(secret)>>

LEMMA SumsStay == ASSUME UNCHANGED <<prime, generator, secret>> PROVE UNCHANGED Sums_
<1>1. SetASNIntMP(prime)' = SetASNIntMP(prime) /\ SetASNIntMP(generator)' = SetASNIntMP(generator)
      /\ SetASNIntMP(secret)' = SetASNIntMP(secret)
  BY DEF SetASNIntMP, SetASNInt, SetLength
<1>2. ParamsBody' = ParamsBody /\ PrivSize' = PrivSize BY <1>1 DEF ParamsBody, PrivSize
<1>3. ParamsSize' = ParamsSize BY <1>2 DEF ParamsSize, SetSequence, SetLength
<1>4. KeySize' = KeySize BY <1>2 DEF KeySize, SetLength
<1>5. InfoBody' = InfoBody BY <1>3 DEF InfoBody, SetObjectId, SetLength, OidSize
<1>6. KeyBody' = KeyBody BY <1>4, <1>5 DEF KeyBody, SetSequence, SetLength, VersionSize
<1>7. KeyTotal' = KeyTotal BY <1>6 DEF KeyTotal, SetSequence, SetLength
<1>8. AfterInfo' = AfterInfo BY <1>5, <1>6 DEF AfterInfo, SetSequence, SetLength, VersionSize
<1>9. AfterOid' = AfterOid BY <1>8 DEF AfterOid, SetObjectId, SetLength, OidSize
<1>10. AfterParams' = AfterParams BY <1>3, <1>9 DEF AfterParams
<1> QED BY <1>1, <1>2, <1>3, <1>4, <1>5, <1>6, <1>7, <1>8, <1>9, <1>10 DEF Sums_

LEMMA DerStarts == DerInit => DerInv
  BY DEF DerInit, DerStart, DerInv, DerTypeOK, Places, NoEnds, DerPcs, InKey

LEMMA DerSteps == ASSUME DerInv, [DerNext]_derVars PROVE DerInv'
<1> Numeric BY DEF DerInv, DerTypeOK, Numeric
<1>1. UNCHANGED <<prime, generator, secret>>
  BY DEF DerNext, derVars, ParamsBuffer, ParamsSequence, ParamsP, ParamsG, KeyBuffer, KeySequence,
         KeyVersion, KeyInfo, KeyOid, KeyParams, KeyP, KeyG, KeyOctets, KeyX, DerBegin, DerWrite, DerStep,
         DerEnded
<1>2. UNCHANGED Sums_ BY <1>1, SumsStay
<1>3. /\ SetSequence(ParamsBody)' = SetSequence(ParamsBody)
      /\ SetSequence(KeyBody)' = SetSequence(KeyBody)
      /\ SetOctetString(PrivSize)' = SetOctetString(PrivSize)
  BY <1>2 DEF Sums_, SetSequence, SetOctetString, SetLength
<1> DEFINE Stay ==
      /\ ParamsBody' = ParamsBody /\ ParamsSize' = ParamsSize /\ KeyTotal' = KeyTotal
      /\ AfterInfo' = AfterInfo /\ AfterOid' = AfterOid /\ AfterParams' = AfterParams
      /\ SetASNIntMP(prime)' = SetASNIntMP(prime)
      /\ prime' = prime /\ generator' = generator /\ secret' = secret
<1>4. Stay BY <1>1, <1>2 DEF Sums_
<1>s. /\ SetASNIntMP(prime) \in Nat /\ SetASNIntMP(generator) \in Nat
      /\ ParamsBody \in Nat /\ ParamsBody = SetASNIntMP(generator) + SetASNIntMP(prime)
      /\ ParamsSize \in Nat /\ ParamsSize = ParamsBody + SetSequence(ParamsBody)
      /\ PrivSize \in Nat /\ KeySize \in Nat /\ KeySize = SetOctetString(PrivSize) + PrivSize
      /\ InfoBody \in Nat /\ KeyBody \in Nat /\ KeyTotal \in Nat
      /\ SetSequence(ParamsBody) \in Nat /\ SetSequence(InfoBody) \in Nat
      /\ SetSequence(KeyBody) \in Nat /\ SetOctetString(PrivSize) \in Nat
      /\ SetObjectId \in Nat /\ ParamsSize >= prime.len + 6 /\ KeyTotal <= ParamsSize + secret.len + 35
      /\ KeyTotal = AfterParams + KeySize /\ KeyTotal = SetSequence(KeyBody) + KeyBody
      /\ AfterInfo + InfoBody = AfterParams
      /\ AfterInfo \in Nat /\ AfterOid \in Nat /\ AfterParams \in Nat
  BY Sums, Whole
<1>t. /\ AfterParams = AfterOid + SetSequence(ParamsBody) + SetASNIntMP(prime) + SetASNIntMP(generator)
      /\ AfterParams = AfterOid + ParamsSize
      /\ AfterOid = AfterInfo + SetObjectId + OidSize /\ OidSize \in Nat
      /\ AfterInfo = SetSequence(KeyBody) + VersionSize + SetSequence(InfoBody)
      /\ PrivSize = SetASNIntMP(secret)
  BY <1>s DEF AfterParams, AfterOid, AfterInfo, PrivSize, OidSize, VersionSize
<1>n. prime.len \in Nat /\ secret.len \in Nat BY DerNumbersAssumption DEF Numeric
<1> HIDE DEF Stay
<1>d. DerTypeOK /\ Places BY DEF DerInv
<1>5. CASE ParamsBuffer
  <2>1. DerTypeOK' BY <1>5, <1>d, <1>s, <1>t, <1>1 DEF ParamsBuffer, DerStep, NoEnds, DerTypeOK, DerPcs
  <2>2. Places' BY <1>5, <1>d, <1>s, <1>t, <1>n, <1>3, <1>4 DEF ParamsBuffer, DerStep, NoEnds, Places, DerTypeOK, InKey, Stay
  <2> QED BY <2>1, <2>2 DEF DerInv
<1>6. CASE ParamsSequence
  <2>1. DerTypeOK' BY <1>6, <1>d, <1>s, <1>t, <1>1 DEF ParamsSequence, DerBegin, DerStep, DerTypeOK, DerPcs
  <2>2. Places' BY <1>6, <1>d, <1>s, <1>t, <1>n, <1>3, <1>4 DEF ParamsSequence, DerBegin, DerStep, Places, DerTypeOK, InKey, Stay
  <2> QED BY <2>1, <2>2 DEF DerInv
<1>7. CASE ParamsP
  <2>1. DerTypeOK' BY <1>7, <1>d, <1>s, <1>t, <1>1 DEF ParamsP, DerWrite, DerStep, DerTypeOK, DerPcs
  <2>2. Places' BY <1>7, <1>d, <1>s, <1>t, <1>n, <1>3, <1>4 DEF ParamsP, DerWrite, DerStep, Places, DerTypeOK, InKey, Stay
  <2> QED BY <2>1, <2>2 DEF DerInv
<1>8. CASE ParamsG
  <2>1. DerTypeOK' BY <1>8, <1>d, <1>s, <1>t, <1>1 DEF ParamsG, DerWrite, DerStep, DerTypeOK, DerPcs
  <2>2. Places' BY <1>8, <1>d, <1>s, <1>t, <1>n, <1>3, <1>4 DEF ParamsG, DerWrite, DerStep, Places, DerTypeOK, InKey, Stay
  <2> QED BY <2>1, <2>2 DEF DerInv
<1>9. CASE KeyBuffer
  <2>1. DerTypeOK' BY <1>9, <1>d, <1>s, <1>t, <1>1 DEF KeyBuffer, NoEnds, DerTypeOK, DerPcs
  <2>2. Places' BY <1>9, <1>d, <1>s, <1>t, <1>n, <1>3, <1>4 DEF KeyBuffer, NoEnds, Places, DerTypeOK, InKey, Stay
  <2> QED BY <2>1, <2>2 DEF DerInv
<1>10. CASE KeySequence
  <2>1. DerTypeOK' BY <1>10, <1>d, <1>s, <1>t, <1>1 DEF KeySequence, DerBegin, DerStep, DerTypeOK, DerPcs
  <2>2. Places' BY <1>10, <1>d, <1>s, <1>t, <1>n, <1>3, <1>4 DEF KeySequence, DerBegin, DerStep, Places, DerTypeOK, InKey, Stay
  <2> QED BY <2>1, <2>2 DEF DerInv
<1>11. CASE KeyVersion
  <2>1. DerTypeOK' BY <1>11, <1>d, <1>s, <1>t, <1>1 DEF KeyVersion, DerWrite, DerStep, VersionSize, DerTypeOK, DerPcs
  <2>2. Places' BY <1>11, <1>d, <1>s, <1>t, <1>n, <1>3, <1>4 DEF KeyVersion, DerWrite, DerStep, VersionSize, Places, DerTypeOK, InKey, Stay
  <2> QED BY <2>1, <2>2 DEF DerInv
<1>12. CASE KeyInfo
  <2>1. DerTypeOK' BY <1>12, <1>d, <1>s, <1>t, <1>1 DEF KeyInfo, DerBegin, DerStep, DerTypeOK, DerPcs
  <2>2. Places' BY <1>12, <1>d, <1>s, <1>t, <1>n, <1>3, <1>4 DEF KeyInfo, DerBegin, DerStep, Places, DerTypeOK, InKey, Stay
  <2> QED BY <2>1, <2>2 DEF DerInv
<1>13. CASE KeyOid
  <2>1. DerTypeOK' BY <1>13, <1>d, <1>s, <1>t, <1>1 DEF KeyOid, DerWrite, DerStep, OidSize, DerTypeOK, DerPcs
  <2>2. Places' BY <1>13, <1>d, <1>s, <1>t, <1>n, <1>3, <1>4 DEF KeyOid, DerWrite, DerStep, OidSize, Places, DerTypeOK, InKey, Stay
  <2> QED BY <2>1, <2>2 DEF DerInv
<1>14. CASE KeyParams
  <2>1. DerTypeOK' BY <1>14, <1>d, <1>s, <1>t, <1>1 DEF KeyParams, DerBegin, DerStep, DerTypeOK, DerPcs
  <2>2. Places' BY <1>14, <1>d, <1>s, <1>t, <1>n, <1>3, <1>4 DEF KeyParams, DerBegin, DerStep, Places, DerTypeOK, InKey, Stay
  <2> QED BY <2>1, <2>2 DEF DerInv
<1>15. CASE KeyP
  <2>1. DerTypeOK' BY <1>15, <1>d, <1>s, <1>t, <1>1 DEF KeyP, DerWrite, DerStep, DerTypeOK, DerPcs
  <2>2. Places' BY <1>15, <1>d, <1>s, <1>t, <1>n, <1>3, <1>4 DEF KeyP, DerWrite, DerStep, Places, DerTypeOK, InKey, Stay
  <2> QED BY <2>1, <2>2 DEF DerInv
<1>16. CASE KeyG
  <2>1. DerTypeOK' BY <1>16, <1>d, <1>s, <1>t, <1>1 DEF KeyG, DerWrite, DerStep, DerTypeOK, DerPcs
  <2>2. Places' BY <1>16, <1>d, <1>s, <1>t, <1>n, <1>3, <1>4 DEF KeyG, DerWrite, DerStep, Places, DerTypeOK, InKey, Stay
  <2> QED BY <2>1, <2>2 DEF DerInv
<1>17. CASE KeyOctets
  <2>1. DerTypeOK' BY <1>17, <1>d, <1>s, <1>t, <1>1 DEF KeyOctets, DerBegin, DerStep, DerTypeOK, DerPcs
  <2>2. Places' BY <1>17, <1>d, <1>s, <1>t, <1>n, <1>3, <1>4 DEF KeyOctets, DerBegin, DerStep, Places, DerTypeOK, InKey, Stay
  <2> QED BY <2>1, <2>2 DEF DerInv
<1>18. CASE KeyX
  <2>1. DerTypeOK' BY <1>18, <1>d, <1>s, <1>t, <1>1 DEF KeyX, DerWrite, DerStep, DerTypeOK, DerPcs
  <2>2. Places' BY <1>18, <1>d, <1>s, <1>t, <1>n, <1>3, <1>4 DEF KeyX, DerWrite, DerStep, Places, DerTypeOK, InKey, Stay
  <2> QED BY <2>1, <2>2 DEF DerInv
<1>19. CASE DerEnded \/ UNCHANGED derVars
  <2>1. DerTypeOK' BY <1>19, <1>d DEF DerEnded, derVars, DerTypeOK
  <2>2. Places' BY <1>19, <1>d, <1>3, <1>4 DEF DerEnded, derVars, Places, Stay
  <2> QED BY <2>1, <2>2 DEF DerInv
<1> QED BY <1>5, <1>6, <1>7, <1>8, <1>9, <1>10, <1>11, <1>12, <1>13, <1>14, <1>15, <1>16,
           <1>17, <1>18, <1>19 DEF DerNext

LEMMA DerInvariance == DerSpec => []DerInv
  BY DerStarts, DerSteps, PTL DEF DerSpec

(* Whatever their lengths, no byte is written past the buffer, and a key   *)
(* of which x is 24 bytes shorter than p is never refused.                 *)
THEOREM BuffersAreLarge == DerSpec => []BuffersSuffice
<1>1. ASSUME DerInv PROVE derIdx <= derCap
  <2>1. Numeric BY <1>1 DEF DerInv, DerTypeOK, Numeric
  <2>2. derCap \in Nat /\ derPc \in DerPcs /\ Places BY <1>1 DEF DerInv, DerTypeOK
  <2>3. CASE derPc \in {"size", "params", "outer", "refused"}
    BY <2>2, <2>3 DEF Places
  <2>4. CASE derPc \in {"p", "g", "made"}
    BY <2>1, <2>2, <2>4, Sums DEF Places
  <2>5. CASE derPc \in InKey \ {"outer"}
    <3>1. derIdx <= KeyTotal
      <4>1. CASE derPc \in {"version", "info", "oid", "kparams"}
        BY <2>1, <2>2, <4>1, Sums, Whole DEF Places, AfterOid, AfterParams, AfterInfo, VersionSize, OidSize
      <4>2. CASE derPc \in {"kp", "kg", "octets"}
        BY <2>1, <2>2, <4>2, Sums, Whole DEF Places, AfterParams
      <4>3. CASE derPc \in {"x", "done"}
        BY <2>1, <2>2, <4>3, Sums, Whole DEF Places
      <4> QED BY <2>5, <4>1, <4>2, <4>3 DEF InKey
    <3>2. derIdx \in Nat /\ KeyTotal \in Nat /\ derCap >= KeyTotal
      BY <1>1, <2>1, <2>2, <2>5, Sums DEF DerInv, DerTypeOK, Places
    <3> QED BY <1>1, <2>2, <3>1, <3>2 DEF DerInv, DerTypeOK
  <2> QED BY <2>2, <2>3, <2>4, <2>5 DEF DerPcs, InKey
<1>2. ASSUME DerInv PROVE BuffersSuffice
  BY <1>1, <1>2 DEF DerInv, Places, BuffersSuffice
<1> QED BY <1>2, DerInvariance, PTL

(* Whatever their lengths, what is declared to end somewhere ends there.   *)
THEOREM LengthsMatch == DerSpec => []LengthsAreTrue
<1>1. ASSUME DerInv PROVE LengthsAreTrue
  BY <1>1 DEF DerInv, Places, LengthsAreTrue, InKey
<1> QED BY <1>1, DerInvariance, PTL

(* Both: what is written is what was measured, and fits.                   *)
THEOREM MeasuredAndWritten == DerSpec => []WritesWhatItMeasured
<1>1. BuffersSuffice /\ LengthsAreTrue => WritesWhatItMeasured
  BY DEF WritesWhatItMeasured
<1> QED BY <1>1, BuffersAreLarge, LengthsMatch, PTL

-----------------------------------------------------------------------------
(* ocsp: what a client is told, from the files that it and a responder read.*)

ClientPcs == {"cert", "issuer", "CAfile", "check"}
ResponderPcs == {"ca", "rsigner", "rkey", "index", "addSigner", "listen", "serve"}

\* What a process has read is what it would read now, but for an index that was revised since.
Kept(i) ==
  /\ memory[i].cert = None \/ memory[i].cert = Der(Arg(i, "-cert"), "cert")
  /\ memory[i].issuer = None \/ memory[i].issuer = LoadCA(Arg(i, "-issuer"))
  /\ \/ memory[i].CAfile = None
     \/ memory[i].CAfile = IF Arg(i, "-CAfile") = None THEN {} ELSE LoadCA(Arg(i, "-CAfile"))
  /\ memory[i].ca = None \/ memory[i].ca = Der(Arg(i, "-CA"), "cert")
  /\ memory[i].rsigner = None \/ memory[i].rsigner = Der(Arg(i, "-rsigner"), "cert")
  /\ memory[i].rkey = None \/ memory[i].rkey = Der(Arg(i, "-rkey"), "key")
  /\ \/ memory[i].index = None \/ memory[i].index = << >>
     \/ /\ Arg(i, "-index") = "index"
        /\ memory[i].index = OcspDisk["index"] \/ memory[i].index = indexFile

HasRead(i, names) == \A name \in names : memory[i][name] # None
MaySign(i) == CanSign(memory[i].rsigner, memory[i].rkey, IssuerDer(memory[i].rsigner, memory[i].ca))

ReadToAsk == {"cert", "issuer", "CAfile"}
ReadToServe == {"ca", "rsigner", "rkey", "index"}

Staged(i) ==
  /\ ocspPc[i] \in ClientPcs => IsClient(i) /\ ~IsResponder(i)
  /\ ocspPc[i] \in ResponderPcs => IsResponder(i) /\ ~IsClient(i)
  /\ ocspPc[i] \in ClientPcs \cup ResponderPcs => ~OcspHelp(i) /\ ~OcspRefuses(i)
  /\ ocspPc[i] # "over" => ocspRet[i] = None /\ verdict[i] = None /\ asked[i] = None
  /\ ocspPc[i] = "issuer" => HasRead(i, {"cert"})
  /\ ocspPc[i] = "CAfile" => HasRead(i, {"cert", "issuer"})
  /\ ocspPc[i] = "check" => HasRead(i, ReadToAsk)
  /\ ocspPc[i] = "rsigner" => HasRead(i, {"ca"})
  /\ ocspPc[i] = "rkey" => HasRead(i, {"ca", "rsigner"})
  /\ ocspPc[i] = "index" => HasRead(i, {"ca", "rsigner", "rkey"})
  /\ ocspPc[i] \in {"addSigner", "listen", "serve"} => HasRead(i, ReadToServe) /\ IsCert(memory[i].ca)
  /\ ocspPc[i] \in {"listen", "serve"} => MaySign(i)

\* What a client was told is what the files in both memories make of it.
ToldBy(i) ==
  \A j \in OcspProcs : asked[i] = j =>
    /\ ocspPc[i] = "over" /\ ocspPc[j] \in {"serve", "over"}
    /\ HasRead(i, ReadToAsk) /\ HasRead(j, ReadToServe) /\ MaySign(j)
    /\ verdict[i] = IF Believes(i, memory[j].rsigner.of)
                    THEN Told(Answer(j, memory[i].cert.of)) ELSE "failed"

Unasked(i) == asked[i] = None /\ verdict[i] \in {"good", "revoked"} => Url(i) = None

Succeeds(i) == (ocspRet[i] = Success /\ IsClient(i) /\ ~OcspHelp(i)) <=> verdict[i] \in {"good", "revoked"}

Excused(i) ==
  ocspRet[i] = FatalError /\ IsResponder(i) /\ i \notin ocspTrouble =>
    \/ OcspRefuses(i) \/ IsClient(i) \/ ~FilesFit(i)
    \/ \E j \in OcspProcs \ {i} : Arg(j, "-port") = Arg(i, "-port")

OcspInv ==
  /\ OcspTypeOK /\ ocspLine \in OcspSessions
  /\ memory = [i \in OcspProcs |-> [name \in DOMAIN After |-> memory[i][name]]]
  /\ \A i \in OcspProcs : Kept(i) /\ Staged(i) /\ ToldBy(i) /\ Unasked(i) /\ Succeeds(i) /\ Excused(i)

LEMMA ReadingOrder ==
  /\ DOMAIN After = {"cert", "issuer", "CAfile", "ca", "rsigner", "rkey", "index"}
  /\ After["cert"] = "issuer" /\ After["issuer"] = "CAfile" /\ After["CAfile"] = "check"
  /\ After["ca"] = "rsigner" /\ After["rsigner"] = "rkey" /\ After["rkey"] = "index"
  /\ After["index"] = "addSigner"
  BY DEF After

\* The line decides what the options say, and the files do not change but for the index.
LEMMA SameOptions ==
  ASSUME ocspLine' = ocspLine, NEW i
  PROVE  /\ \A o : Arg(i, o)' = Arg(i, o) /\ HasArg(i, o)' = HasArg(i, o)
         /\ OcspRefuses(i)' = OcspRefuses(i) /\ IsClient(i)' = IsClient(i)
         /\ IsResponder(i)' = IsResponder(i) /\ OcspHelp(i)' = OcspHelp(i)
         /\ FilesFit(i)' = FilesFit(i)
         /\ \A o : Named(i, o)' = Named(i, o)
<1>1. \A o : Arg(i, o)' = Arg(i, o) /\ HasArg(i, o)' = HasArg(i, o)
  BY DEF Arg, HasArg
<1>2. IsClient(i)' = IsClient(i) /\ IsResponder(i)' = IsResponder(i) /\ OcspHelp(i)' = OcspHelp(i)
  BY <1>1 DEF IsClient, IsResponder, OcspHelp
<1>3. OcspRefuses(i)' = OcspRefuses(i)
  BY <1>1 DEF OcspRefuses
<1>4. \A o : Named(i, o)' = Named(i, o)
  BY <1>1 DEF Named
<1>5. FilesFit(i)' = FilesFit(i)
  BY <1>1, <1>4 DEF FilesFit
<1> QED BY <1>1, <1>2, <1>3, <1>4, <1>5

LEMMA SameMemory ==
  ASSUME NEW i, memory'[i] = memory[i]
  PROVE  /\ \A names : HasRead(i, names)' = HasRead(i, names)
         /\ MaySign(i)' = MaySign(i) /\ Trusted(i)' = Trusted(i)
         /\ \A x : Answer(i, x)' = Answer(i, x) /\ Believes(i, x)' = Believes(i, x)
<1>1. \A names : HasRead(i, names)' = HasRead(i, names)
  BY DEF HasRead
<1>2. MaySign(i)' = MaySign(i)
  BY DEF MaySign
<1>3. Trusted(i)' = Trusted(i)
  BY DEF Trusted
<1>4. \A x : Answer(i, x)' = Answer(i, x)
  BY DEF Answer
<1>5. \A x : Believes(i, x)' = Believes(i, x)
  BY <1>3 DEF Believes
<1> QED BY <1>1, <1>2, <1>3, <1>4, <1>5

\* The processes that take no part in a step keep what holds of them: a responder that serves
\* or is over reads nothing more, and an index is revised once.
LEMMA OthersStay ==
  ASSUME OcspInv, NEW movers \in SUBSET OcspProcs,
         ocspLine' = ocspLine, OcspTypeOK',
         memory' = [i \in OcspProcs |-> [name \in DOMAIN After |-> memory'[i][name]]],
         indexFile' = indexFile \/ indexFile = OcspDisk["index"],
         ocspTrouble \subseteq ocspTrouble',
         \A i \in OcspProcs \ movers :
           /\ memory'[i] = memory[i] /\ ocspPc'[i] = ocspPc[i] /\ ocspRet'[i] = ocspRet[i]
           /\ verdict'[i] = verdict[i] /\ asked'[i] = asked[i],
         \A i \in movers :
           ocspPc[i] \in {"serve", "over"} => memory'[i] = memory[i] /\ ocspPc'[i] \in {"serve", "over"},
         \A i \in movers :
           Kept(i)' /\ Staged(i)' /\ ToldBy(i)' /\ Unasked(i)' /\ Succeeds(i)' /\ Excused(i)'
  PROVE  OcspInv'
<1> SUFFICES ASSUME NEW i \in OcspProcs \ movers
             PROVE  Kept(i)' /\ Staged(i)' /\ ToldBy(i)' /\ Unasked(i)' /\ Succeeds(i)' /\ Excused(i)'
  BY DEF OcspInv
<1>1. Kept(i) /\ Staged(i) /\ ToldBy(i) /\ Unasked(i) /\ Succeeds(i) /\ Excused(i)
  BY DEF OcspInv
<1>2. /\ memory'[i] = memory[i] /\ ocspPc'[i] = ocspPc[i] /\ ocspRet'[i] = ocspRet[i]
      /\ verdict'[i] = verdict[i] /\ asked'[i] = asked[i]
  OBVIOUS
<1>3. \A j \in OcspProcs : /\ \A o : Arg(j, o)' = Arg(j, o) /\ HasArg(j, o)' = HasArg(j, o)
                           /\ OcspRefuses(j)' = OcspRefuses(j) /\ IsClient(j)' = IsClient(j)
                           /\ IsResponder(j)' = IsResponder(j) /\ OcspHelp(j)' = OcspHelp(j)
                           /\ FilesFit(j)' = FilesFit(j)
  BY SameOptions
<1>4. /\ \A names : HasRead(i, names)' = HasRead(i, names)
      /\ MaySign(i)' = MaySign(i)
      /\ \A x : Believes(i, x)' = Believes(i, x)
  BY <1>2, SameMemory
<1>5. Kept(i)'
  BY <1>1, <1>2, <1>3 DEF Kept
<1>6. Staged(i)'
  BY <1>1, <1>2, <1>3, <1>4 DEF Staged
<1>7. ToldBy(i)'
  <2> SUFFICES ASSUME NEW j \in OcspProcs, asked[i] = j
               PROVE  /\ ocspPc'[i] = "over" /\ ocspPc'[j] \in {"serve", "over"}
                      /\ HasRead(i, ReadToAsk)' /\ HasRead(j, ReadToServe)' /\ MaySign(j)'
                      /\ (verdict[i] = IF Believes(i, memory[j].rsigner.of)
                                       THEN Told(Answer(j, memory[i].cert.of)) ELSE "failed")'
    BY <1>2 DEF ToldBy
  <2>1. /\ ocspPc[i] = "over" /\ ocspPc[j] \in {"serve", "over"}
        /\ HasRead(i, ReadToAsk) /\ HasRead(j, ReadToServe) /\ MaySign(j)
        /\ verdict[i] = IF Believes(i, memory[j].rsigner.of)
                        THEN Told(Answer(j, memory[i].cert.of)) ELSE "failed"
    BY <1>1 DEF ToldBy
  <2>2. memory'[j] = memory[j] /\ ocspPc'[j] \in {"serve", "over"}
    BY <2>1
  <2>3. /\ HasRead(j, ReadToServe)' /\ MaySign(j)'
        /\ \A x : Answer(j, x)' = Answer(j, x)
    BY <2>1, <2>2, SameMemory
  <2> QED BY <1>2, <1>4, <2>1, <2>2, <2>3 DEF Told
<1>8. Unasked(i)'
  BY <1>1, <1>2, <1>3 DEF Unasked, Url
<1>9. Succeeds(i)'
  BY <1>1, <1>2, <1>3 DEF Succeeds
<1>10. Excused(i)'
  BY <1>1, <1>2, <1>3 DEF Excused
<1> QED BY <1>5, <1>6, <1>7, <1>8, <1>9, <1>10

LEMMA OcspStarts == ASSUME NEW lines \in OcspSessions, OcspStart(lines) PROVE OcspInv
<1> USE ReadingOrder
<1>1. OcspTypeOK
  BY DEF OcspStart, OcspTypeOK, NoMemory
<1>2. /\ ocspLine \in OcspSessions
      /\ memory = [i \in OcspProcs |-> [name \in DOMAIN After |-> memory[i][name]]]
  BY DEF OcspStart, NoMemory
<1> SUFFICES ASSUME NEW i \in OcspProcs
             PROVE  Kept(i) /\ Staged(i) /\ ToldBy(i) /\ Unasked(i) /\ Succeeds(i) /\ Excused(i)
  BY <1>1, <1>2 DEF OcspInv
<1>3. /\ ocspPc[i] = "options" /\ ocspRet[i] = None /\ memory[i] = NoMemory /\ verdict[i] = None
      /\ asked[i] = None
  BY DEF OcspStart
<1>4. /\ None \notin OcspProcs /\ None # Success /\ None # FatalError /\ None # "good" /\ None # "revoked"
  BY OcspAssumption
<1>5. Kept(i)
  BY <1>3 DEF Kept, NoMemory
<1>6. Staged(i)
  BY <1>3 DEF Staged, ClientPcs, ResponderPcs
<1>7. ToldBy(i)
  BY <1>3, <1>4 DEF ToldBy
<1>8. Unasked(i) /\ Succeeds(i) /\ Excused(i)
  BY <1>3, <1>4 DEF Unasked, Succeeds, Excused
<1> QED BY <1>5, <1>6, <1>7, <1>8

\* A step that reads no file: one process goes on to another place or returns.
LEMMA OneGoesOn ==
  ASSUME OcspInv, NEW i \in OcspProcs, ocspPc[i] # "over",
         NEW there \in DOMAIN After \cup {"options", "check", "addSigner", "listen", "serve", "over"},
         NEW r \in {None, Success, FatalError}, NEW told \in {None, "good", "revoked", "failed"},
         ocspPc' = [ocspPc EXCEPT ![i] = there], ocspRet' = [ocspRet EXCEPT ![i] = r],
         verdict' = [verdict EXCEPT ![i] = told],
         ocspTrouble' \in {ocspTrouble, ocspTrouble \cup {i}},
         UNCHANGED <<ocspLine, indexFile, memory, answered, asked>>,
         ocspPc[i] = "serve" => there = "over",
         Staged(i)', Unasked(i)', Succeeds(i)', Excused(i)'
  PROVE  OcspInv'
<1>1. OcspTypeOK /\ Kept(i) /\ Staged(i)
  BY DEF OcspInv
<1>2. OcspTypeOK'
  BY <1>1 DEF OcspTypeOK
<1>3. Kept(i)'
  BY <1>1, SameOptions DEF Kept
<1>4. ToldBy(i)'
  BY <1>1, OcspAssumption DEF ToldBy, Staged
<1>5. \A j \in OcspProcs \ {i} :
        /\ memory'[j] = memory[j] /\ ocspPc'[j] = ocspPc[j] /\ ocspRet'[j] = ocspRet[j]
        /\ verdict'[j] = verdict[j] /\ asked'[j] = asked[j]
  BY <1>1 DEF OcspTypeOK
<1>6. ocspPc[i] \in {"serve", "over"} => memory'[i] = memory[i] /\ ocspPc'[i] \in {"serve", "over"}
  BY <1>1 DEF OcspTypeOK
<1>7. memory' = [j \in OcspProcs |-> [name \in DOMAIN After |-> memory'[j][name]]]
  BY DEF OcspInv
<1>8. {i} \in SUBSET OcspProcs /\ ocspLine' = ocspLine /\ indexFile' = indexFile
      /\ ocspTrouble \subseteq ocspTrouble'
  OBVIOUS
<1> HIDE DEF OcspInv
<1> QED
  <2>1. \A j \in {i} : Kept(j)' /\ Staged(j)' /\ ToldBy(j)' /\ Unasked(j)' /\ Succeeds(j)' /\ Excused(j)'
    BY <1>3, <1>4
  <2>2. \A j \in {i} : ocspPc[j] \in {"serve", "over"} => memory'[j] = memory[j] /\ ocspPc'[j] \in {"serve", "over"}
    BY <1>6
  <2> QED BY <1>2, <1>5, <1>7, <1>8, <2>1, <2>2, OthersStay

LEMMA OptionsEnd == ASSUME OcspInv, NEW i \in OcspProcs, OcspSetup(i) PROVE OcspInv'
<1>1. OcspTypeOK /\ Staged(i) /\ ocspPc[i] = "options"
  BY DEF OcspInv, OcspSetup, OcspAt
<1>2. ocspRet[i] = None /\ verdict[i] = None /\ asked[i] = None
  BY <1>1 DEF Staged
<1>3. /\ OcspRefuses(i)' = OcspRefuses(i) /\ IsClient(i)' = IsClient(i)
      /\ IsResponder(i)' = IsResponder(i) /\ OcspHelp(i)' = OcspHelp(i)
  BY SameOptions DEF OcspSetup
<1>4. None # Success /\ None # FatalError /\ None # "good" /\ None # "revoked" /\ Success # FatalError
  BY OcspAssumption DEF Success, FatalError
<1>5. UNCHANGED <<ocspLine, indexFile, memory, answered, verdict, asked, ocspTrouble>>
  BY DEF OcspSetup
<1>6. verdict' = [verdict EXCEPT ![i] = None]
  BY <1>1, <1>2, <1>5 DEF OcspTypeOK
<1>7. CASE OcspHelp(i)
  <2>1. ocspPc' = [ocspPc EXCEPT ![i] = "over"] /\ ocspRet' = [ocspRet EXCEPT ![i] = Success]
    BY <1>7 DEF OcspSetup, Exit
  <2>2. ocspPc'[i] = "over" /\ ocspRet'[i] = Success /\ verdict'[i] = None
    BY <1>1, <1>2, <1>5, <2>1 DEF OcspTypeOK
  <2>3. Staged(i)' /\ Unasked(i)'
    BY <1>4, <2>2 DEF Staged, ClientPcs, ResponderPcs, Unasked
  <2>4. Succeeds(i)' /\ Excused(i)'
    BY <1>3, <1>4, <1>7, <2>2 DEF Succeeds, Excused
  <2> QED BY <1>1, <1>5, <1>6, <2>1, <2>3, <2>4, OneGoesOn
<1>8. CASE ~OcspHelp(i) /\ (OcspRefuses(i) \/ IsClient(i) = IsResponder(i))
  <2>1. ocspPc' = [ocspPc EXCEPT ![i] = "over"] /\ ocspRet' = [ocspRet EXCEPT ![i] = FatalError]
    BY <1>8 DEF OcspSetup, Exit
  <2>2. ocspPc'[i] = "over" /\ ocspRet'[i] = FatalError /\ verdict'[i] = None
    BY <1>1, <1>2, <1>5, <2>1 DEF OcspTypeOK
  <2>3. Staged(i)' /\ Unasked(i)'
    BY <1>4, <2>2 DEF Staged, ClientPcs, ResponderPcs, Unasked
  <2>4. Succeeds(i)' /\ Excused(i)'
    BY <1>3, <1>4, <1>8, <2>2 DEF Succeeds, Excused
  <2> QED BY <1>1, <1>5, <1>6, <2>1, <2>3, <2>4, OneGoesOn
<1>9. CASE ~OcspHelp(i) /\ ~(OcspRefuses(i) \/ IsClient(i) = IsResponder(i))
  <2> DEFINE there == IF IsClient(i) THEN "cert" ELSE "ca"
  <2>1. ocspPc' = [ocspPc EXCEPT ![i] = there] /\ ocspRet' = ocspRet
    BY <1>9 DEF OcspSetup, OcspGo
  <2>2. ocspPc'[i] = there /\ ocspRet'[i] = None /\ verdict'[i] = None /\ asked'[i] = None
    BY <1>1, <1>2, <1>5, <2>1 DEF OcspTypeOK
  <2>3. IsClient(i) \in BOOLEAN /\ IsResponder(i) \in BOOLEAN
    BY DEF IsClient, IsResponder, HasArg
  <2>4. /\ IsClient(i) => ~IsResponder(i)
        /\ ~IsClient(i) => IsResponder(i)
    BY <1>9, <2>3
  <2>5. Staged(i)'
    BY <1>3, <1>9, <2>2, <2>4 DEF Staged, ClientPcs, ResponderPcs
  <2>6. Unasked(i)' /\ Succeeds(i)' /\ Excused(i)'
    BY <1>4, <2>2 DEF Succeeds, Excused, Unasked
  <2>7. ocspRet' = [ocspRet EXCEPT ![i] = None]
    BY <1>1, <1>2, <2>1 DEF OcspTypeOK
  <2>8. there \in DOMAIN After \cup {"options", "check", "addSigner", "listen", "serve", "over"}
    BY ReadingOrder
  <2> HIDE DEF there
  <2> QED BY <1>1, <1>5, <1>6, <2>1, <2>5, <2>6, <2>7, <2>8, OneGoesOn
<1> QED BY <1>7, <1>8, <1>9

LEMMA ACallFails == ASSUME OcspInv, NEW i \in OcspProcs, CallFails(i) PROVE OcspInv'
<1>1. OcspTypeOK /\ Staged(i) /\ ocspPc[i] \notin {"serve", "over"}
  BY DEF OcspInv, CallFails
<1>2. ocspRet[i] = None /\ verdict[i] = None /\ asked[i] = None
  BY <1>1 DEF Staged
<1>3. None # Success /\ None # FatalError /\ None # "good" /\ None # "revoked" /\ Success # FatalError
  BY OcspAssumption DEF Success, FatalError
<1>4. UNCHANGED <<ocspLine, indexFile, memory, answered, verdict, asked>> /\ ocspTrouble' = ocspTrouble \cup {i}
  BY DEF CallFails
<1>5. verdict' = [verdict EXCEPT ![i] = None]
  BY <1>1, <1>2, <1>4 DEF OcspTypeOK
<1>6. ocspPc' = [ocspPc EXCEPT ![i] = "over"] /\ ocspRet' = [ocspRet EXCEPT ![i] = FatalError]
  BY DEF CallFails, Exit
<1>7. ocspPc'[i] = "over" /\ ocspRet'[i] = FatalError /\ verdict'[i] = None
  BY <1>1, <1>2, <1>4, <1>6 DEF OcspTypeOK
<1>8. Staged(i)' /\ Unasked(i)'
  BY <1>3, <1>7 DEF Staged, ClientPcs, ResponderPcs, Unasked
<1>9. Succeeds(i)' /\ Excused(i)'
  BY <1>3, <1>4, <1>7 DEF Succeeds, Excused
<1> QED BY <1>1, <1>4, <1>5, <1>6, <1>8, <1>9, OneGoesOn

\* Files that belong together make a responder that may sign.
LEMMA FilesMaySign ==
  ASSUME NEW i \in OcspProcs, Kept(i), HasRead(i, ReadToServe), FilesFit(i)
  PROVE  MaySign(i)
<1>1. /\ memory[i].ca = Der(Arg(i, "-CA"), "cert") /\ memory[i].rsigner = Der(Arg(i, "-rsigner"), "cert")
      /\ memory[i].rkey = Der(Arg(i, "-rkey"), "key")
      /\ memory[i].ca # None /\ memory[i].rsigner # None /\ memory[i].rkey # None
  BY DEF Kept, HasRead, ReadToServe
<1>2. /\ memory[i].ca = [kind |-> "cert", of |-> Named(i, "-CA")]
      /\ memory[i].rsigner = [kind |-> "cert", of |-> Named(i, "-rsigner")]
      /\ memory[i].rkey = [kind |-> "key", of |-> Named(i, "-rkey")]
  BY <1>1 DEF Der, FilesFit, IsCert, Named
<1>3. IsCert(memory[i].rsigner) /\ memory[i].rkey.kind = "key" /\ memory[i].rsigner.of.key = memory[i].rkey.of
  BY <1>1, <1>2 DEF IsCert, FilesFit
<1>4. \/ memory[i].rsigner = memory[i].ca
      \/ Issues(memory[i].ca.of, memory[i].rsigner.of) /\ memory[i].rsigner.of.ocsp
  BY <1>2 DEF FilesFit
<1> QED BY <1>3, <1>4 DEF MaySign, CanSign, IssuerDer

LEMMA SignerAdded == ASSUME OcspInv, NEW i \in OcspProcs, AddSigner(i) PROVE OcspInv'
<1>1. OcspTypeOK /\ Staged(i) /\ Kept(i) /\ ocspPc[i] = "addSigner"
  BY DEF OcspInv, AddSigner, OcspAt
<1>2. /\ ocspRet[i] = None /\ verdict[i] = None /\ asked[i] = None
      /\ HasRead(i, ReadToServe) /\ IsCert(memory[i].ca)
      /\ IsResponder(i) /\ ~IsClient(i) /\ ~OcspHelp(i) /\ ~OcspRefuses(i)
  BY <1>1 DEF Staged, ResponderPcs
<1>3. None # Success /\ None # FatalError /\ None # "good" /\ None # "revoked" /\ Success # FatalError
  BY OcspAssumption DEF Success, FatalError
<1>4. UNCHANGED <<ocspLine, indexFile, memory, answered, verdict, asked, ocspTrouble>>
  BY DEF AddSigner
<1>5. verdict' = [verdict EXCEPT ![i] = None]
  BY <1>1, <1>2, <1>4 DEF OcspTypeOK
<1>6. /\ OcspRefuses(i)' = OcspRefuses(i) /\ IsClient(i)' = IsClient(i) /\ FilesFit(i)' = FilesFit(i)
      /\ IsResponder(i)' = IsResponder(i) /\ OcspHelp(i)' = OcspHelp(i)
      /\ HasRead(i, ReadToServe)' = HasRead(i, ReadToServe) /\ MaySign(i)' = MaySign(i)
  BY <1>4, SameOptions, SameMemory
<1>7. CASE MaySign(i)
  <2>1. ocspPc' = [ocspPc EXCEPT ![i] = "listen"] /\ ocspRet' = ocspRet
    BY <1>7 DEF AddSigner, OcspGo, MaySign
  <2>2. /\ ocspPc'[i] = "listen" /\ ocspRet'[i] = None /\ verdict'[i] = None /\ asked'[i] = None
        /\ memory'[i] = memory[i]
    BY <1>1, <1>2, <1>4, <2>1 DEF OcspTypeOK
  <2>3. Staged(i)'
    BY <1>2, <1>6, <1>7, <2>2 DEF Staged, ClientPcs, ResponderPcs
  <2>4. Unasked(i)' /\ Succeeds(i)' /\ Excused(i)'
    BY <1>3, <2>2 DEF Succeeds, Excused, Unasked
  <2>5. ocspRet' = [ocspRet EXCEPT ![i] = None]
    BY <1>1, <1>2, <2>1 DEF OcspTypeOK
  <2> QED BY <1>1, <1>4, <1>5, <2>1, <2>3, <2>4, <2>5, OneGoesOn
<1>8. CASE ~MaySign(i)
  <2>1. ocspPc' = [ocspPc EXCEPT ![i] = "over"] /\ ocspRet' = [ocspRet EXCEPT ![i] = FatalError]
    BY <1>8 DEF AddSigner, Exit, MaySign
  <2>2. ocspPc'[i] = "over" /\ ocspRet'[i] = FatalError /\ verdict'[i] = None
    BY <1>1, <1>2, <1>4, <2>1 DEF OcspTypeOK
  <2>3. ~FilesFit(i)
    BY <1>1, <1>2, <1>8, FilesMaySign
  <2>4. Staged(i)' /\ Unasked(i)'
    BY <1>3, <2>2 DEF Staged, ClientPcs, ResponderPcs, Unasked
  <2>5. Succeeds(i)' /\ Excused(i)'
    BY <1>3, <1>6, <2>2, <2>3 DEF Succeeds, Excused
  <2> QED BY <1>1, <1>4, <1>5, <2>1, <2>4, <2>5, OneGoesOn
<1> QED BY <1>7, <1>8

LEMMA PortTaken == ASSUME OcspInv, NEW i \in OcspProcs, Listen(i) PROVE OcspInv'
<1>1. OcspTypeOK /\ Staged(i) /\ ocspPc[i] = "listen"
  BY DEF OcspInv, Listen, OcspAt
<1>2. /\ ocspRet[i] = None /\ verdict[i] = None /\ asked[i] = None
      /\ HasRead(i, ReadToServe) /\ IsCert(memory[i].ca) /\ MaySign(i)
      /\ IsResponder(i) /\ ~IsClient(i) /\ ~OcspHelp(i) /\ ~OcspRefuses(i)
  BY <1>1 DEF Staged, ResponderPcs
<1>3. None # Success /\ None # FatalError /\ None # "good" /\ None # "revoked" /\ Success # FatalError
  BY OcspAssumption DEF Success, FatalError
<1>4. UNCHANGED <<ocspLine, indexFile, memory, answered, verdict, asked, ocspTrouble>>
  BY DEF Listen
<1>5. verdict' = [verdict EXCEPT ![i] = None]
  BY <1>1, <1>2, <1>4 DEF OcspTypeOK
<1>6. /\ OcspRefuses(i)' = OcspRefuses(i) /\ IsClient(i)' = IsClient(i)
      /\ IsResponder(i)' = IsResponder(i) /\ OcspHelp(i)' = OcspHelp(i)
      /\ HasRead(i, ReadToServe)' = HasRead(i, ReadToServe) /\ MaySign(i)' = MaySign(i)
  BY <1>4, SameOptions, SameMemory
<1>7. CASE ~Taken(Arg(i, "-port"))
  <2>1. ocspPc' = [ocspPc EXCEPT ![i] = "serve"] /\ ocspRet' = ocspRet
    BY <1>7 DEF Listen, OcspGo
  <2>2. /\ ocspPc'[i] = "serve" /\ ocspRet'[i] = None /\ verdict'[i] = None /\ asked'[i] = None
        /\ memory'[i] = memory[i]
    BY <1>1, <1>2, <1>4, <2>1 DEF OcspTypeOK
  <2>3. Staged(i)'
    BY <1>2, <1>6, <2>2 DEF Staged, ClientPcs, ResponderPcs
  <2>4. Unasked(i)' /\ Succeeds(i)' /\ Excused(i)'
    BY <1>3, <2>2 DEF Succeeds, Excused, Unasked
  <2>5. ocspRet' = [ocspRet EXCEPT ![i] = None]
    BY <1>1, <1>2, <2>1 DEF OcspTypeOK
  <2> QED BY <1>1, <1>4, <1>5, <2>1, <2>3, <2>4, <2>5, OneGoesOn
<1>8. CASE Taken(Arg(i, "-port"))
  <2>1. ocspPc' = [ocspPc EXCEPT ![i] = "over"] /\ ocspRet' = [ocspRet EXCEPT ![i] = FatalError]
    BY <1>8 DEF Listen, Exit
  <2>2. ocspPc'[i] = "over" /\ ocspRet'[i] = FatalError /\ verdict'[i] = None
    BY <1>1, <1>2, <1>4, <2>1 DEF OcspTypeOK
  <2>3. \E j \in OcspProcs \ {i} : Arg(j, "-port")' = Arg(i, "-port")'
    <3>1. PICK j \in OcspProcs : ocspPc[j] = "serve" /\ Arg(j, "-port") = Arg(i, "-port")
      BY <1>8 DEF Taken, OcspAt
    <3>2. \A k \in OcspProcs : Arg(k, "-port")' = Arg(k, "-port")
      BY <1>4, SameOptions
    <3> QED BY <1>1, <3>1, <3>2
  <2>4. Staged(i)' /\ Unasked(i)'
    BY <1>3, <2>2 DEF Staged, ClientPcs, ResponderPcs, Unasked
  <2>5. Succeeds(i)' /\ Excused(i)'
    BY <1>3, <1>6, <2>2, <2>3 DEF Succeeds, Excused
  <2> QED BY <1>1, <1>4, <1>5, <2>1, <2>4, <2>5, OneGoesOn
<1> QED BY <1>7, <1>8

LEMMA Stopped == ASSUME OcspInv, NEW i \in OcspProcs, Stop(i) PROVE OcspInv'
<1>1. OcspTypeOK /\ Staged(i) /\ ocspPc[i] = "serve"
  BY DEF OcspInv, Stop, OcspAt
<1>2. /\ ocspRet[i] = None /\ verdict[i] = None /\ IsResponder(i) /\ ~IsClient(i)
  BY <1>1 DEF Staged, ResponderPcs
<1>3. None # Success /\ None # FatalError /\ None # "good" /\ None # "revoked" /\ Success # FatalError
  BY OcspAssumption DEF Success, FatalError
<1>4. UNCHANGED <<ocspLine, indexFile, memory, answered, verdict, asked, ocspTrouble>>
  BY DEF Stop
<1>5. verdict' = [verdict EXCEPT ![i] = None]
  BY <1>1, <1>2, <1>4 DEF OcspTypeOK
<1>6. IsClient(i)' = IsClient(i)
  BY <1>4, SameOptions
<1>7. ocspPc' = [ocspPc EXCEPT ![i] = "over"] /\ ocspRet' = [ocspRet EXCEPT ![i] = Success]
  BY DEF Stop, Exit
<1>8. ocspPc'[i] = "over" /\ ocspRet'[i] = Success /\ verdict'[i] = None
  BY <1>1, <1>2, <1>4, <1>7 DEF OcspTypeOK
<1>9. Staged(i)' /\ Unasked(i)'
  BY <1>3, <1>8 DEF Staged, ClientPcs, ResponderPcs, Unasked
<1>10. Succeeds(i)' /\ Excused(i)'
  BY <1>2, <1>3, <1>6, <1>8 DEF Succeeds, Excused
<1> QED BY <1>1, <1>4, <1>5, <1>7, <1>9, <1>10, OneGoesOn

LEMMA NobodyAsked == ASSUME OcspInv, NEW i \in OcspProcs, AskNobody(i) PROVE OcspInv'
<1>1. OcspTypeOK /\ Staged(i) /\ ocspPc[i] = "check"
  BY DEF OcspInv, AskNobody, OcspAt
<1>2. ~IsResponder(i) /\ IsClient(i) /\ ~OcspHelp(i)
  BY <1>1 DEF Staged, ClientPcs
<1>3. None # Success /\ None # FatalError /\ None # "good" /\ None # "revoked" /\ Success # FatalError
  BY OcspAssumption DEF Success, FatalError
<1>4. UNCHANGED <<ocspLine, indexFile, memory, answered, asked, ocspTrouble>>
  BY DEF AskNobody
<1>5. PICK told \in {"good", "failed"} :
        /\ told = "good" => Url(i) = None
        /\ verdict' = [verdict EXCEPT ![i] = told] /\ Exit(i, RetOf(told))
  BY DEF AskNobody
<1>6. ocspPc' = [ocspPc EXCEPT ![i] = "over"] /\ ocspRet' = [ocspRet EXCEPT ![i] = RetOf(told)]
  BY <1>5 DEF Exit
<1>7. ocspPc'[i] = "over" /\ ocspRet'[i] = RetOf(told) /\ verdict'[i] = told
  BY <1>1, <1>5, <1>6 DEF OcspTypeOK
<1>8. RetOf(told) \in {Success, FatalError} /\ (RetOf(told) = Success <=> told = "good")
  BY <1>3 DEF RetOf
<1>9. /\ IsClient(i)' = IsClient(i) /\ IsResponder(i)' = IsResponder(i) /\ OcspHelp(i)' = OcspHelp(i)
      /\ Url(i)' = Url(i)
  BY <1>4, SameOptions DEF Url
<1>10. Staged(i)' /\ Unasked(i)'
  BY <1>5, <1>7, <1>9 DEF Staged, ClientPcs, ResponderPcs, Unasked
<1>11. Succeeds(i)' /\ Excused(i)'
  BY <1>2, <1>7, <1>8, <1>9 DEF Succeeds, Excused
<1>12. told \in {None, "good", "revoked", "failed"} /\ RetOf(told) \in {None, Success, FatalError}
  BY <1>8
<1> QED BY <1>1, <1>4, <1>5, <1>6, <1>10, <1>11, <1>12, OneGoesOn

LEMMA IndexRevised == ASSUME OcspInv, Revise PROVE OcspInv'
<1>1. OcspTypeOK /\ indexFile = OcspDisk["index"]
  BY DEF OcspInv, OcspTypeOK, Revise
<1>2. OcspTypeOK'
  BY <1>1 DEF Revise, OcspTypeOK
<1>3. /\ memory' = [j \in OcspProcs |-> [name \in DOMAIN After |-> memory'[j][name]]]
      /\ ocspLine' = ocspLine /\ ocspTrouble \subseteq ocspTrouble'
  BY DEF OcspInv, Revise
<1>4. \A j \in OcspProcs \ {} :
        /\ memory'[j] = memory[j] /\ ocspPc'[j] = ocspPc[j] /\ ocspRet'[j] = ocspRet[j]
        /\ verdict'[j] = verdict[j] /\ asked'[j] = asked[j]
  BY DEF Revise
<1>5. {} \in SUBSET OcspProcs
  OBVIOUS
<1> QED BY <1>1, <1>2, <1>3, <1>4, <1>5, OthersStay

\* A file of the right kind is one that loadFileToDer reads.
LEMMA CertRead ==
  ASSUME ocspLine \in OcspSessions, NEW i \in OcspProcs, NEW option \in FileOptions,
         IsCert(Content(Arg(i, option)))
  PROVE  Arg(i, option) # None /\ IsCert(Der(Arg(i, option), "cert"))
<1>1. Arg(i, option) \in DOMAIN OcspDisk /\ Content(Arg(i, option)) = OcspDisk[Arg(i, option)]
  BY DEF Content, IsCert
<1>2. Arg(i, option) # None
  BY <1>1, OcspAssumption
<1>3. option \in DOMAIN ocspLine[i].args /\ Arg(i, option) = ocspLine[i].args[option]
  BY <1>2 DEF Arg, HasArg
<1>4. Arg(i, option) # "index"
  BY <1>3, OcspAssumption
<1>5. [kind |-> Content(Arg(i, option)).kind, of |-> Content(Arg(i, option)).of] # None
  BY <1>1, <1>4, OcspAssumption
<1> QED BY <1>2, <1>5 DEF Der, IsCert

\* With files that belong together a responder reads them all, and its index, or none, with them.
LEMMA FilesRead ==
  ASSUME OcspInv, NEW i \in OcspProcs, NEW here \in DOMAIN After \cap ResponderPcs,
         ocspPc[i] = here, FilesFit(i)
  PROVE  Reading(i, here) # None
<1>1. /\ ocspLine \in OcspSessions /\ Kept(i) /\ Staged(i) /\ indexFile \in {OcspDisk["index"], Revised}
      /\ {"-CA", "-rsigner", "-rkey"} \subseteq FileOptions
  BY DEF OcspInv, OcspTypeOK, FileOptions
<1>2. /\ Arg(i, "-CA") # None /\ IsCert(Der(Arg(i, "-CA"), "cert"))
      /\ Arg(i, "-rsigner") # None /\ IsCert(Der(Arg(i, "-rsigner"), "cert"))
  BY <1>1, CertRead DEF FilesFit
<1>3. Arg(i, "-rkey") # None /\ Der(Arg(i, "-rkey"), "key") # None
  BY OcspAssumption DEF FilesFit, Der, Content
<1>4. CASE here = "ca"
  BY <1>2, <1>3, <1>4 DEF Reading, IsCert
<1>5. CASE here = "rsigner"
  BY <1>2, <1>5 DEF Reading, IsCert
<1>6. CASE here = "rkey"
  BY <1>3, <1>6 DEF Reading
<1>7. CASE here = "index"
  <2>1. memory[i].ca = Der(Arg(i, "-CA"), "cert")
    BY <1>1, <1>7 DEF Kept, Staged, HasRead
  <2> QED BY <1>1, <1>2, <1>7, <2>1, OcspAssumption DEF Reading
<1> QED BY <1>4, <1>5, <1>6, <1>7, ReadingOrder DEF ResponderPcs

LEMMA KeptAsRead ==
  ASSUME OcspInv, NEW i \in OcspProcs, NEW here \in DOMAIN After, ocspLine' = ocspLine, indexFile' = indexFile,
         memory'[i] = [memory[i] EXCEPT ![here] = Reading(i, here)]
  PROVE  Kept(i)'
<1>1. /\ Kept(i) /\ DOMAIN memory[i] = DOMAIN After
      /\ memory[i] = [name \in DOMAIN After |-> memory[i][name]]
  BY DEF OcspInv, OcspTypeOK
<1>2. \A o : Arg(i, o)' = Arg(i, o)
  BY SameOptions
<1>3. /\ memory'[i][here] = Reading(i, here)
      /\ \A name \in DOMAIN After \ {here} : memory'[i][name] = memory[i][name]
  BY <1>1
<1>4. CASE here = "cert"
  BY <1>1, <1>2, <1>3, <1>4, ReadingOrder DEF Kept, Reading
<1>5. CASE here = "issuer"
  BY <1>1, <1>2, <1>3, <1>5, ReadingOrder DEF Kept, Reading
<1>6. CASE here = "CAfile"
  BY <1>1, <1>2, <1>3, <1>6, ReadingOrder DEF Kept, Reading
<1>7. CASE here = "ca"
  BY <1>1, <1>2, <1>3, <1>7, ReadingOrder DEF Kept, Reading
<1>8. CASE here = "rsigner"
  BY <1>1, <1>2, <1>3, <1>8, ReadingOrder DEF Kept, Reading
<1>9. CASE here = "rkey"
  BY <1>1, <1>2, <1>3, <1>9, ReadingOrder DEF Kept, Reading
<1>10. CASE here = "index"
  <2>1. \/ Reading(i, here) = None \/ Reading(i, here) = << >>
        \/ Arg(i, "-index") = "index" /\ Reading(i, here) = indexFile
    BY <1>10 DEF Reading
  <2> QED BY <1>1, <1>2, <1>3, <1>10, <2>1, ReadingOrder DEF Kept
<1> QED BY <1>4, <1>5, <1>6, <1>7, <1>8, <1>9, <1>10, ReadingOrder

LEMMA AFileRead == ASSUME OcspInv, NEW i \in OcspProcs, ReadFile(i) PROVE OcspInv'
<1>1. PICK here \in DOMAIN After :
        /\ ocspPc[i] = here
        /\ memory' = [memory EXCEPT ![i][here] = Reading(i, here)]
        /\ IF Reading(i, here) = None THEN Exit(i, FatalError) ELSE OcspGo(i, After[here])
  BY DEF ReadFile, OcspAt
<1>2. UNCHANGED <<ocspLine, indexFile, answered, verdict, asked, ocspTrouble>>
  BY DEF ReadFile
<1>3. OcspTypeOK /\ Staged(i) /\ here \in ClientPcs \cup ResponderPcs /\ here \notin {"check", "addSigner", "listen", "serve", "over"}
  BY <1>1, ReadingOrder DEF OcspInv, ClientPcs, ResponderPcs
<1>4. /\ memory = [j \in OcspProcs |-> [name \in DOMAIN After |-> memory[j][name]]]
      /\ memory' = [j \in OcspProcs |-> [name \in DOMAIN After |-> memory'[j][name]]]
      /\ memory'[i] = [memory[i] EXCEPT ![here] = Reading(i, here)]
      /\ \A j \in OcspProcs \ {i} : memory'[j] = memory[j]
  <2>1. memory = [j \in OcspProcs |-> [name \in DOMAIN After |-> memory[j][name]]]
    BY DEF OcspInv
  <2> QED BY <1>1, <2>1
<1>5. /\ ocspRet[i] = None /\ verdict[i] = None /\ asked[i] = None /\ ~OcspHelp(i) /\ ~OcspRefuses(i)
      /\ here \in ClientPcs => IsClient(i) /\ ~IsResponder(i)
      /\ here \in ResponderPcs => IsResponder(i) /\ ~IsClient(i)
  BY <1>1, <1>3 DEF Staged, ClientPcs, ResponderPcs
<1>6. Kept(i)'
  BY <1>2, <1>4, KeptAsRead
<1>7. None # Success /\ None # FatalError /\ None # "good" /\ None # "revoked" /\ Success # FatalError
      /\ None \notin OcspProcs
  BY OcspAssumption DEF Success, FatalError
<1>8. /\ OcspRefuses(i)' = OcspRefuses(i) /\ IsClient(i)' = IsClient(i) /\ FilesFit(i)' = FilesFit(i)
      /\ IsResponder(i)' = IsResponder(i) /\ OcspHelp(i)' = OcspHelp(i)
  BY <1>2, SameOptions
<1>9. verdict'[i] = None /\ asked'[i] = None
  BY <1>2, <1>5
<1>10. ToldBy(i)'
  BY <1>7, <1>9 DEF ToldBy
<1>11. Unasked(i)' /\ Succeeds(i)'
  <2>1. Unasked(i)'
    BY <1>7, <1>9 DEF Unasked
  <2>2. ocspRet'[i] # Success
    BY <1>1, <1>3, <1>5, <1>7 DEF Exit, OcspGo, OcspTypeOK
  <2> QED BY <1>7, <1>9, <2>1, <2>2 DEF Succeeds
<1>12. OcspTypeOK' /\ Staged(i)' /\ Excused(i)'
  <2>0. \A j \in OcspProcs : DOMAIN memory'[j] = DOMAIN After
    BY <1>4
  <2>1. CASE Reading(i, here) = None
    <3>1. ocspPc' = [ocspPc EXCEPT ![i] = "over"] /\ ocspRet' = [ocspRet EXCEPT ![i] = FatalError]
      BY <1>1, <2>1 DEF Exit
    <3>2. ocspPc'[i] = "over" /\ ocspRet'[i] = FatalError
      BY <1>3, <3>1 DEF OcspTypeOK
    <3>3. OcspTypeOK'
      BY <1>2, <1>3, <2>0, <3>1 DEF OcspTypeOK
    <3>4. here \in ResponderPcs => ~FilesFit(i)
      BY <1>1, <2>1, FilesRead
    <3>5. Staged(i)'
      BY <3>2 DEF Staged, ClientPcs, ResponderPcs
    <3>6. Excused(i)'
      BY <1>3, <1>5, <1>8, <3>4 DEF Excused
    <3> QED BY <3>3, <3>5, <3>6
  <2>2. CASE Reading(i, here) # None
    <3>1. ocspPc' = [ocspPc EXCEPT ![i] = After[here]] /\ ocspRet' = ocspRet
      BY <1>1, <2>2 DEF OcspGo
    <3>2. ocspPc'[i] = After[here] /\ ocspRet'[i] = None
      BY <1>3, <1>5, <3>1 DEF OcspTypeOK
    <3>3. After[here] \in DOMAIN After \cup {"check", "addSigner"}
      BY ReadingOrder
    <3>4. OcspTypeOK'
      BY <1>2, <1>3, <2>0, <3>1, <3>3 DEF OcspTypeOK
    <3>5. Excused(i)'
      BY <1>7, <3>2 DEF Excused
    <3>6. /\ \A name \in DOMAIN After \ {here} : memory[i][name] # None => memory'[i][name] # None
          /\ memory'[i][here] # None
      BY <1>3, <1>4, <2>2 DEF OcspTypeOK
    <3>7. here = "index" => IsCert(memory'[i].ca)
      BY <1>1, <1>3, <1>4, <2>2, ReadingOrder DEF Reading, OcspTypeOK
    <3>8. Staged(i)'
      <4>1. /\ here = "cert" => HasRead(i, {"cert"})'
            /\ here = "issuer" => HasRead(i, {"cert", "issuer"})'
            /\ here = "CAfile" => HasRead(i, ReadToAsk)'
        BY <1>1, <1>3, <3>6, ReadingOrder DEF Staged, HasRead, ReadToAsk
      <4>2. /\ here = "ca" => HasRead(i, {"ca"})'
            /\ here = "rsigner" => HasRead(i, {"ca", "rsigner"})'
            /\ here = "rkey" => HasRead(i, {"ca", "rsigner", "rkey"})'
            /\ here = "index" => HasRead(i, ReadToServe)'
        BY <1>1, <1>3, <3>6, ReadingOrder DEF Staged, HasRead, ReadToServe
      <4>3. /\ here \in {"cert", "issuer", "CAfile"} => here \in ClientPcs
            /\ here \in {"ca", "rsigner", "rkey", "index"} => here \in ResponderPcs
        BY DEF ClientPcs, ResponderPcs
      <4>4. \/ here = "cert" /\ ocspPc'[i] = "issuer"
            \/ here = "issuer" /\ ocspPc'[i] = "CAfile"
            \/ here = "CAfile" /\ ocspPc'[i] = "check"
            \/ here = "ca" /\ ocspPc'[i] = "rsigner"
            \/ here = "rsigner" /\ ocspPc'[i] = "rkey"
            \/ here = "rkey" /\ ocspPc'[i] = "index"
            \/ here = "index" /\ ocspPc'[i] = "addSigner"
        BY <3>2, ReadingOrder
      <4> QED BY <1>5, <1>8, <1>9, <3>2, <3>7, <4>1, <4>2, <4>3, <4>4 DEF Staged, ClientPcs, ResponderPcs
    <3> QED BY <3>4, <3>5, <3>8
  <2> QED BY <2>1, <2>2
<1>13. \A j \in OcspProcs \ {i} :
         /\ memory'[j] = memory[j] /\ ocspPc'[j] = ocspPc[j] /\ ocspRet'[j] = ocspRet[j]
         /\ verdict'[j] = verdict[j] /\ asked'[j] = asked[j]
  BY <1>1, <1>2, <1>3, <1>4 DEF OcspTypeOK, Exit, OcspGo
<1>14. /\ {i} \in SUBSET OcspProcs /\ ocspLine' = ocspLine /\ indexFile' = indexFile
       /\ ocspTrouble \subseteq ocspTrouble'
  BY <1>2
<1>15. \A j \in {i} : ocspPc[j] \in {"serve", "over"} => memory'[j] = memory[j] /\ ocspPc'[j] \in {"serve", "over"}
  BY <1>1, <1>3
<1>16. \A j \in {i} : Kept(j)' /\ Staged(j)' /\ ToldBy(j)' /\ Unasked(j)' /\ Succeeds(j)' /\ Excused(j)'
  BY <1>6, <1>10, <1>11, <1>12
<1>17. memory' = [j \in OcspProcs |-> [name \in DOMAIN After |-> memory'[j][name]]]
  BY <1>4
<1>18. OcspTypeOK'
  BY <1>12
<1> QED BY <1>13, <1>14, <1>15, <1>16, <1>17, <1>18, OthersStay

LEMMA ResponderAsked ==
  ASSUME OcspInv, NEW i \in OcspProcs, NEW j \in OcspProcs, AskResponder(i, j) PROVE OcspInv'
<1> DEFINE told == IF Believes(i, memory[j].rsigner.of) THEN Told(Answer(j, memory[i].cert.of)) ELSE "failed"
           exhausted == OutOfRequests(j)
<1>1. /\ ocspPc[i] = "check" /\ ocspPc[j] = "serve"
      /\ verdict' = [verdict EXCEPT ![i] = told] /\ asked' = [asked EXCEPT ![i] = j]
      /\ ocspPc' = [ocspPc EXCEPT ![i] = "over", ![j] = IF exhausted THEN "over" ELSE @]
      /\ ocspRet' = [ocspRet EXCEPT ![i] = RetOf(told), ![j] = IF exhausted THEN Success ELSE @]
      /\ UNCHANGED <<ocspLine, indexFile, memory, ocspTrouble>>
  BY DEF AskResponder, Reaches, OcspAt
<1>2. answered' \in [OcspProcs -> Nat]
  <2>1. PICK n \in {answered[j], answered[j] + 1} : answered' = [answered EXCEPT ![j] = n]
    BY DEF AskResponder
  <2>2. answered \in [OcspProcs -> Nat]
    BY DEF OcspInv, OcspTypeOK
  <2> QED BY <2>1, <2>2
<1>3. told \in {"good", "revoked", "failed"} /\ RetOf(told) \in {Success, FatalError}
      /\ (RetOf(told) = Success <=> told # "failed")
  BY DEF Told, RetOf, Success, FatalError
<1> HIDE DEF exhausted, told
<1>4. OcspTypeOK /\ Staged(i) /\ Staged(j) /\ Kept(i) /\ Kept(j) /\ i # j
  BY <1>1 DEF OcspInv
<1>5. /\ IsClient(i) /\ ~IsResponder(i) /\ ~OcspHelp(i) /\ HasRead(i, ReadToAsk)
      /\ IsResponder(j) /\ ~IsClient(j) /\ HasRead(j, ReadToServe) /\ MaySign(j) /\ IsCert(memory[j].ca)
      /\ ~OcspHelp(j) /\ ~OcspRefuses(j)
      /\ verdict[j] = None /\ asked[j] = None /\ ocspRet[j] = None
  BY <1>1, <1>4 DEF Staged, ClientPcs, ResponderPcs
<1>6. /\ ocspPc'[i] = "over" /\ ocspRet'[i] = RetOf(told) /\ verdict'[i] = told /\ asked'[i] = j
      /\ memory'[i] = memory[i] /\ memory'[j] = memory[j]
      /\ verdict'[j] = None /\ asked'[j] = None
      /\ \/ ocspPc'[j] = "over" /\ ocspRet'[j] = Success
         \/ ocspPc'[j] = "serve" /\ ocspRet'[j] = None
  BY <1>1, <1>4, <1>5 DEF OcspTypeOK
<1>7. /\ None # Success /\ None # FatalError /\ None # "good" /\ None # "revoked" /\ Success # FatalError
      /\ None \notin OcspProcs
  BY OcspAssumption DEF Success, FatalError
<1>8. \A k \in {i, j} :
        /\ OcspRefuses(k)' = OcspRefuses(k) /\ IsClient(k)' = IsClient(k)
        /\ IsResponder(k)' = IsResponder(k) /\ OcspHelp(k)' = OcspHelp(k)
        /\ \A o : Arg(k, o)' = Arg(k, o)
  BY <1>1, SameOptions
<1>9. /\ HasRead(i, ReadToAsk)' /\ HasRead(j, ReadToServe)' /\ MaySign(j)' /\ IsCert(memory[j].ca)'
      /\ \A x : Answer(j, x)' = Answer(j, x) /\ Believes(i, x)' = Believes(i, x)
  BY <1>5, <1>6, SameMemory
<1>10. OcspTypeOK'
  <2>1. ocspPc' \in [OcspProcs -> DOMAIN After \cup {"options", "check", "addSigner", "listen", "serve", "over"}]
    BY <1>1, <1>4 DEF OcspTypeOK
  <2>2. ocspRet' \in [OcspProcs -> {None, Success, FatalError}]
    BY <1>1, <1>3, <1>4 DEF OcspTypeOK
  <2>3. /\ verdict' \in [OcspProcs -> {None, "good", "revoked", "failed"}]
        /\ asked' \in [OcspProcs -> OcspProcs \cup {None}]
    BY <1>1, <1>3, <1>4 DEF OcspTypeOK
  <2> QED BY <1>1, <1>2, <1>4, <2>1, <2>2, <2>3 DEF OcspTypeOK
<1>11. Kept(i)' /\ Kept(j)'
  BY <1>1, <1>4, <1>8 DEF Kept
<1>12. Staged(i)' /\ Unasked(i)' /\ Succeeds(i)' /\ Excused(i)'
  <2>1. Staged(i)' /\ Unasked(i)'
    BY <1>6, <1>7 DEF Staged, Unasked, ClientPcs, ResponderPcs
  <2>2. Succeeds(i)' /\ Excused(i)'
    BY <1>3, <1>5, <1>6, <1>8 DEF Succeeds, Excused
  <2> QED BY <2>1, <2>2
<1>13. ToldBy(i)'
  <2> SUFFICES ASSUME NEW k \in OcspProcs, asked'[i] = k
               PROVE  (/\ ocspPc[i] = "over" /\ ocspPc[k] \in {"serve", "over"}
                       /\ HasRead(i, ReadToAsk) /\ HasRead(k, ReadToServe) /\ MaySign(k)
                       /\ verdict[i] = IF Believes(i, memory[k].rsigner.of)
                                       THEN Told(Answer(k, memory[i].cert.of)) ELSE "failed")'
    BY DEF ToldBy
  <2>1. k = j
    BY <1>6
  <2>2. told = (IF Believes(i, memory[j].rsigner.of) THEN Told(Answer(j, memory[i].cert.of)) ELSE "failed")'
    BY <1>6, <1>9 DEF told, Told
  <2> QED BY <1>6, <1>9, <2>1, <2>2
<1>14. Staged(j)' /\ ToldBy(j)' /\ Unasked(j)' /\ Succeeds(j)' /\ Excused(j)'
  <2>1. Staged(j)'
    BY <1>5, <1>6, <1>8, <1>9 DEF Staged, ClientPcs, ResponderPcs
  <2>2. ToldBy(j)' /\ Unasked(j)'
    BY <1>6, <1>7 DEF ToldBy, Unasked
  <2>3. Succeeds(j)' /\ Excused(j)'
    BY <1>5, <1>6, <1>7, <1>8 DEF Succeeds, Excused
  <2> QED BY <2>1, <2>2, <2>3
<1>15. \A k \in OcspProcs \ {i, j} :
         /\ memory'[k] = memory[k] /\ ocspPc'[k] = ocspPc[k] /\ ocspRet'[k] = ocspRet[k]
         /\ verdict'[k] = verdict[k] /\ asked'[k] = asked[k]
  BY <1>1, <1>4 DEF OcspTypeOK
<1>16. \A k \in {i, j} : ocspPc[k] \in {"serve", "over"} => memory'[k] = memory[k] /\ ocspPc'[k] \in {"serve", "over"}
  BY <1>6
<1>17. \A k \in {i, j} : Kept(k)' /\ Staged(k)' /\ ToldBy(k)' /\ Unasked(k)' /\ Succeeds(k)' /\ Excused(k)'
  BY <1>11, <1>12, <1>13, <1>14
<1>18. memory' = [k \in OcspProcs |-> [name \in DOMAIN After |-> memory'[k][name]]]
  BY <1>1 DEF OcspInv
<1>19. /\ {i, j} \in SUBSET OcspProcs /\ ocspLine' = ocspLine /\ indexFile' = indexFile
       /\ ocspTrouble \subseteq ocspTrouble'
  BY <1>1
<1> QED BY <1>10, <1>15, <1>16, <1>17, <1>18, <1>19, OthersStay

LEMMA OcspSteps == ASSUME OcspInv, [OcspNext]_ocspVars PROVE OcspInv'
<1>1. CASE UNCHANGED ocspVars
  <2>1. \A i \in OcspProcs \ {} :
          /\ memory'[i] = memory[i] /\ ocspPc'[i] = ocspPc[i] /\ ocspRet'[i] = ocspRet[i]
          /\ verdict'[i] = verdict[i] /\ asked'[i] = asked[i]
    BY <1>1 DEF ocspVars
  <2>2. /\ memory' = [i \in OcspProcs |-> [name \in DOMAIN After |-> memory'[i][name]]]
        /\ ocspLine' = ocspLine /\ indexFile' = indexFile /\ ocspTrouble \subseteq ocspTrouble'
        /\ {} \in SUBSET OcspProcs
    BY <1>1 DEF ocspVars, OcspInv
  <2>3. OcspTypeOK'
    BY <1>1 DEF ocspVars, OcspInv, OcspTypeOK
  <2> QED BY <2>1, <2>2, <2>3, OthersStay
<1>2. CASE Revise
  BY <1>2, IndexRevised
<1>3. ASSUME NEW i \in OcspProcs,
             \/ OcspSetup(i) \/ ReadFile(i) \/ CallFails(i)
             \/ AddSigner(i) \/ Listen(i) \/ Stop(i)
             \/ AskNobody(i) \/ \E j \in OcspProcs : AskResponder(i, j)
      PROVE  OcspInv'
  BY <1>3, OptionsEnd, AFileRead, ACallFails, SignerAdded, PortTaken, Stopped, NobodyAsked, ResponderAsked
<1>4. CASE OcspEnded
  BY <1>1, <1>4 DEF OcspEnded
<1> QED BY <1>1, <1>2, <1>3, <1>4 DEF OcspNext

LEMMA OcspInvariance == OcspSpec => []OcspInv
<1>1. OcspInit => OcspInv
  BY OcspStarts DEF OcspInit
<1>2. OcspInv /\ [OcspNext]_ocspVars => OcspInv'
  BY OcspSteps
<1> QED BY <1>1, <1>2, PTL DEF OcspSpec

\* Whom a client trusts, and what a responder serves, are what their options name.
LEMMA ReadAsNamed ==
  ASSUME OcspInv, NEW i \in OcspProcs
  PROVE  /\ HasRead(i, ReadToAsk) =>
              /\ memory[i].cert.of = Named(i, "-cert")
              /\ \A x \in Trusted(i) : \E option \in {"-issuer", "-CAfile"} :
                   Content(Arg(i, option)) # None /\ Named(i, option) = x
              /\ \A option \in {"-issuer", "-CAfile"} :
                   Content(Arg(i, option)) # None => Named(i, option) \in Trusted(i)
         /\ HasRead(i, ReadToServe) => memory[i].ca.of = Named(i, "-CA")
<1>1. Kept(i)
  BY DEF OcspInv
<1>2. ASSUME HasRead(i, ReadToAsk)
      PROVE  /\ memory[i].cert.of = Named(i, "-cert")
             /\ Content(Arg(i, "-issuer")) # None /\ memory[i].issuer = {Named(i, "-issuer")}
             /\ IF Arg(i, "-CAfile") = None THEN memory[i].CAfile = {}
                ELSE Content(Arg(i, "-CAfile")) # None /\ memory[i].CAfile = {Named(i, "-CAfile")}
  BY <1>1, <1>2 DEF Kept, HasRead, ReadToAsk, Der, Named, LoadCA, IsCert
<1>3. ASSUME HasRead(i, ReadToServe) PROVE memory[i].ca.of = Named(i, "-CA")
  BY <1>1, <1>3 DEF Kept, HasRead, ReadToServe, Der, Named
<1>4. Arg(i, "-CAfile") = None => Content(Arg(i, "-CAfile")) = None
  BY OcspAssumption DEF Content
<1> QED BY <1>2, <1>3, <1>4 DEF Trusted

LEMMA TellsTheStatus == ASSUME OcspInv PROVE OcspTellsTheStatus
<1> SUFFICES ASSUME NEW i \in OcspProcs
    PROVE  /\ verdict[i] \in {"good", "revoked"} /\ Url(i) # None => asked[i] # None /\ Vouched(i)
           /\ (ocspRet[i] = Success /\ IsClient(i) /\ ~OcspHelp(i)) <=> verdict[i] \in {"good", "revoked"}
           /\ asked[i] # None /\ TrustsCA(i, asked[i]) =>
                verdict[i] = LET s == Answer(asked[i], Named(i, "-cert"))
                             IN  IF s \in {"good", "revoked"} THEN s ELSE "failed"
           /\ Excused(i)
  BY DEF OcspTellsTheStatus, Excused
<1>1. /\ Kept(i) /\ ToldBy(i) /\ Unasked(i) /\ Succeeds(i) /\ Excused(i)
      /\ asked[i] \in OcspProcs \cup {None}
  BY DEF OcspInv, OcspTypeOK
<1>2. (ocspRet[i] = Success /\ IsClient(i) /\ ~OcspHelp(i)) <=> verdict[i] \in {"good", "revoked"}
  BY <1>1 DEF Succeeds
<1>3. ASSUME verdict[i] \in {"good", "revoked"}, Url(i) # None
      PROVE  asked[i] # None /\ Vouched(i)
  <2>1. PICK j \in OcspProcs : asked[i] = j
    BY <1>1, <1>3 DEF Unasked
  <2>2. /\ HasRead(i, ReadToAsk) /\ HasRead(j, ReadToServe)
        /\ verdict[i] = IF Believes(i, memory[j].rsigner.of)
                        THEN Told(Answer(j, memory[i].cert.of)) ELSE "failed"
    BY <1>1, <2>1 DEF ToldBy
  <2>3. Believes(i, memory[j].rsigner.of) /\ verdict[i] = Answer(j, memory[i].cert.of)
    BY <1>3, <2>2 DEF Told
  <2>4. /\ memory[i].cert.of = Named(i, "-cert") /\ memory[j].ca.of = Named(j, "-CA")
        /\ Issues(Named(j, "-CA"), Named(i, "-cert"))
        /\ Named(i, "-cert").serial \in DOMAIN memory[j].index
        /\ verdict[i] = memory[j].index[Named(i, "-cert").serial]
    BY <1>3, <2>2, <2>3, ReadAsNamed DEF Answer
  <2>5. PICK x \in Trusted(i) : Issues(x, Named(i, "-cert"))
    BY <2>3, <2>4 DEF Believes
  <2>6. PICK option \in {"-issuer", "-CAfile"} : Content(Arg(i, option)) # None /\ Named(i, option) = x
    BY <2>2, <2>5, ReadAsNamed
  <2>7. Named(i, option).subject = Named(j, "-CA").subject /\ Named(i, option).key = Named(j, "-CA").key
    BY <2>4, <2>5, <2>6 DEF Issues
  <2>8. /\ Arg(j, "-index") = "index" /\ memory[j].index \in {OcspDisk["index"], indexFile}
    <3>1. Kept(j) /\ memory[j].index # None
      BY <2>2 DEF OcspInv, HasRead, ReadToServe
    <3>2. memory[j].index # << >>
      BY <2>4
    <3> QED BY <3>1, <3>2 DEF Kept
  <2>9. \E index \in {OcspDisk["index"], indexFile} :
          Named(i, "-cert").serial \in DOMAIN index /\ verdict[i] = index[Named(i, "-cert").serial]
    BY <2>4, <2>8
  <2>10. j # None
    BY OcspAssumption
  <2> QED BY <2>1, <2>4, <2>6, <2>7, <2>8, <2>9, <2>10 DEF Vouched
<1>4. ASSUME asked[i] # None, TrustsCA(i, asked[i])
      PROVE  verdict[i] = LET s == Answer(asked[i], Named(i, "-cert"))
                          IN  IF s \in {"good", "revoked"} THEN s ELSE "failed"
  <2>1. PICK j \in OcspProcs : asked[i] = j
    BY <1>1, <1>4
  <2>2. /\ HasRead(i, ReadToAsk) /\ HasRead(j, ReadToServe) /\ MaySign(j)
        /\ verdict[i] = IF Believes(i, memory[j].rsigner.of)
                        THEN Told(Answer(j, memory[i].cert.of)) ELSE "failed"
    BY <1>1, <2>1 DEF ToldBy
  <2>3. memory[i].cert.of = Named(i, "-cert") /\ memory[j].ca.of = Named(j, "-CA")
    BY <2>2, ReadAsNamed
  <2>4. PICK option \in {"-issuer", "-CAfile"} :
          Content(Arg(i, option)) # None /\ Named(i, option) = Named(j, "-CA")
    BY <1>4, <2>1 DEF TrustsCA
  <2>5. memory[j].ca.of \in Trusted(i)
    BY <2>2, <2>3, <2>4, ReadAsNamed
  <2>6. memory[j].ca # None
    BY <2>2 DEF HasRead, ReadToServe
  <2>7. \/ memory[j].rsigner.of = memory[j].ca.of
        \/ Issues(memory[j].ca.of, memory[j].rsigner.of) /\ memory[j].rsigner.of.ocsp
    BY <2>2, <2>6 DEF MaySign, CanSign, IssuerDer
  <2>8. CASE Answer(j, Named(i, "-cert")) \in {"good", "revoked"}
    <3>1. Issues(memory[j].ca.of, Named(i, "-cert"))
      BY <2>8 DEF Answer
    <3>2. Believes(i, memory[j].rsigner.of)
      BY <2>3, <2>5, <2>7, <3>1 DEF Believes
    <3> QED BY <2>1, <2>2, <2>3, <2>8, <3>2 DEF Told
  <2>9. CASE Answer(j, Named(i, "-cert")) \notin {"good", "revoked"}
    BY <2>1, <2>2, <2>3, <2>9 DEF Told
  <2> QED BY <2>8, <2>9
<1> QED BY <1>1, <1>2, <1>3, <1>4

-----------------------------------------------------------------------------
(* genkey, sign and verify.                                                *)

\* What genkey may still have to do to its files: both halves, one stream after the other (C) or
\* with the streams closed at the end (E), a stateful pair (U), the private key (P), the public one (S).
S1 == << <<"close", "pub">> >>
S2 == << <<"write", "pub">>, <<"close", "pub">> >>
S3 == << <<"open", "pub">>, <<"write", "pub">>, <<"close", "pub">> >>
P1 == << <<"close", "priv">> >>
P2 == << <<"write", "priv">>, <<"close", "priv">> >>
P3 == << <<"open", "priv">>, <<"write", "priv">>, <<"close", "priv">> >>
U1 == << <<"update", "priv">> >>
U4 == << <<"update", "priv">>, <<"open", "pub">>, <<"write", "pub">>, <<"close", "pub">> >>
C4 == << <<"close", "priv">>, <<"open", "pub">>, <<"write", "pub">>, <<"close", "pub">> >>
C5 == << <<"write", "priv">>, <<"close", "priv">>, <<"open", "pub">>, <<"write", "pub">>, <<"close", "pub">> >>
C6 == << <<"open", "priv">>, <<"write", "priv">>, <<"close", "priv">>, <<"open", "pub">>, <<"write", "pub">>,
         <<"close", "pub">> >>
E2 == << <<"close", "priv">>, <<"close", "pub">> >>
E3 == << <<"write", "pub">>, <<"close", "priv">>, <<"close", "pub">> >>
E4 == << <<"open", "pub">>, <<"write", "pub">>, <<"close", "priv">>, <<"close", "pub">> >>
E5 == << <<"write", "priv">>, <<"open", "pub">>, <<"write", "pub">>, <<"close", "priv">>, <<"close", "pub">> >>
E6 == << <<"open", "priv">>, <<"write", "priv">>, <<"open", "pub">>, <<"write", "pub">>, <<"close", "priv">>,
         <<"close", "pub">> >>

Asked == Directive(use.alg, use.make)
Intact == mishaps \cap {"lost", "no pem"} = {}
NoNewPub == keyFile["pub"].pair # "new"

\* How far a pair is, when the private key is asked for and nothing was lost.
PairSoFar ==
  \/ todo \in {C6, C5, U4, E6, E5} /\ held = {} /\ NoNewPub
  \/ todo \in {C4, E4, E3} /\ held = {"priv"} /\ NoNewPub
  \/ todo = E2 /\ held = Halves /\ NoNewPub
  \/ todo \in {S3, S2} /\ held = {} /\ NoNewPub /\ keyFile["priv"] = Made
  \/ todo = S1 /\ held = {"pub"} /\ NoNewPub /\ keyFile["priv"] = Made
  \/ todo = << >> /\ keyFile["priv"] = Made /\ keyFile["pub"] = Made
PrivSoFar == todo \in {P3, P2, P1, U1, << >>} /\ held \subseteq {"priv"} /\ NoNewPub

Making ==
  /\ keyPc = "make" /\ stage = "setup" => NoNewPub
  /\ keyPc = "make" /\ stage = "going" =>
       /\ ~MakeRefused(use.alg, use.make) /\ ~use.make.help
       /\ todo \in {S1, S2, S3, P1, P2, P3, U1, U4, C4, C5, C6, E2, E3, E4, E5, E6, << >>}
       /\ "priv" \in Asked /\ Intact => IF "pub" \in Asked THEN PairSoFar ELSE PrivSoFar
  /\ keyPc # "make" \/ stage = "setup" => todo = << >> /\ held = {}

\* A new public key comes with its private one, and a reported pair is there.
Paired ==
  /\ keyPc # "make" /\ "priv" \in Asked /\ Intact
  /\ \/ keyFile["pub"].pair = "new"
     \/ rets.make = Success /\ ~use.make.help /\ "pub" \in Asked
  => /\ keyFile["priv"] = Made /\ keyFile["pub"] = Made
     /\ ~MakeRefused(use.alg, use.make) /\ ~use.make.help

Ordered ==
  /\ rets = [make |-> rets.make, sign |-> rets.sign, verify |-> rets.verify]
  /\ keyPc = "make" <=> rets.make = NotYet
  /\ keyPc \in {"make", "sign"} <=> rets.sign = NotYet
  /\ keyPc # "over" <=> rets.verify = NotYet
  /\ keyPc = "over" => stage = "setup"

\* What a signature file, and a signature in memory, can hold.
WholeSignature(s) == s.by \in Pairs \cup {"garbage"} => s.msg \in {"m", "n"}
SignatureInv ==
  /\ WholeSignature(sigFile)
  /\ keyPc \in {"sign", "verify"} /\ stage = "going" =>
       /\ product.msg \in {"m", "n"}
       /\ use[keyPc].sign \/ (use[keyPc].verify /\ Algorithm(use[keyPc]) = "rsa")

Verified ==
  /\ keyPc = "verify" /\ stage = "going" /\ ~use.verify.sign =>
       /\ product = sigFile /\ sigFile.by \in Pairs /\ sigFile.by = keyFile[use.verify.inkey].pair
  /\ VerifiedIsSigned

Preserved ==
  /\ \/ keyPc = "make"
     \/ keyPc = "sign" /\ stage = "setup"
     \/ keyPc = "verify" /\ stage = "setup" /\ rets.sign = FatalError /\ "sign" \notin mishaps
     => sigFile = IF use.had THEN Signature("old", "m") ELSE NoSignature
  /\ /\ use.sign.sign
     /\ \/ keyPc \in {"make", "sign"}
        \/ keyPc = "verify" /\ stage = "setup"
        \/ rets.verify = FatalError /\ "verify" \notin mishaps
     => messageFile = "absent"

Unharmed == mishaps \cap {"sign", "verify", "lost", "no pem"} = {}
GoodRun ==
  /\ ProperSign(use.sign) /\ ProperVerify(use.verify) /\ use.sign.in = use.verify.in /\ Unharmed
  /\ "priv" \in Asked
  /\ \/ keyFile["pub"].pair = "new"
     \/ rets.make = Success /\ ~use.make.help /\ "pub" \in Asked
SignsWell ==
  keyPc # "make" /\ GoodRun =>
    /\ keyPc = "sign" /\ stage = "going" => product = Signature("new", use.sign.in)
    /\ keyPc = "verify" => sigFile = Signature("new", use.sign.in)
    /\ keyPc = "over" => rets.verify = Success

KeyInv ==
  /\ KeyTypeOK /\ use \in Uses /\ keyFile = [half \in Halves |-> keyFile[half]]
  /\ Making /\ Paired /\ Ordered /\ SignatureInv /\ Verified /\ Preserved /\ SignsWell

\* The first step of each, and what it leaves.
LEMMA StepTable ==
  /\ S1 # << >> /\ S1[1][1] = "close" /\ S1[1][2] = "pub" /\ Tail(S1) = << >>
  /\ S2 # << >> /\ S2[1][1] = "write" /\ S2[1][2] = "pub" /\ Tail(S2) = S1
  /\ S3 # << >> /\ S3[1][1] = "open" /\ S3[1][2] = "pub" /\ Tail(S3) = S2
  /\ P1 # << >> /\ P1[1][1] = "close" /\ P1[1][2] = "priv" /\ Tail(P1) = << >>
  /\ P2 # << >> /\ P2[1][1] = "write" /\ P2[1][2] = "priv" /\ Tail(P2) = P1
  /\ P3 # << >> /\ P3[1][1] = "open" /\ P3[1][2] = "priv" /\ Tail(P3) = P2
  /\ U1 # << >> /\ U1[1][1] = "update" /\ U1[1][2] = "priv" /\ Tail(U1) = << >>
  /\ U4 # << >> /\ U4[1][1] = "update" /\ U4[1][2] = "priv" /\ Tail(U4) = S3
  /\ C4 # << >> /\ C4[1][1] = "close" /\ C4[1][2] = "priv" /\ Tail(C4) = S3
  /\ C5 # << >> /\ C5[1][1] = "write" /\ C5[1][2] = "priv" /\ Tail(C5) = C4
  /\ C6 # << >> /\ C6[1][1] = "open" /\ C6[1][2] = "priv" /\ Tail(C6) = C5
  /\ E2 # << >> /\ E2[1][1] = "close" /\ E2[1][2] = "priv" /\ Tail(E2) = S1
  /\ E3 # << >> /\ E3[1][1] = "write" /\ E3[1][2] = "pub" /\ Tail(E3) = E2
  /\ E4 # << >> /\ E4[1][1] = "open" /\ E4[1][2] = "pub" /\ Tail(E4) = E3
  /\ E5 # << >> /\ E5[1][1] = "write" /\ E5[1][2] = "priv" /\ Tail(E5) = E4
  /\ E6 # << >> /\ E6[1][1] = "open" /\ E6[1][2] = "priv" /\ Tail(E6) = E5
<1>1. /\ S1 # << >> /\ S1[1][1] = "close" /\ S1[1][2] = "pub" /\ Tail(S1) = << >>
      /\ P1 # << >> /\ P1[1][1] = "close" /\ P1[1][2] = "priv" /\ Tail(P1) = << >>
      /\ U1 # << >> /\ U1[1][1] = "update" /\ U1[1][2] = "priv" /\ Tail(U1) = << >>
  BY DEF S1, P1, U1
<1>2. /\ S2 # << >> /\ S2[1][1] = "write" /\ S2[1][2] = "pub" /\ Tail(S2) = S1
      /\ P2 # << >> /\ P2[1][1] = "write" /\ P2[1][2] = "priv" /\ Tail(P2) = P1
      /\ E2 # << >> /\ E2[1][1] = "close" /\ E2[1][2] = "priv" /\ Tail(E2) = S1
  BY DEF S2, S1, P2, P1, E2
<1>3. /\ S3 # << >> /\ S3[1][1] = "open" /\ S3[1][2] = "pub" /\ Tail(S3) = S2
      /\ P3 # << >> /\ P3[1][1] = "open" /\ P3[1][2] = "priv" /\ Tail(P3) = P2
      /\ E3 # << >> /\ E3[1][1] = "write" /\ E3[1][2] = "pub" /\ Tail(E3) = E2
  BY DEF S3, S2, P3, P2, E3, E2
<1>4. U4 # << >> /\ U4[1][1] = "update" /\ U4[1][2] = "priv" /\ Tail(U4) = S3
  BY DEF U4, S3
<1>5. C4 # << >> /\ C4[1][1] = "close" /\ C4[1][2] = "priv" /\ Tail(C4) = S3
  BY DEF C4, S3
<1>6. E4 # << >> /\ E4[1][1] = "open" /\ E4[1][2] = "pub" /\ Tail(E4) = E3
  BY DEF E4, E3
<1>7. C5 # << >> /\ C5[1][1] = "write" /\ C5[1][2] = "priv" /\ Tail(C5) = C4
  BY DEF C5, C4
<1>8. E5 # << >> /\ E5[1][1] = "write" /\ E5[1][2] = "priv" /\ Tail(E5) = E4
  BY DEF E5, E4
<1>9. C6 # << >> /\ C6[1][1] = "open" /\ C6[1][2] = "priv" /\ Tail(C6) = C5
  BY DEF C6, C5
<1>10. E6 # << >> /\ E6[1][1] = "open" /\ E6[1][2] = "priv" /\ Tail(E6) = E5
  BY DEF E6, E5
<1> QED BY <1>1, <1>2, <1>3, <1>4, <1>5, <1>6, <1>7, <1>8, <1>9, <1>10

LEMMA StepsAsked ==
  ASSUME NEW alg, NEW o
  PROVE  LET halves == Directive(alg, o)
         IN  /\ halves \in {Halves, {"pub"}, {"priv"}}
             /\ halves = {"pub"} => FileSteps(alg, halves) = S3
             /\ halves = {"priv"} => FileSteps(alg, halves) \in {P3, U1}
             /\ halves = Halves => FileSteps(alg, halves) \in {U4, E6, C6}
<1> DEFINE halves == Directive(alg, o)
<1>1. halves \in {Halves, {"pub"}, {"priv"}}
  BY DEF Directive
<1>2. Halves # {"pub"} /\ Halves # {"priv"} /\ {"pub"} # {"priv"}
  BY DEF Halves
<1> HIDE DEF halves
<1>3. halves = {"pub"} => FileSteps(alg, halves) = S3
  BY DEF FileSteps, S3
<1>4. halves = {"priv"} => FileSteps(alg, halves) \in {P3, U1}
  BY <1>2 DEF FileSteps, P3, U1
<1>5. halves = Halves => FileSteps(alg, halves) \in {U4, E6, C6}
  BY <1>2 DEF FileSteps, U4, E6, C6
<1> QED BY <1>1, <1>3, <1>4, <1>5 DEF halves

LEMMA KeyStarts == ASSUME NEW u \in Uses, KeyStart(u) PROVE KeyInv
<1>1. /\ use \in Uses /\ keyPc = "make" /\ stage = "setup" /\ todo = << >> /\ held = {}
      /\ product = NoSignature /\ messageFile = "absent" /\ mishaps = {}
      /\ rets = [make |-> NotYet, sign |-> NotYet, verify |-> NotYet]
      /\ sigFile = IF use.had THEN Signature("old", "m") ELSE NoSignature
  BY DEF KeyStart
<1>2. /\ keyFile = [half \in Halves |-> keyFile[half]]
      /\ \A half \in Halves : keyFile[half].pair \in {"old", "absent"}
  <2>1. keyFile = [half \in Halves |-> IF use.had THEN [Made EXCEPT !.pair = "old"] ELSE NoKeyFile]
    BY DEF KeyStart
  <2>2. [Made EXCEPT !.pair = "old"].pair = "old" /\ NoKeyFile.pair = "absent"
    BY DEF Made, NoKeyFile, KeyContent
  <2> QED BY <2>1, <2>2
<1>3. "priv" \in Halves /\ "pub" \in Halves
  BY DEF Halves
<1>4. KeyTypeOK
  BY <1>1, <1>2 DEF KeyTypeOK, NoSignature, Signature, Pairs
<1>5. Making /\ Paired /\ Ordered
  BY <1>1, <1>2, <1>3 DEF Making, NoNewPub, Paired, Ordered, NotYet, Success
<1>6. SignatureInv
  BY <1>1 DEF SignatureInv, WholeSignature, NoSignature, Signature, Pairs
<1>7. Verified /\ Preserved /\ SignsWell
  BY <1>1 DEF Verified, VerifiedIsSigned, Preserved, SignsWell, NotYet, Success
<1> QED BY <1>1, <1>2, <1>4, <1>5, <1>6, <1>7 DEF KeyInv

LEMMA SameUse ==
  ASSUME use' = use
  PROVE  /\ Made' = Made /\ Asked' = Asked
         /\ MakeRefused(use.alg, use.make)' = MakeRefused(use.alg, use.make)
  BY DEF Made, Asked, Directive, MakeRefused

\* While genkey goes on only the key files change.
LEMMA GenkeyGoesOn ==
  ASSUME KeyInv, keyPc = "make", stage' = "going",
         UNCHANGED <<use, keyPc, rets, product, sigFile, messageFile>>,
         held' \subseteq Halves, keyFile' = [half \in Halves |-> keyFile'[half]],
         \A half \in Halves : keyFile'[half].pair \in Pairs \cup {"absent", "broken"},
         mishaps' \subseteq {"make", "sign", "verify", "lost", "no pem"},
         Making'
  PROVE  KeyInv'
<1>1. KeyTypeOK /\ Ordered /\ SignatureInv /\ Preserved /\ use \in Uses
  BY DEF KeyInv
<1>2. KeyTypeOK' /\ Ordered'
  BY <1>1 DEF KeyTypeOK, Ordered
<1>3. Paired' /\ SignsWell' /\ SignatureInv'
  BY <1>1 DEF Paired, SignsWell, SignatureInv, WholeSignature
<1>4. Verified'
  BY <1>1 DEF Verified, VerifiedIsSigned, Ordered, NotYet, Success
<1>5. Preserved'
  BY <1>1 DEF Preserved, Ordered, NotYet, FatalError
<1> QED BY <1>1, <1>2, <1>3, <1>4, <1>5 DEF KeyInv

LEMMA KeyMakes == ASSUME KeyInv, GenMakes PROVE KeyInv'
<1>1. KeyTypeOK /\ Making /\ use \in Uses /\ keyFile = [half \in Halves |-> keyFile[half]]
  BY DEF KeyInv
<1>2. /\ keyPc = "make" /\ stage = "setup" /\ stage' = "going"
      /\ ~MakeRefused(use.alg, use.make) /\ ~use.make.help
      /\ todo' = FileSteps(use.alg, Asked)
      /\ UNCHANGED <<use, keyPc, rets, product, held, keyFile, sigFile, messageFile, mishaps>>
  BY DEF GenMakes, KeyGoesOn, Asked
<1>3. /\ Asked \in {Halves, {"pub"}, {"priv"}}
      /\ Asked = {"pub"} => todo' = S3
      /\ Asked = {"priv"} => todo' \in {P3, U1}
      /\ Asked = Halves => todo' \in {U4, E6, C6}
  BY <1>2, StepsAsked DEF Asked
<1>4. NoNewPub' /\ held' = {} /\ Asked' = Asked
  BY <1>1, <1>2, SameUse DEF Making, NoNewPub
<1>5. Halves = {"priv", "pub"}
  BY DEF Halves
<1>6. Making'
  <2>1. "priv" \in Asked /\ "pub" \in Asked => PairSoFar'
    BY <1>3, <1>4, <1>5 DEF PairSoFar
  <2>2. "priv" \in Asked /\ "pub" \notin Asked => PrivSoFar'
    BY <1>3, <1>4, <1>5 DEF PrivSoFar
  <2>3. todo' \in {S3, P3, U1, U4, E6, C6}
    BY <1>3
  <2> QED BY <1>2, <1>4, <2>1, <2>2, <2>3, SameUse DEF Making
<1> QED BY <1>1, <1>2, <1>6, GenkeyGoesOn DEF KeyTypeOK

\* A step on a file: what is left to do is shorter by it.
Suffixes == {S1, S2, S3, P1, P2, P3, U1, U4, C4, C5, C6, E2, E3, E4, E5, E6, << >>}

LEMMA Opens ==
  ASSUME NEW t, t[1][1] = "open"
  PROVE  /\ t \in Suffixes \ {<< >>} => t[1][2] \in Halves /\ Tail(t) \in {S2, P2, C5, E5, E3}
         /\ t \in {C6, C5, U4, E6, E5} => Tail(t) \in {C5, E5}
         /\ t \in {C4, E4, E3} => Tail(t) = E3 /\ t[1][2] = "pub"
         /\ t \in {S3, S2} => Tail(t) = S2 /\ t[1][2] = "pub"
         /\ t # E2 /\ t # S1
         /\ t \in {P3, P2, P1, U1} => Tail(t) = P2
<1>1. /\ S1[1][1] # "open" /\ S2[1][1] # "open" /\ P1[1][1] # "open" /\ P2[1][1] # "open"
      /\ U1[1][1] # "open" /\ U4[1][1] # "open" /\ C4[1][1] # "open" /\ C5[1][1] # "open"
      /\ E2[1][1] # "open" /\ E3[1][1] # "open" /\ E5[1][1] # "open"
      /\ Tail(C6) = C5 /\ Tail(E6) = E5 /\ Tail(E4) = E3 /\ Tail(S3) = S2 /\ Tail(P3) = P2
      /\ C6[1][2] = "priv" /\ E6[1][2] = "priv" /\ E4[1][2] = "pub" /\ S3[1][2] = "pub" /\ P3[1][2] = "priv"
  BY StepTable
<1> QED BY <1>1 DEF Suffixes, Halves

LEMMA Writes ==
  ASSUME NEW t, t[1][1] = "write"
  PROVE  /\ t \in Suffixes \ {<< >>} => t[1][2] \in Halves /\ Tail(t) \in {S1, P1, C4, E4, E2}
         /\ t \in {C6, C5, U4, E6, E5} => Tail(t) \in {C4, E4} /\ t[1][2] = "priv"
         /\ t \in {C4, E4, E3} => Tail(t) = E2 /\ t[1][2] = "pub"
         /\ t \in {S3, S2} => Tail(t) = S1 /\ t[1][2] = "pub"
         /\ t # E2 /\ t # S1
         /\ t \in {P3, P2, P1, U1} => Tail(t) = P1 /\ t[1][2] = "priv"
<1>1. /\ S1[1][1] # "write" /\ S3[1][1] # "write" /\ P1[1][1] # "write" /\ P3[1][1] # "write"
      /\ U1[1][1] # "write" /\ U4[1][1] # "write" /\ C4[1][1] # "write" /\ C6[1][1] # "write"
      /\ E2[1][1] # "write" /\ E4[1][1] # "write" /\ E6[1][1] # "write"
      /\ Tail(C5) = C4 /\ Tail(E5) = E4 /\ Tail(E3) = E2 /\ Tail(S2) = S1 /\ Tail(P2) = P1
      /\ C5[1][2] = "priv" /\ E5[1][2] = "priv" /\ E3[1][2] = "pub" /\ S2[1][2] = "pub" /\ P2[1][2] = "priv"
  BY StepTable
<1> QED BY <1>1 DEF Suffixes, Halves

LEMMA Closes ==
  ASSUME NEW t, t[1][1] = "close"
  PROVE  /\ t \in Suffixes \ {<< >>} => t[1][2] \in Halves /\ Tail(t) \in {S1, S3, << >>}
         /\ t \notin {C6, C5, U4, E6, E5}
         /\ t \in {C4, E4, E3} => Tail(t) = S3 /\ t[1][2] = "priv"
         /\ t = E2 => Tail(t) = S1 /\ t[1][2] = "priv"
         /\ t \notin {S3, S2}
         /\ t = S1 => Tail(t) = << >> /\ t[1][2] = "pub"
         /\ t \in {P3, P2, P1, U1} => Tail(t) = << >> /\ t[1][2] = "priv"
<1>1. /\ S2[1][1] # "close" /\ S3[1][1] # "close" /\ P2[1][1] # "close" /\ P3[1][1] # "close"
      /\ U1[1][1] # "close" /\ U4[1][1] # "close" /\ C5[1][1] # "close" /\ C6[1][1] # "close"
      /\ E3[1][1] # "close" /\ E4[1][1] # "close" /\ E5[1][1] # "close" /\ E6[1][1] # "close"
      /\ Tail(C4) = S3 /\ Tail(E2) = S1 /\ Tail(S1) = << >> /\ Tail(P1) = << >>
      /\ C4[1][2] = "priv" /\ E2[1][2] = "priv" /\ S1[1][2] = "pub" /\ P1[1][2] = "priv"
  BY StepTable
<1> QED BY <1>1 DEF Suffixes, Halves

LEMMA Updates ==
  ASSUME NEW t, t[1][1] = "update"
  PROVE  /\ t \in Suffixes \ {<< >>} => t[1][2] = "priv" /\ Tail(t) \in {S3, << >>}
         /\ t \in {C6, C5, U4, E6, E5} => Tail(t) = S3
         /\ t \notin {C4, E4, E3} /\ t \notin {S3, S2} /\ t # E2 /\ t # S1
         /\ t \in {P3, P2, P1, U1} => Tail(t) = << >>
<1>1. /\ S1[1][1] # "update" /\ S2[1][1] # "update" /\ S3[1][1] # "update" /\ P1[1][1] # "update"
      /\ P2[1][1] # "update" /\ P3[1][1] # "update" /\ C4[1][1] # "update" /\ C5[1][1] # "update"
      /\ C6[1][1] # "update" /\ E2[1][1] # "update" /\ E3[1][1] # "update" /\ E4[1][1] # "update"
      /\ E5[1][1] # "update" /\ E6[1][1] # "update"
      /\ Tail(U4) = S3 /\ Tail(U1) = << >> /\ U4[1][2] = "priv" /\ U1[1][2] = "priv"
  BY StepTable
<1> QED BY <1>1 DEF Suffixes

LEMMA StepLeft ==
  ASSUME KeyInv, keyPc = "make", todo # << >>
  PROVE  /\ stage = "going" /\ todo \in Suffixes \ {<< >>}
         /\ ~MakeRefused(use.alg, use.make) /\ ~use.make.help
         /\ "priv" \in Asked /\ Intact => IF "pub" \in Asked THEN PairSoFar ELSE PrivSoFar
<1>1. Making /\ KeyTypeOK
  BY DEF KeyInv
<1>2. stage = "going" /\ todo \in Suffixes \ {<< >>}
  BY <1>1 DEF Making, KeyTypeOK, Suffixes
<1> QED BY <1>1, <1>2 DEF Making

LEMMA KeyOpened == ASSUME KeyInv, KeyOpens PROVE KeyInv'
<1>1. KeyTypeOK /\ use \in Uses /\ keyFile = [half \in Halves |-> keyFile[half]]
  BY DEF KeyInv
<1>2. /\ keyPc = "make" /\ todo # << >> /\ todo[1][1] = "open" /\ todo' = Tail(todo) /\ stage' = "going"
      /\ keyFile' = [keyFile EXCEPT ![todo[1][2]] = BrokenKey]
      /\ UNCHANGED <<use, keyPc, rets, product, sigFile, messageFile, held, mishaps>>
  BY DEF KeyOpens, Step, KeyGoesOn, SetKeyFile, Half, KeepUse
<1>3. /\ todo \in Suffixes \ {<< >>} /\ todo' \in {S2, P2, C5, E5, E3} /\ todo[1][2] \in Halves
      /\ ~MakeRefused(use.alg, use.make) /\ ~use.make.help
      /\ "priv" \in Asked /\ Intact => IF "pub" \in Asked THEN PairSoFar ELSE PrivSoFar
  BY <1>2, StepLeft, Opens
<1>4. /\ keyFile' = [half \in Halves |-> keyFile'[half]]
      /\ \A half \in Halves : keyFile'[half].pair \in Pairs \cup {"absent", "broken"}
      /\ BrokenKey.pair = "broken" /\ "pub" \in Halves
  BY <1>1, <1>2 DEF KeyTypeOK, BrokenKey, KeyContent, Halves
<1>5. Made' = Made /\ Asked' = Asked /\ MakeRefused(use.alg, use.make)' = MakeRefused(use.alg, use.make)
  BY <1>2, SameUse
<1>6. NoNewPub => NoNewPub'
  BY <1>1, <1>2, <1>4 DEF NoNewPub
<1>7. PairSoFar => PairSoFar'
  <2>1. todo[1][2] = "pub" => keyFile'["priv"] = keyFile["priv"]
    BY <1>1, <1>2
  <2> QED BY <1>2, <1>3, <1>5, <1>6, <2>1, Opens DEF PairSoFar
<1>8. PrivSoFar => PrivSoFar'
  BY <1>2, <1>3, <1>6, Opens DEF PrivSoFar
<1>9. Making'
  BY <1>2, <1>3, <1>5, <1>7, <1>8 DEF Making, Intact
<1> QED BY <1>1, <1>2, <1>4, <1>9, GenkeyGoesOn DEF KeyTypeOK

LEMMA KeyWritten == ASSUME KeyInv, KeyWrites PROVE KeyInv'
<1>1. KeyTypeOK /\ use \in Uses /\ keyFile = [half \in Halves |-> keyFile[half]]
  BY DEF KeyInv
<1>2. /\ keyPc = "make" /\ todo # << >> /\ todo[1][1] = "write" /\ todo' = Tail(todo) /\ stage' = "going"
      /\ held' = held \cup {todo[1][2]}
      /\ UNCHANGED <<use, keyPc, rets, product, sigFile, messageFile, keyFile, mishaps>>
  BY DEF KeyWrites, Step, KeyGoesOn, Half, KeepUse
<1>3. /\ todo \in Suffixes \ {<< >>} /\ todo' \in {S1, P1, C4, E4, E2} /\ todo[1][2] \in Halves
      /\ ~MakeRefused(use.alg, use.make) /\ ~use.make.help
      /\ "priv" \in Asked /\ Intact => IF "pub" \in Asked THEN PairSoFar ELSE PrivSoFar
  BY <1>2, StepLeft, Writes
<1>4. Made' = Made /\ Asked' = Asked /\ MakeRefused(use.alg, use.make)' = MakeRefused(use.alg, use.make)
  BY <1>2, SameUse
<1>5. NoNewPub' = NoNewPub
  BY <1>2 DEF NoNewPub
<1>6. PairSoFar => PairSoFar'
  BY <1>2, <1>4, <1>5, Writes DEF PairSoFar, Halves
<1>7. PrivSoFar => PrivSoFar'
  BY <1>2, <1>3, <1>5, Writes DEF PrivSoFar
<1>8. Making'
  BY <1>2, <1>3, <1>4, <1>6, <1>7 DEF Making, Intact
<1>9. held' \subseteq Halves
  BY <1>1, <1>2, <1>3 DEF KeyTypeOK
<1> QED BY <1>1, <1>2, <1>8, <1>9, GenkeyGoesOn DEF KeyTypeOK

\* A half that is in its stream reaches its file when the stream is closed.
LEMMA KeyClosed == ASSUME KeyInv, KeyCloses PROVE KeyInv'
<1>1. KeyTypeOK /\ use \in Uses /\ keyFile = [half \in Halves |-> keyFile[half]]
  BY DEF KeyInv
<1>2. /\ keyPc = "make" /\ todo # << >> /\ todo[1][1] = "close" /\ todo' = Tail(todo) /\ stage' = "going"
      /\ held' = held \ {todo[1][2]}
      /\ keyFile' = IF todo[1][2] \in held THEN [keyFile EXCEPT ![todo[1][2]] = Made] ELSE keyFile
      /\ UNCHANGED <<use, keyPc, rets, product, sigFile, messageFile, mishaps>>
  BY DEF KeyCloses, Step, KeyGoesOn, Half, KeepUse
<1>3. /\ todo \in Suffixes \ {<< >>} /\ todo' \in {S1, S3, << >>} /\ todo[1][2] \in Halves
      /\ ~MakeRefused(use.alg, use.make) /\ ~use.make.help
      /\ "priv" \in Asked /\ Intact => IF "pub" \in Asked THEN PairSoFar ELSE PrivSoFar
  BY <1>2, StepLeft, Closes
<1>4. /\ keyFile' = [half \in Halves |-> keyFile'[half]]
      /\ \A half \in Halves : keyFile'[half].pair \in Pairs \cup {"absent", "broken"}
      /\ "pub" \in Halves /\ "priv" \in Halves
  BY <1>1, <1>2 DEF KeyTypeOK, Made, KeyContent, Halves, Pairs
<1>5. Made' = Made /\ Asked' = Asked /\ MakeRefused(use.alg, use.make)' = MakeRefused(use.alg, use.make)
  BY <1>2, SameUse
<1>6. todo[1][2] = "priv" => keyFile'["pub"] = keyFile["pub"]
  BY <1>1, <1>2, <1>4
<1>7. todo[1][2] = "pub" => keyFile'["priv"] = keyFile["priv"]
  BY <1>1, <1>2, <1>4
<1>8. todo[1][2] \in held => keyFile'[todo[1][2]] = Made
  BY <1>1, <1>2, <1>3
<1>9. PairSoFar => PairSoFar'
  <2>1. CASE todo \in {C4, E4, E3} /\ held = {"priv"} /\ NoNewPub
    BY <1>2, <1>5, <1>6, <1>8, <2>1, Closes DEF PairSoFar, NoNewPub
  <2>2. CASE todo = E2 /\ held = Halves /\ NoNewPub
    BY <1>2, <1>5, <1>6, <1>8, <2>2, Closes DEF PairSoFar, NoNewPub, Halves
  <2>3. CASE todo = S1 /\ held = {"pub"} /\ NoNewPub /\ keyFile["priv"] = Made
    BY <1>2, <1>5, <1>7, <1>8, <2>3, Closes DEF PairSoFar
  <2> QED BY <1>2, <2>1, <2>2, <2>3, Closes DEF PairSoFar
<1>10. PrivSoFar => PrivSoFar'
  BY <1>2, <1>3, <1>6, Closes DEF PrivSoFar, NoNewPub
<1>11. Making'
  BY <1>2, <1>3, <1>5, <1>9, <1>10 DEF Making, Intact
<1>12. held' \subseteq Halves
  BY <1>1, <1>2, <1>3 DEF KeyTypeOK
<1> QED BY <1>1, <1>2, <1>4, <1>11, <1>12, GenkeyGoesOn DEF KeyTypeOK

LEMMA KeyUpdated == ASSUME KeyInv, KeyUpdates PROVE KeyInv'
<1>1. KeyTypeOK /\ use \in Uses /\ keyFile = [half \in Halves |-> keyFile[half]]
  BY DEF KeyInv
<1>2. /\ keyPc = "make" /\ todo # << >> /\ todo[1][1] = "update" /\ todo' = Tail(todo) /\ stage' = "going"
      /\ keyFile' = [keyFile EXCEPT ![todo[1][2]] = Made]
      /\ UNCHANGED <<use, keyPc, rets, product, sigFile, messageFile, held, mishaps>>
  BY DEF KeyUpdates, Step, KeyGoesOn, SetKeyFile, Half, KeepUse
<1>3. /\ todo \in Suffixes \ {<< >>} /\ todo' \in {S3, << >>} /\ todo[1][2] = "priv"
      /\ ~MakeRefused(use.alg, use.make) /\ ~use.make.help
      /\ "priv" \in Asked /\ Intact => IF "pub" \in Asked THEN PairSoFar ELSE PrivSoFar
  BY <1>2, StepLeft, Updates
<1>4. /\ keyFile' = [half \in Halves |-> keyFile'[half]]
      /\ \A half \in Halves : keyFile'[half].pair \in Pairs \cup {"absent", "broken"}
      /\ "pub" \in Halves /\ "priv" \in Halves
  BY <1>1, <1>2 DEF KeyTypeOK, Made, KeyContent, Halves, Pairs
<1>5. Made' = Made /\ Asked' = Asked /\ MakeRefused(use.alg, use.make)' = MakeRefused(use.alg, use.make)
  BY <1>2, SameUse
<1>6. keyFile'["pub"] = keyFile["pub"] /\ keyFile'["priv"] = Made /\ NoNewPub' = NoNewPub
  BY <1>1, <1>2, <1>3, <1>4 DEF NoNewPub
<1>7. todo # << >> /\ todo[1][1] = "update"
  BY <1>2
<1>8. PairSoFar => PairSoFar'
  BY <1>2, <1>5, <1>6, <1>7, Updates DEF PairSoFar
<1>9. PrivSoFar => PrivSoFar'
  BY <1>2, <1>3, <1>6, Updates DEF PrivSoFar
<1>10. Making'
  BY <1>2, <1>3, <1>5, <1>8, <1>9 DEF Making, Intact
<1> QED BY <1>1, <1>2, <1>4, <1>10, GenkeyGoesOn DEF KeyTypeOK

\* Where something is lost nothing is promised any more.
LEMMA KeyLost == ASSUME KeyInv, PemIsEmpty \/ KeyIsLost PROVE KeyInv'
<1>1. KeyTypeOK /\ use \in Uses /\ keyFile = [half \in Halves |-> keyFile[half]]
  BY DEF KeyInv
<1>2. /\ keyPc = "make" /\ todo # << >> /\ todo' = Tail(todo) /\ stage' = "going"
      /\ todo[1][1] \in {"write", "close"} /\ held' \subseteq held
      /\ UNCHANGED <<use, keyPc, rets, product, sigFile, messageFile, keyFile>>
      /\ mishaps' = mishaps \cup {"lost"} \/ mishaps' = mishaps \cup {"no pem"}
  BY DEF PemIsEmpty, KeyIsLost, Step, KeyGoesOn, KeepUse
<1>3. /\ todo \in Suffixes \ {<< >>} /\ todo' \in Suffixes
      /\ ~MakeRefused(use.alg, use.make) /\ ~use.make.help
  BY <1>2, StepLeft, Writes, Closes DEF Suffixes
<1>4. MakeRefused(use.alg, use.make)' = MakeRefused(use.alg, use.make)
  BY <1>2, SameUse
<1>5. Making' /\ held' \subseteq Halves
  BY <1>1, <1>2, <1>3, <1>4 DEF Making, Intact, Suffixes, KeyTypeOK
<1>6. mishaps' \subseteq {"make", "sign", "verify", "lost", "no pem"}
  BY <1>1, <1>2 DEF KeyTypeOK
<1> QED BY <1>1, <1>2, <1>5, <1>6, GenkeyGoesOn DEF KeyTypeOK

\* genkey returns: what it left is whole, or is not called a pair.
LEMMA GenkeyReturns ==
  ASSUME KeyInv, keyPc = "make", NEW r \in {Success, FatalError}, KeyReturn(r),
         UNCHANGED <<use, sigFile, messageFile>>,
         keyFile' = [half \in Halves |-> keyFile'[half]],
         \A half \in Halves : keyFile'[half].pair \in Pairs \cup {"absent", "broken"},
         mishaps' \in {mishaps, mishaps \cup {"make"}},
         Paired'
  PROVE  KeyInv'
<1>1. KeyTypeOK /\ Ordered /\ SignatureInv /\ Preserved /\ use \in Uses
  BY DEF KeyInv
<1>2. /\ keyPc' = "sign" /\ stage' = "setup" /\ todo' = << >> /\ held' = {} /\ product' = NoSignature
      /\ rets' = [make |-> r, sign |-> NotYet, verify |-> NotYet]
  BY <1>1 DEF KeyReturn, Ordered
<1>3. NotYet \notin {Success, FatalError} /\ Success # FatalError
  BY DEF NotYet, Success, FatalError
<1>4. KeyTypeOK'
  <2>1. product'.by = "absent" /\ sigFile'.by = sigFile.by /\ messageFile' = messageFile
    BY <1>2 DEF NoSignature, Signature
  <2>2. \A c \in DOMAIN rets' : rets'[c] \in {NotYet, Success, FatalError}
    BY <1>2
  <2>3. mishaps' \subseteq {"make", "sign", "verify", "lost", "no pem"}
    BY <1>1 DEF KeyTypeOK
  <2> QED BY <1>1, <1>2, <2>1, <2>2, <2>3 DEF KeyTypeOK
<1>5. Ordered' /\ Making'
  BY <1>2, <1>3 DEF Ordered, Making
<1>6. SignatureInv' /\ SignsWell'
  BY <1>1, <1>2 DEF SignatureInv, WholeSignature, SignsWell
<1>7. Verified'
  BY <1>2, <1>3 DEF Verified, VerifiedIsSigned
<1>8. Preserved'
  BY <1>1, <1>2, <1>3 DEF Preserved
<1> QED BY <1>1, <1>4, <1>5, <1>6, <1>7, <1>8 DEF KeyInv

LEMMA GenkeyRefused == ASSUME KeyInv, GenRefuses PROVE KeyInv'
<1>1. /\ KeyTypeOK /\ Making /\ Ordered /\ keyFile = [half \in Halves |-> keyFile[half]]
  BY DEF KeyInv
<1> DEFINE r == IF MakeRefused(use.alg, use.make) THEN FatalError ELSE Success
<1>2. /\ keyPc = "make" /\ stage = "setup" /\ (MakeRefused(use.alg, use.make) \/ use.make.help)
      /\ KeyReturn(r) /\ UNCHANGED <<use, keyFile, sigFile, messageFile, mishaps>>
  BY DEF GenRefuses
<1>3. rets'.make = r
  BY <1>1, <1>2 DEF KeyReturn, Ordered
<1>4. NoNewPub
  BY <1>1, <1>2 DEF Making
<1>5. Paired'
  BY <1>2, <1>3, <1>4 DEF Paired, NoNewPub, Success, FatalError
<1>6. r \in {Success, FatalError}
  OBVIOUS
<1> HIDE DEF r
<1> QED BY <1>1, <1>2, <1>5, <1>6, GenkeyReturns DEF KeyTypeOK

LEMMA GenkeyFails == ASSUME KeyInv, KeyFails PROVE KeyInv'
<1>1. KeyTypeOK /\ Ordered /\ keyFile = [half \in Halves |-> keyFile[half]]
  BY DEF KeyInv
<1>2. PICK written \in SUBSET held :
        keyFile' = [half \in Halves |->
                     IF half \in written THEN Made
                     ELSE IF half = Half /\ todo[1][1] = "update" THEN BrokenKey
                     ELSE keyFile[half]]
  BY DEF KeyFails
<1>3. /\ keyPc = "make" /\ todo # << >> /\ todo[1][1] # "close" /\ mishaps' = mishaps \cup {"make"}
      /\ KeyReturn(FatalError) /\ UNCHANGED <<use, sigFile, messageFile>>
  BY DEF KeyFails, KeepUse
<1>4. rets'.make = FatalError
  BY <1>1, <1>3 DEF KeyReturn, Ordered
<1>5. /\ keyFile' = [half \in Halves |-> keyFile'[half]]
      /\ \A half \in Halves : keyFile'[half].pair \in Pairs \cup {"absent", "broken"}
      /\ "pub" \in Halves /\ BrokenKey.pair # "new"
  BY <1>1, <1>2 DEF KeyTypeOK, BrokenKey, Made, KeyContent, Halves, Pairs
<1>6. ASSUME "priv" \in Asked, Intact PROVE "pub" \notin held /\ NoNewPub
  <2>1. IF "pub" \in Asked THEN PairSoFar ELSE PrivSoFar
    BY <1>3, <1>6, StepLeft
  <2>2. C4[1][1] = "close" /\ E2[1][1] = "close" /\ S1[1][1] = "close"
    BY StepTable
  <2>3. todo \notin {C4, E2, S1, << >>}
    BY <1>3, <2>2
  <2> QED BY <2>1, <2>3 DEF PairSoFar, PrivSoFar
<1>7. Intact' => Intact
  BY <1>3 DEF Intact
<1>8. Paired'
  BY <1>2, <1>3, <1>4, <1>5, <1>6, <1>7, SameUse DEF Paired, NoNewPub, Success, FatalError
<1> QED BY <1>3, <1>5, <1>8, GenkeyReturns

LEMMA PairIsMade == ASSUME KeyInv, KeyIsMade PROVE KeyInv'
<1>1. KeyTypeOK /\ Ordered /\ Making /\ keyFile = [half \in Halves |-> keyFile[half]]
  BY DEF KeyInv
<1>2. /\ keyPc = "make" /\ stage = "going" /\ todo = << >> /\ KeyReturn(Success)
      /\ UNCHANGED <<use, keyFile, sigFile, messageFile, mishaps>>
  BY DEF KeyIsMade
<1>3. /\ ~MakeRefused(use.alg, use.make) /\ ~use.make.help
      /\ "priv" \in Asked /\ Intact => IF "pub" \in Asked THEN PairSoFar ELSE PrivSoFar
  BY <1>1, <1>2 DEF Making
<1>4. PairSoFar => keyFile["priv"] = Made /\ keyFile["pub"] = Made
  BY <1>2, StepTable DEF PairSoFar
<1>5. Paired'
  BY <1>2, <1>3, <1>4, SameUse DEF Paired, PrivSoFar, NoNewPub, Intact
<1> QED BY <1>1, <1>2, <1>5, GenkeyReturns DEF KeyTypeOK

LEMMA GenkeyDies == ASSUME KeyInv, keyPc = "make", KeyCommandDies PROVE KeyInv'
<1>1. KeyTypeOK /\ Ordered /\ Making /\ keyFile = [half \in Halves |-> keyFile[half]]
  BY DEF KeyInv
<1>2. /\ KeyReturn(FatalError) /\ mishaps' = mishaps \cup {"make"}
      /\ UNCHANGED <<use, keyFile, sigFile, messageFile>>
  BY DEF KeyCommandDies
<1>3. rets'.make = FatalError
  BY <1>1, <1>2 DEF KeyReturn, Ordered
<1>4. stage \in {"setup", "going"}
  BY <1>1 DEF KeyTypeOK
<1>5. ASSUME "priv" \in Asked, Intact, ~NoNewPub
      PROVE  /\ keyFile["priv"] = Made /\ keyFile["pub"] = Made
             /\ ~MakeRefused(use.alg, use.make) /\ ~use.make.help
  BY <1>1, <1>4, <1>5 DEF Making, PairSoFar, PrivSoFar
<1>6. Paired'
  BY <1>2, <1>3, <1>5, SameUse DEF Paired, NoNewPub, Intact, Success, FatalError
<1> QED BY <1>1, <1>2, <1>6, GenkeyReturns DEF KeyTypeOK

-----------------------------------------------------------------------------
\* What -sign and -verify leave alone, and that a run good in the end was good before.
LEMMA KeysStay ==
  ASSUME KeyInv, keyPc # "make", keyPc' # "make", UNCHANGED <<use, keyFile>>, rets'.make = rets.make,
         mishaps \subseteq mishaps', todo' = << >>, held' = {}
  PROVE  Making' /\ Paired' /\ (GoodRun' => GoodRun)
<1>1. Making /\ Paired
  BY DEF KeyInv
<1>2. Intact' => Intact
  BY DEF Intact
<1>3. Making'
  BY DEF Making
<1>4. Paired'
  BY <1>1, <1>2, SameUse DEF Paired
<1>5. Unharmed' => Unharmed
  BY DEF Unharmed
<1>6. ProperSign(use.sign)' = ProperSign(use.sign) /\ ProperVerify(use.verify)' = ProperVerify(use.verify)
  BY SameUse DEF ProperSign, ProperVerify, ProperUse, InformFits
<1>7. GoodRun' => GoodRun
  BY <1>5, <1>6, SameUse DEF GoodRun
<1> QED BY <1>3, <1>4, <1>7

\* -sign or -verify returns.
LEMMA CommandReturned ==
  ASSUME KeyInv, keyPc \in {"sign", "verify"}, NEW r \in {Success, FatalError}, KeyReturn(r),
         UNCHANGED <<use, keyFile>>,
         mishaps \subseteq mishaps', mishaps' \subseteq {"make", "sign", "verify", "lost", "no pem"},
         WholeSignature(sigFile)', sigFile'.by \in Pairs \cup {"absent", "broken", "garbage"},
         messageFile' \in {"absent", "broken", "m", "n"},
         keyPc = "sign" => /\ r = FatalError /\ "sign" \notin mishaps' => stage = "setup" /\ sigFile' = sigFile
                           /\ use.sign.sign => messageFile' = messageFile
                           /\ GoodRun /\ Unharmed' => sigFile' = Signature("new", use.sign.in),
         keyPc = "verify" => /\ VerifiedIsSigned'
                             /\ r = FatalError /\ "verify" \notin mishaps' => stage = "setup" /\ messageFile' = messageFile
                             /\ GoodRun /\ Unharmed' => r = Success
  PROVE  KeyInv'
<1>1. /\ KeyTypeOK /\ Ordered /\ SignatureInv /\ Preserved /\ Verified /\ Making
      /\ use \in Uses /\ keyFile = [half \in Halves |-> keyFile[half]]
  BY DEF KeyInv
<1>2. /\ stage' = "setup" /\ todo' = << >> /\ held' = {} /\ product' = NoSignature
      /\ keyPc = "sign" => keyPc' = "verify" /\ rets' = [rets EXCEPT !.sign = r]
      /\ keyPc = "verify" => keyPc' = "over" /\ rets' = [rets EXCEPT !.verify = r]
  BY DEF KeyReturn
<1>3. NotYet \notin {Success, FatalError} /\ Success # FatalError
  BY DEF NotYet, Success, FatalError
<1>4. /\ rets'.make = rets.make
      /\ keyPc = "sign" => rets'.sign = r /\ rets'.verify = NotYet
      /\ keyPc = "verify" => rets'.sign = rets.sign /\ rets'.verify = r
      /\ rets' = [make |-> rets'.make, sign |-> rets'.sign, verify |-> rets'.verify]
  BY <1>1, <1>2 DEF Ordered
<1>5. Ordered'
  <2>1. rets.make # NotYet
    BY <1>1 DEF Ordered
  <2>2. CASE keyPc = "sign"
    BY <1>2, <1>3, <1>4, <2>1, <2>2 DEF Ordered
  <2>3. CASE keyPc = "verify"
    BY <1>1, <1>2, <1>3, <1>4, <2>1, <2>3 DEF Ordered
  <2> QED BY <2>2, <2>3
<1>6. KeyTypeOK'
  <2>1. product'.by = "absent"
    BY <1>2 DEF NoSignature, Signature
  <2>2. \A c \in DOMAIN rets' : rets'[c] \in {NotYet, Success, FatalError}
    <3>1. \A c \in DOMAIN rets : rets[c] \in {NotYet, Success, FatalError}
      BY <1>1 DEF KeyTypeOK
    <3> QED BY <1>2, <3>1
  <2> QED BY <1>1, <1>2, <2>1, <2>2 DEF KeyTypeOK
<1>7. Making' /\ Paired' /\ (GoodRun' => GoodRun)
  BY <1>2, <1>4, KeysStay
<1>8. SignatureInv' /\ Verified'
  BY <1>2, <1>3, <1>4 DEF SignatureInv, Verified, VerifiedIsSigned
<1>9. Preserved'
  BY <1>1, <1>2, <1>3, <1>4 DEF Preserved
<1>10. SignsWell'
  <2>1. use'.sign.in = use.sign.in
    OBVIOUS
  <2>2. GoodRun' => GoodRun /\ Unharmed'
    BY <1>7 DEF GoodRun
  <2> QED BY <1>2, <1>4, <2>1, <2>2 DEF SignsWell
<1> QED BY <1>1, <1>5, <1>6, <1>7, <1>8, <1>9, <1>10 DEF KeyInv

\* The algorithm is the one that a command line has the word of.
LEMMA OneAlgorithm ==
  ASSUME use \in Uses, NEW o, o.words = {use.alg}
  PROVE  Algorithm(o) = Scheme(use.alg)
<1> DEFINE First(k) == Precedence[k] \in o.words /\ \A j \in 1 .. k - 1 : Precedence[j] \notin o.words
<1>1. DOMAIN Precedence = 1 .. 7
  BY DEF Precedence
<1>2. PICK k \in 1 .. 7 : Precedence[k] = use.alg
  BY <1>1, KeyAssumption
<1>3. \A j \in 1 .. 7 : j # k => Precedence[j] # Precedence[k]
  BY DEF Precedence
<1>4. First(k)
  <2>1. \A j \in 1 .. k - 1 : j \in 1 .. 7 /\ j # k
    BY <1>2
  <2> QED BY <1>2, <1>3, <2>1
<1>5. First(CHOOSE x \in DOMAIN Precedence : First(x))
  BY <1>1, <1>2, <1>4
<1>6. Precedence[CHOOSE x \in DOMAIN Precedence : First(x)] = use.alg
  BY <1>5
<1> QED BY <1>6 DEF Algorithm

LEMMA AlgorithmNames ==
  ASSUME use \in Uses
  PROVE  /\ use.alg \in {"rsa", "ed25519", "ecc", "dilithium", "ml-dsa", "xmss", "xmssmt"}
         /\ use.alg \in Stateful <=> Scheme(use.alg) \in Stateful
         /\ Scheme(use.alg) = "ed25519" <=> use.alg = "ed25519"
<1>1. use.alg \in {"rsa", "ed25519", "ecc", "dilithium", "ml-dsa", "xmss", "xmssmt"}
  BY KeyAssumption DEF Precedence
<1> QED BY <1>1 DEF Scheme, Stateful

\* The file of a key that was made is not nameless, and its form is one that -inform knows.
LEMMA MadeWell ==
  ASSUME use \in Uses, ~MakeRefused(use.alg, use.make), ~use.make.help
  PROVE  /\ Made.pair = "new" /\ Made.form \in {"PEM", "DER", "RAW"}
         /\ Made.form = "RAW" => use.alg \in Stateful \/ use.alg = "ed25519"
         /\ use.alg \in Stateful => Made.form = "RAW" /\ Made.param # NoParam
<1>1. /\ use.make.outform \in {"PEM", "DER", "RAW", None}
      /\ Made.pair = "new" /\ Made.form = MadeForm(use.alg, use.make.outform)
      /\ Made.param = MadeParam(use.alg, use.make)
  BY KeyAssumption DEF MakeRefused, Forms, Made, KeyContent
<1>2. /\ Made.form \in {"PEM", "DER", "RAW"}
      /\ Made.form = "RAW" => use.alg \in Stateful \/ use.alg = "ed25519"
      /\ use.alg \in Stateful => Made.form = "RAW"
  BY <1>1 DEF MadeForm
<1>3. ASSUME use.alg = "xmss" PROVE Made.param # NoParam
  BY <1>1, <1>3 DEF MadeParam, XmssParam, Param, NoParam
<1>4. ASSUME use.alg = "xmssmt" PROVE Made.param # NoParam
  <2>1. DOMAIN Layers = {20, 40, 60}
    BY DEF Layers
  <2> QED BY <1>1, <1>4, <2>1 DEF MadeParam, XmssmtParam, Param, NoParam
<1> QED BY <1>1, <1>2, <1>3, <1>4 DEF Stateful

\* A proper -sign is carried out, with the new private key.
LEMMA SignsProperly ==
  ASSUME KeyInv, GoodRun, keyPc = "sign"
  PROVE  /\ ~SetupRefused(use.sign) /\ ~Idle(use.sign) /\ use.sign.sign /\ ~use.sign.verify
         /\ SigningKeys(use.sign) = {"new"} /\ use.sign.in \in {"m", "n"} /\ use.sign.out
<1> DEFINE o == use.sign
<1>1. /\ use \in Uses /\ keyFile["priv"] = Made /\ ~MakeRefused(use.alg, use.make) /\ ~use.make.help
  BY DEF KeyInv, Paired, GoodRun, Unharmed, Intact
<1>2. /\ o.words = {use.alg} /\ o.inkey = "priv" /\ InformFits(use.alg, o.inform)
      /\ o.in \in {"m", "n"} /\ o.out /\ ~o.help /\ ~o.twice /\ o.sign /\ ~o.verify /\ o.sigfile = None
      /\ use.alg \in Stateful => use.make.out = Made.param
  BY DEF GoodRun, ProperSign, ProperUse
<1>3. Algorithm(o) = Scheme(use.alg)
  BY <1>1, <1>2, OneAlgorithm
<1>4. /\ Made.pair = "new" /\ Made.form \in {"PEM", "DER", "RAW"}
      /\ Made.form = "RAW" => use.alg \in Stateful \/ use.alg = "ed25519"
      /\ use.alg \in Stateful => Made.form = "RAW" /\ Made.param # NoParam
  BY <1>1, MadeWell
<1>5. None \notin {"m", "n", "priv"}
  BY KeyAssumption DEF Halves
<1>6. /\ o.inform # "bad"
      /\ use.alg \notin Stateful => o.inform = Made.form \/ (Made.form = "DER" /\ o.inform # "RAW")
  BY <1>2, <1>4, KeyAssumption DEF InformFits, Forms
<1>7. ~SetupRefused(o) /\ ~Idle(o)
  BY <1>1, <1>2, <1>4, <1>5, <1>6 DEF SetupRefused, Exists, Idle
<1>8. /\ use.alg \in {"rsa", "ed25519", "ecc", "dilithium", "ml-dsa", "xmss", "xmssmt"}
      /\ Scheme(use.alg) = "ed25519" <=> use.alg = "ed25519"
  BY <1>1, AlgorithmNames
<1>9. use.alg \notin Stateful => Decoded(o, "priv") = {"new"}
  BY <1>1, <1>2, <1>3, <1>4, <1>6, <1>8 DEF Decoded
<1>10. SigningKeys(o) = {"new"}
  BY <1>1, <1>2, <1>3, <1>4, <1>9 DEF SigningKeys
<1> QED BY <1>2, <1>7, <1>10

\* A proper -verify accepts what was signed so.
LEMMA VerifiesProperly ==
  ASSUME KeyInv, GoodRun, keyPc = "verify"
  PROVE  /\ ~SetupRefused(use.verify) /\ ~Idle(use.verify) /\ use.verify.verify /\ ~use.verify.sign
         /\ VerifyingKeys(use.verify) = {"new"} /\ Matches("new", use.verify)
<1> DEFINE o == use.verify
<1>1. /\ use \in Uses /\ keyFile["pub"] = Made /\ ~MakeRefused(use.alg, use.make) /\ ~use.make.help
      /\ sigFile = Signature("new", o.in)
  BY DEF KeyInv, Paired, GoodRun, Unharmed, Intact, SignsWell
<1>2. /\ o.words = {use.alg} /\ o.inkey = "pub" /\ InformFits(use.alg, o.inform)
      /\ o.in \in {"m", "n"} /\ o.out /\ ~o.help /\ ~o.twice /\ ~o.sign /\ o.verify /\ o.pubin
      /\ o.sigfile # None
  BY DEF GoodRun, ProperVerify, ProperUse
<1>3. Algorithm(o) = Scheme(use.alg)
  BY <1>1, <1>2, OneAlgorithm
<1>4. /\ Made.pair = "new" /\ Made.form \in {"PEM", "DER", "RAW"}
      /\ Made.form = "RAW" => use.alg \in Stateful \/ use.alg = "ed25519"
      /\ use.alg \in Stateful => Made.form = "RAW" /\ Made.param # NoParam
  BY <1>1, MadeWell
<1>5. None \notin {"m", "n", "pub"} /\ sigFile.by = "new" /\ sigFile.msg = o.in
  BY <1>1, KeyAssumption DEF Halves, Signature
<1>6. /\ o.inform # "bad"
      /\ use.alg \notin Stateful => o.inform = Made.form \/ (Made.form = "DER" /\ o.inform # "RAW")
  BY <1>2, <1>4, KeyAssumption DEF InformFits, Forms
<1>7. ~SetupRefused(o) /\ ~Idle(o)
  BY <1>1, <1>2, <1>4, <1>5, <1>6 DEF SetupRefused, Exists, Idle
<1>8. /\ use.alg \in {"rsa", "ed25519", "ecc", "dilithium", "ml-dsa", "xmss", "xmssmt"}
      /\ Scheme(use.alg) = "ed25519" <=> use.alg = "ed25519"
  BY <1>1, AlgorithmNames
<1>9. use.alg \notin Stateful => Decoded(o, "pub") = {"new"}
  BY <1>1, <1>2, <1>3, <1>4, <1>6, <1>8 DEF Decoded
<1>10. VerifyingKeys(o) = {"new"}
  BY <1>1, <1>2, <1>3, <1>4, <1>9 DEF VerifyingKeys
<1>11. Matches("new", o)
  BY <1>5 DEF Matches
<1> QED BY <1>2, <1>7, <1>10, <1>11

LEMMA SetupEnded == ASSUME KeyInv, SetupEnds PROVE KeyInv'
<1> DEFINE r == IF SetupRefused(Order) THEN FatalError ELSE Success
<1>1. /\ keyPc \in {"sign", "verify"} /\ stage = "setup" /\ (SetupRefused(Order) \/ Idle(Order))
      /\ KeyReturn(r) /\ UNCHANGED <<use, keyFile, sigFile, messageFile, mishaps>>
  BY DEF SetupEnds
<1>2. KeyTypeOK /\ SignatureInv /\ Ordered
  BY DEF KeyInv
<1>3. keyPc = "sign" => ~GoodRun
  BY <1>1, SignsProperly DEF Order
<1>4. keyPc = "verify" => ~GoodRun
  BY <1>1, VerifiesProperly DEF Order
<1>5. keyPc = "verify" => VerifiedIsSigned'
  <2> SUFFICES ASSUME keyPc = "verify", OnlyVerifies(use.verify), rets'.verify = Success PROVE FALSE
    BY <1>1 DEF VerifiedIsSigned
  <2>1. r = Success
    BY <1>1, <1>2 DEF KeyReturn, Ordered
  <2> QED BY <1>1, <2>1 DEF OnlyVerifies, Idle, Order, Success, FatalError
<1>6. r \in {Success, FatalError}
  OBVIOUS
<1> HIDE DEF r
<1>7. /\ mishaps \subseteq mishaps' /\ mishaps' \subseteq {"make", "sign", "verify", "lost", "no pem"}
      /\ WholeSignature(sigFile)' /\ sigFile'.by \in Pairs \cup {"absent", "broken", "garbage"}
      /\ messageFile' \in {"absent", "broken", "m", "n"}
  BY <1>1, <1>2 DEF KeyTypeOK, SignatureInv, WholeSignature
<1> QED BY <1>1, <1>3, <1>4, <1>5, <1>6, <1>7, CommandReturned

\* A command goes on with an open output file.
LEMMA CommandGoesOn ==
  ASSUME KeyInv, keyPc \in {"sign", "verify"}, stage = "setup", stage' = "going",
         UNCHANGED <<use, keyPc, todo, held, rets, keyFile, mishaps>>,
         WholeSignature(sigFile)', product'.msg \in {"m", "n"},
         {sigFile'.by, product'.by} \subseteq Pairs \cup {"absent", "broken", "garbage"},
         messageFile' \in {"absent", "broken", "m", "n"},
         use[keyPc].sign \/ (use[keyPc].verify /\ Algorithm(use[keyPc]) = "rsa"),
         keyPc = "sign" /\ use.sign.sign => messageFile' = messageFile,
         keyPc = "verify" /\ ~use.verify.sign =>
           /\ product' = sigFile /\ sigFile' = sigFile /\ sigFile.by \in Pairs
           /\ sigFile.by = keyFile[use.verify.inkey].pair,
         GoodRun => IF keyPc = "sign" THEN product' = Signature("new", use.sign.in) ELSE sigFile' = sigFile
  PROVE  KeyInv'
<1>1. /\ KeyTypeOK /\ Ordered /\ SignatureInv /\ Preserved /\ Verified /\ SignsWell /\ Making
      /\ use \in Uses /\ keyFile = [half \in Halves |-> keyFile[half]]
  BY DEF KeyInv
<1>2. KeyTypeOK' /\ Ordered'
  BY <1>1 DEF KeyTypeOK, Ordered
<1>3. Making' /\ Paired' /\ (GoodRun' => GoodRun)
  BY <1>1, KeysStay DEF Making
<1>4. SignatureInv'
  BY DEF SignatureInv, Algorithm
<1>5. Verified'
  BY <1>1 DEF Verified, VerifiedIsSigned, Ordered, NotYet, Success
<1>6. Preserved'
  BY <1>1 DEF Preserved, Ordered, NotYet, FatalError
<1>7. SignsWell'
  BY <1>1, <1>3 DEF SignsWell
<1> QED BY <1>1, <1>2, <1>3, <1>4, <1>5, <1>6, <1>7 DEF KeyInv

LEMMA KeysRead ==
  ASSUME KeyTypeOK, NEW o
  PROVE  /\ SigningKeys(o) \subseteq Pairs \cup {"absent", "broken", "garbage", None}
         /\ \A key \in VerifyingKeys(o) : key \in Pairs => key = keyFile[o.inkey].pair
<1>1. /\ None \notin Pairs /\ "garbage" \notin Pairs /\ "priv" \in Halves
  BY KeyAssumption DEF Pairs, Halves
<1>2. keyFile["priv"].pair \in Pairs \cup {"absent", "broken"}
  BY <1>1 DEF KeyTypeOK
<1>3. Decoded(o, "priv") \subseteq Pairs \cup {"absent", "broken", "garbage", None}
  BY <1>2 DEF Decoded
<1>4. SigningKeys(o) \subseteq Pairs \cup {"absent", "broken", "garbage", None}
  BY <1>2, <1>3 DEF SigningKeys
<1>5. \A half \in Halves : \A key \in Decoded(o, half) : key \in Pairs => key = keyFile[o.inkey].pair
  BY <1>1 DEF Decoded
<1>6. \A key \in VerifyingKeys(o) : key \in Pairs => key = keyFile[o.inkey].pair
  BY <1>1, <1>5 DEF VerifyingKeys, Halves
<1> QED BY <1>4, <1>6

LEMMA ASignature == ASSUME KeyInv, Signs PROVE KeyInv'
<1>1. PICK key \in SigningKeys(Order) :
        IF key = None \/ Order.in \in {None, "empty"} \/ ~Order.out
        THEN KeyReturn(FatalError) /\ UNCHANGED sigFile
        ELSE /\ product' = Signature(key, Order.in) /\ sigFile' = BrokenSignature
             /\ stage' = "going" /\ UNCHANGED <<keyPc, todo, held, rets>>
  BY DEF Signs
<1>2. /\ keyPc \in {"sign", "verify"} /\ stage = "setup" /\ ~SetupRefused(Order) /\ Order.sign
      /\ UNCHANGED <<use, keyFile, messageFile, mishaps>>
  BY DEF Signs, Called
<1>3. KeyTypeOK /\ SignatureInv /\ Ordered /\ use \in Uses
  BY DEF KeyInv
<1>4. keyPc = "sign" => Order = use.sign
  BY DEF Order
<1>5. keyPc = "verify" => Order = use.verify /\ ~GoodRun
  BY <1>2, VerifiesProperly DEF Order
<1>6. /\ mishaps \subseteq mishaps' /\ mishaps' \subseteq {"make", "sign", "verify", "lost", "no pem"}
      /\ messageFile' \in {"absent", "broken", "m", "n"}
  BY <1>2, <1>3 DEF KeyTypeOK
<1>7. CASE key = None \/ Order.in \in {None, "empty"} \/ ~Order.out
  <2>1. KeyReturn(FatalError) /\ sigFile' = sigFile
    BY <1>1, <1>7
  <2>2. keyPc = "sign" => ~GoodRun
    <3> SUFFICES ASSUME keyPc = "sign", GoodRun PROVE FALSE
      OBVIOUS
    <3>1. Order = use.sign /\ SigningKeys(use.sign) = {"new"} /\ use.sign.in \in {"m", "n"} /\ use.sign.out
      BY <1>4, SignsProperly
    <3>2. key = "new"
      BY <1>1, <3>1
    <3>3. None \notin {"new", "m", "n"}
      BY KeyAssumption DEF Pairs
    <3> QED BY <1>7, <3>1, <3>2, <3>3
  <2>3. WholeSignature(sigFile)' /\ sigFile'.by \in Pairs \cup {"absent", "broken", "garbage"}
    BY <1>3, <2>1 DEF KeyTypeOK, SignatureInv, WholeSignature
  <2>4. keyPc = "verify" => VerifiedIsSigned'
    BY <1>2, <1>5 DEF VerifiedIsSigned, OnlyVerifies
  <2>5. FatalError \in {Success, FatalError}
    OBVIOUS
  <2> QED BY <1>2, <1>5, <1>6, <2>1, <2>2, <2>3, <2>4, <2>5, CommandReturned
<1>8. CASE ~(key = None \/ Order.in \in {None, "empty"} \/ ~Order.out)
  <2>1. /\ product' = Signature(key, Order.in) /\ sigFile' = BrokenSignature
        /\ stage' = "going" /\ UNCHANGED <<keyPc, todo, held, rets>>
    BY <1>1, <1>8
  <2>2. Order.in \in {"m", "n"}
    <3>1. Order \in {use.sign, use.verify}
      BY <1>2, <1>4, <1>5
    <3>2. Order.in \in {None, "m", "n", "gone", "empty"}
      BY <1>3, <3>1, KeyAssumption
    <3>3. Order.in # "gone"
      BY <1>2 DEF SetupRefused, Exists
    <3> QED BY <1>8, <3>2, <3>3
  <2>3. key \in Pairs \cup {"absent", "broken", "garbage"}
    BY <1>3, <1>8, KeysRead
  <2>4. /\ product'.by = key /\ product'.msg = Order.in /\ sigFile'.by = "broken"
    BY <2>1 DEF Signature, BrokenSignature
  <2>5. WholeSignature(sigFile)'
    BY <2>4 DEF WholeSignature, Pairs
  <2>6. GoodRun => keyPc = "sign" /\ key = "new"
    BY <1>1, <1>2, <1>4, <1>5, SignsProperly
  <2>7. {sigFile'.by, product'.by} \subseteq Pairs \cup {"absent", "broken", "garbage"}
    BY <2>3, <2>4
  <2>8. use[keyPc].sign
    BY <1>2 DEF Order
  <2>9. GoodRun => IF keyPc = "sign" THEN product' = Signature("new", use.sign.in) ELSE sigFile' = sigFile
    BY <1>4, <2>1, <2>6
  <2>10. product'.msg \in {"m", "n"} /\ (keyPc = "verify" => use.verify.sign)
    BY <1>2, <1>5, <2>2, <2>4
  <2> QED BY <1>2, <1>6, <2>1, <2>5, <2>7, <2>8, <2>9, <2>10, CommandGoesOn
<1> QED BY <1>7, <1>8

\* A command that fails: nothing is said to be verified.
LEMMA NotVerified ==
  ASSUME Ordered, keyPc = "verify", KeyReturn(FatalError), UNCHANGED use
  PROVE  VerifiedIsSigned'
<1>1. rets'.verify = FatalError
  BY DEF KeyReturn, Ordered
<1> QED BY <1>1 DEF VerifiedIsSigned, Success, FatalError

LEMMA AVerification == ASSUME KeyInv, Verifies PROVE KeyInv'
<1>1. PICK key \in VerifyingKeys(Order) :
        IF key \notin Pairs \/ ~Matches(key, Order)
        THEN KeyReturn(FatalError) /\ UNCHANGED messageFile
        ELSE IF Algorithm(Order) # "rsa" THEN KeyReturn(Success) /\ UNCHANGED messageFile
        ELSE /\ product' = sigFile /\ messageFile' = "broken"
             /\ stage' = "going" /\ UNCHANGED <<keyPc, todo, held, rets>>
  BY DEF Verifies
<1>2. /\ keyPc \in {"sign", "verify"} /\ stage = "setup" /\ Order.verify /\ ~Order.sign
      /\ UNCHANGED <<use, keyFile, sigFile, mishaps>>
  BY DEF Verifies, Called
<1>3. KeyTypeOK /\ SignatureInv /\ Ordered /\ use \in Uses
  BY DEF KeyInv
<1>4. keyPc = "sign" => Order = use.sign /\ ~GoodRun
  BY <1>2, SignsProperly DEF Order
<1>5. keyPc = "verify" => Order = use.verify
  BY DEF Order
<1>6. GoodRun => key = "new" /\ Matches(key, Order)
  BY <1>1, <1>2, <1>4, <1>5, VerifiesProperly
<1>7. /\ mishaps \subseteq mishaps' /\ mishaps' \subseteq {"make", "sign", "verify", "lost", "no pem"}
      /\ WholeSignature(sigFile)' /\ sigFile'.by \in Pairs \cup {"absent", "broken", "garbage"}
      /\ messageFile \in {"absent", "broken", "m", "n"}
  BY <1>2, <1>3 DEF KeyTypeOK, SignatureInv, WholeSignature
<1>8. CASE key \notin Pairs \/ ~Matches(key, Order)
  <2>1. KeyReturn(FatalError) /\ messageFile' = messageFile
    BY <1>1, <1>8
  <2>2. ~GoodRun
    BY <1>6, <1>8 DEF Pairs
  <2>3. keyPc = "verify" => VerifiedIsSigned'
    BY <1>2, <1>3, <2>1, NotVerified
  <2>4. FatalError \in {Success, FatalError}
    OBVIOUS
  <2> QED BY <1>2, <1>7, <2>1, <2>2, <2>3, <2>4, CommandReturned
<1>9. CASE key \in Pairs /\ Matches(key, Order)
  <2>1. key = keyFile[Order.inkey].pair /\ sigFile.by = key
    BY <1>1, <1>3, <1>9, KeysRead DEF Matches
  <2>2. CASE Algorithm(Order) # "rsa"
    <3>1. KeyReturn(Success) /\ messageFile' = messageFile
      BY <1>1, <1>9, <2>2
    <3>2. sigFile.msg = Order.in
      BY <1>9, <2>2 DEF Matches
    <3>3. keyPc = "verify" => VerifiedIsSigned'
      <4> SUFFICES ASSUME keyPc = "verify"
                   PROVE  /\ sigFile'.by \in Pairs /\ sigFile'.by = keyFile'[use'.verify.inkey].pair
                          /\ Algorithm(use'.verify) # "rsa" /\ sigFile'.msg = use'.verify.in
        BY DEF VerifiedIsSigned
      <4> QED BY <1>2, <1>5, <1>9, <2>1, <2>2, <3>2 DEF Algorithm
    <3>4. Success \in {Success, FatalError} /\ Success # FatalError
      BY DEF Success, FatalError
    <3> QED BY <1>2, <1>4, <1>7, <3>1, <3>3, <3>4, CommandReturned
  <2>3. CASE Algorithm(Order) = "rsa"
    <3>1. /\ product' = sigFile /\ messageFile' = "broken"
          /\ stage' = "going" /\ UNCHANGED <<keyPc, todo, held, rets>>
      BY <1>1, <1>9, <2>3
    <3>2. product'.msg \in {"m", "n"} /\ {sigFile'.by, product'.by} \subseteq Pairs \cup {"absent", "broken", "garbage"}
      BY <1>3, <1>7, <1>9, <2>1, <3>1 DEF SignatureInv, WholeSignature
    <3>3. /\ use[keyPc].verify /\ Algorithm(use[keyPc]) = "rsa" /\ ~use[keyPc].sign
      BY <1>2, <2>3 DEF Order
    <3>4. keyPc = "verify" => sigFile.by \in Pairs /\ sigFile.by = keyFile[use.verify.inkey].pair
      BY <1>5, <1>9, <2>1
    <3>5. messageFile' \in {"absent", "broken", "m", "n"}
      BY <3>1
    <3>6. keyPc = "sign" => ~use.sign.sign /\ ~GoodRun
      BY <1>4, <3>3
    <3> QED BY <1>2, <1>7, <3>1, <3>2, <3>3, <3>4, <3>5, <3>6, CommandGoesOn
  <2> QED BY <2>2, <2>3
<1> QED BY <1>8, <1>9

LEMMA OutputEnded == ASSUME KeyInv, OutputEnds PROVE KeyInv'
<1>1. /\ keyPc \in {"sign", "verify"} /\ stage = "going" /\ KeyReturn(Success)
      /\ IF Order.sign THEN sigFile' = product /\ UNCHANGED messageFile
                       ELSE messageFile' = product.msg /\ UNCHANGED sigFile
      /\ UNCHANGED <<use, keyFile, mishaps>>
  BY DEF OutputEnds
<1>2. KeyTypeOK /\ SignatureInv /\ Verified /\ SignsWell
  BY DEF KeyInv
<1>3. product.msg \in {"m", "n"} /\ (Order.sign \/ Algorithm(Order) = "rsa")
  BY <1>1, <1>2 DEF SignatureInv, Order
<1>4. /\ mishaps \subseteq mishaps' /\ mishaps' \subseteq {"make", "sign", "verify", "lost", "no pem"}
      /\ sigFile'.by \in Pairs \cup {"absent", "broken", "garbage"}
      /\ messageFile' \in {"absent", "broken", "m", "n"}
  BY <1>1, <1>2, <1>3 DEF KeyTypeOK
<1>5. WholeSignature(sigFile)'
  BY <1>1, <1>2, <1>3 DEF SignatureInv, WholeSignature
<1>6. keyPc = "sign" => /\ use.sign.sign => messageFile' = messageFile
                        /\ GoodRun => sigFile' = Signature("new", use.sign.in)
  <2> SUFFICES ASSUME keyPc = "sign"
               PROVE  /\ use.sign.sign => messageFile' = messageFile
                      /\ GoodRun => sigFile' = Signature("new", use.sign.in)
    OBVIOUS
  <2>1. Order = use.sign
    BY DEF Order
  <2>2. GoodRun => use.sign.sign /\ product = Signature("new", use.sign.in)
    BY <1>1, <1>2 DEF GoodRun, ProperSign, SignsWell
  <2> QED BY <1>1, <2>1, <2>2
<1>7. keyPc = "verify" => VerifiedIsSigned'
  <2> SUFFICES ASSUME keyPc = "verify", OnlyVerifies(use'.verify)
               PROVE  /\ sigFile'.by \in Pairs /\ sigFile'.by = keyFile'[use'.verify.inkey].pair
                      /\ Algorithm(use'.verify) = "rsa" /\ messageFile' = sigFile'.msg
    BY DEF VerifiedIsSigned
  <2>1. Order = use.verify /\ ~use.verify.sign
    BY <1>1 DEF Order, OnlyVerifies
  <2>2. product = sigFile /\ sigFile.by \in Pairs /\ sigFile.by = keyFile[use.verify.inkey].pair
    BY <1>1, <1>2, <2>1 DEF Verified
  <2> QED BY <1>1, <1>3, <2>1, <2>2 DEF Algorithm
<1>8. Success \in {Success, FatalError} /\ Success # FatalError
  BY DEF Success, FatalError
<1> QED BY <1>1, <1>4, <1>5, <1>6, <1>7, <1>8, CommandReturned

LEMMA OutputLost == ASSUME KeyInv, OutputIsLost PROVE KeyInv'
<1>1. /\ keyPc \in {"sign", "verify"} /\ stage = "going" /\ KeyReturn(Success)
      /\ mishaps' = mishaps \cup {"lost"} /\ UNCHANGED <<use, keyFile, sigFile, messageFile>>
  BY DEF OutputIsLost
<1>2. KeyTypeOK /\ SignatureInv /\ Verified
  BY DEF KeyInv
<1>3. ~Unharmed'
  BY <1>1 DEF Unharmed
<1>4. /\ mishaps \subseteq mishaps' /\ mishaps' \subseteq {"make", "sign", "verify", "lost", "no pem"}
      /\ WholeSignature(sigFile)' /\ sigFile'.by \in Pairs \cup {"absent", "broken", "garbage"}
      /\ messageFile' \in {"absent", "broken", "m", "n"}
  BY <1>1, <1>2 DEF KeyTypeOK, SignatureInv, WholeSignature
<1>5. keyPc = "verify" => VerifiedIsSigned'
  <2> SUFFICES ASSUME keyPc = "verify", OnlyVerifies(use'.verify)
               PROVE  /\ sigFile'.by \in Pairs /\ sigFile'.by = keyFile'[use'.verify.inkey].pair
                      /\ Algorithm(use'.verify) = "rsa" /\ "lost" \in mishaps'
    BY DEF VerifiedIsSigned
  <2>1. use.verify = use[keyPc] /\ ~use.verify.sign
    BY <1>1 DEF OnlyVerifies
  <2>2. Algorithm(use.verify) = "rsa"
    BY <1>1, <1>2, <2>1 DEF SignatureInv
  <2>3. sigFile.by \in Pairs /\ sigFile.by = keyFile[use.verify.inkey].pair
    BY <1>1, <1>2, <2>1 DEF Verified
  <2> QED BY <1>1, <2>1, <2>2, <2>3 DEF Algorithm
<1>6. Success \in {Success, FatalError} /\ Success # FatalError
  BY DEF Success, FatalError
<1> QED BY <1>1, <1>3, <1>4, <1>5, <1>6, CommandReturned

LEMMA CommandDies == ASSUME KeyInv, keyPc # "make", KeyCommandDies PROVE KeyInv'
<1>1. /\ keyPc # "over" /\ mishaps' = mishaps \cup {keyPc} /\ KeyReturn(FatalError)
      /\ UNCHANGED <<use, keyFile, sigFile, messageFile>>
  BY DEF KeyCommandDies
<1>2. KeyTypeOK /\ SignatureInv /\ Ordered
  BY DEF KeyInv
<1>3. keyPc \in {"sign", "verify"}
  BY <1>1, <1>2 DEF KeyTypeOK
<1>4. ~Unharmed' /\ keyPc \in mishaps'
  BY <1>1, <1>3 DEF Unharmed
<1>5. /\ mishaps \subseteq mishaps' /\ mishaps' \subseteq {"make", "sign", "verify", "lost", "no pem"}
      /\ WholeSignature(sigFile)' /\ sigFile'.by \in Pairs \cup {"absent", "broken", "garbage"}
      /\ messageFile' \in {"absent", "broken", "m", "n"}
  BY <1>1, <1>2, <1>3 DEF KeyTypeOK, SignatureInv, WholeSignature
<1>6. keyPc = "verify" => VerifiedIsSigned'
  BY <1>1, <1>2, NotVerified
<1>7. FatalError \in {Success, FatalError}
  OBVIOUS
<1> QED BY <1>1, <1>3, <1>4, <1>5, <1>6, <1>7, CommandReturned

LEMMA KeySteps == KeyInv /\ [KeyNext]_keyVars => KeyInv'
<1> SUFFICES ASSUME KeyInv, [KeyNext]_keyVars PROVE KeyInv'
  OBVIOUS
<1>1. CASE GenRefuses
  BY <1>1, GenkeyRefused
<1>2. CASE GenMakes
  BY <1>2, KeyMakes
<1>3. CASE KeyOpens
  BY <1>3, KeyOpened
<1>4. CASE KeyWrites
  BY <1>4, KeyWritten
<1>5. CASE KeyCloses
  BY <1>5, KeyClosed
<1>6. CASE KeyUpdates
  BY <1>6, KeyUpdated
<1>7. CASE PemIsEmpty \/ KeyIsLost
  BY <1>7, KeyLost
<1>8. CASE KeyFails
  BY <1>8, GenkeyFails
<1>9. CASE KeyIsMade
  BY <1>9, PairIsMade
<1>10. CASE SetupEnds
  BY <1>10, SetupEnded
<1>11. CASE Signs
  BY <1>11, ASignature
<1>12. CASE Verifies
  BY <1>12, AVerification
<1>13. CASE OutputEnds
  BY <1>13, OutputEnded
<1>14. CASE OutputIsLost
  BY <1>14, OutputLost
<1>15. CASE KeyCommandDies
  <2>1. CASE keyPc = "make"
    BY <1>15, <2>1, GenkeyDies
  <2>2. CASE keyPc # "make"
    BY <1>15, <2>2, CommandDies
  <2> QED BY <2>1, <2>2
<1>16. CASE UNCHANGED keyVars
  <2>1. UNCHANGED <<use, keyPc, stage, todo, held, product, keyFile, sigFile, messageFile, rets, mishaps>>
    BY <1>16 DEF keyVars
  <2>2. KeyTypeOK /\ Making /\ Paired /\ Ordered /\ SignatureInv /\ Verified /\ Preserved /\ SignsWell
    BY DEF KeyInv
  <2>3. KeyTypeOK' /\ Ordered' /\ SignatureInv'
    BY <2>1, <2>2 DEF KeyTypeOK, Ordered, SignatureInv, WholeSignature, Algorithm
  <2>4. Making'
    BY <2>1, <2>2, SameUse DEF Making, PairSoFar, PrivSoFar, NoNewPub, Intact
  <2>5. Paired'
    BY <2>1, <2>2, SameUse DEF Paired, Intact
  <2>6. Verified' /\ Preserved'
    BY <2>1, <2>2 DEF Verified, VerifiedIsSigned, Preserved, Algorithm
  <2>7. GoodRun' => GoodRun
    BY <2>1, SameUse DEF GoodRun, ProperSign, ProperVerify, ProperUse, InformFits, Unharmed
  <2>8. SignsWell'
    BY <2>1, <2>2, <2>7 DEF SignsWell
  <2>9. use' \in Uses /\ keyFile' = [half \in Halves |-> keyFile'[half]]
    BY <2>1 DEF KeyInv
  <2> QED BY <2>3, <2>4, <2>5, <2>6, <2>8, <2>9 DEF KeyInv
<1> QED BY <1>1, <1>2, <1>3, <1>4, <1>5, <1>6, <1>7, <1>8, <1>9, <1>10, <1>11, <1>12, <1>13, <1>14,
           <1>15, <1>16 DEF KeyNext, KeyEnded

\* clu_genkey.c, clu_sign.c, clu_verify.c: what each process has left in the files so far.
THEOREM KeyInvariance == KeySpec => []KeyInv
<1>1. KeyInit => KeyInv
  BY KeyStarts DEF KeyInit
<1> QED BY <1>1, KeySteps, PTL DEF KeySpec

\* The invariant says so of a run that is over.
LEMMA SignedIsVerified == ASSUME KeyInv PROVE SignedVerifies
<1> SUFFICES ASSUME keyPc = "over", GoodRun PROVE rets.verify = Success
  BY DEF SignedVerifies, GoodRun, Unharmed, Asked
<1> QED BY DEF KeyInv, SignsWell

LEMMA RefusalsWriteNothing == ASSUME KeyInv PROVE NothingWritten
<1>1. Preserved /\ Ordered
  BY DEF KeyInv
<1> QED BY <1>1 DEF Preserved, NothingWritten

-----------------------------------------------------------------------------
(* enc and enc -d, after two facts about division.                         *)

LEMMA Divided ==
  ASSUME NEW n \in Nat, NEW b \in Nat \ {0}
  PROVE  n \div b \in Nat /\ n % b \in 0 .. b - 1 /\ n = b * (n \div b) + (n % b)
OBVIOUS

LEMMA OneQuotient ==
  ASSUME NEW b \in Nat \ {0}, NEW q \in Nat, NEW r \in 0 .. b - 1
  PROVE  (q * b + r) % b = r /\ (q * b + r) \div b = q
<1> DEFINE n == q * b + r
<1> DEFINE here == n \div b
<1> DEFINE s == n % b
<1>1. n \in Nat
  OBVIOUS
<1>2. here \in Nat /\ s \in 0 .. b - 1 /\ n = b * here + s
  BY <1>1, Divided
<1> HIDE DEF here, s
<1>3. b * here + s = q * b + r
  BY <1>2
<1>4. CASE here < q
  <2>1. PICK d \in Nat \ {0} : q = here + d
    <3>1. q - here \in Nat \ {0} /\ q = here + (q - here)
      BY <1>2, <1>4
    <3> QED BY <3>1
  <2>2. q * b = b * here + b * d
    BY <1>2, <2>1
  <2>3. b * d >= b
    BY <2>1
  <2> QED BY <1>2, <1>3, <2>2, <2>3
<1>5. CASE q < here
  <2>1. PICK d \in Nat \ {0} : here = q + d
    <3>1. here - q \in Nat \ {0} /\ here = q + (here - q)
      BY <1>2, <1>5
    <3> QED BY <3>1
  <2>2. b * here = q * b + b * d
    BY <1>2, <2>1
  <2>3. b * d >= b
    BY <2>1
  <2> QED BY <1>2, <1>3, <2>2, <2>3
<1>6. CASE here = q
  BY <1>2, <1>3, <1>6 DEF n, here, s
<1> QED BY <1>2, <1>4, <1>5, <1>6

\* What the commands have taken from the first, second ... of their options.
OptionRead(o, s) == IF o \in given THEN Take(o, s) ELSE s
T1 == OptionRead("-pwd", NoSettings)
T2 == OptionRead("-key", T1)
T3 == OptionRead("-iv", T2)
T4 == OptionRead("-inkey", T3)
T5 == OptionRead("-k", T4)
T6 == OptionRead("-nosalt", T5)
T7 == OptionRead("-pass", T6)
Scanned ==
  /\ walked = 0 => settings = NoSettings
  /\ walked = 1 => settings = T1
  /\ walked = 2 => settings = T2
  /\ walked = 3 => settings = T3
  /\ walked = 4 => settings = T4
  /\ walked = 5 => settings = T5
  /\ walked = 6 => settings = T6
  /\ walked = 7 => settings = T7

Explicit == given \cap KeyOptions # {}
PasswordGiven == given \cap PasswordOptions # {}
UsedPassword == IF ~T7.keyCheck /\ ~T7.pwdKeyChk THEN "typed"
                ELSE IF T7.keyCheck /\ T7.pwdKeyChk THEN "" ELSE T7.pwdKey

\* The settings of both commands once they are checked, but for the key.
Agreed ==
  /\ T7.ivCheck = T7.keyCheck
  /\ mode = "dec" => T7.keyCheck \/ T7.pwdKeyChk
  /\ settings = [keyType |-> T7.keyType, keyCheck |-> T7.keyCheck, ivCheck |-> T7.ivCheck,
                 pwdKeyChk |-> T7.pwdKeyChk, pwdKey |-> UsedPassword, noSalt |-> T7.noSalt,
                 key |-> settings.key]

\* The byte at a place of the padded text, and how a cipher stored it.
CipherLength == Len(plain) + padCounter
TextByte(i) == IF i <= Len(plain) THEN plain[i] ELSE Byte(0, padCounter)
Offset(i) == IF evp THEN i ELSE ((i - 1) % MaxLen) + 1
CipherBytes == [byte : Bytes, off : Int]
Ciphered(n) ==
  /\ stored.bytes \in Seq(CipherBytes) /\ Len(stored.bytes) = n
  /\ \A i \in 1 .. n : stored.bytes[i] = [byte |-> TextByte(i), off |-> Offset(i)]

Bare == T7.keyType = "USER" \/ T7.noSalt
Header ==
  /\ T7.ivCheck = T7.keyCheck
  /\ stored = [salted |-> stored.salted, salt |-> stored.salt, key |-> stored.key,
               bytes |-> stored.bytes, final |-> stored.final]
  /\ IF evp
     THEN /\ stored.salted = ~Bare /\ padCounter = 0
          /\ stored.salt = IF Bare THEN "none" ELSE "random"
          /\ stored.key = IF T7.keyType = "USER" THEN T7.key ELSE Key(UsedPassword, stored.salt)
     ELSE /\ padCounter = Missing(Len(plain))
          /\ stored.salt = IF T7.ivCheck THEN "zeros" ELSE IF padCounter = 0 THEN "unmarked" ELSE "marked"
          /\ stored.key = IF T7.ivCheck THEN T7.key ELSE Key(UsedPassword, stored.salt)

ChunksRead == \E k \in Nat : pos = k * MaxLen
Enciphering ==
  mode = "enc" /\ cryptPc = "loop" =>
    /\ Agreed /\ Header /\ pos <= Len(plain)
    /\ IF evp THEN Ciphered(pos)
       ELSE \/ ChunksRead /\ Ciphered(pos) /\ length = CipherLength - pos
            \/ pos = Len(plain) /\ Ciphered(CipherLength) /\ length = 0

\* What has come back so far; all of it if the two commands agree on the key.
Back(text, from) ==
  settings.key = stored.key => \A i \in 1 .. Len(text) : text[i] = TextByte(from + i)
DecipherKey ==
  /\ Agreed
  /\ settings.key = IF evp THEN stored.key
                    ELSE IF T7.keyType = "PASSWORD" THEN Key(UsedPassword, stored.salt) ELSE T7.key
Deciphering ==
  mode = "dec" /\ cryptPc \in {"loop", "pad"} =>
    /\ DecipherKey /\ Back(recovered, 0)
    /\ IF evp THEN cryptPc = "loop" /\ pos <= CipherLength /\ Len(recovered) = pos
       ELSE LET before == (loops.curr - 1) * MaxLen
            IN  /\ loops.last = Chunks /\ loops.curr \in 1 .. loops.last
                /\ Len(recovered) = before /\ before < CipherLength
                /\ length = SaltAndIv + CipherLength - before
                /\ cryptPc = "loop" => pos = before
                /\ cryptPc = "pad" => /\ Len(output) = CipherLength - before
                                      /\ Back(output, before)

InTurn ==
  /\ Active \/ cryptPc = "next" =>
       mishap = "none" /\ decRet = Running /\ encRet = IF mode = "enc" /\ Active THEN Running ELSE Success
  /\ cryptPc \in {"options", "start"} => pos = 0 /\ recovered = << >>
  /\ mode = "enc" => recovered = << >> /\ cryptPc # "pad"
  /\ mode = "enc" /\ cryptPc \in {"options", "start"} => stored = NoFile /\ padCounter = 0
  /\ mode = "enc" /\ cryptPc = "over" => (encRet = Success => mishap # "none") /\ decRet = Running
  /\ cryptPc = "options" => Scanned
  /\ cryptPc = "start" => Agreed /\ settings.key = T7.key
  /\ mode = "dec" \/ cryptPc = "next" =>
       Header /\ Ciphered(CipherLength) /\ (evp => stored.final) /\ (mode = "enc" <=> cryptPc = "next")

CryptInv ==
  /\ CryptTypeOK /\ given \in Givens /\ evp \in BOOLEAN /\ plain \in Seq(Bytes)
  /\ loops = [curr |-> loops.curr, last |-> loops.last] /\ loops.last \in Nat
  /\ InTurn /\ Enciphering /\ Deciphering /\ RoundTrip /\ Decrypts

LEMMA CryptSizes ==
  /\ Block \in Nat \ {0} /\ MaxLen \in Nat \ {0} /\ SaltAndIv \in Nat
  /\ \E q \in Nat \ {0} : MaxLen = q * Block
<1>1. Block \in Nat \ {0} /\ MaxLen \in Nat \ {0} /\ SaltAndIv \in Nat /\ MaxLen % Block = 0
  BY CryptAssumption
<1> DEFINE q == MaxLen \div Block
<1>2. q \in Nat /\ MaxLen = Block * q + 0
  BY <1>1, Divided
<1> HIDE DEF q
<1>3. q # 0 /\ MaxLen = q * Block
  BY <1>1, <1>2
<1> QED BY <1>1, <1>2, <1>3

\* What is missing to a whole block, and that a padded text is whole blocks.
LEMMA Padding ==
  ASSUME NEW n \in Nat
  PROVE  Missing(n) \in 0 .. Block - 1 /\ \E t \in Nat : n + Missing(n) = t * Block
<1>1. Block \in Nat \ {0}
  BY CryptSizes
<1> DEFINE q == n \div Block
           r == n % Block
<1>2. q \in Nat /\ r \in 0 .. Block - 1 /\ n = Block * q + r
  BY <1>1, Divided
<1>3. Missing(n) = (Block - r) % Block
  BY DEF Missing
<1> HIDE DEF q, r
<1>4. CASE r = 0
  <2>1. (1 * Block + 0) % Block = 0
    BY <1>1, OneQuotient
  <2>2. Missing(n) = 0
    BY <1>1, <1>3, <1>4, <2>1
  <2>3. n + Missing(n) = q * Block
    BY <1>1, <1>2, <1>4, <2>2
  <2>4. \E t \in Nat : n + Missing(n) = t * Block
    BY <1>2, <2>3
  <2> QED BY <1>1, <2>2, <2>4
<1>5. CASE r # 0
  <2>1. Block - r \in 0 .. Block - 1 /\ 0 * Block + (Block - r) = Block - r
    BY <1>1, <1>2, <1>5
  <2>2. (0 * Block + (Block - r)) % Block = Block - r
    BY <1>1, <2>1, OneQuotient
  <2>3. Missing(n) = Block - r
    BY <1>3, <2>1, <2>2
  <2>4. n + Missing(n) = (q + 1) * Block /\ q + 1 \in Nat
    BY <1>1, <1>2, <2>3
  <2> QED BY <2>1, <2>3, <2>4
<1> QED BY <1>4, <1>5

LEMMA NoPadding == ASSUME NEW k \in Nat PROVE Missing(k * MaxLen) = 0
<1>1. PICK q \in Nat \ {0} : MaxLen = q * Block
  BY CryptSizes
<1>2. Block \in Nat \ {0}
  BY CryptSizes
<1> DEFINE j == k * q
<1>3. j \in Nat /\ k * MaxLen = j * Block + 0
  BY <1>1, <1>2
<1> HIDE DEF j
<1>4. (j * Block + 0) % Block = 0
  BY <1>2, <1>3, OneQuotient
<1>5. (1 * Block + 0) % Block = 0
  BY <1>2, OneQuotient
<1> QED BY <1>2, <1>3, <1>4, <1>5 DEF Missing

\* A cipher that starts afresh for every chunk counts from one in each.
LEMMA InChunk ==
  ASSUME NEW k \in Nat, NEW i \in 1 .. MaxLen
  PROVE  (((k * MaxLen + i) - 1) % MaxLen) + 1 = i
<1>1. MaxLen \in Nat \ {0} /\ i - 1 \in 0 .. MaxLen - 1
  BY CryptSizes
<1>2. (k * MaxLen + (i - 1)) % MaxLen = i - 1
  BY <1>1, OneQuotient
<1>3. k * MaxLen \in Nat
  BY <1>1
<1>4. (k * MaxLen + i) - 1 = k * MaxLen + (i - 1)
  BY <1>3
<1> QED BY <1>2, <1>4

LEMMA ChunkCount ==
  ASSUME NEW n \in Nat \ {0}, NEW c, c = (n + MaxLen - 1) \div MaxLen
  PROVE  c \in Nat \ {0} /\ (c - 1) * MaxLen < n /\ n <= c * MaxLen
<1>1. MaxLen \in Nat \ {0}
  BY CryptSizes
<1> DEFINE r == (n + MaxLen - 1) % MaxLen
<1>2. c \in Nat /\ r \in 0 .. MaxLen - 1 /\ n + MaxLen - 1 = MaxLen * c + r
  <2>1. n + MaxLen - 1 \in Nat
    BY <1>1
  <2> QED BY <1>1, <2>1, Divided
<1> HIDE DEF r
<1>3. (c - 1) * MaxLen = MaxLen * c - MaxLen /\ c * MaxLen = MaxLen * c /\ MaxLen * c \in Nat
  BY <1>1, <1>2
<1>4. c # 0
  BY <1>1, <1>2
<1> QED BY <1>1, <1>2, <1>3, <1>4

\* The last chunk of a padded text holds all of the padding.
LEMMA LastHasPadding ==
  ASSUME NEW n \in Nat, NEW k \in Nat, k * MaxLen < n + Missing(n)
  PROVE  k * MaxLen <= n
<1>1. PICK q \in Nat \ {0} : MaxLen = q * Block
  BY CryptSizes
<1>2. Block \in Nat \ {0}
  BY CryptSizes
<1>3. PICK t \in Nat : n + Missing(n) = t * Block
  BY Padding
<1>4. Missing(n) \in 0 .. Block - 1
  BY Padding
<1> DEFINE j == k * q
<1>5. j \in Nat /\ k * MaxLen = j * Block
  BY <1>1, <1>2
<1> HIDE DEF j
<1>6. j < t
  <2> SUFFICES ASSUME t <= j PROVE FALSE
    BY <1>3, <1>5
  <2>1. PICK d \in Nat : j = t + d
    <3>1. j - t \in Nat /\ j = t + (j - t)
      BY <1>5
    <3> QED BY <3>1
  <2>2. j * Block = t * Block + d * Block /\ d * Block \in Nat /\ t * Block \in Nat
    BY <1>2, <2>1
  <2> QED BY <1>3, <1>5, <2>2
<1>7. PICK d \in Nat : t = j + 1 + d
  <2>1. t - j - 1 \in Nat /\ t = j + 1 + (t - j - 1)
    BY <1>5, <1>6
  <2> QED BY <2>1
<1>8. t * Block = j * Block + Block + d * Block /\ d * Block \in Nat /\ j * Block \in Nat
  BY <1>2, <1>5, <1>7
<1> QED BY <1>2, <1>3, <1>4, <1>5, <1>8

LEMMA ChunkRead ==
  ASSUME NEW S, NEW s \in Seq(S), pos \in 0 .. Len(s), NEW c, c = Chunk(s)
  PROVE  /\ c \in Seq(S)
         /\ Len(c) = IF pos + MaxLen < Len(s) THEN MaxLen ELSE Len(s) - pos
         /\ \A i \in 1 .. Len(c) : c[i] = s[pos + i]
         /\ c = << >> <=> pos = Len(s)
<1> DEFINE e == IF pos + MaxLen < Len(s) THEN pos + MaxLen ELSE Len(s)
<1>1. MaxLen \in Nat \ {0} /\ Len(s) \in Nat /\ pos \in Nat
  BY CryptSizes, LenProperties
<1>2. e \in pos .. Len(s) /\ c = SubSeq(s, pos + 1, e)
  BY <1>1 DEF Chunk
<1> HIDE DEF e
<1>3. \A i \in pos + 1 .. e : s[i] \in S
  BY <1>1, <1>2, ElementOfSeq
<1>4. /\ c \in Seq(S) /\ Len(c) = (IF pos + 1 <= e THEN e - (pos + 1) + 1 ELSE 0)
      /\ \A i \in 1 .. e - (pos + 1) + 1 : c[i] = s[(pos + 1) + i - 1]
  BY <1>1, <1>2, <1>3, SubSeqProperties
<1>5. Len(c) = e - pos
  BY <1>1, <1>2, <1>4
<1>6. Len(c) = IF pos + MaxLen < Len(s) THEN MaxLen ELSE Len(s) - pos
  BY <1>1, <1>5 DEF e
<1>7. \A i \in 1 .. Len(c) : c[i] = s[pos + i]
  <2> SUFFICES ASSUME NEW i \in 1 .. Len(c) PROVE c[i] = s[pos + i]
    OBVIOUS
  <2>1. (pos + 1) + i - 1 = pos + i /\ i \in 1 .. e - (pos + 1) + 1
    BY <1>1, <1>2, <1>5
  <2> QED BY <1>4, <2>1
<1>8. c = << >> <=> Len(c) = 0
  BY <1>4, EmptySeq
<1>9. Len(c) = 0 <=> pos = Len(s)
  BY <1>1, <1>6
<1> QED BY <1>4, <1>6, <1>7, <1>8, <1>9

LEMMA EncipherIs ==
  ASSUME NEW chunk \in Seq(Bytes), NEW at \in Int, NEW c, c = Encipher(chunk, at)
  PROVE  /\ c \in Seq(CipherBytes) /\ Len(c) = Len(chunk)
         /\ \A i \in 1 .. Len(chunk) : c[i] = [byte |-> chunk[i], off |-> at + i]
<1>1. Len(chunk) \in Nat /\ DOMAIN chunk = 1 .. Len(chunk)
  BY LenProperties
<1>2. c = [i \in 1 .. Len(chunk) |-> [byte |-> chunk[i], off |-> at + i]]
  BY <1>1 DEF Encipher
<1>3. \A i \in 1 .. Len(chunk) : c[i] = [byte |-> chunk[i], off |-> at + i] /\ c[i] \in CipherBytes
  BY <1>1, <1>2, ElementOfSeq DEF CipherBytes
<1>4. c \in [1 .. Len(chunk) -> CipherBytes]
  BY <1>2, <1>3
<1>5. c \in Seq(CipherBytes)
  BY <1>1, <1>4, SeqDef
<1>6. DOMAIN c = 1 .. Len(chunk) /\ DOMAIN c = 1 .. Len(c) /\ Len(c) \in Nat
  BY <1>2, <1>5, LenProperties
<1>7. Len(c) = Len(chunk)
  BY <1>1, <1>6
<1> QED BY <1>3, <1>5, <1>7

LEMMA DecipherIs ==
  ASSUME NEW chunk \in Seq(CipherBytes), NEW at \in Int, NEW c, c = Decipher(chunk, at)
  PROVE  /\ c \in Seq(Bytes) /\ Len(c) = Len(chunk)
         /\ \A i \in 1 .. Len(chunk) :
              chunk[i].off = at + i /\ settings.key = stored.key => c[i] = chunk[i].byte
<1>1. Len(chunk) \in Nat /\ DOMAIN chunk = 1 .. Len(chunk)
  BY LenProperties
<1> DEFINE B(i) == IF chunk[i].off = at + i /\ settings.key = stored.key THEN chunk[i].byte ELSE Garbage
<1>2. c = [i \in 1 .. Len(chunk) |-> B(i)]
  BY <1>1 DEF Decipher
<1>3. \A i \in 1 .. Len(chunk) : B(i) \in Bytes
  <2>1. Garbage \in Bytes
    BY DEF Garbage, Byte, Bytes
  <2>2. \A i \in 1 .. Len(chunk) : chunk[i].byte \in Bytes
    <3>1. \A i \in 1 .. Len(chunk) : chunk[i] \in CipherBytes
      BY ElementOfSeq
    <3> QED BY <3>1 DEF CipherBytes
  <2> QED BY <2>1, <2>2
<1>4. \A i \in 1 .. Len(chunk) : c[i] = B(i)
  BY <1>2
<1>5. c \in [1 .. Len(chunk) -> Bytes]
  BY <1>2, <1>3
<1>6. c \in Seq(Bytes)
  BY <1>1, <1>5, SeqDef
<1>7. DOMAIN c = 1 .. Len(chunk) /\ DOMAIN c = 1 .. Len(c) /\ Len(c) \in Nat
  BY <1>2, <1>6, LenProperties
<1>8. Len(c) = Len(chunk)
  BY <1>1, <1>7
<1> QED BY <1>4, <1>6, <1>8

Shaped(s) ==
  /\ s = [keyType |-> s.keyType, keyCheck |-> s.keyCheck, ivCheck |-> s.ivCheck,
          pwdKeyChk |-> s.pwdKeyChk, pwdKey |-> s.pwdKey, noSalt |-> s.noSalt, key |-> s.key]
  /\ s.keyType \in {"NONE", "PASSWORD", "USER"}

LEMMA OptionTaken ==
  ASSUME NEW s, Shaped(s), NEW o
  PROVE  /\ o \in {"-pwd", "-k", "-pass"} =>
              /\ Shaped(Take(o, s)) /\ Take(o, s).keyType = "PASSWORD"
              /\ Take(o, s).keyCheck = s.keyCheck /\ Take(o, s).pwdKeyChk = TRUE
         /\ o \in {"-key", "-inkey"} =>
              /\ Shaped(Take(o, s)) /\ Take(o, s).keyType = "USER"
              /\ Take(o, s).keyCheck = TRUE /\ Take(o, s).pwdKeyChk = s.pwdKeyChk
         /\ o \in {"-iv", "-nosalt"} =>
              /\ Shaped(Take(o, s)) /\ Take(o, s).keyType = s.keyType
              /\ Take(o, s).keyCheck = s.keyCheck /\ Take(o, s).pwdKeyChk = s.pwdKeyChk
<1>1. ASSUME o \in {"-pwd", "-k", "-pass"}
      PROVE  Take(o, s) = [keyType |-> "PASSWORD", keyCheck |-> s.keyCheck, ivCheck |-> s.ivCheck,
                           pwdKeyChk |-> TRUE, pwdKey |-> o, noSalt |-> s.noSalt, key |-> s.key]
  BY <1>1 DEF Take, Shaped
<1>2. ASSUME o \in {"-key", "-inkey"}
      PROVE  Take(o, s) = [keyType |-> "USER", keyCheck |-> TRUE, ivCheck |-> s.ivCheck,
                           pwdKeyChk |-> s.pwdKeyChk, pwdKey |-> s.pwdKey, noSalt |-> s.noSalt,
                           key |-> Key(o, "none")]
  BY <1>2 DEF Take, Shaped
<1>3. ASSUME o = "-iv"
      PROVE  Take(o, s) = [keyType |-> s.keyType, keyCheck |-> s.keyCheck, ivCheck |-> TRUE,
                           pwdKeyChk |-> s.pwdKeyChk, pwdKey |-> s.pwdKey, noSalt |-> s.noSalt, key |-> s.key]
  BY <1>3 DEF Take, Shaped
<1>4. ASSUME o = "-nosalt"
      PROVE  Take(o, s) = [keyType |-> s.keyType, keyCheck |-> s.keyCheck, ivCheck |-> s.ivCheck,
                           pwdKeyChk |-> s.pwdKeyChk, pwdKey |-> s.pwdKey, noSalt |-> TRUE, key |-> s.key]
  BY <1>4 DEF Take, Shaped
<1> QED BY <1>1, <1>2, <1>3, <1>4 DEF Shaped

LEMMA NotGiven == ASSUME NEW s, NEW o, o \notin given, NEW t, t = OptionRead(o, s) PROVE t = s
  BY DEF OptionRead

LEMMA PasswordTaken ==
  ASSUME NEW s, Shaped(s), NEW o \in {"-pwd", "-k", "-pass"}, o \in given, NEW t, t = OptionRead(o, s)
  PROVE  Shaped(t) /\ t.keyType = "PASSWORD" /\ t.keyCheck = s.keyCheck /\ t.pwdKeyChk = TRUE
<1>1. t = Take(o, s)
  BY DEF OptionRead
<1>2. /\ Shaped(Take(o, s)) /\ Take(o, s).keyType = "PASSWORD"
      /\ Take(o, s).keyCheck = s.keyCheck /\ Take(o, s).pwdKeyChk = TRUE
  BY OptionTaken
<1> QED BY <1>1, <1>2

LEMMA KeyTaken ==
  ASSUME NEW s, Shaped(s), NEW o \in {"-key", "-inkey"}, o \in given, NEW t, t = OptionRead(o, s)
  PROVE  Shaped(t) /\ t.keyType = "USER" /\ t.keyCheck = TRUE /\ t.pwdKeyChk = s.pwdKeyChk
<1>1. t = Take(o, s)
  BY DEF OptionRead
<1>2. /\ Shaped(Take(o, s)) /\ Take(o, s).keyType = "USER"
      /\ Take(o, s).keyCheck = TRUE /\ Take(o, s).pwdKeyChk = s.pwdKeyChk
  BY OptionTaken
<1> QED BY <1>1, <1>2

LEMMA OtherTaken ==
  ASSUME NEW s, Shaped(s), NEW o \in {"-iv", "-nosalt"}, o \in given, NEW t, t = OptionRead(o, s)
  PROVE  Shaped(t) /\ t.keyType = s.keyType /\ t.keyCheck = s.keyCheck /\ t.pwdKeyChk = s.pwdKeyChk
<1>1. t = Take(o, s)
  BY DEF OptionRead
<1>2. /\ Shaped(Take(o, s)) /\ Take(o, s).keyType = s.keyType
      /\ Take(o, s).keyCheck = s.keyCheck /\ Take(o, s).pwdKeyChk = s.pwdKeyChk
  BY OptionTaken
<1> QED BY <1>1, <1>2

\* Of several the last in the table decides; a key comes after -pwd and before -k and -pass.
LEMMA SettingsRead ==
  /\ Shaped(T1) /\ Shaped(T2) /\ Shaped(T3) /\ Shaped(T4) /\ Shaped(T5) /\ Shaped(T6) /\ Shaped(T7)
  /\ Explicit => T7.keyCheck = TRUE
  /\ ~Explicit => T7.keyCheck = FALSE
  /\ PasswordGiven => T7.pwdKeyChk = TRUE
  /\ ~PasswordGiven => T7.pwdKeyChk = FALSE
  /\ ~Explicit /\ PasswordGiven => T7.keyType = "PASSWORD"
  /\ Explicit /\ given \cap {"-k", "-pass"} = {} => T7.keyType = "USER"
<1> DEFINE Is(s, kc, pc) ==
      /\ Shaped(s)
      /\ kc => s.keyCheck = TRUE
      /\ ~kc => s.keyCheck = FALSE
      /\ pc => s.pwdKeyChk = TRUE
      /\ ~pc => s.pwdKeyChk = FALSE
<1>2. Shaped(NoSettings) /\ Is(NoSettings, FALSE, FALSE)
  BY DEF Shaped, NoSettings
<1>3. Explicit <=> "-key" \in given \/ "-inkey" \in given
  BY DEF Explicit, KeyOptions
<1>4. PasswordGiven <=> "-pwd" \in given \/ "-k" \in given \/ "-pass" \in given
  BY DEF PasswordGiven, PasswordOptions
<1>5. /\ Is(T1, FALSE, "-pwd" \in given)
      /\ "-pwd" \in given => T1.keyType = "PASSWORD"
  <2>1. Shaped(NoSettings) /\ T1 = OptionRead("-pwd", NoSettings)
    BY <1>2 DEF T1
  <2>2. "-pwd" \notin given => T1 = NoSettings
    BY <2>1, NotGiven
  <2>3. "-pwd" \in given =>
          Shaped(T1) /\ T1.keyType = "PASSWORD" /\ T1.keyCheck = NoSettings.keyCheck /\ T1.pwdKeyChk = TRUE
    BY <2>1, PasswordTaken
  <2> QED BY <1>2, <1>3, <1>4, <2>2, <2>3
<1>6. /\ Is(T2, "-key" \in given, "-pwd" \in given)
      /\ "-key" \in given => T2.keyType = "USER"
      /\ "-key" \notin given /\ "-pwd" \in given => T2.keyType = "PASSWORD"
  <2>1. Shaped(T1) /\ T2 = OptionRead("-key", T1)
    BY <1>5 DEF T2
  <2>2. "-key" \notin given => T2 = T1
    BY <2>1, NotGiven
  <2>3. "-key" \in given =>
          Shaped(T2) /\ T2.keyType = "USER" /\ T2.keyCheck = TRUE /\ T2.pwdKeyChk = T1.pwdKeyChk
    BY <2>1, KeyTaken
  <2> QED BY <1>2, <1>3, <1>4, <2>2, <2>3, <1>5
<1>7. /\ Is(T3, "-key" \in given, "-pwd" \in given)
      /\ T3.keyType = T2.keyType
  <2>1. Shaped(T2) /\ T3 = OptionRead("-iv", T2)
    BY <1>6 DEF T3
  <2>2. "-iv" \notin given => T3 = T2
    BY <2>1, NotGiven
  <2>3. "-iv" \in given =>
          Shaped(T3) /\ T3.keyType = T2.keyType /\ T3.keyCheck = T2.keyCheck /\ T3.pwdKeyChk = T2.pwdKeyChk
    BY <2>1, OtherTaken
  <2> QED BY <1>2, <1>3, <1>4, <2>2, <2>3, <1>6
<1>8. /\ Is(T4, Explicit, "-pwd" \in given)
      /\ Explicit => T4.keyType = "USER"
      /\ ~Explicit /\ "-pwd" \in given => T4.keyType = "PASSWORD"
  <2>1. Shaped(T3) /\ T4 = OptionRead("-inkey", T3)
    BY <1>7 DEF T4
  <2>2. "-inkey" \notin given => T4 = T3
    BY <2>1, NotGiven
  <2>3. "-inkey" \in given =>
          Shaped(T4) /\ T4.keyType = "USER" /\ T4.keyCheck = TRUE /\ T4.pwdKeyChk = T3.pwdKeyChk
    BY <2>1, KeyTaken
  <2> QED BY <1>2, <1>3, <1>4, <2>2, <2>3, <1>7, <1>6
<1>9. /\ Is(T5, Explicit, "-pwd" \in given \/ "-k" \in given)
      /\ Explicit /\ "-k" \notin given => T5.keyType = "USER"
      /\ ~Explicit /\ ("-pwd" \in given \/ "-k" \in given) => T5.keyType = "PASSWORD"
  <2>1. Shaped(T4) /\ T5 = OptionRead("-k", T4)
    BY <1>8 DEF T5
  <2>2. "-k" \notin given => T5 = T4
    BY <2>1, NotGiven
  <2>3. "-k" \in given =>
          Shaped(T5) /\ T5.keyType = "PASSWORD" /\ T5.keyCheck = T4.keyCheck /\ T5.pwdKeyChk = TRUE
    BY <2>1, PasswordTaken
  <2> QED BY <1>2, <1>3, <1>4, <2>2, <2>3, <1>8
<1>10. /\ Is(T6, Explicit, "-pwd" \in given \/ "-k" \in given)
       /\ T6.keyType = T5.keyType
  <2>1. Shaped(T5) /\ T6 = OptionRead("-nosalt", T5)
    BY <1>9 DEF T6
  <2>2. "-nosalt" \notin given => T6 = T5
    BY <2>1, NotGiven
  <2>3. "-nosalt" \in given =>
          Shaped(T6) /\ T6.keyType = T5.keyType /\ T6.keyCheck = T5.keyCheck /\ T6.pwdKeyChk = T5.pwdKeyChk
    BY <2>1, OtherTaken
  <2> QED BY <1>2, <1>3, <1>4, <2>2, <2>3, <1>9
<1>11. /\ Is(T7, Explicit, PasswordGiven)
       /\ Explicit /\ "-k" \notin given /\ "-pass" \notin given => T7.keyType = "USER"
       /\ ~Explicit /\ PasswordGiven => T7.keyType = "PASSWORD"
  <2>1. Shaped(T6) /\ T7 = OptionRead("-pass", T6)
    BY <1>10 DEF T7
  <2>2. "-pass" \notin given => T7 = T6
    BY <2>1, NotGiven
  <2>3. "-pass" \in given =>
          Shaped(T7) /\ T7.keyType = "PASSWORD" /\ T7.keyCheck = T6.keyCheck /\ T7.pwdKeyChk = TRUE
    BY <2>1, PasswordTaken
  <2> QED BY <1>2, <1>3, <1>4, <2>2, <2>3, <1>10, <1>9
<1>12. given \cap {"-k", "-pass"} = {} <=> "-k" \notin given /\ "-pass" \notin given
  OBVIOUS
<1>13. /\ Shaped(T1) /\ Shaped(T2) /\ Shaped(T3) /\ Shaped(T4) /\ Shaped(T5) /\ Shaped(T6) /\ Shaped(T7)
  BY <1>5, <1>6, <1>7, <1>8, <1>9, <1>10, <1>11
<1>14. /\ Explicit => T7.keyCheck = TRUE
       /\ ~Explicit => T7.keyCheck = FALSE
  BY <1>11
<1>15. /\ PasswordGiven => T7.pwdKeyChk = TRUE
       /\ ~PasswordGiven => T7.pwdKeyChk = FALSE
  BY <1>11
<1>16. /\ ~Explicit /\ PasswordGiven => T7.keyType = "PASSWORD"
       /\ Explicit /\ given \cap {"-k", "-pass"} = {} => T7.keyType = "USER"
  BY <1>11, <1>12
<1> QED BY <1>13, <1>14, <1>15, <1>16

LEMMA SameGiven ==
  ASSUME given' = given
  PROVE  /\ T1' = T1 /\ T2' = T2 /\ T3' = T3 /\ T4' = T4 /\ T5' = T5 /\ T6' = T6 /\ T7' = T7
         /\ UsedPassword' = UsedPassword /\ Explicit' = Explicit /\ PasswordGiven' = PasswordGiven
<1>1. /\ T1' = T1 /\ T2' = T2 /\ T3' = T3 /\ T4' = T4 /\ T5' = T5 /\ T6' = T6 /\ T7' = T7
  BY DEF T1, T2, T3, T4, T5, T6, T7, OptionRead
<1> QED BY <1>1 DEF UsedPassword, Explicit, PasswordGiven

LEMMA Table ==
  /\ Len(crypt_options) = 7
  /\ crypt_options[1] = "-pwd" /\ crypt_options[2] = "-key" /\ crypt_options[3] = "-iv"
  /\ crypt_options[4] = "-inkey" /\ crypt_options[5] = "-k" /\ crypt_options[6] = "-nosalt"
  /\ crypt_options[7] = "-pass"
<1>1. Len(crypt_options) = 7
  BY DEF crypt_options
<1>2. /\ crypt_options[1] = "-pwd" /\ crypt_options[2] = "-key" /\ crypt_options[3] = "-iv"
      /\ crypt_options[4] = "-inkey" /\ crypt_options[5] = "-k" /\ crypt_options[6] = "-nosalt"
      /\ crypt_options[7] = "-pass"
  BY DEF crypt_options
<1> QED BY <1>1, <1>2

LEMMA CryptStarts ==
  ASSUME NEW g \in Givens, NEW e \in BOOLEAN, NEW text \in Texts, CryptStart(g, e, text)
  PROVE  CryptInv
<1>1. /\ given = g /\ evp = e /\ plain = text
      /\ mode = "enc" /\ cryptPc = "options" /\ walked = 0 /\ settings = NoSettings
      /\ length = 0 /\ pos = 0 /\ padCounter = 0 /\ stored = NoFile /\ loops = [curr |-> 1, last |-> 0]
      /\ output = << >> /\ recovered = << >> /\ encRet = Running /\ decRet = Running /\ mishap = "none"
  BY DEF CryptStart
<1>2. Block \in Nat \ {0} /\ plain \in Seq(Bytes)
  BY <1>1, CryptSizes, CryptAssumption
<1>3. CryptTypeOK
  <2>1. recovered \in Seq(Bytes) /\ output \in Seq(Bytes)
    BY <1>1, EmptySeq
  <2>2. settings.keyType = "NONE" /\ walked \in 0 .. Len(crypt_options)
    <3>1. NoSettings.keyType = "NONE"
      BY DEF NoSettings
    <3> QED BY <1>1, <3>1, Table
  <2>3. loops.curr \in 1 .. loops.last + 1 /\ padCounter \in 0 .. Block - 1
    BY <1>1, <1>2
  <2> QED BY <1>1, <2>1, <2>2, <2>3 DEF CryptTypeOK
<1>4. InTurn
  BY <1>1 DEF InTurn, Active, Scanned
<1>5. Enciphering /\ Deciphering
  BY <1>1 DEF Enciphering, Deciphering
<1>6. RoundTrip /\ Decrypts
  BY <1>1 DEF RoundTrip, Decrypts, Running, Success
<1> QED BY <1>1, <1>2, <1>3, <1>4, <1>5, <1>6 DEF CryptInv

\* What the text, the header and the bytes of the file do not depend on.
LEMMA FileStays ==
  ASSUME UNCHANGED <<runVars, stored, padCounter>>
  PROVE  /\ Header' = Header
         /\ Ciphered(CipherLength)' = Ciphered(CipherLength)
<1>1. given' = given /\ evp' = evp /\ plain' = plain
  BY DEF runVars
<1>2. Header' = Header
  BY <1>1, SameGiven DEF Header, Bare, Missing
<1>3. Ciphered(CipherLength)' = Ciphered(CipherLength)
  BY <1>1 DEF Ciphered, CipherLength, TextByte, Offset
<1> QED BY <1>2, <1>3

LEMMA SettingsTaken == ASSUME CryptInv, ReadOption PROVE CryptInv'
<1>1. /\ cryptPc = "options" /\ walked < Len(crypt_options) /\ walked' = walked + 1
      /\ settings' = IF crypt_options[walked'] \in given
                     THEN Take(crypt_options[walked'], settings) ELSE settings
      /\ UNCHANGED <<runVars, mode, cryptPc, length, pos, padCounter, loops, output, stored, recovered,
                     encRet, decRet, mishap>>
  BY DEF ReadOption, Progress, Files
<1>2. /\ CryptTypeOK /\ given \in Givens /\ evp \in BOOLEAN /\ plain \in Seq(Bytes)
      /\ loops = [curr |-> loops.curr, last |-> loops.last] /\ loops.last \in Nat
      /\ InTurn /\ RoundTrip
  BY DEF CryptInv
<1>3. Len(crypt_options) = 7 /\ walked \in 0 .. 6
  BY <1>1, <1>2, Table DEF CryptTypeOK
<1>5. given' = given /\ evp' = evp /\ plain' = plain
  BY <1>1 DEF runVars
<1>6. settings' = OptionRead(crypt_options[walked + 1], settings)
  BY <1>1 DEF OptionRead
<1>7. Scanned
  BY <1>1, <1>2 DEF InTurn
<1>8. Scanned' /\ Shaped(settings')
  <2>1. CASE walked = 0
    BY <1>1, <1>5, <1>6, <1>7, Table, <2>1, SameGiven, SettingsRead DEF Scanned, T1
  <2>2. CASE walked = 1
    BY <1>1, <1>5, <1>6, <1>7, Table, <2>2, SameGiven, SettingsRead DEF Scanned, T2
  <2>3. CASE walked = 2
    BY <1>1, <1>5, <1>6, <1>7, Table, <2>3, SameGiven, SettingsRead DEF Scanned, T3
  <2>4. CASE walked = 3
    BY <1>1, <1>5, <1>6, <1>7, Table, <2>4, SameGiven, SettingsRead DEF Scanned, T4
  <2>5. CASE walked = 4
    BY <1>1, <1>5, <1>6, <1>7, Table, <2>5, SameGiven, SettingsRead DEF Scanned, T5
  <2>6. CASE walked = 5
    BY <1>1, <1>5, <1>6, <1>7, Table, <2>6, SameGiven, SettingsRead DEF Scanned, T6
  <2>7. CASE walked = 6
    BY <1>1, <1>5, <1>6, <1>7, Table, <2>7, SameGiven, SettingsRead DEF Scanned, T7
  <2> QED BY <1>3, <2>1, <2>2, <2>3, <2>4, <2>5, <2>6, <2>7
<1>9. CryptTypeOK'
  BY <1>1, <1>2, <1>3, <1>8 DEF CryptTypeOK, Shaped
<1>10. InTurn'
  BY <1>1, <1>2, <1>5, <1>8, FileStays DEF InTurn, Active
<1>11. Enciphering' /\ Deciphering' /\ RoundTrip' /\ Decrypts'
  BY <1>1, <1>2 DEF Enciphering, Deciphering, RoundTrip, Decrypts, InTurn, Active, Running, Success
<1> QED BY <1>1, <1>2, <1>5, <1>9, <1>10, <1>11 DEF CryptInv

\* A command returns with an error, or after a mishap.
LEMMA CryptStops ==
  ASSUME CryptInv, Active, cryptPc' = "over", CryptTypeOK',
         UNCHANGED <<runVars, mode, padCounter, stored, recovered>>,
         loops' = [curr |-> loops'.curr, last |-> loops'.last], loops'.last \in Nat,
         mode = "enc" => decRet' = Running /\ (encRet' = Success => mishap' # "none"),
         mode = "dec" => encRet' = Success,
         mode = "dec" /\ mishap' = "none" => decRet' = FatalError /\ Decrypts'
  PROVE  CryptInv'
<1>1. /\ given \in Givens /\ evp \in BOOLEAN /\ plain \in Seq(Bytes) /\ InTurn /\ CryptTypeOK
  BY DEF CryptInv
<1>2. given' = given /\ evp' = evp /\ plain' = plain
  BY DEF runVars
<1>3. mode \in {"enc", "dec"}
  BY <1>1 DEF CryptTypeOK
<1>4. InTurn'
  BY <1>1, <1>2, <1>3, FileStays DEF InTurn, Active
<1>5. Enciphering' /\ Deciphering'
  BY DEF Enciphering, Deciphering
<1>6. RoundTrip' /\ Decrypts'
  BY <1>3 DEF RoundTrip, Decrypts, Running, Success, FatalError
<1> QED BY <1>1, <1>2, <1>4, <1>5, <1>6 DEF CryptInv

LEMMA CryptFailed == ASSUME CryptInv, CryptFails \/ LoseWrite PROVE CryptInv'
<1>1. /\ CryptTypeOK /\ InTurn /\ loops = [curr |-> loops.curr, last |-> loops.last] /\ loops.last \in Nat
  BY DEF CryptInv
<1>2. /\ Active /\ cryptPc' = "over" /\ mishap' \in {"failed", "lost"}
      /\ UNCHANGED <<runVars, mode, walked, settings, length, pos, padCounter, loops, output, stored, recovered>>
  BY <1>1 DEF CryptFails, LoseWrite, Active, Return, Progress, Files, Success, FatalError, CryptTypeOK
<1>3. {encRet', decRet'} \subseteq {Running, Success, FatalError}
  BY <1>1 DEF CryptFails, LoseWrite, Return, CryptTypeOK
<1>4. /\ mode = "enc" => decRet' = Running
      /\ mode = "dec" => encRet' = Success
  BY <1>1, <1>2 DEF CryptFails, LoseWrite, Return, InTurn
<1>5. CryptTypeOK'
  BY <1>1, <1>2, <1>3 DEF CryptTypeOK
<1> QED BY <1>1, <1>2, <1>4, <1>5, CryptStops

\* Checked settings that a decryption was accepted with have a key or a password.
LEMMA OptionsAccepted == ASSUME CryptInv, Check PROVE CryptInv'
<1>1. /\ cryptPc = "options" /\ walked = Len(crypt_options) /\ Acceptable /\ cryptPc' = "start"
      /\ settings' =
           [settings EXCEPT !.pwdKey = IF ~settings.keyCheck /\ ~settings.pwdKeyChk THEN "typed"
                                       ELSE IF settings.keyCheck /\ settings.pwdKeyChk THEN ""
                                       ELSE @]
      /\ UNCHANGED <<runVars, mode, walked, length, pos, padCounter, loops, output, stored, recovered,
                     encRet, decRet, mishap>>
  BY DEF Check, Go, Progress, Files
<1>2. /\ CryptTypeOK /\ given \in Givens /\ evp \in BOOLEAN /\ plain \in Seq(Bytes)
      /\ loops = [curr |-> loops.curr, last |-> loops.last] /\ loops.last \in Nat
      /\ InTurn /\ RoundTrip
  BY DEF CryptInv
<1>3. given' = given /\ evp' = evp /\ plain' = plain
  BY <1>1 DEF runVars
<1>4. settings = T7 /\ Shaped(T7)
  BY <1>1, <1>2, Table, SettingsRead DEF InTurn, Scanned
<1>5. settings' = [keyType |-> T7.keyType, keyCheck |-> T7.keyCheck, ivCheck |-> T7.ivCheck,
                   pwdKeyChk |-> T7.pwdKeyChk, pwdKey |-> UsedPassword, noSalt |-> T7.noSalt,
                   key |-> T7.key]
  BY <1>1, <1>4 DEF UsedPassword, Shaped
<1>6. settings'.key = T7.key /\ settings'.keyType = T7.keyType
  BY <1>5
<1>7. Agreed'
  BY <1>1, <1>3, <1>4, <1>5, <1>6, SameGiven DEF Agreed, Acceptable
<1>8. CryptTypeOK'
  BY <1>1, <1>2, <1>4, <1>6 DEF CryptTypeOK, Shaped
<1>9. InTurn'
  BY <1>1, <1>2, <1>3, <1>6, <1>7, FileStays, SameGiven DEF InTurn, Active
<1>10. Enciphering' /\ Deciphering' /\ RoundTrip' /\ Decrypts'
  BY <1>1, <1>2 DEF Enciphering, Deciphering, RoundTrip, Decrypts, InTurn, Active, Running, Success
<1> QED BY <1>1, <1>2, <1>3, <1>8, <1>9, <1>10 DEF CryptInv

LEMMA OptionsRefused == ASSUME CryptInv, CheckRefuses PROVE CryptInv'
<1>1. /\ cryptPc = "options" /\ walked = Len(crypt_options) /\ ~Acceptable /\ Return(FatalError)
      /\ UNCHANGED <<runVars, mode, walked, settings, length, pos, padCounter, loops, output, stored,
                     recovered, mishap>>
  BY DEF CheckRefuses, Progress, Files
<1>2. /\ CryptTypeOK /\ loops = [curr |-> loops.curr, last |-> loops.last] /\ loops.last \in Nat
      /\ InTurn /\ mode \in {"enc", "dec"}
  BY DEF CryptInv, CryptTypeOK
<1>3. /\ cryptPc' = "over"
      /\ mode = "enc" => encRet' = FatalError /\ decRet' = decRet
      /\ mode = "dec" => encRet' = encRet /\ decRet' = FatalError
  BY <1>1, <1>2 DEF Return, FatalError, Success
<1>4. CryptTypeOK'
  BY <1>1, <1>2, <1>3 DEF CryptTypeOK
<1>5. settings = T7
  BY <1>1, <1>2, Table DEF InTurn, Scanned
<1>6. ASSUME mode = "dec" PROVE Decrypts'
  <2>1. T7.ivCheck = T7.keyCheck
    BY <1>2, <1>6 DEF InTurn, Header
  <2>2. ~T7.keyCheck /\ ~T7.pwdKeyChk
    BY <1>1, <1>5, <2>1 DEF Acceptable
  <2>3. ~Explicit /\ ~PasswordGiven
    BY <2>2, SettingsRead
  <2>4. given \cap (KeyOptions \cup PasswordOptions) = {}
    BY <2>3 DEF Explicit, PasswordGiven
  <2> QED BY <1>1, <2>4 DEF Decrypts, runVars
<1>7. Active /\ decRet = Running /\ (mode = "dec" => encRet = Success)
  BY <1>1, <1>2 DEF Active, InTurn
<1>8. FatalError # Success
  BY DEF FatalError, Success
<1> QED BY <1>1, <1>2, <1>3, <1>4, <1>6, <1>7, <1>8, CryptStops

LEMMA SecondStarts == ASSUME CryptInv, Decrypt PROVE CryptInv'
<1>1. /\ cryptPc = "next" /\ cryptPc' = "options"
      /\ mode' = "dec" /\ walked' = 0 /\ settings' = NoSettings /\ pos' = 0
      /\ UNCHANGED <<runVars, length, padCounter, loops, output, stored, recovered, encRet, decRet, mishap>>
  BY DEF Decrypt, Go, Files
<1>2. /\ CryptTypeOK /\ given \in Givens /\ evp \in BOOLEAN /\ plain \in Seq(Bytes)
      /\ loops = [curr |-> loops.curr, last |-> loops.last] /\ loops.last \in Nat
      /\ InTurn /\ RoundTrip
  BY DEF CryptInv
<1>3. given' = given /\ evp' = evp /\ plain' = plain
  BY <1>1 DEF runVars
<1>4. CryptTypeOK'
  <2>1. NoSettings.keyType = "NONE"
    BY DEF NoSettings
  <2> QED BY <1>1, <1>2, <2>1, Table DEF CryptTypeOK
<1>5. mode = "enc"
  BY <1>1, <1>2 DEF InTurn, CryptTypeOK
<1>6. InTurn'
  BY <1>1, <1>2, <1>3, <1>5, FileStays DEF InTurn, Active, Scanned
<1>7. Enciphering' /\ Deciphering' /\ RoundTrip' /\ Decrypts'
  BY <1>1, <1>2 DEF Enciphering, Deciphering, RoundTrip, Decrypts, InTurn, Running, Success
<1> QED BY <1>1, <1>2, <1>3, <1>4, <1>6, <1>7 DEF CryptInv

LEMMA EnciphersOn ==
  ASSUME CryptInv, mode = "enc", cryptPc \in {"start", "loop"}, cryptPc' = "loop",
         UNCHANGED <<runVars, mode, walked, loops, output, recovered, encRet, decRet, mishap>>,
         CryptTypeOK', Enciphering'
  PROVE  CryptInv'
<1>1. /\ given \in Givens /\ evp \in BOOLEAN /\ plain \in Seq(Bytes) /\ InTurn
      /\ loops = [curr |-> loops.curr, last |-> loops.last] /\ loops.last \in Nat
  BY DEF CryptInv
<1>2. given' = given /\ evp' = evp /\ plain' = plain
  BY DEF runVars
<1>3. InTurn'
  BY <1>1 DEF InTurn, Active
<1>4. Deciphering' /\ RoundTrip' /\ Decrypts'
  BY <1>1 DEF Deciphering, RoundTrip, Decrypts, InTurn, Active, Running, Success
<1> QED BY <1>1, <1>2, <1>3, <1>4 DEF CryptInv

LEMMA EnciphersStart == ASSUME CryptInv, EncStart PROVE CryptInv'
<1>1. /\ ~evp /\ mode = "enc" /\ cryptPc = "start" /\ cryptPc' = "loop"
      /\ padCounter' = Missing(Len(plain)) /\ length' = Len(plain) + padCounter'
      /\ UNCHANGED <<runVars, mode, walked, pos, loops, output, recovered, encRet, decRet, mishap>>
  BY DEF EncStart, Go
<1> DEFINE SaltFor == IF settings.ivCheck THEN {"zeros"} ELSE SaltMark(padCounter')
           KeyWith(salt) == IF settings.ivCheck THEN settings.key ELSE Derived(salt)
<1>2. PICK salt \in SaltFor :
        /\ settings' = [settings EXCEPT !.key = KeyWith(salt)]
        /\ stored' = [NoFile EXCEPT !.salted = TRUE, !.salt = salt, !.key = KeyWith(salt)]
  BY DEF EncStart
<1>3. /\ CryptTypeOK /\ InTurn /\ plain \in Seq(Bytes) /\ Agreed /\ settings.key = T7.key /\ pos = 0
  BY <1>1 DEF CryptInv, InTurn
<1>4. given' = given /\ evp' = evp /\ plain' = plain
  BY <1>1 DEF runVars
<1>5. Len(plain) \in Nat /\ padCounter' \in 0 .. Block - 1 /\ Block \in Nat \ {0}
  BY <1>1, <1>3, LenProperties, Padding, CryptSizes
<1>6. settings' = [keyType |-> T7.keyType, keyCheck |-> T7.keyCheck, ivCheck |-> T7.ivCheck,
                   pwdKeyChk |-> T7.pwdKeyChk, pwdKey |-> UsedPassword, noSalt |-> T7.noSalt,
                   key |-> settings'.key]
  BY <1>2, <1>3 DEF Agreed
<1>7. stored' = [salted |-> TRUE, salt |-> salt, key |-> KeyWith(salt), bytes |-> << >>, final |-> FALSE]
  BY <1>2 DEF NoFile
<1>8. settings.ivCheck = T7.ivCheck /\ settings.pwdKey = UsedPassword
  BY <1>3 DEF Agreed
<1>9. stored'.key = IF T7.ivCheck THEN T7.key ELSE Key(UsedPassword, stored'.salt)
  BY <1>3, <1>7, <1>8 DEF Derived
<1>10. stored'.salt = IF T7.ivCheck THEN "zeros" ELSE IF padCounter' = 0 THEN "unmarked" ELSE "marked"
  BY <1>2, <1>7, <1>8 DEF SaltMark
<1>11. Agreed'
  BY <1>1, <1>3, <1>4, <1>6, SameGiven DEF Agreed
<1>12. Header'
  <2>1. stored' = [salted |-> stored'.salted, salt |-> stored'.salt, key |-> stored'.key,
                   bytes |-> stored'.bytes, final |-> stored'.final]
    BY <1>7
  <2>2. T7.ivCheck = T7.keyCheck
    BY <1>3 DEF Agreed
  <2>3. padCounter' = Missing(Len(plain))'
    BY <1>1, <1>4 DEF Missing
  <2> QED BY <1>1, <1>4, <1>9, <1>10, <2>1, <2>2, <2>3, SameGiven DEF Header
<1>13. stored'.bytes = << >> /\ pos' = 0
  BY <1>1, <1>3, <1>7
<1>14. Ciphered(pos)'
  BY <1>13, EmptySeq DEF Ciphered
<1>15. ChunksRead' /\ length' = CipherLength' - pos' /\ length' \in Nat /\ pos' <= Len(plain')
  <2>1. 0 \in Nat /\ pos' = 0 * MaxLen
    BY <1>13, CryptSizes
  <2>2. ChunksRead'
    BY <2>1 DEF ChunksRead
  <2> QED BY <1>1, <1>4, <1>5, <1>13, <2>2 DEF CipherLength
<1>16. Enciphering'
  BY <1>1, <1>4, <1>11, <1>12, <1>14, <1>15 DEF Enciphering
<1>17. CryptTypeOK'
  BY <1>1, <1>3, <1>5, <1>6, <1>15, SettingsRead DEF CryptTypeOK, Shaped
<1> QED BY <1>1, <1>16, <1>17, EnciphersOn

LEMMA Joined ==
  ASSUME NEW S, NEW s \in Seq(S), NEW t \in Seq(S), NEW u, u = s \o t
  PROVE  /\ u \in Seq(S) /\ Len(u) = Len(s) + Len(t)
         /\ \A i \in 1 .. Len(u) : u[i] = IF i <= Len(s) THEN s[i] ELSE t[i - Len(s)]
<1>1. u \in Seq(S)
  BY ConcatProperties
<1>2. Len(u) = Len(s) + Len(t)
  BY ConcatProperties
<1>3. \A i \in 1 .. Len(s) + Len(t) : u[i] = IF i <= Len(s) THEN s[i] ELSE t[i - Len(s)]
  BY ConcatProperties
<1> QED BY <1>1, <1>2, <1>3

\* More of the text is stored.
LEMMA MoreCiphered ==
  ASSUME Ciphered(pos), pos \in Nat, UNCHANGED <<evp, plain, padCounter>>,
         NEW c \in Seq(CipherBytes), stored'.bytes = stored.bytes \o c,
         \A j \in 1 .. Len(c) : c[j] = [byte |-> TextByte(pos + j), off |-> Offset(pos + j)],
         NEW n, n = pos + Len(c)
  PROVE  Ciphered(n)'
<1>1. /\ stored.bytes \in Seq(CipherBytes) /\ Len(stored.bytes) = pos /\ Len(c) \in Nat
      /\ \A i \in 1 .. pos : stored.bytes[i] = [byte |-> TextByte(i), off |-> Offset(i)]
  BY LenProperties DEF Ciphered
<1>2. /\ stored'.bytes \in Seq(CipherBytes) /\ Len(stored'.bytes) = n
      /\ \A i \in 1 .. n : stored'.bytes[i] = IF i <= pos THEN stored.bytes[i] ELSE c[i - pos]
  <2>1. PICK u : u = stored'.bytes
    OBVIOUS
  <2>2. u = stored.bytes \o c
    BY <2>1
  <2>3. PICK s : s = stored.bytes
    OBVIOUS
  <2>4. s \in Seq(CipherBytes) /\ u = s \o c
    BY <1>1, <2>2, <2>3
  <2>5. /\ u \in Seq(CipherBytes) /\ Len(u) = Len(s) + Len(c)
        /\ \A i \in 1 .. Len(u) : u[i] = IF i <= Len(s) THEN s[i] ELSE c[i - Len(s)]
    BY <2>4, Joined
  <2> QED BY <1>1, <2>1, <2>3, <2>5
<1>3. \A i \in 1 .. n : stored'.bytes[i] = [byte |-> TextByte(i), off |-> Offset(i)]
  <2> SUFFICES ASSUME NEW i \in 1 .. n
               PROVE  stored'.bytes[i] = [byte |-> TextByte(i), off |-> Offset(i)]
    OBVIOUS
  <2>1. CASE i <= pos
    BY <1>1, <1>2, <2>1
  <2>2. CASE ~(i <= pos)
    <3>1. i - pos \in 1 .. Len(c) /\ pos + (i - pos) = i
      BY <1>1, <2>2
    <3>2. c[i - pos] = [byte |-> TextByte(i), off |-> Offset(i)]
      BY <3>1
    <3> QED BY <1>2, <2>2, <3>2
  <2> QED BY <2>1, <2>2
<1>4. \A i \in 1 .. n : TextByte(i)' = TextByte(i) /\ Offset(i)' = Offset(i)
  BY DEF TextByte, Offset
<1> QED BY <1>2, <1>3, <1>4 DEF Ciphered

LEMMA PaddingBytes ==
  ASSUME padCounter \in Nat, NEW here, here = [i \in 1 .. padCounter |-> Byte(0, padCounter)]
  PROVE  here \in Seq(Bytes) /\ Len(here) = padCounter /\ \A i \in 1 .. padCounter : here[i] = Byte(0, padCounter)
<1>1. Byte(0, padCounter) \in Bytes
  BY DEF Byte, Bytes
<1>2. here \in [1 .. padCounter -> Bytes]
  BY <1>1
<1>3. here \in Seq(Bytes)
  BY <1>2, SeqDef
<1>4. DOMAIN here = 1 .. padCounter /\ DOMAIN here = 1 .. Len(here) /\ Len(here) \in Nat
  BY <1>3, LenProperties
<1>5. Len(here) = padCounter
  BY <1>4
<1> QED BY <1>3, <1>5

\* Storing more bytes leaves the header as it is.
LEMMA HeaderStays ==
  ASSUME UNCHANGED <<runVars, padCounter>>, Header, NEW b, stored' = [stored EXCEPT !.bytes = b]
  PROVE  Header' /\ stored'.bytes = b /\ stored'.key = stored.key
<1>1. given' = given /\ evp' = evp /\ plain' = plain
  BY DEF runVars
<1>2. stored' = [salted |-> stored.salted, salt |-> stored.salt, key |-> stored.key,
                 bytes |-> b, final |-> stored.final]
  BY DEF Header
<1>3. Header'
  BY <1>1, <1>2, SameGiven DEF Header, Bare, Missing
<1> QED BY <1>2, <1>3

\* A chunk is full, or it is the last and its padding fits in.
LEMMA ChunkSizes ==
  ASSUME NEW n \in Nat, NEW here \in Nat, here <= n, NEW k \in Nat, here = k * MaxLen,
         NEW l, l = IF here + MaxLen < n THEN MaxLen ELSE n - here
  PROVE  /\ l \in 0 .. MaxLen /\ Missing(n) \in Nat
         /\ l = MaxLen => here + l = (k + 1) * MaxLen /\ here + l <= n
         /\ l # MaxLen => here + l = n /\ l + Missing(n) <= MaxLen
<1>1. MaxLen \in Nat \ {0} /\ Block \in Nat \ {0} /\ Missing(n) \in 0 .. Block - 1
  BY CryptSizes, Padding
<1>2. (k + 1) * MaxLen = here + MaxLen /\ k + 1 \in Nat
  BY <1>1
<1>3. (k + 1) * MaxLen < n + Missing(n) => (k + 1) * MaxLen <= n
  BY <1>2, LastHasPadding
<1>4. l \in 0 .. MaxLen /\ Missing(n) \in Nat
  <2>1. CASE here + MaxLen < n
    BY <1>1, <2>1
  <2>2. CASE ~(here + MaxLen < n)
    BY <1>1, <2>2
  <2> QED BY <2>1, <2>2
<1>5. l = MaxLen => here + l = (k + 1) * MaxLen /\ here + l <= n
  BY <1>1, <1>2
<1>6. l # MaxLen => here + l = n /\ l + Missing(n) <= MaxLen
  BY <1>1, <1>2, <1>3
<1> QED BY <1>4, <1>5, <1>6

LEMMA OnlyTheCounts ==
  ASSUME CryptTypeOK, pos' \in Nat, length' \in Nat,
         UNCHANGED <<mode, cryptPc, walked, settings, padCounter, loops, output, recovered,
                     encRet, decRet, mishap>>
  PROVE  CryptTypeOK'
BY DEF CryptTypeOK

LEMMA EnciphersChunk == ASSUME CryptInv, EncChunk PROVE CryptInv'
<1> DEFINE padding == [i \in 1 .. padCounter |-> Byte(0, padCounter)]
<1>a. PICK read : read = Chunk(plain)
  OBVIOUS
<1>b. PICK full : full = IF Len(read) = MaxLen THEN read ELSE read \o padding
  OBVIOUS
<1>c. PICK bytes : bytes = stored.bytes \o Encipher(full, 0)
  OBVIOUS
<1>d. stored' = [stored EXCEPT !.bytes = bytes]
  BY <1>a, <1>b, <1>c DEF EncChunk
<1>1. /\ ~evp /\ mode = "enc" /\ cryptPc = "loop" /\ length > 0
      /\ pos' = pos + Len(read) /\ length' = length - Len(full)
      /\ UNCHANGED <<runVars, mode, cryptPc, walked, settings, padCounter, loops, output,
                     recovered, encRet, decRet, mishap>>
  BY <1>a, <1>b DEF EncChunk
<1>2. /\ CryptTypeOK /\ plain \in Seq(Bytes) /\ Agreed /\ Header
      /\ ChunksRead /\ Ciphered(pos) /\ length = CipherLength - pos /\ pos <= Len(plain)
  BY <1>1 DEF CryptInv, Enciphering
<1>3. given' = given /\ evp' = evp /\ plain' = plain
  BY <1>1 DEF runVars
<1>4. /\ Len(plain) \in Nat /\ pos \in Nat /\ pos <= Len(plain) /\ length \in Nat /\ padCounter \in Nat
      /\ length = Len(plain) + padCounter - pos
  BY <1>2, CryptSizes, LenProperties DEF CryptTypeOK, CipherLength
<1>p. PICK n, here, m : n = Len(plain) /\ here = pos /\ m = Len(plain) + padCounter
  OBVIOUS
<1>5. PICK k \in Nat : pos = k * MaxLen
  BY <1>2 DEF ChunksRead
<1>6. /\ read \in Seq(Bytes)
      /\ Len(read) = IF pos + MaxLen < Len(plain) THEN MaxLen ELSE Len(plain) - pos
      /\ \A i \in 1 .. Len(read) : read[i] = plain[pos + i]
  BY <1>a, <1>2, <1>4, ChunkRead
<1>7. padding \in Seq(Bytes) /\ Len(padding) = padCounter
      /\ \A i \in 1 .. padCounter : padding[i] = Byte(0, padCounter)
  BY <1>4, PaddingBytes
<1> HIDE DEF padding
<1>8. /\ Len(read) \in 0 .. MaxLen /\ MaxLen \in Nat
      /\ Len(read) = MaxLen => here + Len(read) = (k + 1) * MaxLen /\ here + Len(read) <= n
      /\ Len(read) # MaxLen => here + Len(read) = n /\ Len(read) + padCounter <= MaxLen
  <2>1. PICK l : l = Len(read)
    OBVIOUS
  <2>2. n \in Nat /\ here \in Nat /\ here <= n /\ here = k * MaxLen
        /\ l = IF here + MaxLen < n THEN MaxLen ELSE n - here
    BY <1>4, <1>p, <1>5, <1>6, <2>1
  <2>3. /\ l \in 0 .. MaxLen /\ Missing(n) \in Nat
        /\ l = MaxLen => here + l = (k + 1) * MaxLen /\ here + l <= n
        /\ l # MaxLen => here + l = n /\ l + Missing(n) <= MaxLen
    BY <2>2, ChunkSizes
  <2>4. padCounter = Missing(n)
    BY <1>1, <1>2, <1>p DEF Header
  <2> QED BY <2>1, <2>3, <2>4, CryptSizes
<1>9. full \in Seq(Bytes) /\ Len(full) \in 0 .. MaxLen
      /\ Len(full) = IF Len(read) = MaxLen THEN Len(read) ELSE Len(read) + padCounter
  <2>1. CASE Len(read) = MaxLen
    BY <1>6, <1>8, <1>b, <2>1
  <2>2. CASE Len(read) # MaxLen
    <3>1. full = read \o padding
      BY <1>b, <2>2
    <3>2. full \in Seq(Bytes) /\ Len(full) = Len(read) + padCounter
      BY <1>6, <1>7, <3>1, ConcatProperties
    <3> QED BY <1>4, <1>8, <2>2, <3>2
  <2> QED BY <2>1, <2>2
<1>10. \A j \in 1 .. Len(full) : full[j] = TextByte(here + j)
  <2>1. CASE Len(read) = MaxLen
    <3>1. full = read /\ here + Len(read) <= n
      BY <1>b, <1>8, <2>1
    <3> QED BY <1>4, <1>p, <1>6, <3>1, LenProperties DEF TextByte
  <2>2. CASE Len(read) # MaxLen
    <3>1. full = read \o padding /\ here + Len(read) = n
      BY <1>b, <1>8, <2>2
    <3>2. \A i \in 1 .. Len(read) + padCounter :
            full[i] = IF i <= Len(read) THEN read[i] ELSE padding[i - Len(read)]
      BY <1>6, <1>7, <3>1, ConcatProperties
    <3> SUFFICES ASSUME NEW j \in 1 .. Len(full) PROVE full[j] = TextByte(here + j)
      OBVIOUS
    <3>3. j \in 1 .. Len(read) + padCounter
      BY <1>9, <2>2
    <3>4. CASE j <= Len(read)
      <4>1. full[j] = read[j] /\ read[j] = plain[here + j] /\ here + j <= Len(plain)
        <5>1. Len(read) \in Nat /\ here \in Nat /\ j \in 1 .. Len(read)
          BY <1>4, <1>p, <1>8, <3>3, <3>4
        <5>2. full[j] = read[j]
          BY <3>2, <3>3, <3>4
        <5>3. read[j] = plain[here + j]
          BY <1>p, <1>6, <5>1
        <5>4. here + j <= Len(plain)
          BY <1>p, <3>1, <5>1
        <5> QED BY <5>2, <5>3, <5>4
      <4> QED BY <4>1 DEF TextByte
    <3>5. CASE ~(j <= Len(read))
      <4>1. j - Len(read) \in 1 .. padCounter /\ ~(here + j <= Len(plain))
        BY <1>4, <1>p, <1>8, <3>1, <3>3, <3>5
      <4>2. full[j] = Byte(0, padCounter)
        BY <1>7, <3>2, <3>3, <3>5, <4>1
      <4> QED BY <4>1, <4>2 DEF TextByte
    <3> QED BY <3>4, <3>5
  <2> QED BY <2>1, <2>2
<1>11. \A j \in 1 .. Len(full) : 0 + j = Offset(here + j)
  <2> SUFFICES ASSUME NEW j \in 1 .. Len(full) PROVE 0 + j = Offset(here + j)
    OBVIOUS
  <2>1. j \in 1 .. MaxLen
    BY <1>8, <1>9
  <2>2. (((k * MaxLen + j) - 1) % MaxLen) + 1 = j
    BY <2>1, InChunk
  <2> QED BY <1>1, <1>p, <1>5, <2>1, <2>2 DEF Offset
<1>12. Header' /\ stored'.bytes = stored.bytes \o Encipher(full, 0)
  BY <1>1, <1>2, <1>c, <1>d, HeaderStays
<1>13. PICK e : e = here + Len(full)
  OBVIOUS
<1>14. Ciphered(e)'
  <2>1. PICK c : c = Encipher(full, 0)
    OBVIOUS
  <2>2. /\ c \in Seq(CipherBytes) /\ Len(c) = Len(full)
        /\ \A j \in 1 .. Len(full) : c[j] = [byte |-> full[j], off |-> 0 + j]
    BY <1>9, <2>1, EncipherIs
  <2>3. \A j \in 1 .. Len(c) : c[j] = [byte |-> TextByte(pos + j), off |-> Offset(pos + j)]
    BY <1>p, <1>10, <1>11, <2>2
  <2>4. UNCHANGED <<evp, plain, padCounter>>
    BY <1>1, <1>3
  <2>5. e = pos + Len(c) /\ pos \in Nat
    BY <1>p, <1>13, <1>4, <2>2
  <2>6. stored'.bytes = stored.bytes \o c
    BY <1>12, <2>1
  <2>7. Ciphered(pos)
    BY <1>2
  <2> QED BY <2>2, <2>3, <2>4, <2>5, <2>6, <2>7, MoreCiphered
<1>15. Agreed'
  BY <1>1, <1>2, <1>3, SameGiven DEF Agreed
<1>16. CipherLength' = m /\ Len(plain)' = n
  BY <1>1, <1>3, <1>p DEF CipherLength
<1>17. n \in Nat /\ here \in Nat /\ padCounter \in Nat /\ m = n + padCounter /\ length = m - here /\ here <= n
  BY <1>4, <1>p
<1>18. pos' = here + Len(read) /\ length' = m - here - Len(full)
  BY <1>1, <1>p, <1>17
<1>19. CASE Len(read) = MaxLen
  <2>1. pos' = (k + 1) * MaxLen /\ pos' = e /\ pos' \in Nat /\ pos' <= n /\ length' = m - pos' /\ length' \in Nat
    BY <1>8, <1>9, <1>13, <1>17, <1>18, <1>19
  <2>2. ChunksRead'
    <3>1. k + 1 \in Nat
      OBVIOUS
    <3>2. PICK q \in Nat : q = k + 1
      BY <3>1
    <3>3. pos' = q * MaxLen
      BY <2>1, <3>2
    <3> QED BY <3>3 DEF ChunksRead
  <2>3. Ciphered(pos)'
    BY <1>14, <2>1 DEF Ciphered
  <2>4. Enciphering'
    BY <1>1, <1>3, <1>12, <1>15, <1>16, <2>1, <2>2, <2>3 DEF Enciphering
  <2>5. CryptTypeOK'
    BY <1>1, <1>2, <2>1, OnlyTheCounts
  <2> QED BY <1>1, <2>4, <2>5, EnciphersOn
<1>20. CASE Len(read) # MaxLen
  <2>1. pos' = n /\ length' = 0 /\ e = m
    BY <1>8, <1>9, <1>13, <1>17, <1>18, <1>20
  <2>2. Ciphered(CipherLength)'
    BY <1>14, <1>16, <2>1 DEF Ciphered
  <2>3. Enciphering'
    <3>1. (pos = Len(plain) /\ length = 0 /\ pos <= Len(plain))'
      BY <1>16, <1>17, <2>1
    <3>2. ~evp'
      BY <1>1, <1>3
    <3> QED BY <1>12, <1>15, <2>2, <3>1, <3>2 DEF Enciphering
  <2>4. CryptTypeOK'
    <3>1. pos' \in Nat /\ length' \in Nat
      BY <1>17, <2>1
    <3> QED BY <1>1, <1>2, <3>1, OnlyTheCounts
  <2> QED BY <1>1, <2>3, <2>4, EnciphersOn
<1> QED BY <1>19, <1>20

\* The first command is done: the whole text is in the file.
LEMMA EncipheringEnds ==
  ASSUME CryptInv, mode = "enc", cryptPc = "loop", Return(Success),
         Header', Ciphered(CipherLength)', evp => stored'.final,
         UNCHANGED <<runVars, mode, walked, settings, Progress, recovered, mishap>>
  PROVE  CryptInv'
<1>1. /\ given \in Givens /\ evp \in BOOLEAN /\ plain \in Seq(Bytes) /\ InTurn /\ CryptTypeOK
      /\ loops = [curr |-> loops.curr, last |-> loops.last] /\ loops.last \in Nat
  BY DEF CryptInv
<1>2. given' = given /\ evp' = evp /\ plain' = plain
  BY DEF runVars
<1>3. cryptPc' = "next" /\ encRet' = Success /\ decRet' = decRet
  BY DEF Return
<1>4. /\ UNCHANGED <<mode, walked, settings, length, pos, padCounter, loops, output, recovered, mishap>>
  BY DEF Progress
<1>5. CryptTypeOK'
  BY <1>1, <1>3, <1>4 DEF CryptTypeOK
<1>6. InTurn'
  BY <1>1, <1>2, <1>3, <1>4 DEF InTurn, Active
<1>7. Enciphering' /\ Deciphering' /\ RoundTrip' /\ Decrypts'
  BY <1>1, <1>3, <1>4 DEF Enciphering, Deciphering, RoundTrip, Decrypts, InTurn, Active, Running, Success
<1> QED BY <1>1, <1>2, <1>4, <1>5, <1>6, <1>7 DEF CryptInv

LEMMA EnciphersDone == ASSUME CryptInv, EncDone PROVE CryptInv'
<1>1. /\ ~evp /\ mode = "enc" /\ cryptPc = "loop" /\ length <= 0 /\ Return(Success)
      /\ UNCHANGED <<runVars, mode, walked, settings, Progress, stored, recovered, mishap>>
  BY DEF EncDone, Files
<1>2. /\ CryptTypeOK /\ Header /\ pos <= Len(plain) /\ plain \in Seq(Bytes)
      /\ \/ Ciphered(pos) /\ length = CipherLength - pos
         \/ Ciphered(CipherLength)
  BY <1>1 DEF CryptInv, Enciphering
<1>3. Ciphered(CipherLength)
  <2>1. CASE Ciphered(pos) /\ length = CipherLength - pos
    <3>1. pos = CipherLength
      BY <1>1, <1>2, <2>1, LenProperties DEF CryptTypeOK, CipherLength
    <3> QED BY <2>1, <3>1
  <2> QED BY <1>2, <2>1
<1>4. padCounter' = padCounter /\ stored' = stored
  BY <1>1 DEF Progress
<1>5. Header' /\ Ciphered(CipherLength)'
  BY <1>1, <1>2, <1>3, <1>4, FileStays
<1> QED BY <1>1, <1>5, EncipheringEnds

LEMMA DeciphersOn ==
  ASSUME CryptInv, mode = "dec", cryptPc \in {"start", "loop"}, cryptPc' \in {"loop", "pad"},
         UNCHANGED <<runVars, mode, walked, padCounter, stored, encRet, decRet, mishap>>,
         loops' = [curr |-> loops'.curr, last |-> loops'.last], loops'.last \in Nat,
         CryptTypeOK', Deciphering'
  PROVE  CryptInv'
<1>1. /\ given \in Givens /\ evp \in BOOLEAN /\ plain \in Seq(Bytes) /\ InTurn
  BY DEF CryptInv
<1>2. given' = given /\ evp' = evp /\ plain' = plain
  BY DEF runVars
<1>3. InTurn'
  <2>1. Header' /\ Ciphered(CipherLength)'
    BY <1>1, FileStays DEF InTurn
  <2>2. mishap = "none" /\ decRet = Running /\ encRet = Success /\ (evp => stored.final)
    BY <1>1 DEF InTurn, Active
  <2> QED BY <1>2, <2>1, <2>2 DEF InTurn, Active
<1>4. Enciphering' /\ RoundTrip' /\ Decrypts'
  BY <1>1 DEF Enciphering, RoundTrip, Decrypts, InTurn, Active, Running, Success
<1> QED BY <1>1, <1>2, <1>3, <1>4 DEF CryptInv

LEMMA DecipheringEnds ==
  ASSUME CryptInv, mode = "dec", cryptPc' = "over", encRet' = Success,
         UNCHANGED <<runVars, mode, loops, mishap>>,
         Header', Ciphered(CipherLength)', evp => stored'.final,
         CryptTypeOK', RoundTrip', Decrypts'
  PROVE  CryptInv'
<1>1. /\ given \in Givens /\ evp \in BOOLEAN /\ plain \in Seq(Bytes) /\ InTurn
      /\ loops = [curr |-> loops.curr, last |-> loops.last] /\ loops.last \in Nat
  BY DEF CryptInv
<1>2. given' = given /\ evp' = evp /\ plain' = plain
  BY DEF runVars
<1>3. InTurn'
  BY <1>1, <1>2 DEF InTurn, Active
<1>4. Enciphering' /\ Deciphering'
  BY DEF Enciphering, Deciphering
<1> QED BY <1>1, <1>2, <1>3, <1>4 DEF CryptInv

LEMMA DeciphersStart == ASSUME CryptInv, DecStart PROVE CryptInv'
<1>1. /\ ~evp /\ mode = "dec" /\ cryptPc = "start" /\ length' = FileLength
      /\ UNCHANGED <<runVars, mode, walked, pos, padCounter, output, stored, recovered, mishap>>
  BY DEF DecStart, Files
<1>2. /\ CryptTypeOK /\ plain \in Seq(Bytes) /\ Agreed /\ settings.key = T7.key /\ pos = 0 /\ recovered = << >>
      /\ Header /\ Ciphered(CipherLength) /\ encRet = Success /\ decRet = Running
      /\ loops = [curr |-> loops.curr, last |-> loops.last] /\ loops.last \in Nat
  BY <1>1 DEF CryptInv, InTurn, Active
<1>3. given' = given /\ evp' = evp /\ plain' = plain
  BY <1>1 DEF runVars
<1>4. PICK c : c = CipherLength
  OBVIOUS
<1>5. c \in Nat /\ Len(stored.bytes) = c /\ SaltAndIv \in Nat /\ Len(plain) \in Nat /\ Len(plain) <= c
  <2>1. Len(plain) \in Nat /\ padCounter \in Nat /\ SaltAndIv \in Nat
    BY <1>2, CryptSizes, LenProperties DEF CryptTypeOK
  <2>2. Len(stored.bytes) = CipherLength
    BY <1>2 DEF Ciphered
  <2> QED BY <1>4, <2>1, <2>2 DEF CipherLength
<1>6. FileLength = SaltAndIv + c
  BY <1>5 DEF FileLength
<1>7. CASE FileLength <= SaltAndIv
  <2>1. Return(FatalError) /\ UNCHANGED <<loops, settings>>
    BY <1>7 DEF DecStart
  <2>2. cryptPc' = "over" /\ encRet' = encRet /\ decRet' = FatalError
    BY <1>1, <2>1 DEF Return
  <2>3. plain = << >>
    BY <1>2, <1>5, <1>6, <1>7, EmptySeq
  <2>4. Decrypts'
    BY <1>1, <1>3, <2>3 DEF Decrypts
  <2>5. length' \in Nat
    BY <1>1, <1>5, <1>6
  <2>6. CryptTypeOK'
    BY <1>1, <1>2, <2>1, <2>2, <2>5 DEF CryptTypeOK
  <2>7. Active
    BY <1>1 DEF Active
  <2> QED BY <1>1, <1>2, <2>1, <2>2, <2>4, <2>6, <2>7, CryptStops
<1>8. CASE ~(FileLength <= SaltAndIv)
  <2>1. /\ loops' = [curr |-> 1, last |-> Chunks]
        /\ settings' = [settings EXCEPT !.key = IF settings.keyType = "PASSWORD"
                                                THEN Derived(stored.salt) ELSE settings.key]
        /\ cryptPc' = "loop" /\ UNCHANGED <<encRet, decRet>>
    BY <1>8 DEF DecStart, Go
  <2>2. c \in Nat \ {0}
    BY <1>5, <1>6, <1>8
  <2>3. FileLength - SaltAndIv = c
    BY <1>5, <1>6
  <2>4. Chunks = (c + MaxLen - 1) \div MaxLen
    BY <2>3 DEF Chunks
  <2>5. Chunks \in Nat \ {0}
    BY <2>2, <2>4, ChunkCount
  <2>6. settings' = [keyType |-> T7.keyType, keyCheck |-> T7.keyCheck, ivCheck |-> T7.ivCheck,
                     pwdKeyChk |-> T7.pwdKeyChk, pwdKey |-> UsedPassword, noSalt |-> T7.noSalt,
                     key |-> settings'.key]
    BY <1>2, <2>1 DEF Agreed
  <2>7. settings.keyType = T7.keyType /\ settings.pwdKey = UsedPassword
    BY <1>2 DEF Agreed
  <2>8. settings'.key = IF T7.keyType = "PASSWORD" THEN Key(UsedPassword, stored.salt) ELSE T7.key
    BY <1>2, <2>1, <2>7 DEF Derived, Agreed
  <2>9. Agreed'
    BY <1>1, <1>2, <1>3, <2>6, SameGiven DEF Agreed
  <2>10. DecipherKey'
    BY <1>1, <1>3, <2>8, <2>9, SameGiven DEF DecipherKey
  <2>11. loops'.curr = 1 /\ loops'.last = Chunks /\ Len(recovered') = 0
    BY <1>1, <1>2, <2>1
  <2>12. (loops'.curr - 1) * MaxLen = 0
    BY <2>11, CryptSizes
  <2>13. Back(recovered, 0)'
    BY <2>11 DEF Back
  <2>14. CipherLength' = c /\ Chunks' = Chunks
    BY <1>1, <1>3, <1>4 DEF CipherLength, Chunks, FileLength
  <2>15. Deciphering'
    <3>1. loops'.last = Chunks' /\ loops'.curr \in 1 .. loops'.last
      BY <2>5, <2>11, <2>14
    <3>2. length' = SaltAndIv + CipherLength' - 0 /\ 0 < CipherLength'
      BY <1>1, <1>5, <1>6, <2>2, <2>14
    <3> QED BY <1>1, <1>2, <1>3, <2>1, <2>10, <2>11, <2>12, <2>13, <3>1, <3>2 DEF Deciphering
  <2>16. length' \in Nat
    BY <1>1, <1>5, <1>6
  <2>17. loops'.curr \in 1 .. loops'.last + 1 /\ settings'.keyType = T7.keyType
    BY <2>5, <2>6, <2>11
  <2>18. CryptTypeOK'
    BY <1>1, <1>2, <2>1, <2>16, <2>17, SettingsRead DEF CryptTypeOK, Shaped
  <2>19. loops' = [curr |-> loops'.curr, last |-> loops'.last] /\ loops'.last \in Nat
    BY <2>1, <2>5
  <2> QED BY <1>1, <2>1, <2>15, <2>18, <2>19, DeciphersOn
<1> QED BY <1>7, <1>8

\* What a chunk of the file is deciphered to, at the place it was enciphered at.
LEMMA DecipheredChunk ==
  ASSUME NEW n \in Nat, Ciphered(n), pos \in 0 .. n, NEW raw, raw = Chunk(stored.bytes),
         NEW at \in Int, \A i \in 1 .. MaxLen : at + i = Offset(pos + i),
         NEW chunk, chunk = Decipher(raw, at)
  PROVE  /\ chunk \in Seq(Bytes) /\ Back(chunk, pos)
         /\ Len(chunk) = IF pos + MaxLen < n THEN MaxLen ELSE n - pos
         /\ chunk = << >> <=> pos = n
<1>1. /\ stored.bytes \in Seq(CipherBytes) /\ Len(stored.bytes) = n
      /\ \A i \in 1 .. n : stored.bytes[i] = [byte |-> TextByte(i), off |-> Offset(i)]
  BY DEF Ciphered
<1>2. /\ raw \in Seq(CipherBytes)
      /\ Len(raw) = IF pos + MaxLen < n THEN MaxLen ELSE n - pos
      /\ \A i \in 1 .. Len(raw) : raw[i] = stored.bytes[pos + i]
  BY <1>1, ChunkRead
<1>3. /\ chunk \in Seq(Bytes) /\ Len(chunk) = Len(raw)
      /\ \A i \in 1 .. Len(raw) : raw[i].off = at + i /\ settings.key = stored.key => chunk[i] = raw[i].byte
  BY <1>2, DecipherIs
<1>4. MaxLen \in Nat \ {0}
  BY CryptSizes
<1>5. Len(raw) \in 0 .. MaxLen /\ pos + Len(raw) <= n /\ (Len(raw) = 0 <=> pos = n)
  <2>1. CASE pos + MaxLen < n
    BY <1>2, <1>4, <2>1
  <2>2. CASE ~(pos + MaxLen < n)
    BY <1>2, <1>4, <2>2
  <2> QED BY <2>1, <2>2
<1>6. Back(chunk, pos)
  <2> SUFFICES ASSUME settings.key = stored.key, NEW i \in 1 .. Len(chunk)
               PROVE  chunk[i] = TextByte(pos + i)
    BY DEF Back
  <2>1. i \in 1 .. MaxLen /\ pos + i \in 1 .. n /\ i \in 1 .. Len(raw)
    BY <1>3, <1>4, <1>5
  <2>2. raw[i] = [byte |-> TextByte(pos + i), off |-> Offset(pos + i)]
    BY <1>1, <1>2, <2>1
  <2>3. raw[i].off = at + i /\ raw[i].byte = TextByte(pos + i)
    BY <2>1, <2>2
  <2> QED BY <1>3, <2>1, <2>3
<1>7. chunk = << >> <=> Len(chunk) = 0
  BY <1>3, EmptySeq
<1> QED BY <1>2, <1>3, <1>5, <1>6, <1>7

\* A deciphered text goes on.
LEMMA BackJoined ==
  ASSUME NEW s \in Seq(Bytes), NEW t \in Seq(Bytes), NEW u, u = s \o t, NEW n, n = Len(s),
         Back(s, 0), Back(t, n)
  PROVE  u \in Seq(Bytes) /\ Len(u) = n + Len(t) /\ Back(u, 0)
<1>1. /\ u \in Seq(Bytes) /\ Len(u) = n + Len(t) /\ n \in Nat /\ Len(t) \in Nat
      /\ \A i \in 1 .. Len(u) : u[i] = IF i <= n THEN s[i] ELSE t[i - n]
  BY Joined, LenProperties
<1>2. ASSUME settings.key = stored.key, NEW i \in 1 .. Len(u) PROVE u[i] = TextByte(0 + i)
  <2>1. CASE i <= n
    BY <1>1, <1>2, <2>1 DEF Back
  <2>2. CASE ~(i <= n)
    <3>1. i - n \in 1 .. Len(t) /\ n + (i - n) = 0 + i
      BY <1>1, <2>2
    <3>2. t[i - n] = TextByte(n + (i - n))
      BY <1>2, <3>1 DEF Back
    <3> QED BY <1>1, <2>2, <3>1, <3>2
  <2> QED BY <2>1, <2>2
<1> QED BY <1>1, <1>2 DEF Back

LEMMA BackStays ==
  ASSUME UNCHANGED <<plain, padCounter>>, settings'.key = settings.key, stored'.key = stored.key,
         NEW s, NEW n, Back(s, n)
  PROVE  Back(s, n)'
  BY DEF Back, TextByte

LEMMA DeciphersChunk == ASSUME CryptInv, DecChunk PROVE CryptInv'
<1>1. PICK chunk : chunk = Decipher(Chunk(stored.bytes), 0)
  OBVIOUS
<1>2. /\ ~evp /\ mode = "dec" /\ cryptPc = "loop" /\ pos' = pos + Len(chunk)
      /\ UNCHANGED <<runVars, mode, walked, settings, padCounter, stored, mishap>>
  BY <1>1 DEF DecChunk
<1>3. chunk # << >> =>
        /\ output' = chunk
        /\ loops.curr = loops.last => Go("pad") /\ UNCHANGED <<length, recovered, loops>>
        /\ loops.curr # loops.last =>
             /\ recovered' = recovered \o chunk
             /\ loops' = [loops EXCEPT !.curr = loops.curr + 1]
             /\ length' = length - Len(chunk)
             /\ Go("loop")
  BY <1>1 DEF DecChunk
<1>4. given' = given /\ evp' = evp /\ plain' = plain
  BY <1>2 DEF runVars
<1>5. PICK c, here, k, l : c = CipherLength /\ here = pos /\ k = loops.curr - 1 /\ l = loops.last
  OBVIOUS
<1>6. /\ CryptTypeOK /\ Ciphered(c) /\ DecipherKey /\ Back(recovered, 0)
      /\ loops = [curr |-> loops.curr, last |-> loops.last] /\ loops.last \in Nat
  BY <1>2, <1>5 DEF CryptInv, InTurn, Deciphering
<1>7. /\ l = Chunks /\ loops.curr \in 1 .. l /\ Len(recovered) = k * MaxLen /\ k * MaxLen < c
      /\ length = SaltAndIv + c - k * MaxLen /\ here = k * MaxLen
  BY <1>2, <1>5 DEF CryptInv, Deciphering
<1>8. k \in Nat /\ l \in Nat /\ k + 1 <= l /\ here \in Nat /\ loops.curr = k + 1
  BY <1>5, <1>6, <1>7 DEF CryptTypeOK
<1>9. c \in Nat \ {0} /\ Len(stored.bytes) = c /\ SaltAndIv \in Nat /\ MaxLen \in Nat \ {0}
  <2>1. Len(stored.bytes) = c /\ Len(stored.bytes) \in Nat
    BY <1>6, LenProperties DEF Ciphered
  <2>2. k * MaxLen \in Nat
    BY <1>8, CryptSizes
  <2> QED BY <1>7, <2>1, <2>2, CryptSizes
<1>s. here < c /\ length = SaltAndIv + c - here
  BY <1>7
<1>10. l = (c + MaxLen - 1) \div MaxLen
  <2>1. FileLength - SaltAndIv = c
    BY <1>9 DEF FileLength
  <2> QED BY <1>7, <2>1 DEF Chunks
<1>11. (l - 1) * MaxLen < c /\ c <= l * MaxLen
  BY <1>9, <1>10, ChunkCount
<1>12. \A i \in 1 .. MaxLen : 0 + i = Offset(pos + i)
  <2> SUFFICES ASSUME NEW i \in 1 .. MaxLen PROVE 0 + i = Offset(pos + i)
    OBVIOUS
  <2>1. (((k * MaxLen + i) - 1) % MaxLen) + 1 = i
    BY <1>8, InChunk
  <2> QED BY <1>2, <1>5, <1>7, <2>1 DEF Offset
<1>13. /\ chunk \in Seq(Bytes) /\ Back(chunk, here)
       /\ Len(chunk) = IF here + MaxLen < c THEN MaxLen ELSE c - here
       /\ chunk # << >>
  <2>1. PICK raw : raw = Chunk(stored.bytes)
    OBVIOUS
  <2>2. c \in Nat /\ pos \in 0 .. c /\ pos = here /\ pos # c
    BY <1>5, <1>s, <1>8, <1>9
  <2>3. chunk = Decipher(raw, 0)
    BY <1>1, <2>1
  <2>4. Ciphered(c)
    BY <1>6
  <2>5. /\ chunk \in Seq(Bytes) /\ Back(chunk, pos)
        /\ Len(chunk) = IF pos + MaxLen < c THEN MaxLen ELSE c - pos
        /\ chunk = << >> <=> pos = c
    BY <1>12, <2>1, <2>2, <2>3, <2>4, DecipheredChunk
  <2> QED BY <2>2, <2>5
<1>14. DecipherKey' /\ Back(chunk, here)' /\ CipherLength' = c /\ Chunks' = Chunks /\ FileLength' = FileLength
  <2>1. settings' = settings /\ stored' = stored /\ padCounter' = padCounter /\ mode' = mode
    BY <1>2
  <2>2. DecipherKey'
    BY <1>4, <1>6, <2>1, SameGiven DEF DecipherKey, Agreed
  <2>3. Back(chunk, here)'
    BY <1>4, <1>13, <2>1, BackStays
  <2> QED BY <1>4, <1>5, <2>1, <2>2, <2>3 DEF CipherLength, Chunks, FileLength
<1>15. CASE loops.curr = loops.last
  <2>1. /\ output' = chunk /\ cryptPc' = "pad"
        /\ UNCHANGED <<encRet, decRet, length, recovered, loops>>
    BY <1>3, <1>13, <1>15 DEF Go
  <2>2. Len(chunk) = c - here
    <3>1. c <= here + MaxLen
      <4>1. l = k + 1
        BY <1>5, <1>8, <1>15
      <4>2. l * MaxLen = k * MaxLen + MaxLen
        BY <1>8, <1>9, <4>1
      <4> QED BY <1>7, <1>11, <4>2
    <3> QED BY <1>8, <1>9, <1>13, <3>1
  <2>3. Back(recovered, 0)'
    <3>1. PICK r : r = recovered
      OBVIOUS
    <3>2. Back(r, 0)'
      BY <1>2, <1>4, <1>6, <3>1, BackStays
    <3> QED BY <2>1, <3>1, <3>2 DEF Back
  <2>4. Back(output, (loops.curr - 1) * MaxLen)'
    <3>1. output' = chunk /\ (loops'.curr - 1) * MaxLen = here
      BY <1>5, <1>7, <2>1
    <3> QED BY <1>14, <3>1 DEF Back
  <2>5. (loops'.curr - 1) * MaxLen = here /\ loops'.last = Chunks' /\ loops'.curr \in 1 .. loops'.last
    BY <1>5, <1>7, <1>14, <2>1
  <2>6. Deciphering'
    <3>1. Len(recovered') = here /\ here < c /\ length' = SaltAndIv + c - here /\ Len(output') = c - here
      BY <1>7, <2>1, <2>2
    <3> QED BY <1>2, <1>4, <1>14, <2>1, <2>3, <2>4, <2>5, <3>1 DEF Deciphering
  <2>7. pos' \in Nat /\ output' \in Seq(Bytes)
    BY <1>2, <1>5, <1>8, <1>13, <2>1, LenProperties
  <2>8. CryptTypeOK'
    BY <1>2, <1>6, <2>1, <2>7 DEF CryptTypeOK
  <2> QED BY <1>2, <1>6, <2>1, <2>6, <2>8, DeciphersOn
<1>16. CASE loops.curr # loops.last
  <2>1. /\ output' = chunk /\ cryptPc' = "loop" /\ UNCHANGED <<encRet, decRet>>
        /\ loops' = [loops EXCEPT !.curr = loops.curr + 1]
        /\ length' = length - Len(chunk)
    BY <1>3, <1>13, <1>16 DEF Go
  <2>2. recovered' = recovered \o chunk
    BY <1>3, <1>13, <1>16
  <2>3. loops' = [curr |-> k + 2, last |-> l]
    BY <1>5, <1>6, <1>8, <2>1
  <2>4. k + 2 <= l
    BY <1>5, <1>8, <1>16
  <2>5. PICK q : q = (k + 1) * MaxLen
    OBVIOUS
  <2>6. q = here + MaxLen /\ q < c
    <3>1. q = here + MaxLen
      BY <1>7, <1>8, <1>9, <2>5
    <3>2. PICK d \in Nat : l - 1 = (k + 1) + d
      <4>1. l - 1 - (k + 1) \in Nat /\ l - 1 = (k + 1) + (l - 1 - (k + 1))
        BY <1>8, <2>4
      <4> QED BY <4>1
    <3>3. (l - 1) * MaxLen = q + d * MaxLen /\ d * MaxLen \in Nat /\ q \in Nat
      BY <1>8, <1>9, <2>5, <3>2
    <3>4. PICK e, f : e = (l - 1) * MaxLen /\ f = d * MaxLen
      OBVIOUS
    <3>5. e = q + f /\ f \in Nat /\ q \in Nat /\ e < c
      BY <1>11, <3>3, <3>4
    <3> QED BY <1>9, <3>1, <3>5
  <2>7. Len(chunk) = MaxLen
    BY <1>13, <2>6
  <2>8. recovered' \in Seq(Bytes) /\ Len(recovered') = q /\ Back(recovered, 0)'
    <3>1. PICK r, u : r = recovered /\ u = recovered'
      OBVIOUS
    <3>2. r \in Seq(Bytes) /\ Len(r) = here /\ Back(r, 0) /\ u = r \o chunk
      BY <1>6, <1>7, <2>2, <3>1 DEF CryptTypeOK
    <3>a. here = Len(r) /\ chunk \in Seq(Bytes) /\ Back(chunk, here)
      BY <1>13, <3>2
    <3>b. PICK x : x = Len(r)
      OBVIOUS
    <3>c. Back(chunk, x) /\ x = here
      BY <3>a, <3>b
    <3>3. u \in Seq(Bytes) /\ Len(u) = here + Len(chunk) /\ Back(u, 0)
      BY <3>2, <3>a, <3>c, BackJoined
    <3>4. Back(u, 0)'
      BY <1>2, <1>4, <3>3, BackStays
    <3>5. Back(recovered, 0)'
      BY <3>1, <3>4 DEF Back
    <3> QED BY <2>6, <2>7, <3>1, <3>3, <3>5
  <2>9. /\ loops'.curr = k + 2 /\ loops'.last = Chunks' /\ loops'.curr \in 1 .. loops'.last /\ l = loops'.last
        /\ (loops'.curr - 1) * MaxLen = q
    <3>1. (k + 2) - 1 = k + 1
      BY <1>8
    <3> QED BY <1>7, <1>8, <1>14, <2>3, <2>4, <2>5, <3>1
  <2>10. pos' = q /\ length' = SaltAndIv + c - q /\ pos' \in Nat /\ length' \in Nat
    BY <1>2, <1>5, <1>s, <1>8, <1>9, <2>1, <2>6, <2>7
  <2>11. Deciphering'
    BY <1>2, <1>4, <1>14, <2>1, <2>6, <2>8, <2>9, <2>10 DEF Deciphering
  <2>12. CryptTypeOK'
    BY <1>2, <1>6, <1>8, <1>13, <2>1, <2>8, <2>9, <2>10 DEF CryptTypeOK
  <2>13. loops' = [curr |-> loops'.curr, last |-> loops'.last] /\ loops'.last \in Nat
    BY <1>8, <2>3
  <2> QED BY <1>2, <2>1, <2>11, <2>12, <2>13, DeciphersOn
<1> QED BY <1>15, <1>16

\* A text of the padded length is the text and its padding, one of the text's length is the text.
LEMMA TextIsBack ==
  ASSUME plain \in Seq(Bytes), padCounter \in Nat, NEW u \in Seq(Bytes), settings.key = stored.key, Back(u, 0),
         NEW padding, padding = [i \in 1 .. padCounter |-> Byte(0, padCounter)]
  PROVE  /\ Len(u) = Len(plain) => u = plain \o << >>
         /\ Len(u) = Len(plain) + padCounter => u = plain \o padding
<1>1. Len(plain) \in Nat /\ \A i \in 1 .. Len(u) : u[i] = TextByte(i)
  BY LenProperties DEF Back
<1>2. ASSUME Len(u) = Len(plain) PROVE u = plain \o << >>
  <2>1. \A i \in 1 .. Len(u) : u[i] = plain[i]
    BY <1>1, <1>2 DEF TextByte
  <2>2. u = plain
    BY <1>2, <2>1, SeqEqual
  <2> QED BY <2>2, ConcatEmptySeq
<1>3. ASSUME Len(u) = Len(plain) + padCounter PROVE u = plain \o padding
  <2>1. padding \in Seq(Bytes) /\ Len(padding) = padCounter
        /\ \A i \in 1 .. padCounter : padding[i] = Byte(0, padCounter)
    BY PaddingBytes
  <2>2. PICK w : w = plain \o padding
    OBVIOUS
  <2>3. /\ w \in Seq(Bytes) /\ Len(w) = Len(plain) + padCounter
        /\ \A i \in 1 .. Len(w) : w[i] = IF i <= Len(plain) THEN plain[i] ELSE padding[i - Len(plain)]
    BY <2>1, <2>2, Joined
  <2>4. \A i \in 1 .. Len(u) : u[i] = w[i]
    <3> SUFFICES ASSUME NEW i \in 1 .. Len(u) PROVE u[i] = w[i]
      OBVIOUS
    <3>1. CASE i <= Len(plain)
      BY <1>1, <1>3, <2>3, <3>1 DEF TextByte
    <3>2. CASE ~(i <= Len(plain))
      <4>1. i - Len(plain) \in 1 .. padCounter
        BY <1>1, <1>3, <3>2
      <4> QED BY <1>1, <1>3, <2>1, <2>3, <3>2, <4>1 DEF TextByte
    <3> QED BY <3>1, <3>2
  <2>5. u = w
    BY <1>3, <2>3, <2>4, SeqEqual
  <2> QED BY <2>2, <2>5
<1> QED BY <1>2, <1>3

\* The two commands agree on the key, and the salt tells of the padding, without an explicit key.
LEMMA KeysAgree ==
  ASSUME CryptInv, ~evp, mode = "dec", cryptPc \in {"loop", "pad"}
  PROVE  /\ ~Explicit => settings.key = stored.key
         /\ Explicit /\ given \cap {"-k", "-pass"} = {} => settings.key = stored.key
         /\ Explicit => stored.salt = "zeros"
         /\ ~Explicit => stored.salt = IF padCounter = 0 THEN "unmarked" ELSE "marked"
<1>1. DecipherKey /\ Header
  BY DEF CryptInv, InTurn, Deciphering
<1>2. /\ settings.key = IF T7.keyType = "PASSWORD" THEN Key(UsedPassword, stored.salt) ELSE T7.key
      /\ T7.ivCheck = T7.keyCheck /\ (T7.keyCheck \/ T7.pwdKeyChk)
      /\ stored.salt = IF T7.ivCheck THEN "zeros" ELSE IF padCounter = 0 THEN "unmarked" ELSE "marked"
      /\ stored.key = IF T7.ivCheck THEN T7.key ELSE Key(UsedPassword, stored.salt)
  BY <1>1 DEF DecipherKey, Agreed, Header
<1>3. ASSUME Explicit
      PROVE  stored.salt = "zeros" /\ stored.key = T7.key
             /\ (given \cap {"-k", "-pass"} = {} => settings.key = T7.key)
  <2>1. T7.keyCheck = TRUE
    BY <1>3, SettingsRead
  <2>2. given \cap {"-k", "-pass"} = {} => T7.keyType = "USER"
    BY <1>3, SettingsRead
  <2> QED BY <1>2, <2>1, <2>2
<1>4. ASSUME ~Explicit
      PROVE  settings.key = stored.key /\ stored.salt = IF padCounter = 0 THEN "unmarked" ELSE "marked"
  <2>1. T7.keyCheck = FALSE
    BY <1>4, SettingsRead
  <2>2. PasswordGiven
    BY <1>2, <2>1, SettingsRead
  <2>3. T7.keyType = "PASSWORD"
    BY <1>4, <2>2, SettingsRead
  <2> QED BY <1>2, <2>1, <2>3
<1> QED BY <1>3, <1>4

LEMMA PaddingTakenOff == ASSUME CryptInv, DecPad PROVE CryptInv'
<1>1. PICK pad, rest : pad = output[Len(output)].val /\ rest = length - (pad + SaltAndIv)
  OBVIOUS
<1>2. /\ ~evp /\ cryptPc = "pad"
      /\ UNCHANGED <<runVars, mode, walked, settings, length, pos, padCounter, loops, output, stored, mishap>>
  BY DEF DecPad, Progress
<1>3. /\ stored.salt # "marked" => recovered' = recovered \o output /\ Return(Success)
      /\ stored.salt = "marked" /\ ~(rest < 0) =>
           recovered' = recovered \o SubSeq(output, 1, rest) /\ Return(Success)
  BY <1>1 DEF DecPad
<1>4. given' = given /\ evp' = evp /\ plain' = plain
  BY <1>2 DEF runVars
<1>5. mode = "dec" /\ CryptTypeOK /\ Header /\ Ciphered(CipherLength) /\ encRet = Success /\ mishap = "none"
  BY <1>2 DEF CryptInv, CryptTypeOK, InTurn, Active
<1>6. plain \in Seq(Bytes) /\ Back(recovered, 0) /\ recovered \in Seq(Bytes) /\ output \in Seq(Bytes)
      /\ padCounter \in Nat /\ Len(plain) \in Nat /\ SaltAndIv \in Nat
  BY <1>2, <1>5, CryptSizes, LenProperties DEF CryptInv, Deciphering, CryptTypeOK
<1>7. PICK c, k, b, n : c = CipherLength /\ k = loops.curr - 1 /\ b = k * MaxLen /\ n = Len(plain)
  OBVIOUS
<1>8. /\ Len(recovered) = b /\ b < c /\ length = SaltAndIv + c - b /\ Len(output) = c - b
      /\ Back(output, b) /\ loops.curr \in 1 .. loops.last /\ loops.last \in Nat
  BY <1>2, <1>5, <1>7 DEF CryptInv, Deciphering
<1>9. k \in Nat /\ c = n + padCounter /\ n \in Nat /\ c \in Nat /\ b \in Nat /\ Len(output) \in Nat \ {0}
  <2>1. k \in Nat
    BY <1>7, <1>8
  <2>2. b \in Nat
    BY <1>7, <2>1, CryptSizes
  <2>3. c = n + padCounter /\ n \in Nat /\ c \in Nat
    BY <1>6, <1>7 DEF CipherLength
  <2> QED BY <1>8, <2>1, <2>2, <2>3
<1>10. PICK r, u, o : r = recovered /\ u = recovered' /\ o = output
  OBVIOUS
<1>11. r \in Seq(Bytes) /\ o \in Seq(Bytes) /\ Len(r) = b /\ Len(o) = c - b /\ Back(r, 0) /\ Back(o, b)
  BY <1>6, <1>8, <1>10
<1>12. CASE stored.salt # "marked"
  <2>1. u = r \o o /\ Return(Success)
    BY <1>3, <1>10, <1>12
  <2>2. u \in Seq(Bytes) /\ Len(u) = b + Len(o) /\ Back(u, 0)
    <3>1. PICK x : x = Len(r)
      OBVIOUS
    <3>2. r \in Seq(Bytes) /\ o \in Seq(Bytes) /\ Back(r, 0) /\ Back(o, x) /\ u = r \o o
      BY <1>11, <2>1, <3>1
    <3>3. u \in Seq(Bytes) /\ Len(u) = x + Len(o) /\ Back(u, 0)
      BY <3>1, <3>2, BackJoined
    <3> QED BY <1>11, <3>1, <3>3
  <2>3. Len(u) = c
    BY <1>9, <1>11, <2>2
  <2>4. ~Explicit => padCounter = 0
    BY <1>2, <1>5, <1>12, KeysAgree
  <2> QED
    <3>1. cryptPc' = "over" /\ encRet' = encRet /\ decRet' = Success
      BY <1>5, <2>1 DEF Return
    <3>2. Decrypts'
      BY <3>1 DEF Decrypts
    <3>3. CryptTypeOK'
      BY <1>2, <1>5, <1>10, <2>2, <3>1 DEF CryptTypeOK
    <3>4. PICK padding : padding = [i \in 1 .. padCounter |-> Byte(0, padCounter)]
      OBVIOUS
    <3>5. ASSUME ~Explicit \/ given \cap {"-k", "-pass"} = {}
          PROVE  recovered' = plain \o IF Explicit THEN padding ELSE << >>
      <4>1. settings.key = stored.key
        BY <1>2, <1>5, <3>5, KeysAgree
      <4>2. /\ Len(u) = Len(plain) => u = plain \o << >>
            /\ Len(u) = Len(plain) + padCounter => u = plain \o padding
        BY <1>6, <2>2, <3>4, <4>1, TextIsBack
      <4>3. CASE Explicit
        <5>1. Len(u) = Len(plain) + padCounter
          BY <1>7, <1>9, <2>3
        <5> QED BY <1>10, <4>2, <4>3, <5>1
      <4>4. CASE ~Explicit
        <5>1. Len(u) = Len(plain)
          BY <1>7, <1>9, <2>3, <2>4, <4>4
        <5> QED BY <1>10, <4>2, <4>4, <5>1
      <4> QED BY <4>3, <4>4
    <3>6. RoundTrip'
      <4>1. given' \cap KeyOptions # {} <=> Explicit
        BY <1>4 DEF Explicit
      <4>2. padding = [i \in 1 .. padCounter' |-> Byte(0, padCounter')]
        BY <1>2, <3>4
      <4> QED BY <1>2, <1>4, <3>5, <4>1, <4>2 DEF RoundTrip
    <3>7. Header' /\ Ciphered(CipherLength)'
      BY <1>2, <1>5, FileStays
    <3>8. loops' = loops /\ ~evp
      BY <1>2
    <3> QED BY <1>2, <1>5, <3>1, <3>2, <3>3, <3>6, <3>7, <3>8, DecipheringEnds
<1>13. CASE stored.salt = "marked"
  <2>1. ~Explicit /\ padCounter # 0 /\ settings.key = stored.key
    BY <1>2, <1>5, <1>13, KeysAgree
  <2>2. pad = padCounter
    <3>1. o[Len(o)] = TextByte(b + Len(o))
      BY <1>8, <1>9, <1>10, <1>11, <2>1 DEF Back
    <3>2. b + Len(o) = c /\ ~(c <= Len(plain))
      BY <1>6, <1>7, <1>9, <1>11, <2>1
    <3>3. o[Len(o)] = Byte(0, padCounter)
      BY <3>1, <3>2 DEF TextByte
    <3> QED BY <1>1, <1>10, <3>3 DEF Byte
  <2>3. b <= n
    <3>1. padCounter = Missing(n)
      BY <1>2, <1>5, <1>7 DEF Header
    <3>2. k * MaxLen < n + Missing(n)
      BY <1>7, <1>8, <1>9, <3>1
    <3> QED BY <1>7, <1>9, <3>2, LastHasPadding
  <2>4. rest = n - b /\ rest \in 0 .. Len(o) /\ rest \in Nat
    <3>1. length = SaltAndIv + c - b /\ rest = length - (padCounter + SaltAndIv)
      BY <1>1, <1>8, <2>2
    <3>2. rest = n - b
      BY <1>6, <1>9, <3>1
    <3> QED BY <1>6, <1>9, <1>11, <2>3, <3>2
  <2>5. PICK t : t = SubSeq(o, 1, rest)
    OBVIOUS
  <2>6. recovered' = recovered \o SubSeq(output, 1, rest) /\ Return(Success)
    BY <1>3, <1>13, <2>4
  <2>7. u = r \o t
    BY <1>10, <2>5, <2>6
  <2>8. t \in Seq(Bytes) /\ Len(t) = rest /\ Back(t, b)
    <3>1. \A i \in 1 .. rest : o[i] \in Bytes
      BY <1>11, <2>4, ElementOfSeq
    <3>2. /\ t \in Seq(Bytes) /\ Len(t) = (IF 1 <= rest THEN rest - 1 + 1 ELSE 0)
          /\ \A i \in 1 .. rest - 1 + 1 : t[i] = o[1 + i - 1]
      BY <2>4, <2>5, <3>1, SubSeqProperties
    <3>3. Len(t) = rest
      BY <2>4, <3>2
    <3>4. \A i \in 1 .. rest : t[i] = o[i]
      <4> SUFFICES ASSUME NEW i \in 1 .. rest PROVE t[i] = o[i]
        OBVIOUS
      <4>1. 1 + i - 1 = i /\ i \in 1 .. rest - 1 + 1
        BY <2>4
      <4> QED BY <3>2, <4>1
    <3>5. Back(t, b)
      BY <1>11, <2>4, <3>3, <3>4 DEF Back
    <3> QED BY <3>2, <3>3, <3>5
  <2>9. u \in Seq(Bytes) /\ Len(u) = b + Len(t) /\ Back(u, 0)
    <3>1. PICK x : x = Len(r)
      OBVIOUS
    <3>2. r \in Seq(Bytes) /\ t \in Seq(Bytes) /\ Back(r, 0) /\ Back(t, x) /\ u = r \o t
      BY <1>11, <2>7, <2>8, <3>1
    <3>3. u \in Seq(Bytes) /\ Len(u) = x + Len(t) /\ Back(u, 0)
      BY <3>1, <3>2, BackJoined
    <3> QED BY <1>11, <3>1, <3>3
  <2>10. Len(u) = Len(plain)
    BY <1>7, <1>9, <2>4, <2>8, <2>9
  <2>11. u = plain \o << >>
    <3>1. PICK padding : padding = [i \in 1 .. padCounter |-> Byte(0, padCounter)]
      OBVIOUS
    <3>2. Len(u) = Len(plain) => u = plain \o << >>
      BY <1>6, <2>1, <2>9, <3>1, TextIsBack
    <3> QED BY <2>10, <3>2
  <2>12. cryptPc' = "over" /\ encRet' = encRet /\ decRet' = Success
    BY <1>5, <2>6 DEF Return
  <2>13. Decrypts'
    BY <2>12 DEF Decrypts
  <2>14. CryptTypeOK'
    BY <1>2, <1>5, <1>10, <2>9, <2>12 DEF CryptTypeOK
  <2>15. RoundTrip'
    <3>1. given' \cap KeyOptions = {}
      BY <1>4, <2>1 DEF Explicit
    <3>2. recovered' = plain' \o << >>
      BY <1>4, <1>10, <2>11
    <3> QED BY <3>1, <3>2 DEF RoundTrip
  <2>16. Header' /\ Ciphered(CipherLength)'
    BY <1>2, <1>5, FileStays
  <2>17. loops' = loops /\ ~evp
    BY <1>2
  <2> QED BY <1>2, <1>5, <2>12, <2>13, <2>14, <2>15, <2>16, <2>17, DecipheringEnds
<1> QED BY <1>12, <1>13

LEMMA EvpStarts == ASSUME CryptInv, EvpStart PROVE CryptInv'
<1>1. /\ evp /\ cryptPc = "start"
      /\ UNCHANGED <<runVars, mode, walked, length, pos, padCounter, loops, output, recovered, mishap>>
  BY DEF EvpStart, Progress
<1>2. /\ CryptTypeOK /\ plain \in Seq(Bytes) /\ Agreed /\ settings.key = T7.key /\ pos = 0 /\ recovered = << >>
      /\ loops = [curr |-> loops.curr, last |-> loops.last] /\ loops.last \in Nat
      /\ mode \in {"enc", "dec"}
  BY <1>1 DEF CryptInv, InTurn, CryptTypeOK
<1>3. given' = given /\ evp' = evp /\ plain' = plain
  BY <1>1 DEF runVars
<1>4. settings.keyType = T7.keyType /\ settings.pwdKey = UsedPassword /\ settings.noSalt = T7.noSalt
  BY <1>2 DEF Agreed
<1>5. (bare <=> Bare) /\ (user <=> T7.keyType = "USER")
  BY <1>4 DEF bare, user, Bare
<1> DEFINE Salt == IF bare THEN "none" ELSE IF mode = "enc" THEN "random" ELSE stored.salt
           KeyOf == IF user THEN settings.key ELSE Derived(Salt)
<1>6. PICK salt, key : salt = Salt /\ key = KeyOf
  OBVIOUS
<1>7. ~(mode = "dec" /\ ~bare /\ ~stored.salted) =>
        /\ settings' = [settings EXCEPT !.key = key]
        /\ stored' = IF mode = "dec" THEN stored
                     ELSE [NoFile EXCEPT !.salted = ~bare, !.salt = salt, !.key = key]
        /\ Go("loop")
  BY <1>6 DEF EvpStart
<1>8. key = IF T7.keyType = "USER" THEN T7.key ELSE Key(UsedPassword, salt)
  BY <1>2, <1>4, <1>5, <1>6 DEF Derived
<1>9. settings' = [settings EXCEPT !.key = key] =>
        /\ settings' = [keyType |-> T7.keyType, keyCheck |-> T7.keyCheck, ivCheck |-> T7.ivCheck,
                        pwdKeyChk |-> T7.pwdKeyChk, pwdKey |-> UsedPassword, noSalt |-> T7.noSalt,
                        key |-> settings'.key]
        /\ settings'.key = key /\ settings'.keyType = T7.keyType
  BY <1>2 DEF Agreed
<1>10. CASE mode = "enc"
  <2>1. /\ settings' = [settings EXCEPT !.key = key]
        /\ stored' = [NoFile EXCEPT !.salted = ~bare, !.salt = salt, !.key = key]
        /\ cryptPc' = "loop" /\ UNCHANGED <<encRet, decRet>>
    BY <1>7, <1>10 DEF Go
  <2>2. stored' = [salted |-> ~bare, salt |-> salt, key |-> key, bytes |-> << >>, final |-> FALSE]
    BY <2>1 DEF NoFile
  <2>3. salt = (IF Bare THEN "none" ELSE "random") /\ padCounter = 0
    BY <1>1, <1>5, <1>6, <1>10 DEF CryptInv, InTurn
  <2>4. Header'
    <3>1. stored' = [salted |-> stored'.salted, salt |-> stored'.salt, key |-> stored'.key,
                     bytes |-> stored'.bytes, final |-> stored'.final]
      BY <2>2
    <3>2. stored'.salted = ~Bare /\ stored'.salt = salt /\ stored'.key = key
      BY <1>5, <2>2
    <3>3. T7.ivCheck = T7.keyCheck
      BY <1>2 DEF Agreed
    <3>4. Bare' = Bare
      BY <1>3, SameGiven DEF Bare
    <3> QED BY <1>1, <1>3, <1>8, <2>3, <3>1, <3>2, <3>3, <3>4, SameGiven DEF Header
  <2>5. Agreed'
    BY <1>1, <1>2, <1>3, <1>9, <1>10, <2>1, SameGiven DEF Agreed
  <2>6. stored'.bytes = << >> /\ pos' = 0
    BY <1>1, <1>2, <2>2
  <2>7. Ciphered(pos)'
    BY <2>6, EmptySeq DEF Ciphered
  <2>8. Enciphering'
    <3>1. pos' <= Len(plain)'
      BY <1>2, <1>3, <2>6, LenProperties
    <3> QED BY <1>1, <1>3, <2>4, <2>5, <2>7, <3>1 DEF Enciphering
  <2>9. CryptTypeOK'
    BY <1>1, <1>2, <1>9, <2>1, SettingsRead DEF CryptTypeOK, Shaped
  <2> QED BY <1>1, <1>10, <2>1, <2>8, <2>9, EnciphersOn
<1>11. CASE mode = "dec"
  <2>1. Header /\ Ciphered(CipherLength) /\ padCounter = 0
    BY <1>1, <1>11 DEF CryptInv, InTurn, Header
  <2>2. stored.salted = ~Bare /\ stored.salt = (IF Bare THEN "none" ELSE "random")
        /\ stored.key = IF T7.keyType = "USER" THEN T7.key ELSE Key(UsedPassword, stored.salt)
    BY <1>1, <2>1 DEF Header
  <2>3. settings' = [settings EXCEPT !.key = key] /\ stored' = stored /\ Go("loop")
    BY <1>5, <1>7, <1>11, <2>2
  <2>4. salt = stored.salt
    BY <1>5, <1>6, <1>11, <2>2
  <2>5. settings'.key = stored.key
    BY <1>8, <1>9, <2>2, <2>3, <2>4
  <2>6. cryptPc' = "loop" /\ encRet' = encRet /\ decRet' = decRet
    BY <2>3 DEF Go
  <2>7. Agreed'
    <3>1. T7.ivCheck = T7.keyCheck /\ (T7.keyCheck \/ T7.pwdKeyChk)
      BY <1>2, <1>11 DEF Agreed
    <3> QED BY <1>1, <1>3, <1>9, <2>3, <3>1, SameGiven DEF Agreed
  <2>8. DecipherKey'
    BY <1>1, <1>3, <2>3, <2>5, <2>7 DEF DecipherKey
  <2>9. Len(recovered') = 0 /\ pos' = 0
    BY <1>1, <1>2
  <2>10. Back(recovered, 0)'
    BY <2>9 DEF Back
  <2>11. Deciphering'
    <3>1. 0 <= CipherLength'
      BY <1>1, <1>2, <1>3, <2>1, LenProperties DEF CipherLength
    <3> QED BY <1>1, <1>3, <2>6, <2>8, <2>9, <2>10, <3>1 DEF Deciphering
  <2>12. CryptTypeOK'
    BY <1>1, <1>2, <1>9, <2>3, <2>6, SettingsRead DEF CryptTypeOK, Shaped
  <2> QED BY <1>1, <1>2, <1>11, <2>3, <2>6, <2>11, <2>12, DeciphersOn
<1> QED BY <1>2, <1>10, <1>11

LEMMA EvpEnciphersChunk == ASSUME CryptInv, EvpChunk, mode = "enc" PROVE CryptInv'
<1>a. PICK read : read = Chunk(plain)
  OBVIOUS
<1>b. PICK c : c = Encipher(read, pos)
  OBVIOUS
<1>c. PICK bytes : bytes = stored.bytes \o c
  OBVIOUS
<1>1. stored' = [stored EXCEPT !.bytes = bytes]
  BY <1>a, <1>b, <1>c DEF EvpChunk, Input
<1>2. /\ evp /\ cryptPc = "loop" /\ pos' = pos + Len(read)
      /\ UNCHANGED <<runVars, mode, cryptPc, walked, settings, length, padCounter, loops, output, recovered,
                     encRet, decRet, mishap>>
  BY <1>a DEF EvpChunk, Input
<1>3. given' = given /\ evp' = evp /\ plain' = plain
  BY <1>2 DEF runVars
<1>4. /\ CryptTypeOK /\ plain \in Seq(Bytes) /\ Agreed /\ Header /\ Ciphered(pos) /\ pos <= Len(plain)
  BY <1>2 DEF CryptInv, Enciphering
<1>5. pos \in Nat /\ Len(plain) \in Nat /\ MaxLen \in Nat \ {0} /\ pos <= Len(plain)
  BY <1>4, CryptSizes, LenProperties DEF CryptTypeOK
<1>6. /\ read \in Seq(Bytes)
      /\ Len(read) = IF pos + MaxLen < Len(plain) THEN MaxLen ELSE Len(plain) - pos
      /\ \A i \in 1 .. Len(read) : read[i] = plain[pos + i]
  <2>1. pos \in 0 .. Len(plain) /\ plain \in Seq(Bytes)
    BY <1>4, <1>5
  <2> QED BY <1>a, <2>1, ChunkRead
<1>7. PICK e : e = pos + Len(read)
  OBVIOUS
<1>8. e \in Nat /\ e <= Len(plain) /\ Len(read) \in Nat /\ pos + Len(read) <= Len(plain)
  <2>1. CASE pos + MaxLen < Len(plain)
    BY <1>5, <1>6, <1>7, <2>1
  <2>2. CASE ~(pos + MaxLen < Len(plain))
    BY <1>5, <1>6, <1>7, <2>2
  <2> QED BY <2>1, <2>2
<1>9. /\ c \in Seq(CipherBytes) /\ Len(c) = Len(read)
      /\ \A j \in 1 .. Len(read) : c[j] = [byte |-> read[j], off |-> pos + j]
  <2>1. pos \in Int /\ read \in Seq(Bytes)
    BY <1>5, <1>6
  <2> QED BY <1>b, <2>1, EncipherIs
<1>10. \A j \in 1 .. Len(c) : c[j] = [byte |-> TextByte(pos + j), off |-> Offset(pos + j)]
  <2> SUFFICES ASSUME NEW j \in 1 .. Len(c)
               PROVE  c[j] = [byte |-> TextByte(pos + j), off |-> Offset(pos + j)]
    OBVIOUS
  <2>1. c[j] = [byte |-> read[j], off |-> pos + j] /\ read[j] = plain[pos + j]
    BY <1>6, <1>9
  <2>2. pos + j <= Len(plain)
    BY <1>5, <1>8, <1>9
  <2>3. TextByte(pos + j) = plain[pos + j]
    BY <2>2 DEF TextByte
  <2>4. Offset(pos + j) = pos + j
    BY <1>2 DEF Offset
  <2> QED BY <2>1, <2>3, <2>4
<1>11. Header' /\ stored'.bytes = bytes
  BY <1>1, <1>2, <1>4, HeaderStays
<1>12. Ciphered(e)'
  <2>1. UNCHANGED <<evp, plain, padCounter>> /\ Ciphered(pos) /\ pos \in Nat /\ e = pos + Len(c)
    BY <1>2, <1>3, <1>4, <1>5, <1>7, <1>9
  <2>2. stored'.bytes = stored.bytes \o c /\ c \in Seq(CipherBytes)
    BY <1>9, <1>11, <1>c
  <2> QED BY <1>10, <2>1, <2>2, MoreCiphered
<1>13. Ciphered(pos)'
  BY <1>2, <1>7, <1>12 DEF Ciphered
<1>14. Agreed'
  BY <1>2, <1>3, <1>4, SameGiven DEF Agreed
<1>15. pos' <= Len(plain)' /\ pos' \in Nat
  BY <1>2, <1>3, <1>7, <1>8
<1>16. Enciphering'
  BY <1>2, <1>3, <1>11, <1>13, <1>14, <1>15 DEF Enciphering
<1>17. CryptTypeOK'
  BY <1>2, <1>4, <1>15 DEF CryptTypeOK
<1> QED BY <1>2, <1>16, <1>17, EnciphersOn

LEMMA EvpDeciphersChunk == ASSUME CryptInv, EvpChunk, mode = "dec" PROVE CryptInv'
<1>a. PICK raw : raw = Chunk(stored.bytes)
  OBVIOUS
<1>b. PICK chunk : chunk = Decipher(raw, pos)
  OBVIOUS
<1>1. recovered' = recovered \o chunk
  BY <1>a, <1>b DEF EvpChunk, Input
<1>2. /\ evp /\ cryptPc = "loop" /\ pos' = pos + Len(raw)
      /\ UNCHANGED <<runVars, mode, cryptPc, walked, settings, length, padCounter, loops, output, stored,
                     encRet, decRet, mishap>>
  BY <1>a DEF EvpChunk, Input
<1>3. given' = given /\ evp' = evp /\ plain' = plain
  BY <1>2 DEF runVars
<1>4. PICK c, here : c = CipherLength /\ here = pos
  OBVIOUS
<1>5. /\ CryptTypeOK /\ DecipherKey /\ Back(recovered, 0) /\ Ciphered(c) /\ Len(recovered) = here /\ here <= c
      /\ loops = [curr |-> loops.curr, last |-> loops.last] /\ loops.last \in Nat
  BY <1>2, <1>4 DEF CryptInv, InTurn, Deciphering
<1>6. here \in Nat /\ c \in Nat /\ MaxLen \in Nat \ {0} /\ Len(stored.bytes) = c
  <2>1. Len(stored.bytes) = c /\ Len(stored.bytes) \in Nat
    BY <1>5, LenProperties DEF Ciphered
  <2> QED BY <1>4, <1>5, <2>1, CryptSizes DEF CryptTypeOK
<1>7. \A i \in 1 .. MaxLen : here + i = Offset(pos + i)
  BY <1>2, <1>4 DEF Offset
<1>8. /\ chunk \in Seq(Bytes) /\ Back(chunk, here)
      /\ Len(chunk) = IF here + MaxLen < c THEN MaxLen ELSE c - here
  <2>1. c \in Nat /\ pos \in 0 .. c /\ here \in Int /\ Ciphered(c)
    BY <1>4, <1>5, <1>6
  <2>2. chunk = Decipher(raw, here)
    BY <1>4, <1>b
  <2>3. /\ chunk \in Seq(Bytes) /\ Back(chunk, pos)
        /\ Len(chunk) = IF pos + MaxLen < c THEN MaxLen ELSE c - pos
    BY <1>7, <1>a, <2>1, <2>2, DecipheredChunk
  <2> QED BY <1>4, <2>3
<1>9. Len(raw) = IF here + MaxLen < c THEN MaxLen ELSE c - here
  <2>1. pos \in 0 .. Len(stored.bytes) /\ stored.bytes \in Seq(CipherBytes)
    BY <1>4, <1>5, <1>6 DEF Ciphered
  <2>2. Len(raw) = IF pos + MaxLen < Len(stored.bytes) THEN MaxLen ELSE Len(stored.bytes) - pos
    BY <1>a, <2>1, ChunkRead
  <2> QED BY <1>4, <1>6, <2>2
<1>10. PICK e : e = here + Len(chunk)
  OBVIOUS
<1>11. e \in Nat /\ e <= c /\ pos' = e
  <2>1. e \in Nat /\ e <= c
    <3>1. CASE here + MaxLen < c
      BY <1>5, <1>6, <1>8, <1>10, <3>1
    <3>2. CASE ~(here + MaxLen < c)
      BY <1>5, <1>6, <1>8, <1>10, <3>2
    <3> QED BY <3>1, <3>2
  <2> QED BY <1>2, <1>4, <1>8, <1>9, <1>10, <2>1
<1>12. recovered' \in Seq(Bytes) /\ Len(recovered') = e /\ Back(recovered, 0)'
  <2>1. PICK r, u, x : r = recovered /\ u = recovered' /\ x = Len(r)
    OBVIOUS
  <2>2. x = here /\ r \in Seq(Bytes)
    BY <1>5, <2>1 DEF CryptTypeOK
  <2>3. r \in Seq(Bytes) /\ chunk \in Seq(Bytes) /\ Back(r, 0) /\ Back(chunk, x) /\ u = r \o chunk
    BY <1>1, <1>5, <1>8, <2>1, <2>2
  <2>4. u \in Seq(Bytes) /\ Len(u) = x + Len(chunk) /\ Back(u, 0)
    BY <2>1, <2>3, BackJoined
  <2>5. UNCHANGED <<plain, padCounter>> /\ settings'.key = settings.key /\ stored'.key = stored.key
    BY <1>2, <1>3
  <2>6. Back(u, 0)'
    BY <2>4, <2>5, BackStays
  <2>7. Back(recovered, 0)'
    BY <2>1, <2>6 DEF Back
  <2> QED BY <1>10, <2>1, <2>2, <2>4, <2>7
<1>13. DecipherKey'
  BY <1>2, <1>3, <1>5, SameGiven DEF DecipherKey, Agreed
<1>14. CipherLength' = c
  BY <1>2, <1>3, <1>4 DEF CipherLength
<1>15. Deciphering'
  BY <1>2, <1>3, <1>11, <1>12, <1>13, <1>14 DEF Deciphering
<1>16. CryptTypeOK'
  BY <1>2, <1>5, <1>11, <1>12 DEF CryptTypeOK
<1>17. cryptPc' = "loop" /\ UNCHANGED <<runVars, mode, walked, padCounter, stored, encRet, decRet, mishap>>
       /\ loops' = loops
  BY <1>2
<1> QED BY <1>2, <1>5, <1>15, <1>16, <1>17, DeciphersOn

LEMMA EvpEnds == ASSUME CryptInv, EvpFinal PROVE CryptInv'
<1>1. /\ evp /\ cryptPc = "loop" /\ Chunk(Input) = << >>
      /\ stored' = [stored EXCEPT !.final = TRUE]
      /\ UNCHANGED <<runVars, mode, walked, settings, Progress, recovered, mishap>>
  BY DEF EvpFinal
<1>2. /\ CryptTypeOK /\ plain \in Seq(Bytes) /\ mode \in {"enc", "dec"}
      /\ UNCHANGED <<length, pos, padCounter, loops, output>>
  BY <1>1 DEF CryptInv, CryptTypeOK, Progress
<1>3. given' = given /\ evp' = evp /\ plain' = plain
  BY <1>1 DEF runVars
<1>4. Header
  BY <1>1, <1>2 DEF CryptInv, InTurn, Enciphering
<1>5. /\ stored' = [salted |-> stored.salted, salt |-> stored.salt, key |-> stored.key,
                    bytes |-> stored.bytes, final |-> TRUE]
  BY <1>1, <1>4 DEF Header
<1>6. Header' /\ stored'.final = TRUE /\ stored'.bytes = stored.bytes
  BY <1>2, <1>3, <1>4, <1>5, SameGiven DEF Header, Bare, Missing
<1>7. Ciphered(CipherLength) => Ciphered(CipherLength)'
  BY <1>2, <1>3, <1>6 DEF Ciphered, CipherLength, TextByte, Offset
<1>8. CASE mode = "enc"
  <2>1. Return(Success) /\ Chunk(plain) = << >>
    BY <1>1, <1>8 DEF EvpFinal, Input
  <2>2. Ciphered(pos) /\ pos <= Len(plain) /\ pos \in Nat /\ padCounter = 0
    BY <1>1, <1>2, <1>4, <1>8 DEF CryptInv, Enciphering, CryptTypeOK, Header
  <2>3. pos = Len(plain)
    <3>1. pos \in 0 .. Len(plain)
      BY <1>2, <2>2, LenProperties
    <3> QED BY <1>2, <2>1, <3>1, ChunkRead
  <2>4. CipherLength = pos
    BY <2>2, <2>3 DEF CipherLength
  <2>5. Ciphered(CipherLength)
    BY <2>2, <2>4
  <2> QED BY <1>1, <1>6, <1>7, <1>8, <2>1, <2>5, EncipheringEnds
<1>9. CASE mode = "dec"
  <2>1. PICK c, r : c = CipherLength /\ r = recovered
    OBVIOUS
  <2>2. /\ Ciphered(c) /\ Ciphered(CipherLength) /\ pos <= c /\ Len(r) = pos /\ pos \in Nat /\ DecipherKey
        /\ stored.final /\ Back(r, 0) /\ encRet = Success /\ r \in Seq(Bytes)
        /\ loops = [curr |-> loops.curr, last |-> loops.last] /\ loops.last \in Nat /\ padCounter = 0
    BY <1>1, <1>2, <1>4, <1>9, <2>1 DEF CryptInv, InTurn, Active, Deciphering, CryptTypeOK, Header
  <2>3. stored.bytes \in Seq(CipherBytes) /\ Len(stored.bytes) = c /\ c \in Nat
    BY <2>2, LenProperties DEF Ciphered
  <2>4. pos = c
    <3>1. Chunk(stored.bytes) = << >>
      BY <1>1, <1>9 DEF Input
    <3>2. pos \in 0 .. Len(stored.bytes)
      BY <2>2, <2>3
    <3> QED BY <2>3, <3>1, <3>2, ChunkRead
  <2>5. settings.key = stored.key
    BY <1>1, <2>2 DEF DecipherKey
  <2>6. Return(Success)
    BY <1>9, <2>2, <2>5 DEF EvpFinal
  <2>7. cryptPc' = "over" /\ encRet' = encRet /\ decRet' = Success
    BY <1>9, <2>6 DEF Return
  <2>8. recovered' = plain \o << >>
    <3>1. PICK padding : padding = [i \in 1 .. padCounter |-> Byte(0, padCounter)]
      OBVIOUS
    <3>2. padCounter \in Nat
      BY <2>2
    <3>3. Len(r) = Len(plain) => r = plain \o << >>
      BY <1>2, <2>2, <2>5, <3>1, <3>2, TextIsBack
    <3>4. Len(r) = Len(plain)
      BY <1>2, <2>1, <2>2, <2>4, LenProperties DEF CipherLength
    <3> QED BY <1>1, <2>1, <3>3, <3>4
  <2>9. RoundTrip'
    BY <1>1, <1>3, <2>8 DEF RoundTrip
  <2>10. Decrypts'
    BY <2>7 DEF Decrypts
  <2>11. CryptTypeOK'
    BY <1>1, <1>2, <2>7 DEF CryptTypeOK
  <2> QED BY <1>1, <1>2, <1>6, <1>7, <1>9, <2>2, <2>7, <2>9, <2>10, <2>11, DecipheringEnds
<1> QED BY <1>2, <1>8, <1>9

LEMMA CryptSteps == ASSUME CryptInv, [CryptNext]_cryptVars PROVE CryptInv'
<1>1. CASE ReadOption
  BY <1>1, SettingsTaken
<1>2. CASE Check
  BY <1>2, OptionsAccepted
<1>3. CASE CheckRefuses
  BY <1>3, OptionsRefused
<1>4. CASE Decrypt
  BY <1>4, SecondStarts
<1>5. CASE EncStart
  BY <1>5, EnciphersStart
<1>6. CASE EncChunk
  BY <1>6, EnciphersChunk
<1>7. CASE EncDone
  BY <1>7, EnciphersDone
<1>8. CASE DecStart
  BY <1>8, DeciphersStart
<1>9. CASE DecChunk
  BY <1>9, DeciphersChunk
<1>10. CASE DecPad
  BY <1>10, PaddingTakenOff
<1>11. CASE EvpStart
  BY <1>11, EvpStarts
<1>12. CASE EvpChunk
  <2>1. mode \in {"enc", "dec"}
    BY DEF CryptInv, CryptTypeOK
  <2> QED BY <1>12, <2>1, EvpEnciphersChunk, EvpDeciphersChunk
<1>13. CASE EvpFinal
  BY <1>13, EvpEnds
<1>14. CASE CryptFails \/ LoseWrite
  BY <1>14, CryptFailed
<1>15. CASE CryptEnded \/ UNCHANGED cryptVars
  <2>1. UNCHANGED <<runVars, given, evp, plain, mode, cryptPc, walked, settings, length, pos, padCounter, stored,
                    loops, output, recovered, encRet, decRet, mishap>>
    BY <1>15 DEF CryptEnded, cryptVars, runVars
  <2>2. CryptTypeOK' /\ Scanned' = Scanned /\ Agreed' = Agreed /\ T7' = T7
    BY <2>1, SameGiven DEF CryptInv, CryptTypeOK, Scanned, Agreed
  <2>3. Header' = Header /\ Ciphered(CipherLength)' = Ciphered(CipherLength)
    BY <2>1, FileStays
  <2>4. InTurn'
    BY <2>1, <2>2, <2>3 DEF CryptInv, InTurn, Active
  <2>5. Enciphering'
    BY <2>1, <2>2, <2>3 DEF CryptInv, Enciphering, Ciphered, CipherLength, TextByte, Offset, ChunksRead
  <2>6. Deciphering'
    <3>1. DecipherKey => DecipherKey'
      <4>1. UsedPassword' = UsedPassword /\ T7' = T7 /\ (Agreed => Agreed')
        BY <2>1, <2>2, SameGiven
      <4> QED BY <2>1, <4>1 DEF DecipherKey
    <3>2. Back(recovered, 0)' = Back(recovered, 0)
      BY <2>1 DEF Back, TextByte
    <3>3. Back(output, (loops.curr - 1) * MaxLen)' = Back(output, (loops.curr - 1) * MaxLen)
      <4>1. PICK b : b = (loops.curr - 1) * MaxLen
        OBVIOUS
      <4>2. (loops'.curr - 1) * MaxLen = b
        BY <2>1, <4>1
      <4> QED BY <2>1, <4>1, <4>2 DEF Back, TextByte
    <3>4. CipherLength' = CipherLength /\ Chunks' = Chunks
      BY <2>1 DEF CipherLength, Chunks, FileLength
    <3> QED BY <2>1, <3>1, <3>2, <3>3, <3>4 DEF CryptInv, Deciphering
  <2>7. RoundTrip' /\ Decrypts'
    BY <2>1 DEF CryptInv, RoundTrip, Decrypts
  <2> QED BY <2>1, <2>2, <2>4, <2>5, <2>6, <2>7 DEF CryptInv
<1> QED BY <1>1, <1>2, <1>3, <1>4, <1>5, <1>6, <1>7, <1>8, <1>9, <1>10, <1>11, <1>12, <1>13, <1>14, <1>15
        DEF CryptNext

\* clu_crypto_setup.c, clu_encrypt.c, clu_decrypt.c, clu_evp_crypto.c: how far each of the two
\* commands has come, chunk by chunk, and which key it has.
THEOREM CryptInvariance == CryptSpec => []CryptInv
<1>1. CryptInit => CryptInv
  BY CryptStarts DEF CryptInit
<1>2. CryptInv /\ [CryptNext]_cryptVars => CryptInv'
  BY CryptSteps
<1> QED BY <1>1, <1>2, PTL DEF CryptSpec

-----------------------------------------------------------------------------
(* The process: each command in it behaves as it does alone.               *)

LEMMA SomethingToRun ==
  /\ SomeLine \in Lines /\ SomeString \in Strings /\ SomeBounds \in Bounds
  /\ SomeSession \in OcspSessions /\ SomeGivens \in Givens /\ SomeText \in Texts
  /\ SomeUse \in Uses /\ SomeNumber \in DerNumbers
  BY CommandsAssumption DEF SomeLine, SomeString, SomeBounds, SomeSession, SomeGivens, SomeText,
                            SomeUse, SomeNumber

\* clu_main.c calls one command: what holds of the command by itself holds in the process.
THEOREM EachIsItself ==
  CommandsSpec => RandSpec /\ DecimalSpec /\ OcspSpec /\ CryptSpec /\ KeySpec /\ DerSpec
<1>1. CommandsInit => RandInit /\ DecimalInit /\ OcspInit /\ CryptInit /\ KeyInit /\ DerInit
  <2>1. (NoRand => RandInit) /\ (NoDecimal => DecimalInit) /\ (NoOcsp => OcspInit)
    BY SomethingToRun DEF NoRand, RandInit, NoDecimal, DecimalInit, NoOcsp, OcspInit
  <2>2. (NoCrypt => CryptInit) /\ (NoKeys => KeyInit) /\ (NoDer => DerInit)
    BY SomethingToRun DEF NoCrypt, CryptInit, NoKeys, KeyInit, NoDer, DerInit
  <2> QED BY <2>1, <2>2 DEF CommandsInit
<1>2. [CommandsNext]_commandsVars =>
        /\ [RandNext]_randVars /\ [DecimalNext]_decimalVars /\ [OcspNext]_ocspVars
        /\ [CryptNext]_cryptVars /\ [KeyNext]_keyVars /\ [DerNext]_derVars
  BY DEF CommandsNext, Rand, Number, Ocsp, Enc, Keys, Dh, commandsVars
<1> QED BY <1>1, <1>2, PTL DEF CommandsSpec, RandSpec, DecimalSpec, OcspSpec, CryptSpec, KeySpec, DerSpec

\* clu_rand.c: every variable of the command keeps its type, its two scans accept exactly the
\* lines that the usage allows, and a line that is accepted gets as many bytes as it asks for,
\* in the form it asks for and in one place.
THEOREM RandExact == CommandsSpec => [](RandTypeOK /\ RandIsExact)
<1>1. RandInv => RandTypeOK /\ RandIsExact
  BY DEF RandInv, RandIsExact
<1> QED BY <1>1, RandInvariance, EachIsItself, PTL

\* clu_rand.c: the output file is emptied only for a line that is right in every respect.
THEOREM RandKeepsItsOutput == CommandsSpec => []NotTruncated
<1>1. RandInv => NotTruncated
  BY DEF RandInv
<1> QED BY <1>1, RandInvariance, EachIsItself, PTL

\* clu_funcs.c: wolfCLU_parseDecimalBounded accepts exactly the numbers within its bounds, and
\* no step of its loop overflows a long.
THEOREM DecimalsAreRight == CommandsSpec => [](DecimalTypeOK /\ DecimalCorrect)
<1>1. DecimalInv => DecimalTypeOK /\ DecimalCorrect
  BY DEF DecimalInv
<1> QED BY <1>1, DecimalInvariance, EachIsItself, PTL

\* clu_dh.c: what is written is what was measured, and it fits, whatever the lengths.
THEOREM DhWritesWhatItMeasured == CommandsSpec => []WritesWhatItMeasured
  BY MeasuredAndWritten, EachIsItself, PTL

\* clu_ocsp.c: what an ocsp client is told agrees with what the responder's index and
\* certificates say and with what the client's own files make of it; nobody else vouches.
THEOREM OcspTellsTheTruth == CommandsSpec => [](OcspTypeOK /\ OcspTellsTheStatus)
<1>1. OcspInv => OcspTypeOK /\ OcspTellsTheStatus
  BY TellsTheStatus DEF OcspInv
<1> QED BY <1>1, OcspInvariance, EachIsItself, PTL

\* clu_genkey.c, clu_sign.c, clu_verify.c: what is verified was signed so, with the key of that
\* pair, and what was signed with a new pair is verified, wherever genkey was killed or failed.
THEOREM SignsAndVerifies == CommandsSpec => [](KeyTypeOK /\ VerifiesWhatItSigned)
<1>1. KeyInv => KeyTypeOK /\ VerifiesWhatItSigned
  BY SignedIsVerified DEF KeyInv, Verified, VerifiesWhatItSigned
<1> QED BY <1>1, KeyInvariance, EachIsItself, PTL

\* clu_rand.c, clu_sign.c, clu_verify.c: a refused line and a bad signature leave the output alone.
THEOREM RefusalsKeepOutputs == CommandsSpec => []OutputsKept
<1>1. RandInv => NotTruncated
  BY DEF RandInv
<1>2. KeyInv => NothingWritten
  BY RefusalsWriteNothing
<1>3. NotTruncated /\ NothingWritten => OutputsKept
  BY DEF OutputsKept
<1> QED BY <1>1, <1>2, <1>3, RandInvariance, KeyInvariance, EachIsItself, PTL

\* clu_crypto_setup.c and the files it calls: what enc wrote, enc -d gives back with the same options,
\* for every text, every size of block and chunk and every set of options; and it succeeds.
THEOREM DecryptsItsOwn == CommandsSpec => [](CryptTypeOK /\ DecryptsWhatItEncrypted)
<1>1. CryptInv => CryptTypeOK /\ DecryptsWhatItEncrypted
  BY DEF CryptInv, DecryptsWhatItEncrypted
<1> QED BY <1>1, CryptInvariance, EachIsItself, PTL

\* clu_main.c: every variable of every command keeps its type.
THEOREM EveryTypeHolds == CommandsSpec => []CommandsTypeOK
<1>1. RandInv /\ DecimalInv /\ OcspInv /\ CryptInv /\ KeyInv /\ DerInv => CommandsTypeOK
  BY DEF RandInv, DecimalInv, OcspInv, CryptInv, KeyInv, DerInv, CommandsTypeOK
<1> QED BY <1>1, RandInvariance, DecimalInvariance, OcspInvariance, CryptInvariance, KeyInvariance,
           DerInvariance, EachIsItself, PTL

=============================================================================
