---------------------------- MODULE RandCommand ----------------------------
(***************************************************************************)
(* "wolfssl rand" (src/tools/clu_rand.c): how the command line is read     *)
(* twice - once by wolfCLU_GetOpt for the options, once by the command     *)
(* itself for the number of bytes - and what reaches the output file and   *)
(* the standard output before, during and after an error.                  *)
(*                                                                         *)
(* A token is a string; what atoi makes of it is the constant Atoi.  Of    *)
(* the random bytes only their number is kept.                             *)
(***************************************************************************)
EXTENDS OptionScan

CONSTANTS
  Lines,        \* the command lines to consider
  Dashed,       \* the tokens that begin with '-'
  Atoi,         \* what atoi makes of each token, 0 for one that is no number
  IntMax,       \* INT_MAX
  BlockLen      \* RNG_MAX_BLOCK_LEN

(* rand_options[].                                                         *)
rand_options == <<[name |-> "-out",    has_arg |-> TRUE,  val |-> "OUTFILE"],
                  [name |-> "-base64", has_arg |-> FALSE, val |-> "BASE64"],
                  [name |-> "-hex",    has_arg |-> FALSE, val |-> "HEX"]>>

OptionNames == {rand_options[j].name : j \in DOMAIN rand_options}

Helps == {"-h", "-help"}

(* What Base64_Encode needs for n bytes: four digits for three bytes and a *)
(* new line after every 64 digits and at the end.                          *)
Base64Size(n) == LET digits == 4 * ((n + 2) \div 3)
                 IN  digits + (digits + 63) \div 64

(* A command line: the program, its name apart from every option, "rand",  *)
(* and the arguments.                                                      *)
IsLine(line) ==
  /\ line \in Seq(STRING)
  /\ Len(line) >= 2 /\ line[1] \notin Dashed /\ line[2] = "rand"
  /\ \A i \in 1 .. Len(line) : line[i] # None /\ Atoi[line[i]] \in Int /\ Atoi[line[i]] <= IntMax

(* What Base64 makes of half of INT_MAX bytes fits an int, as it does from *)
(* an INT_MAX of 9 on.                                                     *)
ASSUME RandAssumption ==
  /\ IntMax \in Nat \ {0}
  /\ \A n \in 0 .. IntMax \div 2 : Base64Size(n) <= IntMax
  /\ BlockLen \in Nat \ {0}
  /\ OptionNames \cup Helps \subseteq Dashed /\ "rand" \notin Dashed
  /\ \A line \in Lines : IsLine(line)

VARIABLES
  randPc,       \* how far the command is
  randRet,      \* the status it will return
  argv,         \* its command line
  optind,       \* wolfCLU_GetOpt's place in the table
  outFile,      \* the value of -out
  flags,        \* the flags given: useBase64 and useHex
  scan,         \* the rescan: next token, skipNext, options seen, count's index
  size,         \* bytes wanted, later bytes to write
  generated,    \* random bytes in the buffer
  file,         \* bytes put into the output file since it was emptied
  stdout,       \* random bytes and digits on the standard output
  trouble       \* history: did a system or library call fail?

randVars == <<randPc, randRet, argv, optind, outFile, flags, scan, size, generated,
              file, stdout, trouble>>

(* The output file has not been opened.                                    *)
Untouched == -1

RandTypeOK ==
  /\ randPc \in {"start", "options", "rescan", "open", "alloc", "fill",
             "encode", "write", "done"}
  /\ randRet \in {Success, FatalError}
  /\ argv \in Seq(STRING)
  /\ optind \in 0 .. Len(rand_options)
  /\ outFile = None \/ \E i \in 1 .. Len(argv) : outFile = argv[i]
  /\ flags \subseteq {"base64", "hex"}
  /\ scan \in [i : 3 .. Len(argv) + 1, skipNext : BOOLEAN,
               seen : SUBSET OptionNames, countIdx : 0 .. Len(argv)]
  /\ size \in 0 .. IntMax
  /\ generated \in 0 .. IntMax
  /\ file \in {Untouched} \cup (0 .. IntMax)
  /\ stdout \in 0 .. IntMax + 1
  /\ trouble \in BOOLEAN

RandStart(line) ==
  /\ randPc = "start" /\ randRet = Success
  /\ argv = line
  /\ optind = 0 /\ outFile = None /\ flags = {}
  /\ scan = [i |-> 3, skipNext |-> FALSE, seen |-> {}, countIdx |-> 0]
  /\ size = 0 /\ generated = 0
  /\ file = Untouched /\ stdout = 0 /\ trouble = FALSE

RandInit == \E line \in Lines : RandStart(line)

Outside == <<argv, file, stdout>>

(* Once ret is an error every block that follows is skipped.               *)
Fail == /\ randPc' = "done" /\ randRet' = FatalError

(* A call outside the command's own code fails.                            *)
Trouble == Fail /\ trouble' = TRUE

-----------------------------------------------------------------------------
(* The options.                                                            *)

(* Only the last token is looked at for -h or -help.                       *)
AskHelp ==
  /\ randPc = "start"
  /\ randPc' = IF argv[Len(argv)] \in Helps THEN "done" ELSE "options"
  /\ UNCHANGED <<randRet, argv, optind, outFile, flags, scan, size, generated, file,
                 stdout, trouble>>

(* One turn of the loop over wolfCLU_GetOpt.  An -out without a value sets *)
(* ret and the loop goes on; an option given twice ends the command.       *)
NextOption ==
  LET got == GetOpt(rand_options, argv, optind) IN
  /\ randPc = "options"
  /\ optind'  = got.optind
  /\ outFile' = IF got.option = "OUTFILE" THEN got.optarg ELSE outFile
  /\ flags'   = flags \cup (IF got.option = "BASE64" THEN {"base64"} ELSE {})
                      \cup (IF got.option = "HEX" THEN {"hex"} ELSE {})
  /\ randRet' = IF \/ got.option = ArgFoundTwice
                   \/ got.option = "OUTFILE" /\ got.optarg = None
                THEN FatalError ELSE randRet
  /\ randPc' = CASE got.option = ArgFoundTwice                  -> "done"
                 [] got.option = EndOfArgs /\ randRet = Success -> "rescan"
                 [] got.option = EndOfArgs /\ randRet # Success -> "done"
                 [] OTHER                                       -> "options"
  /\ UNCHANGED <<scan, size, generated, trouble, Outside>>

-----------------------------------------------------------------------------
(* The rescan for the number of bytes.                                     *)

Token == argv[scan.i]

Rescanning == randPc = "rescan" /\ scan.i <= Len(argv)

(* wolfCLU_RandMarkOption finds the token in the table: a repeat is an     *)
(* error, and only an option in a place of its own takes the next token.   *)
Mark(skip) ==
  /\ IF Token \in scan.seen
     THEN Fail /\ UNCHANGED scan
     ELSE /\ scan' = [scan EXCEPT !.i = @ + 1, !.skipNext = skip,
                                  !.seen = @ \cup ({Token} \cap OptionNames)]
          /\ UNCHANGED <<randPc, randRet>>
  /\ UNCHANGED <<optind, outFile, flags, size, generated, trouble, Outside>>

(* The value of -out: passed over, but marked when it looks like an option.*)
ScanValue == Rescanning /\ scan.skipNext /\ Mark(FALSE)

(* An option that does not take the next token.                            *)

ScanOption ==
  /\ Rescanning /\ ~scan.skipNext
  /\ Token \in OptionNames
  /\ Mark(Token = "-out")

ScanHelp ==
  /\ Rescanning /\ ~scan.skipNext
  /\ Token \in Helps
  /\ scan' = [scan EXCEPT !.i = @ + 1]
  /\ UNCHANGED <<randPc, randRet, optind, outFile, flags, size, generated, trouble, Outside>>

(* An unknown flag, or a second token that is no option.                   *)
ScanRefuse ==
  /\ Rescanning /\ ~scan.skipNext
  /\ Token \notin OptionNames \cup Helps
  /\ Token \in Dashed \/ scan.countIdx # 0
  /\ Fail
  /\ UNCHANGED <<scan, optind, outFile, flags, size, generated, trouble, Outside>>

ScanCount ==
  /\ Rescanning /\ ~scan.skipNext
  /\ Token \notin Dashed /\ scan.countIdx = 0
  /\ scan' = [scan EXCEPT !.i = @ + 1, !.countIdx = scan.i]
  /\ UNCHANGED <<randPc, randRet, optind, outFile, flags, size, generated, trouble, Outside>>

(* TakeCount without the two limits.                                       *)
BadTakeCount ==
  /\ randPc = "rescan" /\ scan.i > Len(argv)
  /\ IF scan.countIdx = 0 \/ Atoi[argv[scan.countIdx]] <= 0
     THEN Fail /\ UNCHANGED size
     ELSE randPc' = "open" /\ size' = Atoi[argv[scan.countIdx]] /\ UNCHANGED randRet
  /\ UNCHANGED <<optind, outFile, flags, scan, generated, trouble, Outside>>

(* The count, and the limits that depend on the output's form.             *)
TakeCount ==
  /\ randPc = "rescan" /\ scan.i > Len(argv)
  /\ IF \/ scan.countIdx = 0
        \/ Atoi[argv[scan.countIdx]] <= 0
        \/ flags = {"base64", "hex"}
        \/ flags # {} /\ Atoi[argv[scan.countIdx]] > IntMax \div 2
     THEN Fail /\ UNCHANGED size
     ELSE randPc' = "open" /\ size' = Atoi[argv[scan.countIdx]] /\ UNCHANGED randRet
  /\ UNCHANGED <<optind, outFile, flags, scan, generated, trouble, Outside>>

-----------------------------------------------------------------------------
(* The bytes.                                                              *)

(* The file is opened "wb", which empties it.                              *)
Open ==
  /\ randPc = "open"
  /\ randPc' = "alloc"
  /\ file' = IF outFile # None THEN 0 ELSE file
  /\ UNCHANGED <<randRet, argv, optind, outFile, flags, scan, size, generated, stdout,
                 trouble>>

OpenFails ==
  /\ randPc = "open" /\ outFile # None /\ Trouble
  /\ UNCHANGED <<argv, optind, outFile, flags, scan, size, generated, file, stdout>>

(* The buffer and the generator.                                           *)
Allocate ==
  /\ randPc = "alloc"
  /\ randPc' = "fill"
  /\ UNCHANGED <<randRet, optind, outFile, flags, scan, size, generated, trouble, Outside>>

(* Fill, leaving the loop when less than a block is missing.               *)
BadFill ==
  /\ randPc = "fill"
  /\ IF size - generated >= BlockLen
     THEN generated' = generated + BlockLen /\ UNCHANGED randPc
     ELSE randPc' = "encode" /\ UNCHANGED generated
  /\ UNCHANGED <<randRet, optind, outFile, flags, scan, size, trouble, Outside>>

(* One block at a time.                                                    *)
Fill ==
  /\ randPc = "fill"
  /\ IF generated < size
     THEN /\ generated' = IF size - generated > BlockLen THEN generated + BlockLen
                                                         ELSE size
          /\ UNCHANGED randPc
     ELSE randPc' = "encode" /\ UNCHANGED generated
  /\ UNCHANGED <<randRet, optind, outFile, flags, scan, size, trouble, Outside>>

Encode ==
  /\ randPc = "encode"
  /\ randPc' = "write"
  /\ size' = IF "hex" \in flags THEN 2 * size
             ELSE IF "base64" \in flags THEN Base64Size(size) ELSE size
  /\ UNCHANGED <<randRet, optind, outFile, flags, scan, generated, trouble, Outside>>

(* malloc, the generator, the stream for stdout or the encoder fails.      *)
PrepareFails ==
  /\ randPc \in {"alloc", "fill", "encode"} /\ Trouble
  /\ UNCHANGED <<optind, outFile, flags, scan, size, generated, Outside>>

(* Hexadecimal digits on stdout are followed by a new line.                *)
Write ==
  /\ randPc = "write"
  /\ randPc' = "done"
  /\ IF outFile # None
     THEN file' = size /\ UNCHANGED stdout
     ELSE stdout' = (IF "hex" \in flags THEN size + 1 ELSE size) /\ UNCHANGED file
  /\ UNCHANGED <<randRet, argv, optind, outFile, flags, scan, size, generated, trouble>>

(* Part of it is written, the rest is not.                                 *)
WriteFails ==
  /\ randPc = "write" /\ Trouble
  /\ \E n \in 0 .. size - 1 :
       IF outFile # None THEN file' = n /\ UNCHANGED stdout
                         ELSE stdout' = n /\ UNCHANGED file
  /\ UNCHANGED <<argv, optind, outFile, flags, scan, size, generated>>

(* Nobody looks whether the new line was written, nor whether closing the  *)
(* stream has lost what was.                                               *)
WriteIsLost ==
  /\ randPc = "write" /\ randPc' = "done" /\ trouble' = TRUE
  /\ \E n \in 0 .. size :
       /\ n = size => outFile = None /\ "hex" \in flags
       /\ IF outFile # None THEN file' = n /\ UNCHANGED stdout
                            ELSE stdout' = n /\ UNCHANGED file
  /\ UNCHANGED <<randRet, argv, optind, outFile, flags, scan, size, generated>>

RandEnded == randPc = "done" /\ UNCHANGED randVars

RandNext ==
  \/ AskHelp \/ NextOption
  \/ ScanValue \/ ScanOption \/ ScanHelp \/ ScanRefuse \/ ScanCount \/ TakeCount
  \/ Open \/ OpenFails \/ Allocate \/ Fill \/ Encode \/ PrepareFails
  \/ Write \/ WriteFails \/ WriteIsLost \/ RandEnded

RandSpec == RandInit /\ [][RandNext]_randVars

-----------------------------------------------------------------------------
(* What a command line means, said without scanning it.  A line with one   *)
(* -out at most binds the token after it, and no other.                    *)

Args == 3 .. Len(argv)

Helped == argv[Len(argv)] \in Helps

Bound(i) == i > 3 /\ argv[i - 1] = "-out"

Counts == {i \in Args : ~Bound(i) /\ argv[i] \notin Dashed}

Wants(flag) == \E i \in Args : argv[i] = flag

(* No option twice, no -out without a value, no flag that is unknown, one  *)
(* number and only one, in range, and one form of output.                  *)
Valid ==
  /\ \A i, j \in Args : argv[i] = argv[j] /\ argv[i] \in OptionNames => i = j
  /\ \A i \in Args : argv[i] = "-out" => i < Len(argv)
  /\ \A i \in Args : argv[i] \in Dashed \ (OptionNames \cup Helps) => Bound(i)
  /\ \E i \in Counts :
       /\ Counts = {i}
       /\ Atoi[argv[i]] > 0
       /\ Wants("-hex") \/ Wants("-base64") => Atoi[argv[i]] <= IntMax \div 2
  /\ ~(Wants("-hex") /\ Wants("-base64"))

TheCount == Atoi[argv[CHOOSE i \in Counts : TRUE]]

(* Whoever names a file gets nothing on the standard output, whatever else *)
(* is wrong with the line and wherever the file's name is missing.         *)
NoLeak == Wants("-out") => stdout = 0

(* An existing file is emptied only for a command line that is right in    *)
(* every respect: the rescan and the limits come first.                    *)
NotTruncated == file # Untouched => Valid /\ ~Helped

(* The two scans together accept exactly the lines that are valid.         *)
Decides == randPc = "done" /\ ~trouble => (randRet = Success <=> Helped \/ Valid)

(* A command that reports success has filled its buffer with as many random*)
(* bytes as the line asks for, and put them out in the form it asks for, in*)
(* one place, unless they were lost as the stream was closed.              *)
WholeOutput ==
  randPc = "done" /\ randRet = Success /\ ~Helped =>
    LET n    == TheCount
        form == IF Wants("-hex") THEN 2 * n
                ELSE IF Wants("-base64") THEN Base64Size(n) ELSE n
    IN  /\ generated = n
        /\ Wants("-out") \/ file = Untouched
        /\ ~trouble => IF Wants("-out") THEN file = form
                       ELSE stdout = form + IF Wants("-hex") THEN 1 ELSE 0
=============================================================================
