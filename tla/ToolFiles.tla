------------------------------ MODULE ToolFiles ------------------------------
(***************************************************************************)
(* What the tools that work from file to file read and write, and the      *)
(* helpers of src/tools/clu_funcs.c and src/x509/clu_parse.c they share.   *)
(* The content of a file is a sequence of blocks; a file that was opened   *)
(* for writing and got nothing is the empty sequence.  What is inside a    *)
(* block is the library's business: a block only says what it is, of what, *)
(* in which form, and what password opens it.                              *)
(***************************************************************************)
EXTENDS ErrorCodes, Sequences, SequencesExt, FiniteSets

CONSTANT None   \* C's NULL: an option not given, a key not found

Absent == << None >>    \* the content of a file that is not there
Unwritable == "dir/"    \* a name that cannot be opened for writing

InputError == "USER_INPUT_ERROR"    \* what ErrorCodes has as a number

\* wolfCLU_printDer writes such a block, in PEM.
Block(kind, of, form) ==
  [kind |-> kind, of |-> of, form |-> form, coat |-> "plain", pass |-> None]
Sealed(key, pass) ==
  [Block("private", key, "PEM") EXCEPT !.coat = "sealed", !.pass = pass]

(* wolfCLU_checkInform and wolfCLU_checkOutform; most callers do not look  *)
(* at the error they return, and then it is neither PEM_FORM nor DER_FORM. *)
CheckForm(arg) == IF arg \in {"PEM", "DER", "RAW"} THEN arg ELSE InputError
FormOf(arg, default) == IF arg = None THEN default ELSE CheckForm(arg)

(* wolfCLU_GetPassword: "pass:..." and "stdin" are understood.             *)
Password(arg) == [ret |-> IF arg.source \in {"pass", "stdin"} /\ arg.text # None
                          THEN Success ELSE FatalError,
                  text |-> arg.text]

Padded(text) == text \o " and zeros"

(* wolfCLU_GetStdinPassword leaves the buffer alone when standard input is *)
(* no terminal, and its size too: what is used is then what was in the     *)
(* buffer, padded with zeros.  When there is nothing to read, the old text *)
(* counts.  Its callers do not look at what it returns.                    *)
StdinPassword(typed, old) ==
  CASE typed = "no terminal" -> Padded(old)
    [] typed = "nothing"     -> old
    [] OTHER                 -> typed

-----------------------------------------------------------------------------
(* Reading keys (the library).  From a PEM file the first block of the     *)
(* kind is taken, from a DER file the file.                                *)

FirstPem(content, kind) ==
  LET them == {i \in DOMAIN content :
                 content[i] # None /\ content[i].kind = kind /\ content[i].form = "PEM"}
  IN  IF them = {} THEN None ELSE content[CHOOSE i \in them : \A j \in them : i <= j]

OnlyDer(content, kind) ==
  IF content # << >> /\ content # Absent /\ content[1].kind = kind /\ content[1].form = "DER"
  THEN content[1] ELSE None

Found(content, kind, form) ==
  IF form = "PEM" THEN FirstPem(content, kind) ELSE OnlyDer(content, kind)

Opens(block, pass) == block # None /\ (block.coat = "sealed" => pass # None /\ pass = block.pass)

\* The certificates of a bundle or a message that the library can take apart,
\* and how they are written.
Parses(certs) ==
  IsFiniteSet(DOMAIN certs) /\ DOMAIN certs = 1 .. Cardinality(DOMAIN certs)
CertBlocks(certs) == [i \in DOMAIN certs |-> Block("cert", certs[i], "PEM")]

ReadPrivate(content, form, pass) ==
  LET b == Found(content, "private", form) IN IF Opens(b, pass) THEN b.of ELSE None

ReadPublic(content, form) ==
  LET b == Found(content, "public", form) IN IF b = None THEN None ELSE b.of

-----------------------------------------------------------------------------
(* wolfCLU_GetOpt over a command's table, for the commands that go on      *)
(* after an error.  An option that is there twice is not taken at all.     *)
Given(c, option, arg) == IF c.twice = option THEN None ELSE arg

Fails(c, option, disk) ==
  \/ c.twice = option
  \/ option = "-in" /\ c.in # None /\ disk[c.in] = Absent
  \/ option = "-out" /\ c.out = Unwritable
  \/ option = "-passin" /\ c.passin # None /\ Password(c.passin).ret # Success

(* The first option of the table whose error can still be seen at the end: *)
(* "ret = wolfCLU_GetPassword(...)" writes over the errors before it.      *)
FirstSeen(table, c) ==
  IF Given(c, "-passin", c.passin) # None /\ Contains(table, "-passin")
  THEN CHOOSE i \in DOMAIN table : table[i] = "-passin" ELSE 1

ScanErrors(table, c, disk) ==
  IF \E i \in FirstSeen(table, c) .. Len(table) : Fails(c, table[i], disk)
  THEN FatalError ELSE Success

(* What a scan leaves open, and set.                                       *)
InOpened(c, disk) == Given(c, "-in", c.in) # None /\ disk[c.in] # Absent
OutOpened(c) == Given(c, "-out", c.out) \notin {None, Unwritable}
Has(c, flag) == flag \in c.flags /\ c.twice # flag
InForm(c) == IF FormOf(Given(c, "-inform", c.inform), "PEM") = "PEM" THEN "PEM" ELSE "DER"
OutForm(c) == FormOf(Given(c, "-outform", c.outform), "PEM")

(* What a tool has in memory once it has read its files, and what it gives *)
(* to the stream of its output.                                            *)
Loaded(ret, what) == [ret |-> ret, what |-> what]
Made(ret, blocks) == [ret |-> ret, blocks |-> blocks]
Refused == Made(FatalError, << >>)
=============================================================================
