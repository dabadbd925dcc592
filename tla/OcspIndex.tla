------------------------------ MODULE OcspIndex ------------------------------
(***************************************************************************)
(* From the CA's index.txt to the statuses the responder serves            *)
(* (src/src/ocsp/clu_ocsp.c): parseIndexFile makes a list of the lines     *)
(* worth keeping, and ocspResponder hands the list to wolfSSL, once, before *)
(* it listens.  OcspResponder takes the resulting certStatus as given.     *)
(*                                                                         *)
(* A line is what the parser can tell of it: how many fields it has, the   *)
(* status letter, what the revocation time is like and the serial.         *)
(***************************************************************************)
EXTENDS Integers, Sequences

CONSTANTS
  Serials,     \* serial numbers
  Files,       \* the index files to read
  MaxFailures  \* bound on allocations and calls that fail

\* Field 3 of a line that no status can come of: empty, longer than an entry
\* holds, or not hexadecimal.
NoSerial == "empty"
BadSerials == {NoSerial, "overlong", "nonhex"}

\* revocation: the field is empty, shorter than twelve characters, a time that
\* mktime() accepts, or one that it returns -1 for.
Lines ==
  [blank : BOOLEAN, fields : 1 .. 6, status : {"V", "R", "E"},
   revocation : {"empty", "short", "valid", "invalid"}, serial : Serials \cup BadSerials]

(* What the constants have to be; ResponderInputs assumes it.              *)
IndexConstants ==
  Files \subseteq Seq(Lines) /\ Serials \cap BadSerials = {} /\ MaxFailures \in Nat

Entries ==
  [status : {"V", "R", "E"}, revocationTime : {"zero", "valid", "invalid"}, serial : Serials \cup BadSerials]

VARIABLES
  index,    \* the file
  pc,
  line,     \* lines read
  entries,  \* the list parseIndexFile builds
  entry,    \* entries handed to wolfSSL
  table,    \* the statuses wolfSSL holds
  failures  \* allocations and calls that failed

vars == <<index, pc, line, entries, entry, table, failures>>

Init ==
  /\ index \in Files
  /\ pc = "parse"
  /\ line = 0
  /\ entries = << >>
  /\ entry = 0
  /\ table = [s \in Serials |-> "absent"]
  /\ failures = 0

MayFail == failures < MaxFailures

-----------------------------------------------------------------------------
(***************************************************************************)
(* parseIndexFile.                                                         *)
(***************************************************************************)

\* The file may be missing: a list without entries.
OpenFails ==
  /\ pc = "parse" /\ line = 0
  /\ MayFail
  /\ failures' = failures + 1
  /\ pc' = "populate"
  /\ UNCHANGED <<index, line, entries, entry, table>>

\* An entry starts zeroed and a field that is too short to be a time leaves it so.
RevocationTime(l) ==
  IF l.fields < 3 \/ l.revocation \in {"empty", "short"} THEN "zero"
  ELSE IF l.revocation = "valid" THEN "valid"
  ELSE "invalid"

Serial(l) == IF l.fields < 4 \/ l.serial = "overlong" THEN NoSerial ELSE l.serial

EntryOf(l) == [status |-> l.status, revocationTime |-> RevocationTime(l), serial |-> Serial(l)]

Kept(l) ==
  /\ ~l.blank
  /\ l.fields >= 4
  /\ Serial(l) # NoSerial
  /\ ~(l.status = "R" /\ RevocationTime(l) = "invalid")

BadParseLine == \* a line to skip ends the loop
  /\ pc = "parse" /\ line < Len(index)
  /\ line' = line + 1
  /\ IF Kept(index[line + 1])
       THEN entries' = Append(entries, EntryOf(index[line + 1])) /\ UNCHANGED pc
       ELSE pc' = "populate" /\ UNCHANGED entries
  /\ UNCHANGED <<index, entry, table, failures>>

ParseLine ==
  /\ pc = "parse" /\ line < Len(index)
  /\ line' = line + 1
  /\ entries' = IF Kept(index[line + 1])
                  THEN Append(entries, EntryOf(index[line + 1])) ELSE entries
  /\ UNCHANGED <<index, pc, entry, table, failures>>

\* Out of memory: what has been read so far is the list.
EntryFails ==
  /\ pc = "parse" /\ line < Len(index)
  /\ ~index[line + 1].blank
  /\ MayFail
  /\ failures' = failures + 1
  /\ line' = line + 1
  /\ pc' = "populate"
  /\ UNCHANGED <<index, entries, entry, table>>

ParseEnds ==
  /\ pc = "parse" /\ line = Len(index)
  /\ pc' = "populate"
  /\ UNCHANGED <<index, line, entries, entry, table, failures>>

-----------------------------------------------------------------------------
(***************************************************************************)
(* Population of the responder.                                            *)
(***************************************************************************)

StatusOf(letter) ==
  CASE letter = "V" -> "good" [] letter = "R" -> "revoked" [] OTHER -> "unknown"

\* An entry whose serial is not hexadecimal is skipped; a later entry about
\* the same serial replaces an earlier one.
Populate ==
  /\ pc = "populate" /\ entry < Len(entries)
  /\ entry' = entry + 1
  /\ LET e == entries[entry + 1] IN
       table' = IF e.serial \in Serials
                  THEN [table EXCEPT ![e.serial] = StatusOf(e.status)] ELSE table
  /\ UNCHANGED <<index, pc, line, entries, failures>>

\* wolfCLU_hexToBin runs out of memory, or wc_OcspResponder_SetCertStatus
\* fails, whose result is not looked at.
PopulateFails ==
  /\ pc = "populate" /\ entry < Len(entries)
  /\ MayFail
  /\ failures' = failures + 1
  /\ entry' = entry + 1
  /\ UNCHANGED <<index, pc, line, entries, table>>

PopulateEnds ==
  /\ pc = "populate" /\ entry = Len(entries)
  /\ pc' = "listen"
  /\ UNCHANGED <<index, line, entries, entry, table, failures>>

-----------------------------------------------------------------------------
Next ==
  \/ OpenFails \/ ParseLine \/ EntryFails \/ ParseEnds
  \/ Populate \/ PopulateFails \/ PopulateEnds

Spec == Init /\ [][Next]_vars

-----------------------------------------------------------------------------
(***************************************************************************)
(* Properties.                                                             *)
(***************************************************************************)

\* Every variable stays in its type.
TypeOK ==
  /\ index \in Files
  /\ pc \in {"parse", "populate", "listen"}
  /\ line \in 0 .. Len(index)
  /\ entries \in Seq(Entries)
  /\ entry \in 0 .. Len(entries)
  /\ table \in [Serials -> {"absent", "good", "revoked", "unknown"}]
  /\ failures \in Nat

\* The lines of the file that say something about serial s: whole lines with
\* a serial, and a usable time when they revoke.
About(s) ==
  {i \in DOMAIN index :
     /\ ~index[i].blank
     /\ index[i].serial = s
     /\ index[i].fields >= 4
     /\ index[i].status = "R" => index[i].revocation # "invalid"}

Saying(s, letter) == {i \in About(s) : index[i].status = letter}

\* When nothing failed every serial is served with what the last line about it
\* says, and only serials of the index are known.
ServesTheIndex ==
  (pc = "listen" /\ failures = 0) =>
    \A s \in Serials :
      IF About(s) = {} THEN table[s] = "absent"
      ELSE \E i \in About(s) :
             (\A j \in About(s) : j <= i) /\ table[s] = StatusOf(index[i].status)

\* Whatever fails on the way (a file half read, an entry that could not be
\* added), no serial is vouched for that the index does not call valid.
GoodIsVouched ==
  \A s \in Serials : table[s] = "good" => Saying(s, "V") # {}

\* Both, and the types of the loader's state: what a run checks of this module
\* as one property.
IndexIsServed == TypeOK /\ ServesTheIndex /\ GoodIsVouched
=============================================================================
