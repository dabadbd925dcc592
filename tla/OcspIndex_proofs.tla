---------------------------- MODULE OcspIndex_proofs ----------------------------
(***************************************************************************)
(* That the responder serves what its index says, for index files of any   *)
(* length and any number of failures.                                      *)
(***************************************************************************)
EXTENDS OcspIndex, TLAPS

\* Entry k and line i are the last about serial s among the first ones.
LastEntry(s, k, n) ==
  k \in 1 .. n /\ entries[k].serial = s /\ \A m \in 1 .. n : entries[m].serial = s => m <= k
LastLine(s, i) == i \in 1 .. line /\ i \in About(s) /\ \A j \in 1 .. line : j \in About(s) => j <= i

NoEntry(s, n) == \A k \in 1 .. n : entries[k].serial # s
NoLine(s) == \A i \in 1 .. line : i \notin About(s)

\* Every entry comes from a line, ...
EntriesAreLines ==
  \A k \in 1 .. Len(entries) :
    \E i \in 1 .. line : Kept(index[i]) /\ entries[k] = EntryOf(index[i])

\* ... and without failures the last entry about a serial from the last line.
Parsed ==
  failures = 0 => \A s \in Serials :
    \/ NoLine(s) /\ NoEntry(s, Len(entries))
    \/ \E i, k \in Nat :
         /\ LastLine(s, i) /\ LastEntry(s, k, Len(entries))
         /\ entries[k].status = index[i].status

\* What the responder has is what the entries handed on so far say.
Populated ==
  failures = 0 => \A s \in Serials :
    \/ NoEntry(s, entry) /\ table[s] = "absent"
    \/ \E k \in Nat : LastEntry(s, k, entry) /\ table[s] = StatusOf(entries[k].status)

Order ==
  /\ pc = "parse" => entry = 0
  /\ pc # "parse" /\ failures = 0 => line = Len(index)
  /\ pc = "listen" => entry = Len(entries)

Vouched ==
  \A s \in Serials : table[s] = "good" =>
    \E i \in DOMAIN index : Kept(index[i]) /\ Serial(index[i]) = s /\ index[i].status = "V"

IInv == TypeOK /\ EntriesAreLines /\ Parsed /\ Populated /\ Order /\ Vouched

-----------------------------------------------------------------------------
LEMMA IndexLines ==
  ASSUME IndexConstants, index \in Files
  PROVE  /\ index \in Seq(Lines) /\ Len(index) \in Nat
         /\ \A i \in 1 .. Len(index) : index[i] \in Lines
  BY DEF IndexConstants

\* A line is kept for a serial just if it says something about it.
LEMMA KeptIsAbout ==
  ASSUME IndexConstants, index \in Files, NEW s \in Serials, NEW i \in 1 .. Len(index)
  PROVE  i \in About(s) <=> Kept(index[i]) /\ Serial(index[i]) = s
<1> DEFINE l == index[i]
<1>1. l \in Lines /\ i \in DOMAIN index
  BY IndexLines
<1>2. s # NoSerial /\ s # "overlong"
  BY DEF IndexConstants, BadSerials
<1>3. /\ l.blank \in BOOLEAN /\ l.fields \in Int
      /\ l.revocation \in {"empty", "short", "valid", "invalid"}
  BY <1>1 DEF Lines
<1>4. l.fields >= 4 => (RevocationTime(l) = "invalid" <=> l.revocation = "invalid")
  BY <1>3 DEF RevocationTime
<1>5. l.fields >= 4 => (Serial(l) = s <=> l.serial = s)
  BY <1>2, <1>3 DEF Serial
<1> HIDE DEF l
<1>6. (i \in About(s)) <=> /\ ~l.blank /\ l.serial = s /\ l.fields >= 4
                           /\ (l.status = "R" => l.revocation # "invalid")
  BY <1>1 DEF About, l
<1> QED BY <1>2, <1>4, <1>5, <1>6 DEF Kept, l

LEMMA EntryParts ==
  ASSUME NEW l \in Lines
  PROVE  EntryOf(l) \in Entries /\ EntryOf(l).serial = Serial(l) /\ EntryOf(l).status = l.status
<1>1. Serial(l) \in Serials \cup BadSerials
  BY DEF Serial, Lines, BadSerials
<1>2. RevocationTime(l) \in {"zero", "valid", "invalid"}
  BY DEF RevocationTime
<1>3. l.status \in {"V", "R", "E"}
  BY DEF Lines
<1> QED BY <1>1, <1>2, <1>3 DEF EntryOf, Entries

\* A line that is kept adds an entry and one that is not adds none.
LEMMA ParseStep == ASSUME IndexConstants, IInv, ParseLine PROVE IInv'
<1> DEFINE l == index[line + 1]
<1> USE DEF IInv
<1>1. /\ UNCHANGED <<index, pc, entry, table, failures>> /\ line' = line + 1
      /\ pc = "parse" /\ entry = 0
      /\ index \in Files /\ line \in Nat /\ line + 1 \in 1 .. Len(index) /\ l \in Lines
      /\ entries \in Seq(Entries) /\ Len(entries) \in Nat
  <2>1. index \in Files /\ line \in 0 .. Len(index) /\ line < Len(index)
    BY DEF ParseLine, TypeOK
  <2> QED BY <2>1, IndexLines DEF ParseLine, TypeOK, Order
<1>2. \/ /\ Kept(l) /\ entries' = Append(entries, EntryOf(l))
         /\ Len(entries') = Len(entries) + 1
         /\ entries'[Len(entries) + 1] = EntryOf(l)
      \/ ~Kept(l) /\ entries' = entries
  BY <1>1, EntryParts DEF ParseLine
<1>3. \A k \in 1 .. Len(entries) : entries'[k] = entries[k]
  BY <1>1, <1>2, EntryParts
<1>4. entries' \in Seq(Entries)
  BY <1>1, <1>2, EntryParts
<1>5. TypeOK'
  BY <1>1, <1>2, <1>4 DEF TypeOK
<1>6. Order' /\ Vouched'
  BY <1>1 DEF Order, Vouched
<1>7. EntriesAreLines'
  BY <1>1, <1>2, <1>3 DEF EntriesAreLines
<1>8. Populated'
  BY <1>1, <1>2, <1>3 DEF Populated, NoEntry, LastEntry
<1>9. Parsed'
  <2> SUFFICES ASSUME failures = 0, NEW s \in Serials
               PROVE  \/ NoLine(s)' /\ NoEntry(s, Len(entries))'
                      \/ \E i, k \in Nat :
                           /\ LastLine(s, i)' /\ LastEntry(s, k, Len(entries))'
                           /\ entries'[k].status = index[i].status
    BY <1>1 DEF Parsed
  <2>1. (About(s) = About(s)') /\ (line + 1 \in About(s) <=> Kept(l) /\ Serial(l) = s)
    BY <1>1, KeptIsAbout DEF About
  <2>2. CASE Kept(l) /\ Serial(l) = s
    <3>1. PICK i \in Nat : i = line + 1
      BY <1>1
    <3>2. PICK k \in Nat : k = Len(entries) + 1
      BY <1>1
    <3>3. LastLine(s, i)'
      BY <1>1, <2>1, <2>2, <3>1 DEF LastLine
    <3>4. LastEntry(s, k, Len(entries))' /\ entries'[k].status = index[i].status
      BY <1>1, <1>2, <2>2, <3>1, <3>2, EntryParts DEF LastEntry
    <3> QED BY <3>3, <3>4
  <2>3. CASE ~(Kept(l) /\ Serial(l) = s)
    <3>1. \A k \in 1 .. Len(entries') : k \notin 1 .. Len(entries) => entries'[k].serial # s
      BY <1>1, <1>2, <2>3, EntryParts
    <3>2. NoLine(s) => NoLine(s)'
      BY <1>1, <2>1, <2>3 DEF NoLine
    <3>3. NoEntry(s, Len(entries)) => NoEntry(s, Len(entries))'
      BY <1>3, <3>1 DEF NoEntry
    <3>4. ASSUME NEW i \in Nat, NEW k \in Nat,
                 LastLine(s, i), LastEntry(s, k, Len(entries)), entries[k].status = index[i].status
          PROVE  /\ LastLine(s, i)' /\ LastEntry(s, k, Len(entries))'
                 /\ entries'[k].status = index[i].status
      <4>1. LastLine(s, i)'
        BY <1>1, <2>1, <2>3, <3>4 DEF LastLine
      <4>2. k \in 1 .. Len(entries) /\ k \in 1 .. Len(entries') /\ entries'[k] = entries[k]
        BY <1>1, <1>2, <1>3, <3>4 DEF LastEntry
      <4>3. LastEntry(s, k, Len(entries))'
        BY <1>1, <1>3, <3>1, <3>4, <4>2 DEF LastEntry
      <4> QED BY <3>4, <4>1, <4>2, <4>3
    <3> QED BY <3>2, <3>3, <3>4 DEF Parsed
  <2> QED BY <2>2, <2>3
<1> QED BY <1>5, <1>6, <1>7, <1>8, <1>9

\* An entry is handed on: its serial, if it is one, gets its status.
LEMMA PopulateStep == ASSUME IndexConstants, IInv, Populate PROVE IInv'
<1> DEFINE e == entries[entry + 1]
<1> USE DEF IInv
<1>1. /\ UNCHANGED <<index, pc, line, entries, failures>> /\ entry' = entry + 1
      /\ pc = "populate" /\ entry \in Nat /\ entry + 1 \in 1 .. Len(entries)
      /\ e \in Entries
      /\ index \in Files /\ line \in 0 .. Len(index) /\ Len(index) \in Nat
      /\ table' = IF e.serial \in Serials THEN [table EXCEPT ![e.serial] = StatusOf(e.status)]
                  ELSE table
  BY IndexLines DEF Populate, TypeOK
<1>2. TypeOK'
  <2>1. StatusOf(e.status) \in {"absent", "good", "revoked", "unknown"}
    BY DEF StatusOf
  <2> QED BY <1>1, <2>1 DEF TypeOK
<1>3. \A s \in Serials : table'[s] = IF s = e.serial THEN StatusOf(e.status) ELSE table[s]
  BY <1>1 DEF TypeOK
<1>4. EntriesAreLines' /\ Parsed' /\ Order'
  <2>1. EntriesAreLines' /\ Order'
    BY <1>1 DEF EntriesAreLines, Order
  <2>2. Parsed'
    BY <1>1 DEF Parsed, NoLine, NoEntry, LastLine, LastEntry, About
  <2> QED BY <2>1, <2>2
<1>5. Populated'
  <2> SUFFICES ASSUME failures = 0, NEW s \in Serials
               PROVE  \/ NoEntry(s, entry)' /\ table'[s] = "absent"
                      \/ \E k \in Nat :
                           LastEntry(s, k, entry)' /\ table'[s] = StatusOf(entries[k].status)
    BY <1>1 DEF Populated
  <2>1. CASE e.serial = s
    <3>1. PICK k \in Nat : k = entry + 1
      BY <1>1
    <3>2. LastEntry(s, k, entry)'
      BY <1>1, <2>1, <3>1 DEF LastEntry
    <3> QED BY <1>1, <1>3, <2>1, <3>1, <3>2
  <2>2. CASE e.serial # s
    <3>1. table'[s] = table[s]
      BY <1>3, <2>2
    <3>2. NoEntry(s, entry) => NoEntry(s, entry)'
      BY <1>1, <2>2 DEF NoEntry
    <3>3. \A k \in Nat : LastEntry(s, k, entry) => LastEntry(s, k, entry)'
      BY <1>1, <2>2 DEF LastEntry
    <3> QED BY <3>1, <3>2, <3>3 DEF Populated
  <2> QED BY <2>1, <2>2
<1>6. Vouched'
  <2> SUFFICES ASSUME NEW s \in Serials, table'[s] = "good"
               PROVE  \E i \in DOMAIN index :
                        Kept(index[i]) /\ Serial(index[i]) = s /\ index[i].status = "V"
    BY <1>1 DEF Vouched
  <2>1. CASE e.serial # s
    BY <1>3, <2>1 DEF Vouched
  <2>2. CASE e.serial = s
    <3>1. PICK i \in 1 .. line : Kept(index[i]) /\ e = EntryOf(index[i])
      BY <1>1 DEF EntriesAreLines
    <3>2. i \in DOMAIN index /\ i \in 1 .. Len(index) /\ index[i] \in Lines
      BY <1>1, IndexLines
    <3>3. e.status = "V"
      BY <1>3, <2>2 DEF StatusOf
    <3> QED BY <2>2, <3>1, <3>2, <3>3, EntryParts
  <2> QED BY <2>1, <2>2
<1> QED BY <1>2, <1>4, <1>5, <1>6

\* Failures and the steps from one loop to the next.
LEMMA OtherSteps ==
  ASSUME IndexConstants, IInv,
         OpenFails \/ EntryFails \/ ParseEnds \/ PopulateFails \/ PopulateEnds \/ UNCHANGED vars
  PROVE  IInv'
<1> USE DEF IInv
<1>1. CASE OpenFails \/ EntryFails \/ PopulateFails
  <2>1. /\ failures' = failures + 1 /\ failures \in Nat
        /\ UNCHANGED <<index, entries, table>> /\ index \in Files /\ Len(index) \in Nat
        /\ line' \in {line, line + 1} /\ line' <= Len(index)
        /\ entry' \in {entry, entry + 1} /\ entry' <= Len(entries)
        /\ pc' = "populate" /\ pc \in {"parse", "populate"}
    <3>1. index \in Files /\ Len(index) \in Nat /\ Len(entries) \in Nat
      BY IndexLines DEF TypeOK
    <3>2. line \in 0 .. Len(index) /\ entry \in 0 .. Len(entries) /\ failures \in Nat
      BY DEF TypeOK
    <3> QED BY <1>1, <3>1, <3>2 DEF OpenFails, EntryFails, PopulateFails
  <2>2. TypeOK'
    BY <2>1 DEF TypeOK
  <2>3. Parsed' /\ Populated' /\ Order' /\ Vouched'
    BY <2>1 DEF Parsed, Populated, Order, Vouched
  <2>4. EntriesAreLines'
    <3>1. 1 .. line \subseteq 1 .. line'
      BY <2>1 DEF TypeOK
    <3> QED BY <2>1, <3>1 DEF EntriesAreLines
  <2> QED BY <2>2, <2>3, <2>4
<1>2. CASE ParseEnds \/ PopulateEnds \/ UNCHANGED vars
  <2>1. /\ UNCHANGED <<index, line, entries, entry, table, failures>>
        /\ \/ pc = "parse" /\ pc' = "populate" /\ line = Len(index)
           \/ pc = "populate" /\ pc' = "listen" /\ entry = Len(entries)
           \/ pc' = pc
    BY <1>2 DEF ParseEnds, PopulateEnds, vars
  <2>2. TypeOK'
    BY <2>1 DEF TypeOK
  <2>3. EntriesAreLines' /\ Order' /\ Vouched'
    BY <2>1 DEF EntriesAreLines, Order, Vouched
  <2>4. Parsed' /\ Populated'
    BY <2>1 DEF Parsed, Populated, NoLine, NoEntry, LastLine, LastEntry, About
  <2> QED BY <2>2, <2>3, <2>4
<1> QED BY <1>1, <1>2

LEMMA InitInv == ASSUME IndexConstants, Init PROVE IInv
<1>1. TypeOK
  BY IndexLines DEF Init, TypeOK
<1>2. EntriesAreLines /\ Order /\ Vouched
  BY DEF Init, EntriesAreLines, Order, Vouched
<1>3. Parsed /\ Populated
  BY DEF Init, Parsed, Populated, NoLine, NoEntry
<1> QED BY <1>1, <1>2, <1>3 DEF IInv

THEOREM Invariance == ASSUME IndexConstants PROVE Spec => []IInv
<1>1. Init => IInv
  BY InitInv
<1>2. IInv /\ [Next]_vars => IInv'
  BY ParseStep, PopulateStep, OtherSteps DEF Next
<1> QED BY <1>1, <1>2, PTL DEF Spec

\* Without failures the responder has the last line about each serial.
LEMMA LastLineServed == ASSUME IndexConstants, IInv PROVE ServesTheIndex
<1> SUFFICES ASSUME pc = "listen", failures = 0, NEW s \in Serials
             PROVE  IF About(s) = {} THEN table[s] = "absent"
                    ELSE \E i \in About(s) :
                           (\A j \in About(s) : j <= i) /\ table[s] = StatusOf(index[i].status)
  BY DEF ServesTheIndex
<1>1. line = Len(index) /\ entry = Len(entries) /\ About(s) \subseteq 1 .. line
  <2>1. DOMAIN index = 1 .. Len(index)
    BY IndexLines DEF IInv, TypeOK
  <2> QED BY <2>1 DEF IInv, Order, About
<1>2. CASE NoLine(s) /\ NoEntry(s, Len(entries))
  <2>1. About(s) = {}
    BY <1>1, <1>2 DEF NoLine
  <2>2. table[s] = "absent"
    BY <1>1, <1>2 DEF IInv, Populated, NoEntry, LastEntry
  <2> QED BY <2>1, <2>2
<1>3. CASE ~(NoLine(s) /\ NoEntry(s, Len(entries)))
  <2>1. PICK i, k \in Nat :
          /\ LastLine(s, i) /\ LastEntry(s, k, Len(entries))
          /\ entries[k].status = index[i].status
    BY <1>3 DEF IInv, Parsed
  <2>2. PICK m \in Nat : LastEntry(s, m, entry) /\ table[s] = StatusOf(entries[m].status)
    BY <1>1, <2>1 DEF IInv, Populated, NoEntry, LastEntry
  <2>3. m = k
    BY <1>1, <2>1, <2>2 DEF LastEntry
  <2>4. i \in About(s) /\ \A j \in About(s) : j <= i
    BY <1>1, <2>1 DEF LastLine
  <2> QED BY <2>1, <2>2, <2>3, <2>4
<1> QED BY <1>2, <1>3

\* No certificate is good that the CA did not list as valid, whatever fails.
LEMMA OnlyVouchedIsGood == ASSUME IndexConstants, IInv PROVE GoodIsVouched
<1> SUFFICES ASSUME NEW s \in Serials, table[s] = "good" PROVE Saying(s, "V") # {}
  BY DEF GoodIsVouched
<1>1. PICK i \in DOMAIN index :
        Kept(index[i]) /\ Serial(index[i]) = s /\ index[i].status = "V"
  BY DEF IInv, Vouched
<1>2. i \in 1 .. Len(index) /\ index \in Files
  BY IndexLines DEF IInv, TypeOK
<1>3. i \in About(s)
  BY <1>1, <1>2, KeptIsAbout
<1> QED BY <1>1, <1>3 DEF Saying

\* The responder answers with the last line of the index about a serial, or not
\* at all; and good only what the index has as valid.
THEOREM Served == ASSUME IndexConstants PROVE Spec => []IndexIsServed
<1>1. IInv => IndexIsServed
  BY LastLineServed, OnlyVouchedIsGood DEF IInv, IndexIsServed
<1> QED BY <1>1, Invariance, PTL
===============================================================================
