---------------------------- MODULE CryptCommand ----------------------------
(***************************************************************************)
(* A file through "wolfssl enc" and back through "wolfssl enc -d" with the *)
(* same options: which of the keys and passwords given is used             *)
(* (src/crypto/clu_crypto_setup.c), and the two ways of enciphering, with  *)
(* an EVP cipher (clu_evp_crypto.c) and without one, for Camellia          *)
(* (clu_encrypt.c, clu_decrypt.c, wolfCLU_genKey_PWDBASED).                *)
(*                                                                         *)
(* A byte is a record of which byte it is and of its value.  A cipher      *)
(* keeps its offset: deciphered at another, or with another key, it is     *)
(* lost.  An option's value is named by the option.  No key is all zeros.  *)
(***************************************************************************)
EXTENDS ErrorCodes, Sequences

CONSTANTS
  MaxLen,       \* MAX_LEN, WOLFCLU_MAX_BUFFER: the bytes read at once
  Block,        \* the cipher's block
  SaltAndIv,    \* the size of the header of a file without EVP
  Texts,        \* the files to encipher
  Givens        \* the sets of options to give to both commands

(* crypt_options[], of which only those that choose key and salt.          *)
crypt_options == <<"-pwd", "-key", "-iv", "-inkey", "-k", "-nosalt", "-pass">>

Byte(id, val) == [id |-> id, val |-> val]
Bytes == [id : Int, val : Nat]

ASSUME CryptAssumption ==
  /\ Block \in Nat \ {0} /\ MaxLen \in Nat \ {0} /\ MaxLen % Block = 0
  /\ SaltAndIv \in Nat
  /\ Texts \subseteq Seq(Bytes)
  /\ \A g \in Givens : \A o \in g : \E i \in DOMAIN crypt_options : crypt_options[i] = o

VARIABLES
  given, evp,   \* the options given; does the algorithm have an EVP cipher?
  plain,        \* the file to encipher
  mode,         \* which of the two commands runs
  cryptPc,      \* where it is
  walked,       \* options of the table it has looked for
  settings,     \* what it took from them, and later its key
  length,       \* its count of bytes to come
  pos,          \* bytes read from its input
  padCounter,   \* padding bytes added
  stored,       \* the enciphered file
  loops,        \* currLoopFlag and lastLoopFlag
  output,       \* the chunk deciphered last
  recovered,    \* the deciphered file
  encRet, decRet, \* what the two commands return
  mishap        \* history: a call failed, or closing a file lost a write

runVars == <<given, evp, plain>>
cryptVars == <<runVars, mode, cryptPc, walked, settings, length, pos, padCounter, stored,
               loops, output, recovered, encRet, decRet, mishap>>

Running == "running"
Garbage == Byte(-1, 0)
Key(secret, salt) == [secret |-> secret, salt |-> salt]
Zeros == Key("zeros", "none")
NoSettings == [keyType |-> "NONE", keyCheck |-> FALSE, ivCheck |-> FALSE,
               pwdKeyChk |-> FALSE, pwdKey |-> "", noSalt |-> FALSE, key |-> Zeros]
NoFile == [salted |-> FALSE, salt |-> "none", key |-> Zeros, bytes |-> << >>, final |-> FALSE]

CryptStart(g, e, text) ==
  /\ given = g /\ evp = e /\ plain = text
  /\ mode = "enc" /\ cryptPc = "options" /\ walked = 0 /\ settings = NoSettings
  /\ length = 0 /\ pos = 0 /\ padCounter = 0
  /\ stored = NoFile /\ loops = [curr |-> 1, last |-> 0]
  /\ output = << >> /\ recovered = << >>
  /\ encRet = Running /\ decRet = Running /\ mishap = "none"

CryptInit == \E g \in Givens, e \in BOOLEAN, text \in Texts : CryptStart(g, e, text)

(* A command returns; after an encryption the user decrypts.               *)
Return(r) ==
  /\ cryptPc' = IF mode = "enc" /\ r = Success THEN "next" ELSE "over"
  /\ encRet' = IF mode = "enc" THEN r ELSE encRet
  /\ decRet' = IF mode = "dec" THEN r ELSE decRet
Go(there) == cryptPc' = there /\ UNCHANGED <<encRet, decRet>>

Files == <<stored, recovered>>
Progress == <<length, pos, padCounter, loops, output>>

-----------------------------------------------------------------------------
(* wolfCLU_setup.                                                          *)

Take(o, s) ==
  CASE o \in {"-pwd", "-k", "-pass"} ->
         [s EXCEPT !.pwdKey = o, !.pwdKeyChk = TRUE, !.keyType = "PASSWORD"]
    [] o \in {"-key", "-inkey"} ->
         [s EXCEPT !.key = Key(o, "none"), !.keyCheck = TRUE, !.keyType = "USER"]
    [] o = "-iv"     -> [s EXCEPT !.ivCheck = TRUE]
    [] o = "-nosalt" -> [s EXCEPT !.noSalt = TRUE]

(* The options are taken in the order of the table, whatever their order   *)
(* on the command line: the last of those that set keyType decides.        *)
ReadOption ==
  /\ cryptPc = "options" /\ walked < Len(crypt_options)
  /\ walked' = walked + 1
  /\ settings' = IF crypt_options[walked'] \in given
                 THEN Take(crypt_options[walked'], settings) ELSE settings
  /\ UNCHANGED <<runVars, mode, cryptPc, Progress, Files, encRet, decRet, mishap>>

(* A key and -iv come together; to decrypt, a key or a password has to be  *)
(* given.                                                                  *)
Acceptable ==
  /\ settings.ivCheck = settings.keyCheck
  /\ mode = "dec" => settings.keyCheck \/ settings.pwdKeyChk

(* With neither, the password is asked for; with both, it is wiped.        *)
Check ==
  /\ cryptPc = "options" /\ walked = Len(crypt_options)
  /\ Acceptable
  /\ settings' =
       [settings EXCEPT !.pwdKey = IF ~settings.keyCheck /\ ~settings.pwdKeyChk THEN "typed"
                                   ELSE IF settings.keyCheck /\ settings.pwdKeyChk THEN ""
                                   ELSE @]
  /\ Go("start")
  /\ UNCHANGED <<runVars, mode, walked, Progress, Files, mishap>>

CheckRefuses ==
  /\ cryptPc = "options" /\ walked = Len(crypt_options)
  /\ ~Acceptable
  /\ Return(FatalError)
  /\ UNCHANGED <<runVars, mode, walked, settings, Progress, Files, mishap>>

(* The second command starts afresh.                                       *)
Decrypt ==
  /\ cryptPc = "next"
  /\ mode' = "dec" /\ walked' = 0 /\ settings' = NoSettings /\ pos' = 0
  /\ Go("options")
  /\ UNCHANGED <<runVars, length, padCounter, loops, output, Files, mishap>>

(* What PBKDF2 or EVP_BytesToKey make of password and salt.                *)
Derived(salt) == Key(settings.pwdKey, salt)

(* The bytes of a chunk from the given place of the cipher's stream on.    *)
Encipher(chunk, at) == [i \in DOMAIN chunk |-> [byte |-> chunk[i], off |-> at + i]]
Decipher(chunk, at) ==
  [i \in DOMAIN chunk |-> IF chunk[i].off = at + i /\ settings.key = stored.key
                          THEN chunk[i].byte ELSE Garbage]

(* What fread returns.                                                     *)
Chunk(s) == SubSeq(s, pos + 1, IF pos + MaxLen < Len(s) THEN pos + MaxLen ELSE Len(s))

-----------------------------------------------------------------------------
(* wolfCLU_encrypt: chunks, each enciphered from the IV anew; the last one *)
(* is padded to a block, and only if it needs to be, which the first byte  *)
(* of the salt tells.                                                      *)

Missing(n) == (Block - (n % Block)) % Block

(* wolfCLU_genKey_PWDBASED: a random salt, of which the first byte is zero *)
(* if "unmarked", here left as it came.                                    *)

(* wolfCLU_genKey_PWDBASED: a random salt, its first byte zero or not.     *)
SaltMark(pad) == IF pad = 0 THEN {"unmarked"} ELSE {"marked"}

(* Length, padding, salt and key, and the header.  With -iv the salt stays *)
(* zero whether there is padding or not.                                   *)
EncStart ==
  /\ ~evp /\ mode = "enc" /\ cryptPc = "start"
  /\ padCounter' = Missing(Len(plain))
  /\ length' = Len(plain) + padCounter'
  /\ \E salt \in IF settings.ivCheck THEN {"zeros"} ELSE SaltMark(padCounter') :
       LET key == IF settings.ivCheck THEN settings.key ELSE Derived(salt)
       IN  /\ settings' = [settings EXCEPT !.key = key]
           /\ stored' = [NoFile EXCEPT !.salted = TRUE, !.salt = salt, !.key = key]
  /\ Go("loop")
  /\ UNCHANGED <<runVars, mode, walked, pos, loops, output, recovered, mishap>>

EncChunk ==
  LET read == Chunk(plain)
      full == IF Len(read) = MaxLen THEN read
              ELSE read \o [i \in 1 .. padCounter |-> Byte(0, padCounter)]
  IN  /\ ~evp /\ mode = "enc" /\ cryptPc = "loop" /\ length > 0
      /\ pos' = pos + Len(read)
      /\ length' = length - Len(full)
      /\ stored' = [stored EXCEPT !.bytes = @ \o Encipher(full, 0)]
      /\ UNCHANGED <<runVars, mode, cryptPc, walked, settings, padCounter, loops, output,
                     recovered, encRet, decRet, mishap>>

EncDone ==
  /\ ~evp /\ mode = "enc" /\ cryptPc = "loop" /\ length <= 0
  /\ Return(Success)
  /\ UNCHANGED <<runVars, mode, walked, settings, Progress, Files, mishap>>

-----------------------------------------------------------------------------
(* wolfCLU_decrypt.                                                        *)

FileLength == SaltAndIv + Len(stored.bytes)

(* The header is counted as text.                                          *)
BadChunks == (FileLength + MaxLen - 1) \div MaxLen

Chunks == (FileLength - SaltAndIv + MaxLen - 1) \div MaxLen

(* The key is the password's if a password was the last to set keyType.    *)
DecStart ==
  /\ ~evp /\ mode = "dec" /\ cryptPc = "start"
  /\ length' = FileLength
  /\ IF FileLength <= SaltAndIv
     THEN Return(FatalError) /\ UNCHANGED <<loops, settings>>
     ELSE /\ loops' = [curr |-> 1, last |-> Chunks]
          /\ settings' = [settings EXCEPT !.key = IF settings.keyType = "PASSWORD"
                                                  THEN Derived(stored.salt) ELSE @]
          /\ Go("loop")
  /\ UNCHANGED <<runVars, mode, walked, pos, padCounter, output, Files, mishap>>

(* The last chunk waits for its padding, the others are written at once;  *)
(* the end of the file before the last chunk is an error.                  *)
DecChunk ==
  LET chunk == Decipher(Chunk(stored.bytes), 0) IN
  /\ ~evp /\ mode = "dec" /\ cryptPc = "loop"
  /\ pos' = pos + Len(chunk)
  /\ IF chunk = << >>
     THEN Return(FatalError) /\ UNCHANGED <<output, length, recovered, loops>>
     ELSE /\ output' = chunk
          /\ IF loops.curr = loops.last
             THEN Go("pad") /\ UNCHANGED <<length, recovered, loops>>
             ELSE /\ recovered' = recovered \o chunk
                  /\ loops' = [loops EXCEPT !.curr = @ + 1]
                  /\ length' = length - Len(chunk)
                  /\ Go("loop")
  /\ UNCHANGED <<runVars, mode, walked, settings, padCounter, stored, mishap>>

(* The padding is taken off if the salt says that there is some; length is *)
(* then what is left of the file and its header.                           *)
DecPad ==
  LET pad  == output[Len(output)].val
      rest == length - (pad + SaltAndIv)
  IN  /\ ~evp /\ cryptPc = "pad"
      /\ IF stored.salt # "marked"
         THEN recovered' = recovered \o output /\ Return(Success)
         ELSE IF rest < 0 THEN UNCHANGED recovered /\ Return(FatalError)
         ELSE recovered' = recovered \o SubSeq(output, 1, rest) /\ Return(Success)
      /\ UNCHANGED <<runVars, mode, walked, settings, Progress, stored, mishap>>

-----------------------------------------------------------------------------
(* wolfCLU_evp_crypto, both ways: the library's cipher runs over the       *)
(* chunks, pads, and refuses bad padding.                                  *)

user == settings.keyType = "USER"
bare == user \/ settings.noSalt

(* Salt and key; the output is opened and the header written, or read.     *)
EvpStart ==
  LET salt == IF bare THEN "none" ELSE IF mode = "enc" THEN "random" ELSE stored.salt
      key  == IF user THEN settings.key ELSE Derived(salt)
  IN  /\ evp /\ cryptPc = "start"
      /\ IF mode = "dec" /\ ~bare /\ ~stored.salted
         THEN Return(FatalError) /\ UNCHANGED <<settings, stored>>
         ELSE /\ settings' = [settings EXCEPT !.key = key]
              /\ stored' = IF mode = "dec" THEN stored
                           ELSE [NoFile EXCEPT !.salted = ~bare, !.salt = salt, !.key = key]
              /\ Go("loop")
      /\ UNCHANGED <<runVars, mode, walked, Progress, recovered, mishap>>

Input == IF mode = "enc" THEN plain ELSE stored.bytes

EvpChunk ==
  /\ evp /\ cryptPc = "loop" /\ Chunk(Input) # << >>
  /\ pos' = pos + Len(Chunk(Input))
  /\ IF mode = "enc"
     THEN /\ stored' = [stored EXCEPT !.bytes = @ \o Encipher(Chunk(Input), pos)]
          /\ UNCHANGED recovered
     ELSE /\ recovered' = recovered \o Decipher(Chunk(Input), pos)
          /\ UNCHANGED stored
  /\ UNCHANGED <<runVars, mode, cryptPc, walked, settings, length, padCounter, loops, output,
                 encRet, decRet, mishap>>

EvpFinal ==
  /\ evp /\ cryptPc = "loop" /\ Chunk(Input) = << >>
  /\ IF mode = "enc" THEN Return(Success)
     ELSE Return(IF stored.final /\ settings.key = stored.key THEN Success ELSE FatalError)
  /\ stored' = [stored EXCEPT !.final = TRUE]
  /\ UNCHANGED <<runVars, mode, walked, settings, Progress, recovered, mishap>>

-----------------------------------------------------------------------------
Active == cryptPc \in {"options", "start", "loop", "pad"}

(* A value that is no key, memory, the generator, opening or reading fails.*)
CryptFails ==
  /\ Active /\ Return(FatalError)
  /\ mishap' = "failed"
  /\ UNCHANGED <<runVars, mode, walked, settings, Progress, Files>>

(* A write fails that is not looked at, in the last block or in fclose():  *)
(* the command reports success.  What the second command makes of the rest *)
(* is not followed.                                                        *)
LoseWrite ==
  /\ cryptPc \in {"loop", "pad"}
  /\ cryptPc' = "over" /\ mishap' = "lost"
  /\ encRet' = Success /\ decRet' = IF mode = "dec" THEN Success ELSE decRet
  /\ UNCHANGED <<runVars, mode, walked, settings, Progress, Files>>

CryptEnded == cryptPc = "over" /\ UNCHANGED cryptVars

CryptNext ==
  \/ ReadOption \/ Check \/ CheckRefuses \/ Decrypt
  \/ EncStart \/ EncChunk \/ EncDone
  \/ DecStart \/ DecChunk \/ DecPad
  \/ EvpStart \/ EvpChunk \/ EvpFinal
  \/ CryptFails \/ LoseWrite \/ CryptEnded

CryptSpec == CryptInit /\ [][CryptNext]_cryptVars

-----------------------------------------------------------------------------
KeyOptions == {"-key", "-inkey"}
PasswordOptions == {"-pwd", "-k", "-pass"}

(* Every variable keeps its type: no count of bytes goes below zero.       *)
CryptTypeOK ==
  /\ mode \in {"enc", "dec"}
  /\ cryptPc \in {"options", "start", "loop", "pad", "next", "over"}
  /\ walked \in 0 .. Len(crypt_options)
  /\ settings.keyType \in {"NONE", "PASSWORD", "USER"}
  /\ length \in Nat /\ pos \in Nat /\ padCounter \in 0 .. Block - 1
  /\ loops.curr \in 1 .. loops.last + 1
  /\ recovered \in Seq(Bytes) /\ output \in Seq(Bytes)
  /\ {encRet, decRet} \subseteq {Running, Success, FatalError}
  /\ mishap \in {"none", "failed", "lost"}

(* The text comes back as it was, whatever its length is to blocks and     *)
(* chunks and whatever its last bytes look like, unless a write was lost   *)
(* that the commands do not look at.  Without EVP there are                *)
(* two exceptions: with an explicit key the padding stays, since the salt  *)
(* does not tell of it; and with a key and a later password the two        *)
(* commands do not agree on the key.                                       *)
RoundTrip ==
  LET explicit == given \cap KeyOptions # {}
      padding  == [i \in 1 .. padCounter |-> Byte(0, padCounter)]
  IN  /\ encRet = Success /\ decRet = Success /\ mishap = "none"
      /\ evp \/ ~explicit \/ given \cap {"-k", "-pass"} = {}
      => recovered = plain \o IF ~evp /\ explicit THEN padding ELSE << >>

(* What was encrypted can be decrypted with the same options: decryption   *)
(* reports no error unless a call fails, the text is empty and has no EVP  *)
(* cipher, or the password was typed in.                                   *)
Decrypts ==
  /\ cryptPc = "over" /\ encRet = Success /\ mishap = "none"
  /\ given \cap (KeyOptions \cup PasswordOptions) # {}
  /\ evp \/ plain # << >>
  => decRet = Success

(* "When the user supplies an explicit -key/-inkey, no salt-based key/iv   *)
(* derivation runs."                                                       *)
ExplicitKeyIsUsed ==
  cryptPc \in {"loop", "pad"} /\ given \cap KeyOptions # {} =>
    settings.key.secret \in KeyOptions
=============================================================================
