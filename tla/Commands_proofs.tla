--------------------------- MODULE Commands_proofs ---------------------------
(***************************************************************************)
(* A theorem about Commands, for any number of processes, pulses, files,   *)
(* passphrases and dictionaries: what qp seal has stored can be unsealed.  *)
(***************************************************************************)
EXTENDS Commands, TLAPS

Ids      == Pulses \cup {Nothing, "empty", "other"}
AnyPass  == Passphrases \cup {Nothing}
Trainers == Dicts \cup {NoDict}

Keys  == [kdf : {"engine", "vault"}, pass : AnyPass, pulse : Pulses \cup {Nothing}]
Blobs == [pulse : Ids, key : Keys, dict : Trainers]

CommandRecords ==
  [at : {"idle", "sealing", "writing", "saved", "opening", "payload", "error",
         "rotating", "sampling", "scanning"},
   pulse : Pulses \cup {Nothing}, pass : AnyPass, name : Names \cup {Nothing},
   trainer : Trainers, mongo : BOOLEAN, read : Blobs, due : BOOLEAN]

StoresTyped ==
  /\ vault \in [Pulses -> Blobs] /\ disk \in [Names -> Blobs]
  /\ kept \in [Pulses -> [place : Names \cup {"vault", Nothing}, pass : AnyPass]]

\* What the qp seal of a passphrase stores.
Plain(p, pass) == Sealed(p, EngineKey(pass, p), NoDict)

\* What kept names is there, as qp seal has stored it.
KeptIsStored ==
  \A p \in Pulses :
    /\ kept[p].place = "vault" => vault[p] = Plain(p, kept[p].pass)
    /\ \A n \in Names : kept[p].place = n => disk[n] = Plain(p, kept[p].pass)

\* Every key in the database is one of an engine: none is ever rotated, since
\* a rotation asks for one of the vault.
EngineKeysOnly == \A p \in Pulses : vault[p].key.kdf = "engine"

\* A seal has a pulse and no dictionary, and writes the file it has named.
SealsPlainly(own) ==
  own.at \in {"sealing", "writing"} =>
    /\ own.pulse \in Pulses /\ own.trainer = NoDict /\ own.pass \in Passphrases
    /\ own.at = "writing" => own.name \in Names

\* Whoever is due its payload has read what its passphrase opens.
DueOpens(own) ==
  own.due =>
    /\ own.at \in {"opening", "payload"}
    /\ own.read.key = EngineKey(own.pass, own.read.pulse)
    /\ own.read.dict = NoDict

\* A rotation has read what no rotation opens.
RotatesNothing(own) == own.at = "rotating" => own.read.key.kdf = "engine"

OwnPart(own) ==
  own \in CommandRecords /\ SealsPlainly(own) /\ DueOpens(own) /\ RotatesNothing(own)

ProcessesOK ==
  /\ process \in [Processes -> CommandRecords]
  /\ \A c \in Processes : OwnPart(process[c])

CommandsInv == StoresTyped /\ KeptIsStored /\ EngineKeysOnly /\ ProcessesOK

-----------------------------------------------------------------------------
LEMMA MarkedBlobs ==
  /\ Absent \in Blobs /\ Empty \in Blobs /\ Other \in Blobs
  /\ Absent.key.kdf = "engine"
BY DEF Absent, Empty, Other, Sealed, EngineKey, Blobs, Keys, Ids, AnyPass,
       Trainers

LEMMA IdleOK == OwnPart(Idle)
BY MarkedBlobs
   DEF Idle, CommandRecords, AnyPass, Trainers, OwnPart, SealsPlainly, DueOpens,
       RotatesNothing

\* What a process seals is a blob, under a key of its engine.
LEMMA SealedIsBlob ==
  ASSUME NEW p \in Pulses, NEW pass \in AnyPass, NEW d \in Trainers
  PROVE  /\ Sealed(p, EngineKey(pass, p), d) \in Blobs
         /\ Sealed(p, EngineKey(pass, p), d).key.kdf = "engine"
BY DEF Sealed, EngineKey, Blobs, Keys, Ids

LEMMA BecomesKeeps ==
  ASSUME ProcessesOK, NEW c \in Processes, NEW now, OwnPart(now), Becomes(c, now)
  PROVE  ProcessesOK'
BY DEF ProcessesOK, Becomes, OwnPart

LEMMA ExitKeeps ==
  ASSUME ProcessesOK, NEW c \in Processes, Exit(c)
  PROVE  ProcessesOK'
BY IdleOK, BecomesKeeps DEF Exit

LEMMA SameStores ==
  ASSUME CommandsInv, UNCHANGED <<vault, disk, kept>>, ProcessesOK'
  PROVE  CommandsInv'
BY DEF CommandsInv, StoresTyped, KeptIsStored, EngineKeysOnly

LEMMA CommandsInitially == CommandsInit => CommandsInv
<1> SUFFICES ASSUME CommandsInit PROVE CommandsInv
  OBVIOUS
<1>1. StoresTyped /\ EngineKeysOnly
  BY MarkedBlobs DEF CommandsInit, StoresTyped, EngineKeysOnly, Nowhere, AnyPass
<1>2. KeptIsStored
  BY CommandsAssumption DEF CommandsInit, KeptIsStored, Nowhere
<1>3. ProcessesOK
  BY IdleOK DEF CommandsInit, ProcessesOK, OwnPart
<1> QED
  BY <1>1, <1>2, <1>3 DEF CommandsInv

\* Opening a file empties it, and no pulse is kept in it any more.
LEMMA FileChanges ==
  ASSUME CommandsInv, NEW n \in Names, NEW b \in Blobs,
         disk' = [disk EXCEPT ![n] = b], kept' = KeptExceptIn(n),
         vault' = vault
  PROVE  StoresTyped' /\ KeptIsStored' /\ EngineKeysOnly'
<1> USE DEF CommandsInv, StoresTyped
<1>1. StoresTyped'
  BY DEF KeptExceptIn, Nowhere, AnyPass
<1>2. KeptIsStored'
  <2> SUFFICES ASSUME NEW p \in Pulses
               PROVE  /\ kept'[p].place = "vault" =>
                           vault'[p] = Plain(p, kept'[p].pass)
                      /\ \A m \in Names : kept'[p].place = m =>
                           disk'[m] = Plain(p, kept'[p].pass)
    BY DEF KeptIsStored, Plain
  <2>1. CASE kept[p].place = n
    <3>1. kept'[p].place = Nothing
      BY <2>1 DEF KeptExceptIn, Nowhere
    <3> QED
      BY <3>1, CommandsAssumption
  <2>2. CASE kept[p].place # n
    BY <2>2 DEF KeptExceptIn, KeptIsStored
  <2> QED
    BY <2>1, <2>2
<1> QED
  BY <1>1, <1>2 DEF EngineKeysOnly

-----------------------------------------------------------------------------
(* One lemma per command.                                                  *)

LEMMA SealKeeps ==
  ASSUME CommandsInv, NEW c \in Processes, NEW p \in Pulses,
         NEW pass \in Passphrases, NEW name \in Names \cup {Nothing},
         Seal(c, p, pass, name)
  PROVE  CommandsInv'
<1> DEFINE now == [Idle EXCEPT !.at = "sealing", !.pulse = p, !.pass = pass,
                               !.name = name]
<1>1. OwnPart(now)
  BY MarkedBlobs
     DEF Idle, OwnPart, CommandRecords, AnyPass, Trainers, SealsPlainly,
         DueOpens, RotatesNothing
<1>2. ProcessesOK'
  BY <1>1, BecomesKeeps DEF Seal, CommandsInv
<1> QED
  BY <1>2, SameStores DEF Seal

LEMMA OpenFileKeeps ==
  ASSUME CommandsInv, NEW c \in Processes, OpenFile(c)
  PROVE  CommandsInv'
<1> DEFINE now == [process[c] EXCEPT !.at = "writing"]
<1>1. process[c] \in CommandRecords /\ OwnPart(process[c])
  BY DEF CommandsInv, ProcessesOK
<1>2. process[c].name \in Names /\ process[c].at = "sealing"
  BY <1>1 DEF OpenFile, Runs, CommandRecords
<1>3. OwnPart(now)
  BY <1>1, <1>2
     DEF OwnPart, CommandRecords, SealsPlainly, DueOpens, RotatesNothing
<1>4. ProcessesOK'
  BY <1>3, BecomesKeeps DEF OpenFile, CommandsInv
<1>5. StoresTyped' /\ KeptIsStored' /\ EngineKeysOnly'
  BY <1>2, MarkedBlobs, FileChanges DEF OpenFile
<1> QED
  BY <1>4, <1>5 DEF CommandsInv

LEMMA WriteFileKeeps ==
  ASSUME CommandsInv, NEW c \in Processes, WriteFile(c)
  PROVE  CommandsInv'
<1> DEFINE n == process[c].name
           p == process[c].pulse
           pass == process[c].pass
<1>1. /\ process[c] \in CommandRecords /\ OwnPart(process[c])
      /\ process[c].at = "writing"
  BY DEF CommandsInv, ProcessesOK, WriteFile, Runs
<1>2. /\ n \in Names /\ p \in Pulses /\ pass \in Passphrases
      /\ SealedBy(c, p) = Plain(p, pass)
  BY <1>1 DEF OwnPart, SealsPlainly, SealedBy, Plain
<1>3. /\ Plain(p, pass) \in Blobs /\ Other \in Blobs
  BY <1>2, SealedIsBlob, MarkedBlobs DEF Plain, AnyPass, Trainers
<1>4. ProcessesOK'
  BY ExitKeeps DEF WriteFile, CommandsInv
<1>5. PICK whole \in BOOLEAN :
        /\ disk' = [disk EXCEPT ![n] = IF whole THEN Plain(p, pass) ELSE Other]
        /\ kept' = [KeptExceptIn(n) EXCEPT ![p] =
              IF whole THEN [place |-> n, pass |-> pass] ELSE Nowhere]
        /\ vault' = vault
  BY <1>2 DEF WriteFile
<1> HIDE DEF n, p, pass
<1>6. StoresTyped'
  BY <1>2, <1>3, <1>5
     DEF CommandsInv, StoresTyped, KeptExceptIn, Nowhere, AnyPass
<1>7. KeptIsStored'
  <2> SUFFICES ASSUME NEW q \in Pulses
               PROVE  /\ kept'[q].place = "vault" =>
                           vault'[q] = Plain(q, kept'[q].pass)
                      /\ \A m \in Names : kept'[q].place = m =>
                           disk'[m] = Plain(q, kept'[q].pass)
    BY DEF KeptIsStored, Plain
  <2>1. \/ kept'[q] = Nowhere
        \/ q = p /\ whole /\ kept'[q] = [place |-> n, pass |-> pass]
        \/ kept[q].place # n /\ kept'[q] = kept[q]
    BY <1>2, <1>5 DEF KeptExceptIn
  <2>2. CASE kept'[q] = Nowhere
    BY <2>2, CommandsAssumption DEF Nowhere
  <2>3. CASE q = p /\ whole /\ kept'[q] = [place |-> n, pass |-> pass]
    BY <1>2, <1>5, <2>3, CommandsAssumption DEF CommandsInv, StoresTyped
  <2>4. CASE kept[q].place # n /\ kept'[q] = kept[q]
    BY <1>2, <1>5, <2>4 DEF CommandsInv, StoresTyped, KeptIsStored
  <2> QED
    BY <2>1, <2>2, <2>3, <2>4
<1> QED
  BY <1>4, <1>5, <1>6, <1>7 DEF CommandsInv, EngineKeysOnly

\* A pulse gets a blob under an engine's key, and is kept where it was unless
\* that is the database.
LEMMA PulseChanges ==
  ASSUME CommandsInv, NEW p \in Pulses, NEW b \in Blobs, b.key.kdf = "engine",
         vault' = [vault EXCEPT ![p] = b], disk' = disk,
         \/ kept' = kept /\ kept[p].place # "vault"
         \/ kept' = [kept EXCEPT ![p] = Nowhere]
         \/ \E pass \in Passphrases :
              /\ b = Plain(p, pass)
              /\ kept' = [kept EXCEPT ![p] = [place |-> "vault", pass |-> pass]]
  PROVE  StoresTyped' /\ KeptIsStored' /\ EngineKeysOnly'
<1> USE DEF CommandsInv, StoresTyped
<1>1. StoresTyped'
  BY DEF Nowhere, AnyPass
<1>2. KeptIsStored'
  <2> SUFFICES ASSUME NEW q \in Pulses
               PROVE  /\ kept'[q].place = "vault" =>
                           vault'[q] = Plain(q, kept'[q].pass)
                      /\ \A m \in Names : kept'[q].place = m =>
                           disk'[m] = Plain(q, kept'[q].pass)
    BY DEF KeptIsStored, Plain
  <2>1. CASE q # p
    BY <2>1 DEF KeptIsStored
  <2>2. CASE q = p
    BY <2>2, CommandsAssumption DEF KeptIsStored, Nowhere
  <2> QED
    BY <2>1, <2>2
<1>3. EngineKeysOnly'
  BY DEF EngineKeysOnly
<1> QED
  BY <1>1, <1>2, <1>3

LEMMA SavePulseKeeps ==
  ASSUME CommandsInv, NEW c \in Processes, SavePulse(c)
  PROVE  CommandsInv'
<1> DEFINE p == process[c].pulse
           pass == process[c].pass
           now == [process[c] EXCEPT !.at = "saved"]
<1>1. /\ process[c] \in CommandRecords /\ OwnPart(process[c])
      /\ process[c].at = "sealing"
  BY DEF CommandsInv, ProcessesOK, SavePulse, Runs
<1>2. /\ p \in Pulses /\ pass \in Passphrases
      /\ SealedBy(c, p) = Plain(p, pass)
  BY <1>1 DEF OwnPart, SealsPlainly, SealedBy, Plain
<1>3. Plain(p, pass) \in Blobs /\ Plain(p, pass).key.kdf = "engine"
  BY <1>2, SealedIsBlob DEF Plain, AnyPass, Trainers
<1>4. OwnPart(now)
  BY <1>1 DEF OwnPart, CommandRecords, SealsPlainly, DueOpens, RotatesNothing
<1>5. ProcessesOK'
  BY <1>4, BecomesKeeps DEF SavePulse, CommandsInv
<1>6. \/ /\ vault' = [vault EXCEPT ![p] = Plain(p, pass)]
         /\ kept' = [kept EXCEPT ![p] = [place |-> "vault", pass |-> pass]]
         /\ disk' = disk
      \/ UNCHANGED <<vault, disk, kept>>
  BY <1>2 DEF SavePulse, Reached
<1>7. StoresTyped' /\ KeptIsStored' /\ EngineKeysOnly'
  BY <1>2, <1>3, <1>5, <1>6, PulseChanges, SameStores DEF CommandsInv
<1> QED
  BY <1>5, <1>7 DEF CommandsInv

LEMMA WriteOutputKeeps ==
  ASSUME CommandsInv, NEW c \in Processes, NEW n \in Names, WriteOutput(c, n)
  PROVE  CommandsInv'
<1>1. ProcessesOK'
  BY ExitKeeps DEF WriteOutput, CommandsInv
<1>2. StoresTyped' /\ KeptIsStored' /\ EngineKeysOnly'
  BY MarkedBlobs, FileChanges DEF WriteOutput
<1> QED
  BY <1>1, <1>2 DEF CommandsInv

\* Reading what kept names, with the passphrase it names, is reading what
\* that passphrase opens.
LEMMA ReadsKeeps ==
  ASSUME CommandsInv, NEW c \in Processes, NEW found \in Blobs,
         NEW pass \in Passphrases, NEW due \in BOOLEAN,
         due => \E p \in Pulses : found = Plain(p, pass),
         Reads(c, found, pass, due)
  PROVE  CommandsInv'
<1> DEFINE now == [Idle EXCEPT !.at = "opening", !.pass = pass, !.read = found,
                               !.due = due]
<1>1. now \in CommandRecords
  BY DEF Idle, CommandRecords, AnyPass, Trainers
<1>2. DueOpens(now)
  BY DEF Idle, DueOpens, Plain, Sealed
<1>3. OwnPart(now)
  BY <1>1, <1>2 DEF Idle, OwnPart, SealsPlainly, RotatesNothing
<1>4. ProcessesOK'
  BY <1>3, BecomesKeeps DEF Reads, CommandsInv
<1> QED
  BY <1>4, SameStores DEF Reads

LEMMA UnsealPulseKeeps ==
  ASSUME CommandsInv, NEW c \in Processes, NEW p \in Pulses,
         NEW pass \in Passphrases, UnsealPulse(c, p, pass)
  PROVE  CommandsInv'
<1> DEFINE due == kept[p] = [place |-> "vault", pass |-> pass]
<1>1. vault[p] \in Blobs
  BY DEF CommandsInv, StoresTyped
<1>2. due => vault[p] = Plain(p, pass)
  BY DEF CommandsInv, KeptIsStored
<1>3. due \in BOOLEAN /\ Reads(c, vault[p], pass, due)
  BY DEF UnsealPulse
<1> HIDE DEF due
<1> QED
  BY <1>1, <1>2, <1>3, ReadsKeeps

LEMMA UnsealFileKeeps ==
  ASSUME CommandsInv, NEW c \in Processes, NEW n \in Names,
         NEW pass \in Passphrases, UnsealFile(c, n, pass)
  PROVE  CommandsInv'
<1> DEFINE due == \E p \in Pulses : kept[p] = [place |-> n, pass |-> pass]
<1>1. disk[n] \in Blobs
  BY DEF CommandsInv, StoresTyped
<1>2. due => \E p \in Pulses : disk[n] = Plain(p, pass)
  BY DEF CommandsInv, KeptIsStored
<1>3. due \in BOOLEAN /\ Reads(c, disk[n], pass, due)
  BY DEF UnsealFile
<1> HIDE DEF due
<1> QED
  BY <1>1, <1>2, <1>3, ReadsKeeps

\* The engine derives the key again, and no dictionary is needed.
LEMMA UnsealedKeeps ==
  ASSUME CommandsInv, NEW c \in Processes, Unsealed(c)
  PROVE  CommandsInv'
<1> DEFINE at == IF Opens(c) THEN "payload" ELSE "error"
           now == [process[c] EXCEPT !.at = at]
<1>1. process[c] \in CommandRecords /\ OwnPart(process[c])
  BY DEF CommandsInv, ProcessesOK
<1>2. process[c].due => at = "payload"
  BY <1>1 DEF OwnPart, DueOpens, Opens
<1>3. at \in {"payload", "error"}
  OBVIOUS
<1>4. Becomes(c, now) /\ UNCHANGED <<vault, disk, kept>>
  BY DEF Unsealed
<1> HIDE DEF at
<1>5. OwnPart(now)
  BY <1>1, <1>2, <1>3
     DEF OwnPart, CommandRecords, SealsPlainly, DueOpens, RotatesNothing
<1>6. ProcessesOK'
  BY <1>4, <1>5, BecomesKeeps DEF CommandsInv
<1> QED
  BY <1>4, <1>6, SameStores

LEMMA RotateLoadKeeps ==
  ASSUME CommandsInv, NEW c \in Processes, NEW p \in Pulses,
         NEW old \in Passphrases, RotateLoad(c, p, old)
  PROVE  CommandsInv'
<1> DEFINE now == [Idle EXCEPT !.at = "rotating", !.pass = old, !.read = vault[p]]
<1>1. vault[p] \in Blobs /\ vault[p].key.kdf = "engine"
  BY DEF CommandsInv, StoresTyped, EngineKeysOnly
<1>2. OwnPart(now)
  BY <1>1 DEF Idle, OwnPart, CommandRecords, AnyPass, Trainers, SealsPlainly,
              DueOpens, RotatesNothing
<1>3. ProcessesOK'
  BY <1>2, BecomesKeeps DEF RotateLoad, CommandsInv
<1> QED
  BY <1>3, SameStores DEF RotateLoad

LEMMA RotateShardKeeps ==
  ASSUME CommandsInv, NEW c \in Processes, RotateShard(c)
  PROVE  CommandsInv'
<1>1. process[c].read.key.kdf = "engine"
  BY DEF CommandsInv, ProcessesOK, OwnPart, RotatesNothing, RotateShard, Runs
<1>2. UNCHANGED <<vault, disk, kept>>
  BY <1>1 DEF RotateShard, ShardKey
<1>3. ProcessesOK'
  BY ExitKeeps DEF RotateShard, CommandsInv
<1> QED
  BY <1>2, <1>3, SameStores

LEMMA ScanKeeps ==
  ASSUME CommandsInv, NEW c \in Processes, NEW pass \in Passphrases, Scan(c, pass)
  PROVE  CommandsInv'
<1>1. PICK mongo \in BOOLEAN :
        Becomes(c, [Idle EXCEPT !.at = "sampling", !.pass = pass, !.mongo = mongo])
  BY DEF Scan, Reached
<1>2. OwnPart([Idle EXCEPT !.at = "sampling", !.pass = pass, !.mongo = mongo])
  BY MarkedBlobs
     DEF Idle, OwnPart, CommandRecords, AnyPass, Trainers, SealsPlainly,
         DueOpens, RotatesNothing
<1>3. ProcessesOK'
  BY <1>1, <1>2, BecomesKeeps DEF CommandsInv
<1> QED
  BY <1>3, SameStores DEF Scan

LEMMA TrainKeeps ==
  ASSUME CommandsInv, NEW c \in Processes, Train(c)
  PROVE  CommandsInv'
<1>1. process[c] \in CommandRecords /\ OwnPart(process[c]) /\ process[c].at = "sampling"
  BY DEF CommandsInv, ProcessesOK, Train, Runs
<1>2. ASSUME NEW d \in Trainers
      PROVE  OwnPart([process[c] EXCEPT !.at = "scanning", !.trainer = d])
  BY <1>1 DEF OwnPart, CommandRecords, SealsPlainly, DueOpens, RotatesNothing
<1>3. ProcessesOK'
  BY <1>2, BecomesKeeps, ExitKeeps DEF Train, CommandsInv, Trainers
<1> QED
  BY <1>3, SameStores DEF Train

\* A fresh id is kept nowhere.
LEMMA SealShardKeeps ==
  ASSUME CommandsInv, NEW c \in Processes, NEW p \in Pulses, SealShard(c, p)
  PROVE  CommandsInv'
<1>1. process[c] \in CommandRecords
  BY DEF CommandsInv, ProcessesOK
<1>2. SealedBy(c, p) \in Blobs /\ SealedBy(c, p).key.kdf = "engine"
  BY <1>1, SealedIsBlob DEF SealedBy, CommandRecords
<1>3. kept[p].place # "vault"
  BY CommandsAssumption DEF SealShard, Fresh, Nowhere
<1>4. /\ UNCHANGED <<disk, process, kept>>
      /\ vault' = vault \/ vault' = [vault EXCEPT ![p] = SealedBy(c, p)]
  BY DEF SealShard
<1>5. ProcessesOK'
  BY <1>4 DEF ProcessesOK, CommandsInv
<1>6. CASE vault' = vault
  BY <1>4, <1>5, <1>6, SameStores
<1>7. CASE vault' = [vault EXCEPT ![p] = SealedBy(c, p)]
  BY <1>2, <1>3, <1>4, <1>5, <1>7, PulseChanges DEF CommandsInv
<1> QED
  BY <1>4, <1>6, <1>7

LEMMA ServerKeeps ==
  ASSUME CommandsInv, NEW p \in Pulses,
         (\E pass \in Passphrases : ServerSeals(p, pass)) \/ ServerDeletes(p)
  PROVE  CommandsInv'
<1>1. ProcessesOK' /\ disk' = disk
  BY DEF ServerSeals, ServerDeletes, ProcessesOK, CommandsInv
<1>2. ASSUME NEW pass \in Passphrases, ServerSeals(p, pass)
      PROVE  CommandsInv'
  <2>1. PICK d \in Trainers :
          vault' = [vault EXCEPT ![p] = Sealed(p, EngineKey(pass, p), d)]
    BY <1>2 DEF ServerSeals, Trainers
  <2>2. /\ Sealed(p, EngineKey(pass, p), d) \in Blobs
        /\ Sealed(p, EngineKey(pass, p), d).key.kdf = "engine"
    BY SealedIsBlob DEF AnyPass
  <2>3. kept' = kept /\ kept[p].place # "vault"
    BY <1>2, CommandsAssumption DEF ServerSeals, Fresh, Nowhere
  <2> QED
    BY <1>1, <2>1, <2>2, <2>3, PulseChanges DEF CommandsInv
<1>3. CASE ServerDeletes(p)
  BY <1>1, <1>3, MarkedBlobs, PulseChanges DEF ServerDeletes, CommandsInv
<1> QED
  BY <1>2, <1>3

LEMMA CommandsStep ==
  ASSUME CommandsInv, [CommandsNext]_cliVars
  PROVE  CommandsInv'
<1>1. ASSUME NEW c \in Processes, Leave(c) PROVE CommandsInv'
  BY <1>1, ExitKeeps, SameStores DEF Leave, CommandsInv
<1>2. CASE UNCHANGED cliVars
  BY <1>2, SameStores DEF cliVars, ProcessesOK, CommandsInv
<1> QED
  BY <1>1, <1>2, SealKeeps, OpenFileKeeps, WriteFileKeeps, SavePulseKeeps,
     WriteOutputKeeps, UnsealPulseKeeps, UnsealFileKeeps, UnsealedKeeps,
     RotateLoadKeeps, RotateShardKeeps, ScanKeeps, TrainKeeps, SealShardKeeps,
     ServerKeeps
     DEF CommandsNext

LEMMA CommandsInvariant == CommandsSpec => []CommandsInv
<1>1. CommandsInv /\ [CommandsNext]_cliVars => CommandsInv'
  BY CommandsStep
<1> QED
  BY CommandsInitially, <1>1, PTL DEF CommandsSpec

\* What qp seal has stored in MongoDB or a file can be unsealed with its
\* passphrase (cli.py's seal and unseal), whatever any number of other
\* commands and a server do to other pulses and files and wherever commands
\* are stopped.
THEOREM SealedAlwaysUnseals == CommandsSpec => []SealedUnseals
<1>1. CommandsInv => SealedUnseals
  BY DEF CommandsInv, ProcessesOK, OwnPart, DueOpens, SealedUnseals
<1> QED
  BY <1>1, CommandsInvariant, PTL
=============================================================================
