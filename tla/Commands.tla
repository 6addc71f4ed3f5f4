------------------------------ MODULE Commands ------------------------------
(***************************************************************************)
(* cli.py: the commands of qp.  Each is a process with an engine and a     *)
(* PulseDB of its own; what outlives it is in MongoDB, which it shares     *)
(* with a server, or in a .qp file.  Keys are free: the engine derives one *)
(* per passphrase and pulse, the vault others.                             *)
(***************************************************************************)
CONSTANTS
  Processes,     \* commands that run at one time
  Pulses,        \* pulse ids
  Names,         \* paths of .qp files: <stem>.qp, or the --output of seal
  Passphrases,
  Dicts, NoDict, \* dictionaries of a trainer; none
  Nothing        \* None

ASSUME CommandsAssumption ==
  /\ Nothing \notin Names \cup Pulses \cup Passphrases /\ NoDict \notin Dicts
  /\ "vault" \notin Names \cup {Nothing}   \* the place of kept that is no file

VARIABLES
  vault,       \* per pulse: what MongoDB stores
  disk,        \* per name: what the file holds
  process,     \* per process: its command
  kept         \* per pulse: where qp seal has stored it, and its passphrase;
               \* Nowhere once somebody writes that file or deletes the pulse

cliVars == <<vault, disk, process, kept>>

EngineKey(pass, p) == [kdf |-> "engine", pass |-> pass, pulse |-> p]
ShardKey(pass, p)  == [kdf |-> "vault", pass |-> pass, pulse |-> p]
Sealed(p, key, dict) == [pulse |-> p, key |-> key, dict |-> dict]

Absent  == Sealed(Nothing, EngineKey(Nothing, Nothing), NoDict)
Empty   == [Absent EXCEPT !.pulse = "empty"]  \* a file without a byte
Other   == [Absent EXCEPT !.pulse = "other"]  \* or with no whole pulse in it
Nowhere == [place |-> Nothing, pass |-> Nothing]

\* An engine with a trainer and without an adaptive manager.
Idle == [at |-> "idle", pulse |-> Nothing, pass |-> Nothing, name |-> Nothing,
         trainer |-> NoDict, mongo |-> FALSE, read |-> Absent, due |-> FALSE]

CommandsInit ==
  /\ vault = [p \in Pulses |-> Absent] /\ disk = [n \in Names |-> Absent]
  /\ process = [c \in Processes |-> Idle] /\ kept = [p \in Pulses |-> Nowhere]

-----------------------------------------------------------------------------
Runs(c, at) == process[c].at = at

Becomes(c, now) == process' = [process EXCEPT ![c] = now]
Exit(c) == Becomes(c, Idle)

\* uuid4: the id of nothing that is stored or under way.
Fresh(p) ==
  /\ vault[p] = Absent /\ kept[p] = Nowhere
  /\ \A n \in Names : disk[n].pulse # p
  /\ \A c \in Processes : process[c].pulse # p /\ process[c].read.pulse # p

SealedBy(c, p) ==
  Sealed(p, EngineKey(process[c].pass, p), process[c].trainer)

\* connect: a MongoDB that cannot be reached is replaced by a memory, which
\* ends with the process.
Reached == BOOLEAN

-----------------------------------------------------------------------------
(* seal.                                                                   *)

\* The payload is sealed in the pools; --offline names a file.
Seal(c, p, pass, name) ==
  /\ Runs(c, "idle") /\ Fresh(p)
  /\ Becomes(c, [Idle EXCEPT !.at = "sealing", !.pulse = p, !.pass = pass,
                             !.name = name])
  /\ UNCHANGED <<vault, disk, kept>>

KeptExceptIn(n) ==
  [p \in Pulses |-> IF kept[p].place = n THEN Nowhere ELSE kept[p]]

\* write_bytes opens the file, which empties it, ...
OpenFile(c) ==
  LET n == process[c].name
  IN  /\ Runs(c, "sealing") /\ n # Nothing
      /\ disk' = [disk EXCEPT ![n] = Empty] /\ kept' = KeptExceptIn(n)
      /\ Becomes(c, [process[c] EXCEPT !.at = "writing"])
      /\ UNCHANGED vault

\* ... and then writes: over what another process has written since, both may
\* be left in it.
WriteFile(c) ==
  LET n == process[c].name
      p == process[c].pulse
      clean == disk[n] = Empty
  IN  /\ Runs(c, "writing")
      /\ \E whole \in IF clean THEN {TRUE} ELSE BOOLEAN :
           /\ disk' = [disk EXCEPT ![n] = IF whole THEN SealedBy(c, p) ELSE Other]
           /\ kept' = [KeptExceptIn(n) EXCEPT ![p] =
                 IF whole THEN [place |-> n, pass |-> process[c].pass] ELSE Nowhere]
      /\ Exit(c) /\ UNCHANGED vault

SavePulse(c) ==
  LET p == process[c].pulse
  IN  /\ Runs(c, "sealing") /\ process[c].name = Nothing
      /\ \E mongo \in Reached :
           IF mongo
             THEN /\ vault' = [vault EXCEPT ![p] = SealedBy(c, p)]
                  /\ kept' = [kept EXCEPT ![p] =
                        [place |-> "vault", pass |-> process[c].pass]]
             ELSE UNCHANGED <<vault, kept>>
      /\ Becomes(c, [process[c] EXCEPT !.at = "saved"])
      /\ UNCHANGED disk

\* The --output of an online seal gets the id of the pulse, that of unseal the
\* payload, in whatever file it names.
WriteOutput(c, n) ==
  /\ Runs(c, "saved") \/ Runs(c, "payload")
  /\ disk' = [disk EXCEPT ![n] = Other] /\ kept' = KeptExceptIn(n)
  /\ Exit(c) /\ UNCHANGED vault

-----------------------------------------------------------------------------
(* unseal.                                                                 *)

Reads(c, found, pass, due) ==
  /\ Runs(c, "idle") /\ found # Absent
  /\ Becomes(c, [Idle EXCEPT !.at = "opening", !.pass = pass, !.read = found,
                             !.due = due])
  /\ UNCHANGED <<vault, disk, kept>>

UnsealPulse(c, p, pass) ==
  Reads(c, vault[p], pass, kept[p] = [place |-> "vault", pass |-> pass])

UnsealFile(c, n, pass) ==
  Reads(c, disk[n], pass,
        \E p \in Pulses : kept[p] = [place |-> n, pass |-> pass])

\* Variant: the salt of the metadata is not used.
OpensWithAnySalt(c) ==
  /\ process[c].read.key = EngineKey(process[c].pass, Nothing)
  /\ process[c].read.dict \in {NoDict, process[c].trainer}

\* The key is derived again from the passphrase and the salt of the metadata;
\* a frame with a dictionary needs that of the engine.
Opens(c) ==
  /\ process[c].read.key = EngineKey(process[c].pass, process[c].read.pulse)
  /\ process[c].read.dict \in {NoDict, process[c].trainer}

\* The payload is there, or the command ends with a traceback.
Unsealed(c) ==
  /\ Runs(c, "opening")
  /\ Becomes(c, [process[c] EXCEPT !.at = IF Opens(c) THEN "payload" ELSE "error"])
  /\ UNCHANGED <<vault, disk, kept>>

-----------------------------------------------------------------------------
(* rotate.                                                                 *)

RotateLoad(c, p, old) ==
  /\ Runs(c, "idle") /\ vault[p] # Absent
  /\ Becomes(c, [Idle EXCEPT !.at = "rotating", !.pass = old, !.read = vault[p]])
  /\ UNCHANGED <<vault, disk, kept>>

\* rotate_shard opens the blob with a key that the vault derives from the old
\* passphrase and a new salt; the update comes after it.
RotateShard(c) ==
  LET blob == process[c].read
  IN  /\ Runs(c, "rotating")
      /\ vault' = IF blob.key = ShardKey(process[c].pass, blob.pulse)
                    THEN [vault EXCEPT ![blob.pulse].key = ShardKey(Nothing, blob.pulse)]
                    ELSE vault
      /\ Exit(c) /\ UNCHANGED <<disk, kept>>

-----------------------------------------------------------------------------
(* scan: one engine seals all the shards.                                  *)

Scan(c, pass) ==
  /\ Runs(c, "idle")
  /\ \E mongo \in Reached :
       Becomes(c, [Idle EXCEPT !.at = "sampling", !.pass = pass, !.mongo = mongo])
  /\ UNCHANGED <<vault, disk, kept>>

\* Without samples nothing is trained; a training that fails ends the command.
Train(c) ==
  /\ Runs(c, "sampling")
  /\ \/ Exit(c)
     \/ \E d \in Dicts \cup {NoDict} :
          Becomes(c, [process[c] EXCEPT !.at = "scanning", !.trainer = d])
  /\ UNCHANGED <<vault, disk, kept>>

SealShard(c, p) ==
  /\ Runs(c, "scanning") /\ Fresh(p)
  /\ vault' = IF process[c].mongo THEN [vault EXCEPT ![p] = SealedBy(c, p)] ELSE vault
  /\ UNCHANGED <<disk, process, kept>>

-----------------------------------------------------------------------------
\* A command ends (a scan with its master pulse, or with an error) or is
\* stopped, wherever it is.
Leave(c) == process[c] # Idle /\ Exit(c) /\ UNCHANGED <<vault, disk, kept>>

\* A server of the same database seals, with dictionaries of its own, and
\* deletes.
ServerSeals(p, pass) ==
  /\ Fresh(p)
  /\ \E d \in Dicts \cup {NoDict} :
       vault' = [vault EXCEPT ![p] = Sealed(p, EngineKey(pass, p), d)]
  /\ UNCHANGED <<disk, process, kept>>

ServerDeletes(p) ==
  /\ vault[p] # Absent
  /\ vault' = [vault EXCEPT ![p] = Absent]
  /\ kept' = [kept EXCEPT ![p] = Nowhere]
  /\ UNCHANGED <<disk, process>>

CommandsNext ==
  \/ \E c \in Processes :
       \/ \E p \in Pulses, pass \in Passphrases :
            \/ \E n \in Names \cup {Nothing} : Seal(c, p, pass, n)
            \/ UnsealPulse(c, p, pass) \/ RotateLoad(c, p, pass)
       \/ \E n \in Names : \/ WriteOutput(c, n)
                            \/ \E pass \in Passphrases : UnsealFile(c, n, pass)
       \/ \E pass \in Passphrases : Scan(c, pass)
       \/ \E p \in Pulses : SealShard(c, p)
       \/ OpenFile(c) \/ WriteFile(c) \/ SavePulse(c) \/ Unsealed(c)
       \/ RotateShard(c) \/ Train(c) \/ Leave(c)
  \/ \E p \in Pulses : \/ \E pass \in Passphrases : ServerSeals(p, pass)
                       \/ ServerDeletes(p)

CommandsSpec == CommandsInit /\ [][CommandsNext]_cliVars

-----------------------------------------------------------------------------
(* Properties.                                                             *)

\* What qp seal has stored can be unsealed by a later command with the same
\* passphrase, whatever other commands and a server do in the meantime and
\* wherever they are stopped: until the pulse is deleted, or another command
\* begins to write a file of that name or is writing it already.
SealedUnseals ==
  \A c \in Processes : process[c].due => process[c].at # "error"
=============================================================================
