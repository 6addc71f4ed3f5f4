------------------------------- MODULE Server -------------------------------
(***************************************************************************)
(* main.py: the handlers of a pulse's life, between their awaits, with the *)
(* vault that they share (KeyVault) and the audit record that each writes  *)
(* (core/audit.py).  A pulse is the key that it is encrypted with; the     *)
(* engine derives one from the passphrase of the settings and a fresh salt *)
(* per pulse.                                                              *)
(***************************************************************************)
EXTENDS KeyVault

VARIABLES
  stored,     \* per pulse: the key of what is in the database
  isMongo,    \* whether audit records go to MongoDB too
  step,       \* per request: the next step of its handler
  work        \* per request: its handler, arguments, effect, error (with a
              \* text, or "blank") and audit record

handlerVars == <<stored, isMongo, step, work>>
serverVars  == <<vaultVars, handlerVars>>

NotStored == [pass |-> Nothing, salt |-> Nothing]
EngineKey(p) == [pass |-> Startup, salt |-> p]
NoWork == [kind |-> "none", pulse |-> Nothing, old |-> Nothing,
           blob |-> NotStored, effect |-> FALSE, error |-> "none",
           record |-> "none"]

ServerInit ==
  /\ VaultInit
  /\ stored = [p \in Pulses |-> NotStored] /\ isMongo \in BOOLEAN
  /\ step = [r \in Requests |-> "idle"] /\ work = [r \in Requests |-> NoWork]

-----------------------------------------------------------------------------
(* The audit log.                                                          *)

Go(r, next, now) ==
  step' = [step EXCEPT ![r] = next] /\ work' = [work EXCEPT ![r] = now]

Answer(r, now) == Go(r, "answered", now)

AfterRecord(now) == IF now.kind = "stream" THEN "decrypt" ELSE "answered"

\* The builders are given str(exc), which is empty for an exception without a
\* text; and an empty error is none.
Outcome(error) == IF error = "text" THEN "failure" ELSE "success"

\* emit: the line of the file is written at once, or given up silently; the
\* document of MongoDB is awaited.
Emit(r, now) ==
  \E written \in {Outcome(now.error), "lost"} :
    Go(r, IF isMongo THEN "insert" ELSE AfterRecord(now),
          [now EXCEPT !.record = written])

\* The insert is done, or has failed with a warning.
Inserted(r) ==
  /\ step[r] = "insert"
  /\ Go(r, AfterRecord(work[r]), work[r])
  /\ UNCHANGED <<vaultVars, stored, isMongo>>

-----------------------------------------------------------------------------
(* The handlers.                                                           *)

Free(r) == step[r] = "idle" /\ at[r] = "idle"

Arrive(r, kind, p, old, first) ==
  /\ Free(r)
  /\ Go(r, first, [NoWork EXCEPT !.kind = kind, !.pulse = p, !.old = old])
  /\ UNCHANGED <<vaultVars, stored, isMongo>>

\* The id is new: it is that of no stored pulse and in no other request.
Seal(r, kind, p) ==
  /\ stored[p] = NotStored /\ \A q \in Requests : work[q].pulse # p
  /\ Arrive(r, kind, p, Nothing, "encrypt")

Read(r, kind, p) == Arrive(r, kind, p, Nothing, "load")
Delete(r, p)     == Arrive(r, "delete", p, Nothing, "drop")
Rotate(r, p, old) == Arrive(r, "rotate", p, old, "load")

\* A seal that fails is recorded by /pulse/seal, not by /pulse/seal/file.
Encrypt(r) ==
  /\ step[r] = "encrypt"
  /\ \/ Go(r, "save", work[r])
     \/ LET now == [work[r] EXCEPT !.error = "text"]
        IN  IF now.kind = "seal" THEN Emit(r, now) ELSE Answer(r, now)
  /\ UNCHANGED <<vaultVars, stored, isMongo>>

\* Database commands take effect before the handler goes on.  Each can fail
\* instead, or be refused before it is sent: an error answer, and no record.
Save(r) ==
  /\ step[r] = "save"
  /\ stored' = [stored EXCEPT ![work[r].pulse] = EngineKey(work[r].pulse)]
  /\ Go(r, "finish", [work[r] EXCEPT !.effect = TRUE])
  /\ UNCHANGED <<vaultVars, isMongo>>

Drop(r) ==
  /\ step[r] = "drop"
  /\ stored' = [stored EXCEPT ![work[r].pulse] = NotStored]
  /\ Go(r, "finish",
        [work[r] EXCEPT !.effect = stored[work[r].pulse] # NotStored])
  /\ UNCHANGED <<vaultVars, isMongo>>

Refuse(r) ==
  /\ step[r] \in {"save", "drop", "load"}
  /\ Answer(r, work[r])
  /\ UNCHANGED <<vaultVars, stored, isMongo>>

\* The handler goes on: a delete that found nothing is a 404.
Finish(r) ==
  /\ step[r] = "finish"
  /\ IF work[r].effect THEN Emit(r, work[r]) ELSE Answer(r, work[r])
  /\ UNCHANGED <<vaultVars, stored, isMongo>>

\* The blob and its metadata stay with the request, whatever happens to the
\* pulse now.  A stream is recorded before it is decrypted.
Load(r) ==
  LET found == stored[work[r].pulse]
      now == [work[r] EXCEPT !.blob = found]
  IN  /\ step[r] = "load"
      /\ IF found = NotStored
           THEN Answer(r, now)
           ELSE \/ now.kind = "stream" /\ Emit(r, now)
                \/ now.kind = "unseal" /\ Go(r, "decrypt", now)
                \/ now.kind = "rotate" /\ Go(r, "unlock", now)
      /\ UNCHANGED <<vaultVars, stored, isMongo>>

\* What the decryption of a pulse can raise: InvalidTag, which has no text, for
\* another key; otherwise an error of the dictionary or of the pool.
Raises(r) ==
  IF work[r].blob = EngineKey(work[r].pulse) THEN {"none", "text"} ELSE {"blank"}

\* Variant: the error is not handed to the record.
DecryptAnyway(r) ==
  /\ step[r] = "decrypt"
  /\ \E error \in Raises(r) :
       LET now == [work[r] EXCEPT !.effect = (error = "none")]
       IN  IF now.kind = "stream" THEN Answer(r, now) ELSE Emit(r, now)
  /\ UNCHANGED <<vaultVars, stored, isMongo>>

\* The engine's unseal.  The record of a stream is already there.
Decrypt(r) ==
  /\ step[r] = "decrypt"
  /\ \E error \in Raises(r) :
       LET now == [work[r] EXCEPT !.effect = (error = "none"), !.error = error]
       IN  IF now.kind = "stream" THEN Answer(r, now) ELSE Emit(r, now)
  /\ UNCHANGED <<vaultVars, stored, isMongo>>

-----------------------------------------------------------------------------
(* Rotation: the master key of the vault first, then rotate_shard.         *)

RotateUnlock(r) ==
  /\ step[r] = "unlock"
  /\ IF master = NoMaster
       THEN /\ DeriveMaster(r, passphrase, [NoJob EXCEPT !.kind = "unlock"])
            /\ Go(r, "unlocking", work[r])
       ELSE Go(r, "rotate", work[r]) /\ UNCHANGED <<salts, at, job>>
  /\ UNCHANGED <<passphrase, master, cache, raced, stored, isMongo>>

RotateUnlocked(r) ==
  /\ step[r] = "unlocking" /\ MasterReady(r)
  /\ Go(r, "rotate", work[r]) /\ UNCHANGED <<stored, isMongo>>

\* Variant: the key that the engine derives from the old passphrase.
OldKeyOfEngine(p, old) == [pass |-> old, salt |-> p]

\* A new vault with the old passphrase: a master key of its own, with a salt
\* that nobody has seen, and a sub-key of it.
OldKey(p, old) == SubKey([pass |-> old, number |-> 0], p, p)

\* What rotate_shard encrypts with: a sub-key of the vault, never a key that
\* the engine derives.
RotatedKey(p) == SubKey([pass |-> Nothing, number |-> 0], p, Nothing)

\* The pool jobs of rotate_shard, and the update of the stored pulse if they
\* succeed (one step here); with another key they raise InvalidTag.
RotateShard(r) ==
  LET p == work[r].pulse
  IN  /\ step[r] = "rotate"
      /\ IF work[r].blob = OldKey(p, work[r].old)
           THEN /\ stored[p] # NotStored
                /\ stored' = [stored EXCEPT ![p] = RotatedKey(p)]
                /\ Emit(r, [work[r] EXCEPT !.effect = TRUE])
           ELSE /\ UNCHANGED stored
                /\ Emit(r, [work[r] EXCEPT !.error = "blank"])
      /\ UNCHANGED <<vaultVars, isMongo>>

-----------------------------------------------------------------------------
\* The request has its answer, or is cancelled before.
Leave(r) ==
  /\ step[r] # "idle"
  /\ step' = [step EXCEPT ![r] = "idle"] /\ work' = [work EXCEPT ![r] = NoWork]
  /\ IF at[r] = "idle" THEN UNCHANGED vaultVars ELSE Cancel(r)
  /\ UNCHANGED <<stored, isMongo>>

\* The next process: without MongoDB the pulses are gone as well.
ServerRestart ==
  /\ Restart
  /\ step' = [r \in Requests |-> "idle"] /\ work' = [r \in Requests |-> NoWork]
  /\ stored' = IF isMongo THEN stored ELSE [p \in Pulses |-> NotStored]
  /\ UNCHANGED isMongo

Handler(r) ==
  \/ \E p \in Pulses :
       \/ \E kind \in {"seal", "file"} : Seal(r, kind, p)
       \/ \E kind \in {"unseal", "stream"} : Read(r, kind, p)
       \/ Delete(r, p) \/ \E old \in Passphrases : Rotate(r, p, old)
  \/ Encrypt(r) \/ Save(r) \/ Drop(r) \/ Refuse(r) \/ Finish(r) \/ Load(r)
  \/ Decrypt(r) \/ RotateUnlock(r) \/ RotateUnlocked(r) \/ RotateShard(r)
  \/ Inserted(r) \/ Leave(r)

ServerNext ==
  \/ \E r \in Requests :
       \/ Handler(r)
       \/ step[r] = "idle" /\ VaultCall(r) /\ UNCHANGED handlerVars
  \/ \E e \in cache : Expire(e) /\ UNCHANGED handlerVars
  \/ ServerRestart

ServerSpec == ServerInit /\ [][ServerNext]_serverVars

-----------------------------------------------------------------------------
(* Properties.                                                             *)

\* What the audit log calls a success has happened, whoever else was at work
\* on the pulse; but for a stream, whose record is written first, and for an
\* error without a text.
AuditTruthful ==
  \A r \in Requests :
    /\ work[r].record = "success" /\ work[r].error # "blank"
    /\ work[r].kind # "stream"
    => work[r].effect

\* A pulse that is stored can be unsealed by the engine, before and after
\* every change of the passphrase and every rotation.
StoredUnseals ==
  \A p \in Pulses : stored[p] \in {NotStored, EngineKey(p)}

\* "qp rotate: re-encrypt under new passphrase" (README.md:200): a rotation
\* with the passphrase that the pulse was sealed under does not fail.
RightPassphraseRotates ==
  \A r \in Requests :
    work[r].kind = "rotate" /\ work[r].old = Startup => work[r].error = "none"
=============================================================================
