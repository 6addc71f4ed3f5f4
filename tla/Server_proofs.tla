---------------------------- MODULE Server_proofs ----------------------------
(***************************************************************************)
(* Proofs about KeyVault and Server, for any number of requests, pulses,   *)
(* salts and passphrases.                                                  *)
(*                                                                         *)
(* The vault: MasterOfPassphrase and SubKeyOfMaster are consequences of    *)
(* VaultInv, which is inductive.  While the last change met no derivation, *)
(* every derivation in the pool is one of the passphrase of the vault      *)
(* (Current), so it does not matter which of them ends last; and a sub-key *)
(* is filed under the master key and the pulse that it was derived from    *)
(* (Filed), with the result of a request empty while it waits (Waiting).   *)
(*                                                                         *)
(* The server: every step of the handlers is a step of the vault or leaves *)
(* it alone, so what is proved of the vault holds in the server; and       *)
(* AuditTruthful and StoredUnseals are consequences of ServerInv, which is *)
(* inductive.  A request waits for the vault only while it unlocks it      *)
(* (AtVault), and, but for a stream, has a record of success only when its *)
(* handler is over (Sound); what it has loaded was encrypted by the engine *)
(* for its own pulse, which is never what a rotation asks for.             *)
(***************************************************************************)
EXTENDS Server, TLAPS

-----------------------------------------------------------------------------
(* The vault.                                                              *)

Keys == [master : Masters, pulse : Pulses, salt : Salts]
Jobs == [kind : {"none", "unlock", "change", "derive"},
         pulse : Pulses \cup {Nothing}, salt : Salts \cup {Nothing},
         master : Masters \cup {NoMaster}, key : Keys \cup {NoKey}]

VaultTypeOK ==
  /\ passphrase \in Passphrases /\ master \in Masters \cup {NoMaster}
  /\ cache \subseteq [under : Masters, pulse : Pulses, key : Keys]
  /\ salts \in 0..MaxSalts /\ raced \in BOOLEAN
  /\ at \in [Requests -> {"idle", "pbkdf2", "hkdf"}]
  /\ job \in [Requests -> Jobs]

\* A job that waits for the pool, or is about to.
Asking(j) ==
  /\ j.key = NoKey
  /\ j.kind = "derive" => j.pulse \in Pulses /\ j.salt \in Salts

Waiting ==
  \A r \in Requests :
    at[r] # "idle" => /\ Asking(job[r]) /\ job[r].master \in Masters
                      /\ at[r] = "hkdf" => job[r].kind = "derive"

Filed == \A e \in cache : e.key.master = e.under /\ e.key.pulse = e.pulse

Current ==
  raced \/ /\ master = NoMaster \/ master.pass = passphrase
           /\ \A r \in Deriving : job[r].master.pass = passphrase

VaultInv == VaultTypeOK /\ Waiting /\ Filed /\ SubKeyOfMaster /\ Current

\* What the requests contribute to VaultInv.
RequestsOK ==
  /\ salts \in 0..MaxSalts
  /\ at \in [Requests -> {"idle", "pbkdf2", "hkdf"}]
  /\ job \in [Requests -> Jobs]
  /\ Waiting /\ SubKeyOfMaster

-----------------------------------------------------------------------------
\* An empty job is well typed and asks for nothing.
LEMMA NoJobTyped == NoJob \in Jobs /\ NoJob.key = NoKey /\ NoJob.kind = "none"
  BY DEF NoJob, Jobs, NoKey, SubKey

\* A step that changes the state and the job of one request keeps RequestsOK if
\* they are right.
LEMMA OneRequest ==
  ASSUME VaultInv, NEW r \in Requests, salts' \in 0..MaxSalts,
         NEW where \in {"idle", "pbkdf2", "hkdf"}, NEW j \in Jobs,
         at' = [at EXCEPT ![r] = where], job' = [job EXCEPT ![r] = j],
         where # "idle" => /\ Asking(j) /\ j.master \in Masters
                           /\ where = "hkdf" => j.kind = "derive",
         j.key # NoKey => j.key.master = j.master /\ j.key.pulse = j.pulse
  PROVE  RequestsOK'
  <1>1. /\ at' \in [Requests -> {"idle", "pbkdf2", "hkdf"}]
        /\ job' \in [Requests -> Jobs]
    BY DEF VaultInv, VaultTypeOK
  <1>2. /\ at'[r] = where /\ job'[r] = j
        /\ \A q \in Requests \ {r} : at'[q] = at[q] /\ job'[q] = job[q]
    BY DEF VaultInv, VaultTypeOK
  <1>3. Waiting'
    BY <1>2 DEF VaultInv, Waiting, Asking
  <1>4. SubKeyOfMaster'
    BY <1>2 DEF VaultInv, SubKeyOfMaster
  <1> QED
    BY <1>1, <1>3, <1>4 DEF RequestsOK

\* DeriveMaster sends a request with an empty result to the pool.
LEMMA DeriveMasterOK ==
  ASSUME VaultInv, NEW r \in Requests, NEW pass \in Passphrases, NEW now \in Jobs,
         Asking(now), DeriveMaster(r, pass, now)
  PROVE  /\ RequestsOK'
         /\ at' = [at EXCEPT ![r] = "pbkdf2"]
         /\ job'[r].master.pass = pass
         /\ \A q \in Requests \ {r} : job'[q] = job[q]
  <1> DEFINE m == [pass |-> pass, number |-> salts + 1]
             j == [now EXCEPT !.master = m]
  <1>1. m \in Masters /\ salts' \in 0..MaxSalts
    BY VaultAssumption DEF DeriveMaster, VaultInv, VaultTypeOK, Masters
  <1>2. j \in Jobs /\ j.master = m /\ m.pass = pass /\ Asking(j) /\ j.key = NoKey
    BY <1>1 DEF Jobs, Asking
  <1>3. at' = [at EXCEPT ![r] = "pbkdf2"] /\ job' = [job EXCEPT ![r] = j]
    BY DEF DeriveMaster
  <1>4. RequestsOK'
    BY <1>1, <1>2, <1>3, OneRequest
  <1>5. job'[r] = j /\ \A q \in Requests \ {r} : job'[q] = job[q]
    BY <1>3 DEF VaultInv, VaultTypeOK
  <1> QED
    BY <1>2, <1>3, <1>4, <1>5

\* LookUp finds a sub-key of its master key, or sends the request to the pool.
LEMMA LookUpOK ==
  ASSUME VaultInv, NEW r \in Requests, NEW m \in Masters, NEW now \in Jobs,
         Asking(now), now.kind = "derive", LookUp(r, m, now), salts' \in 0..MaxSalts
  PROVE  RequestsOK' /\ at'[r] # "pbkdf2"
         /\ \A q \in Requests \ {r} : at'[q] = at[q] /\ job'[q] = job[q]
  <1> DEFINE found == Cached(m, now.pulse)
  <1>1. CASE found = {}
    <2> DEFINE j == [now EXCEPT !.master = m]
    <2>1. at' = [at EXCEPT ![r] = "hkdf"] /\ job' = [job EXCEPT ![r] = j]
      BY <1>1 DEF LookUp
    <2>2. /\ j \in Jobs /\ j.master = m /\ Asking(j) /\ j.kind = "derive"
          /\ j.key = NoKey
      BY DEF Jobs, Asking
    <2>3. RequestsOK'
      BY <2>1, <2>2, OneRequest
    <2> QED
      BY <2>1, <2>3 DEF VaultInv, VaultTypeOK
  <1>2. CASE found # {}
    <2>1. PICK e \in found : /\ at' = [at EXCEPT ![r] = "idle"]
                             /\ job' = [job EXCEPT ![r] =
                                  [now EXCEPT !.master = m, !.key = e.key]]
      BY <1>2 DEF LookUp
    <2> DEFINE j == [now EXCEPT !.master = m, !.key = e.key]
    <2>2. /\ e.under = m /\ e.pulse = now.pulse /\ e.key \in Keys
          /\ e.key.master = m /\ e.key.pulse = now.pulse
      BY DEF Cached, VaultInv, VaultTypeOK, Filed
    <2>3. j \in Jobs /\ j.master = m /\ j.key = e.key /\ j.pulse = now.pulse
      BY <2>2 DEF Jobs
    <2>4. RequestsOK'
      BY <2>1, <2>2, <2>3, OneRequest
    <2> QED
      BY <2>1, <2>4 DEF VaultInv, VaultTypeOK
  <1> QED
    BY <1>1, <1>2

-----------------------------------------------------------------------------
\* The vault starts with the master key of its passphrase and no request.
LEMMA InitInv == VaultInit => VaultInv
  <1> SUFFICES ASSUME VaultInit PROVE VaultInv
    OBVIOUS
  <1>1. VaultTypeOK
    <2>1. 1 \in 1..MaxSalts
      BY VaultAssumption
    <2>2. [pass |-> Startup, number |-> 1] \in Masters
      BY <2>1, VaultAssumption DEF Masters
    <2>3. passphrase \in Passphrases /\ master \in Masters \cup {NoMaster}
      BY <2>2, VaultAssumption DEF VaultInit
    <2>4. cache = {} /\ raced \in BOOLEAN
      BY DEF VaultInit
    <2>5. salts \in 0..MaxSalts
      BY VaultAssumption DEF VaultInit
    <2>6. /\ at \in [Requests -> {"idle", "pbkdf2", "hkdf"}]
          /\ job \in [Requests -> Jobs]
      BY NoJobTyped DEF VaultInit
    <2> QED
      BY <2>3, <2>4, <2>5, <2>6 DEF VaultTypeOK
  <1>2. Waiting /\ Filed /\ SubKeyOfMaster
    BY NoJobTyped DEF VaultInit, Waiting, Filed, SubKeyOfMaster
  <1>3. Current
    BY DEF VaultInit, Current, Deriving
  <1> QED
    BY <1>1, <1>2, <1>3 DEF VaultInv

\* unlock keeps VaultInv: it derives from the passphrase of the vault.
LEMMA UnlockInv ==
  ASSUME VaultInv, NEW r \in Requests, Unlock(r)
  PROVE  VaultInv'
  <1> DEFINE now == [NoJob EXCEPT !.kind = "unlock"]
  <1>1. now \in Jobs /\ Asking(now)
    BY NoJobTyped DEF Jobs, Asking
  <1>2. DeriveMaster(r, passphrase, now) /\ passphrase \in Passphrases
    BY DEF Unlock, VaultInv, VaultTypeOK
  <1>3. /\ RequestsOK' /\ job'[r].master.pass = passphrase
        /\ at' = [at EXCEPT ![r] = "pbkdf2"]
        /\ \A q \in Requests \ {r} : job'[q] = job[q]
    BY <1>1, <1>2, DeriveMasterOK
  <1>4. VaultTypeOK' /\ Waiting' /\ Filed' /\ SubKeyOfMaster'
    BY <1>3 DEF Unlock, VaultInv, VaultTypeOK, RequestsOK, Filed
  <1>5. Current'
    BY <1>3 DEF Unlock, VaultInv, VaultTypeOK, Current, Deriving
  <1> QED
    BY <1>4, <1>5 DEF VaultInv

\* change_passphrase keeps VaultInv: it is the only derivation under way unless
\* it says that it met one.
LEMMA ChangeInv ==
  ASSUME VaultInv, NEW r \in Requests, NEW new \in Passphrases,
         ChangePassphrase(r, new)
  PROVE  VaultInv'
  <1> DEFINE now == [NoJob EXCEPT !.kind = "change"]
  <1>1. now \in Jobs /\ Asking(now)
    BY NoJobTyped DEF Jobs, Asking
  <1>2. /\ RequestsOK' /\ job'[r].master.pass = new
        /\ at' = [at EXCEPT ![r] = "pbkdf2"]
        /\ \A q \in Requests \ {r} : job'[q] = job[q]
    BY <1>1, DeriveMasterOK DEF ChangePassphrase
  <1>3. VaultTypeOK' /\ Waiting' /\ Filed' /\ SubKeyOfMaster'
    BY <1>2 DEF ChangePassphrase, VaultInv, VaultTypeOK, RequestsOK, Filed
  <1>4. Current'
    BY <1>2 DEF ChangePassphrase, VaultInv, VaultTypeOK, Current, Deriving
  <1> QED
    BY <1>3, <1>4 DEF VaultInv

\* derive_shard_key keeps VaultInv, with a master key and without.
LEMMA DeriveInv ==
  ASSUME VaultInv, NEW r \in Requests, NEW p \in Pulses, NEW s \in Salts,
         DeriveShardKey(r, p, s)
  PROVE  VaultInv'
  <1> DEFINE now == [NoJob EXCEPT !.kind = "derive", !.pulse = p, !.salt = s]
  <1>1. now \in Jobs /\ Asking(now) /\ now.kind = "derive"
    BY NoJobTyped DEF NoJob, Jobs, Asking
  <1>2. CASE master = NoMaster
    <2>1. DeriveMaster(r, passphrase, now) /\ passphrase \in Passphrases
      BY <1>2 DEF DeriveShardKey, VaultInv, VaultTypeOK
    <2>2. /\ RequestsOK' /\ job'[r].master.pass = passphrase
          /\ at' = [at EXCEPT ![r] = "pbkdf2"]
          /\ \A q \in Requests \ {r} : job'[q] = job[q]
      BY <1>1, <2>1, DeriveMasterOK
    <2>3. VaultTypeOK' /\ Waiting' /\ Filed' /\ SubKeyOfMaster'
      BY <2>2 DEF DeriveShardKey, VaultInv, VaultTypeOK, RequestsOK, Filed
    <2>4. Current'
      BY <2>2 DEF DeriveShardKey, VaultInv, VaultTypeOK, Current, Deriving
    <2> QED
      BY <2>3, <2>4 DEF VaultInv
  <1>3. CASE master # NoMaster
    <2>1. /\ LookUp(r, master, now) /\ master \in Masters
          /\ salts' \in 0..MaxSalts
      BY <1>3 DEF DeriveShardKey, VaultInv, VaultTypeOK
    <2>2. /\ RequestsOK' /\ at'[r] # "pbkdf2"
          /\ \A q \in Requests \ {r} : at'[q] = at[q] /\ job'[q] = job[q]
      BY <1>1, <2>1, LookUpOK
    <2>3. VaultTypeOK' /\ Waiting' /\ Filed' /\ SubKeyOfMaster'
      BY <2>2 DEF DeriveShardKey, VaultInv, VaultTypeOK, RequestsOK, Filed
    <2>4. Current'
      BY <2>2 DEF DeriveShardKey, VaultInv, Current, Deriving
    <2> QED
      BY <2>3, <2>4 DEF VaultInv
  <1> QED
    BY <1>2, <1>3

\* A master key that arrives is of the passphrase of the vault, if no change
\* met its derivation.
LEMMA MasterReadyInv ==
  ASSUME VaultInv, NEW r \in Requests, MasterReady(r)
  PROVE  VaultInv'
  <1>1. /\ job[r] \in Jobs /\ Asking(job[r]) /\ job[r].master \in Masters
        /\ r \in Deriving /\ salts' \in 0..MaxSalts
    BY DEF MasterReady, VaultInv, VaultTypeOK, Waiting, Deriving
  <1>2. /\ RequestsOK' /\ at'[r] # "pbkdf2"
        /\ \A q \in Requests \ {r} : at'[q] = at[q] /\ job'[q] = job[q]
    <2>1. CASE job[r].kind = "derive"
      BY <1>1, <2>1, LookUpOK DEF MasterReady
    <2>2. CASE job[r].kind # "derive"
      <3>1. at' = [at EXCEPT ![r] = "idle"] /\ job' = [job EXCEPT ![r] = NoJob]
        BY <2>2 DEF MasterReady
      <3>2. RequestsOK'
        BY <1>1, <3>1, NoJobTyped, OneRequest
      <3> QED
        BY <3>1, <3>2 DEF VaultInv, VaultTypeOK
    <2> QED
      BY <2>1, <2>2
  <1>3. VaultTypeOK' /\ Waiting' /\ Filed' /\ SubKeyOfMaster'
    BY <1>1, <1>2 DEF MasterReady, VaultInv, VaultTypeOK, RequestsOK, Filed
  <1>4. Current'
    BY <1>1, <1>2 DEF MasterReady, VaultInv, Current, Deriving
  <1> QED
    BY <1>3, <1>4 DEF VaultInv

\* A sub-key is filed under what it was derived from.
LEMMA SubKeyReadyInv ==
  ASSUME VaultInv, NEW r \in Requests, SubKeyReady(r)
  PROVE  VaultInv'
  <1> DEFINE k == SubKey(job[r].master, job[r].pulse, job[r].salt)
             j == [job[r] EXCEPT !.key = k]
             e == [under |-> job[r].master, pulse |-> job[r].pulse, key |-> k]
  <1>1. /\ job[r] \in Jobs /\ job[r].master \in Masters
        /\ job[r].pulse \in Pulses /\ job[r].salt \in Salts
    BY DEF SubKeyReady, VaultInv, VaultTypeOK, Waiting, Asking
  <1>2. /\ k \in Keys /\ k.master = job[r].master /\ k.pulse = job[r].pulse
        /\ j \in Jobs /\ j.key = k /\ j.master = job[r].master
        /\ j.pulse = job[r].pulse
    BY <1>1 DEF SubKey, Keys, Jobs
  <1>3. /\ at' = [at EXCEPT ![r] = "idle"] /\ job' = [job EXCEPT ![r] = j]
        /\ salts' \in 0..MaxSalts
    BY DEF SubKeyReady, VaultInv, VaultTypeOK
  <1>4. RequestsOK'
    BY <1>2, <1>3, OneRequest
  <1>5. cache' \subseteq cache \cup {e}
    BY DEF SubKeyReady
  <1>6. VaultTypeOK' /\ Waiting' /\ SubKeyOfMaster'
    BY <1>1, <1>2, <1>4, <1>5 DEF SubKeyReady, VaultInv, VaultTypeOK, RequestsOK
  <1>7. Filed'
    BY <1>2, <1>5 DEF VaultInv, Filed
  <1>8. Current'
    BY <1>3 DEF SubKeyReady, VaultInv, VaultTypeOK, Current, Deriving
  <1> QED
    BY <1>6, <1>7, <1>8 DEF VaultInv

\* A cancelled request is forgotten; what it waited for never arrives.
LEMMA CancelInv ==
  ASSUME VaultInv, NEW r \in Requests, Cancel(r)
  PROVE  VaultInv'
  <1>1. /\ at' = [at EXCEPT ![r] = "idle"] /\ job' = [job EXCEPT ![r] = NoJob]
        /\ salts' \in 0..MaxSalts
    BY DEF Cancel, VaultInv, VaultTypeOK
  <1>2. RequestsOK'
    BY <1>1, NoJobTyped, OneRequest
  <1>3. VaultTypeOK' /\ Waiting' /\ Filed' /\ SubKeyOfMaster'
    BY <1>2 DEF Cancel, VaultInv, VaultTypeOK, RequestsOK, Filed
  <1>4. Current'
    BY <1>1 DEF Cancel, VaultInv, VaultTypeOK, Current, Deriving
  <1> QED
    BY <1>3, <1>4 DEF VaultInv

\* The next process starts as the first did, with a salt of its own.
LEMMA RestartInv ==
  ASSUME VaultInv, Restart
  PROVE  VaultInv'
  <1>1. VaultTypeOK'
    <2>1. salts + 1 \in 1..MaxSalts
      BY VaultAssumption DEF Restart, VaultInv, VaultTypeOK
    <2>2. [pass |-> Startup, number |-> salts + 1] \in Masters
      BY <2>1, VaultAssumption DEF Masters
    <2>3. passphrase' \in Passphrases /\ master' \in Masters \cup {NoMaster}
      BY <2>2, VaultAssumption DEF Restart
    <2>4. cache' = {} /\ raced' \in BOOLEAN
      BY DEF Restart
    <2>5. salts' \in 0..MaxSalts
      BY <2>1, VaultAssumption DEF Restart
    <2>6. /\ at' \in [Requests -> {"idle", "pbkdf2", "hkdf"}]
          /\ job' \in [Requests -> Jobs]
      BY NoJobTyped DEF Restart
    <2> QED
      BY <2>3, <2>4, <2>5, <2>6 DEF VaultTypeOK
  <1>2. Waiting' /\ Filed' /\ SubKeyOfMaster'
    BY NoJobTyped DEF Restart, Waiting, Filed, SubKeyOfMaster
  <1>3. Current'
    BY DEF Restart, Current, Deriving
  <1> QED
    BY <1>1, <1>2, <1>3 DEF VaultInv

\* Every step of the vault keeps VaultInv.
LEMMA StepInv == VaultInv /\ [VaultNext]_vaultVars => VaultInv'
  <1> SUFFICES ASSUME VaultInv, [VaultNext]_vaultVars PROVE VaultInv'
    OBVIOUS
  <1>1. ASSUME NEW r \in Requests, VaultCall(r) PROVE VaultInv'
    BY <1>1, UnlockInv, MasterReadyInv, SubKeyReadyInv, CancelInv, ChangeInv,
       DeriveInv DEF VaultCall
  <1>2. ASSUME NEW e \in cache, Expire(e) PROVE VaultInv'
    BY <1>2 DEF Expire, VaultInv, VaultTypeOK, Waiting, Asking, Filed,
                SubKeyOfMaster, Current, Deriving
  <1>3. ASSUME UNCHANGED vaultVars PROVE VaultInv'
    BY <1>3 DEF vaultVars, VaultInv, VaultTypeOK, Waiting, Asking, Filed,
                SubKeyOfMaster, Current, Deriving
  <1> QED
    BY <1>1, <1>2, <1>3, RestartInv DEF VaultNext

\* VaultInv holds in every state of the vault.
LEMMA VaultInvariant == VaultSpec => []VaultInv
  BY InitInv, StepInv, PTL DEF VaultSpec

\* core/vault.py: the variables of the vault keep their types, and its cache
\* holds sub-keys only.
THEOREM VaultTypeCorrect == VaultSpec => []VaultTypeOK
  <1>1. VaultInv => VaultTypeOK
    BY DEF VaultInv
  <1> QED
    BY <1>1, VaultInvariant, PTL

\* However many requests unlock the vault, change its passphrase and derive
\* sub-keys, its master key is that of its passphrase unless the last change
\* met a derivation.
THEOREM MasterAlwaysOfPassphrase == VaultSpec => []MasterOfPassphrase
  <1>1. VaultInv => MasterOfPassphrase
    BY DEF VaultInv, Current, MasterOfPassphrase
  <1> QED
    BY <1>1, VaultInvariant, PTL

\* A sub-key that derive_shard_key returns always belongs to the master key of
\* its look-up and to its pulse.
THEOREM SubKeyAlwaysOfMaster == VaultSpec => []SubKeyOfMaster
  <1>1. VaultInv => SubKeyOfMaster
    BY DEF VaultInv
  <1> QED
    BY <1>1, VaultInvariant, PTL

-----------------------------------------------------------------------------
(* The server.                                                             *)

Handlers == {"none", "seal", "file", "unseal", "stream", "delete", "rotate"}
Steps == {"idle", "encrypt", "save", "drop", "finish", "load", "decrypt",
          "insert", "unlock", "unlocking", "rotate", "answered"}

\* What the database may hold for a pulse.
Blobs(p) == {NotStored, EngineKey(p)}

Works == [kind : Handlers, pulse : Pulses \cup {Nothing},
          old : Passphrases \cup {Nothing},
          blob : {NotStored} \cup {EngineKey(p) : p \in Pulses},
          effect : BOOLEAN, error : {"none", "text", "blank"},
          record : {"none", "success", "failure", "lost"}]

\* A handler at a step, with what it has in its hands.
Sound(s, w) ==
  /\ s # "idle" => w.pulse \in Pulses
  /\ w.blob \in Blobs(w.pulse)
  /\ w.kind # "stream" /\ w.record = "success" =>
       /\ s \in {"insert", "answered"}
       /\ w.error # "blank" => w.effect

AtVault(s, where, j) ==
  /\ s \notin {"idle", "unlocking"} => where = "idle"
  /\ s = "unlocking" => where = "pbkdf2" /\ j.kind = "unlock"

HandlersOK ==
  /\ step \in [Requests -> Steps] /\ work \in [Requests -> Works]
  /\ \A r \in Requests : Sound(step[r], work[r])

StoredOK == DOMAIN stored = Pulses /\ StoredUnseals

VaultKept == \A r \in Requests : AtVault(step[r], at[r], job[r])

ServerInv == VaultInv /\ HandlersOK /\ StoredOK /\ VaultKept

-----------------------------------------------------------------------------
\* A request without work.
LEMMA NoWorkSound == NoWork \in Works /\ \A s \in {"idle"} : Sound(s, NoWork)
  BY DEF NoWork, Works, Handlers, Sound, Blobs

\* A rotation asks for a key that the engine never makes.
LEMMA OldKeyIsNone ==
  ASSUME NEW p, NEW q, NEW old
  PROVE  OldKey(p, old) \notin Blobs(q)
  <1>1. "master" \in DOMAIN OldKey(p, old)
    BY DEF OldKey, SubKey
  <1>2. "master" \notin DOMAIN NotStored /\ "master" \notin DOMAIN EngineKey(q)
    BY DEF NotStored, EngineKey
  <1> QED
    BY <1>1, <1>2 DEF Blobs

\* The step of one handler keeps HandlersOK if its result is right.
LEMMA GoOK ==
  ASSUME HandlersOK, NEW r \in Requests, NEW next \in Steps, NEW now \in Works,
         Sound(next, now), Go(r, next, now)
  PROVE  /\ HandlersOK'
         /\ step'[r] = next /\ \A q \in Requests \ {r} : step'[q] = step[q]
  BY DEF HandlersOK, Go

\* A handler that leaves the vault alone, and was not waiting for it or is not
\* any more, keeps VaultKept.
LEMMA OutsideVault ==
  ASSUME VaultKept, NEW r \in Requests, UNCHANGED vaultVars,
         step[r] \notin {"idle", "unlocking"} \/ at[r] = "idle",
         step'[r] # "unlocking",
         \A q \in Requests \ {r} : step'[q] = step[q]
  PROVE  VaultKept'
  BY DEF VaultKept, AtVault, vaultVars

\* emit: the record says what the handler did, or nothing.
LEMMA EmitOK ==
  ASSUME HandlersOK, NEW r \in Requests, NEW now \in Works,
         now.pulse \in Pulses, now.blob \in Blobs(now.pulse),
         now.kind = "stream" \/ now.error # "none" \/ now.effect,
         Emit(r, now)
  PROVE  /\ HandlersOK' /\ step'[r] # "unlocking"
         /\ \A q \in Requests \ {r} : step'[q] = step[q]
  <1>1. PICK written \in {Outcome(now.error), "lost"} :
          Go(r, IF isMongo THEN "insert" ELSE AfterRecord(now),
                [now EXCEPT !.record = written])
    BY DEF Emit
  <1> DEFINE next == IF isMongo THEN "insert" ELSE AfterRecord(now)
             w == [now EXCEPT !.record = written]
  <1>2. next \in {"insert", "decrypt", "answered"}
        /\ (now.kind # "stream" => next \in {"insert", "answered"})
    BY DEF AfterRecord
  <1>3. /\ w \in Works /\ w.kind = now.kind /\ w.pulse = now.pulse
        /\ w.blob = now.blob /\ w.error = now.error /\ w.effect = now.effect
        /\ w.record = written
    BY DEF Works, Outcome
  <1>4. written = "success" => now.error # "text"
    BY DEF Outcome
  <1>5. now.error \in {"none", "text", "blank"}
    BY DEF Works
  <1>6. Sound(next, w)
    BY <1>2, <1>3, <1>4, <1>5 DEF Sound
  <1>7. next \in Steps /\ next # "unlocking"
    BY <1>2 DEF Steps
  <1> QED
    BY <1>1, <1>3, <1>6, <1>7, GoOK

-----------------------------------------------------------------------------
(* The handlers that leave the vault alone.                                *)

\* A new request, of any kind.
LEMMA ArriveInv ==
  ASSUME ServerInv, NEW r \in Requests, NEW kind \in Handlers, NEW p \in Pulses,
         NEW old \in Passphrases \cup {Nothing},
         NEW first \in {"encrypt", "load", "drop"}, Arrive(r, kind, p, old, first)
  PROVE  ServerInv' /\ UNCHANGED vaultVars
  <1> DEFINE w == [NoWork EXCEPT !.kind = kind, !.pulse = p, !.old = old]
  <1>1. /\ w \in Works /\ w.kind = kind /\ w.pulse = p /\ w.blob = NotStored
        /\ w.record = "none"
    BY DEF NoWork, Works
  <1>2. Sound(first, w)
    BY <1>1 DEF Sound, Blobs
  <1>3. /\ HandlersOK' /\ step'[r] = first
        /\ \A q \in Requests \ {r} : step'[q] = step[q]
    BY <1>1, <1>2, GoOK DEF Arrive, ServerInv, Steps
  <1>4. VaultKept'
    BY <1>3, OutsideVault DEF Arrive, Free, ServerInv
  <1>5. VaultInv'
    BY DEF Arrive, ServerInv, vaultVars, VaultInv, VaultTypeOK, Waiting, Asking,
           Filed, SubKeyOfMaster, Current, Deriving
  <1> QED
    BY <1>3, <1>4, <1>5 DEF Arrive, ServerInv, StoredOK, StoredUnseals

\* The other steps share this frame: the vault is left alone, the handlers are
\* right and the stored pulses too.
LEMMA Framed ==
  ASSUME ServerInv, NEW r \in Requests, UNCHANGED vaultVars,
         step[r] \notin {"idle", "unlocking"},
         HandlersOK', StoredOK', step'[r] # "unlocking",
         \A q \in Requests \ {r} : step'[q] = step[q]
  PROVE  ServerInv'
  <1>1. VaultKept'
    BY OutsideVault DEF ServerInv
  <1>2. VaultInv'
    BY DEF ServerInv, vaultVars, VaultInv, VaultTypeOK, Waiting, Asking, Filed,
           SubKeyOfMaster, Current, Deriving
  <1> QED
    BY <1>1, <1>2 DEF ServerInv

\* What the database holds does not change.
LEMMA StoredSame ==
  ASSUME ServerInv, UNCHANGED stored
  PROVE  StoredOK'
  BY DEF ServerInv, StoredOK, StoredUnseals

\* A handler that has not come to its record yet.
LEMMA Unrecorded ==
  ASSUME ServerInv, NEW r \in Requests,
         step[r] \notin {"idle", "insert", "answered"}
  PROVE  /\ work[r] \in Works /\ work[r].pulse \in Pulses
         /\ work[r].blob \in Blobs(work[r].pulse)
         /\ work[r].kind # "stream" => work[r].record # "success"
  BY DEF ServerInv, HandlersOK, Sound

\* It may always answer.
LEMMA AnswerOK ==
  ASSUME ServerInv, NEW r \in Requests, NEW now \in Works,
         now.pulse \in Pulses, now.blob \in Blobs(now.pulse),
         now.kind # "stream" => now.record # "success", Answer(r, now)
  PROVE  /\ HandlersOK' /\ step'[r] # "unlocking"
         /\ \A q \in Requests \ {r} : step'[q] = step[q]
  BY GoOK DEF ServerInv, Answer, Sound, Steps

\* Or go on.
LEMMA GoOnOK ==
  ASSUME ServerInv, NEW r \in Requests, NEW now \in Works, NEW next \in Steps,
         now.pulse \in Pulses, now.blob \in Blobs(now.pulse),
         now.kind # "stream" => now.record # "success",
         next # "unlocking", Go(r, next, now)
  PROVE  /\ HandlersOK' /\ step'[r] # "unlocking"
         /\ \A q \in Requests \ {r} : step'[q] = step[q]
  BY GoOK DEF ServerInv, Sound

\* A seal that has encrypted or failed.
LEMMA EncryptInv ==
  ASSUME ServerInv, NEW r \in Requests, Encrypt(r)
  PROVE  ServerInv' /\ UNCHANGED vaultVars
  <1> DEFINE now == [work[r] EXCEPT !.error = "text"]
  <1>1. step[r] = "encrypt"
    BY DEF Encrypt
  <1>2. /\ work[r] \in Works /\ work[r].pulse \in Pulses
        /\ work[r].blob \in Blobs(work[r].pulse)
        /\ work[r].kind # "stream" => work[r].record # "success"
    BY <1>1, Unrecorded
  <1>3. /\ now \in Works /\ now.pulse = work[r].pulse /\ now.blob = work[r].blob
        /\ now.kind = work[r].kind /\ now.record = work[r].record
        /\ now.error = "text"
    BY <1>2 DEF Works
  <1>4. Go(r, "save", work[r]) \/ Emit(r, now) \/ Answer(r, now)
    BY DEF Encrypt
  <1>5. /\ HandlersOK' /\ step'[r] # "unlocking"
        /\ \A q \in Requests \ {r} : step'[q] = step[q]
    BY <1>2, <1>3, <1>4, GoOnOK, EmitOK, AnswerOK DEF Steps, ServerInv
  <1> QED
    BY <1>1, <1>5, Framed, StoredSame DEF Encrypt

\* A pulse that was saved is one that the engine sealed.
LEMMA SaveInv ==
  ASSUME ServerInv, NEW r \in Requests, Save(r)
  PROVE  ServerInv' /\ UNCHANGED vaultVars
  <1> DEFINE now == [work[r] EXCEPT !.effect = TRUE]
  <1>1. step[r] = "save"
    BY DEF Save
  <1>2. /\ work[r] \in Works /\ work[r].pulse \in Pulses
        /\ work[r].blob \in Blobs(work[r].pulse)
        /\ work[r].kind # "stream" => work[r].record # "success"
    BY <1>1, Unrecorded
  <1>3. /\ now \in Works /\ now.pulse = work[r].pulse /\ now.blob = work[r].blob
        /\ now.kind = work[r].kind /\ now.record = work[r].record
    BY <1>2 DEF Works
  <1>4. /\ HandlersOK' /\ step'[r] # "unlocking"
        /\ \A q \in Requests \ {r} : step'[q] = step[q]
    BY <1>2, <1>3, GoOnOK DEF Save, Steps
  <1>5. StoredOK'
    BY <1>2 DEF Save, ServerInv, StoredOK, StoredUnseals
  <1> QED
    BY <1>1, <1>4, <1>5, Framed DEF Save

\* A delete, whether or not it found the pulse.
LEMMA DropInv ==
  ASSUME ServerInv, NEW r \in Requests, Drop(r)
  PROVE  ServerInv' /\ UNCHANGED vaultVars
  <1> DEFINE now ==
        [work[r] EXCEPT !.effect = stored[work[r].pulse] # NotStored]
  <1>1. step[r] = "drop"
    BY DEF Drop
  <1>2. /\ work[r] \in Works /\ work[r].pulse \in Pulses
        /\ work[r].blob \in Blobs(work[r].pulse)
        /\ work[r].kind # "stream" => work[r].record # "success"
    BY <1>1, Unrecorded
  <1>3. /\ now \in Works /\ now.pulse = work[r].pulse /\ now.blob = work[r].blob
        /\ now.kind = work[r].kind /\ now.record = work[r].record
    BY <1>2 DEF Works
  <1>4. /\ HandlersOK' /\ step'[r] # "unlocking"
        /\ \A q \in Requests \ {r} : step'[q] = step[q]
    BY <1>2, <1>3, GoOnOK DEF Drop, Steps
  <1>5. StoredOK'
    BY <1>2 DEF Drop, ServerInv, StoredOK, StoredUnseals
  <1> QED
    BY <1>1, <1>4, <1>5, Framed DEF Drop

\* A database command that failed or was not sent.
LEMMA RefuseInv ==
  ASSUME ServerInv, NEW r \in Requests, Refuse(r)
  PROVE  ServerInv' /\ UNCHANGED vaultVars
  <1>1. step[r] \notin {"idle", "insert", "answered", "unlocking"}
    BY DEF Refuse
  <1>2. /\ HandlersOK' /\ step'[r] # "unlocking"
        /\ \A q \in Requests \ {r} : step'[q] = step[q]
    BY <1>1, Unrecorded, AnswerOK DEF Refuse
  <1> QED
    BY <1>1, <1>2, Framed, StoredSame DEF Refuse

\* A save or a delete is recorded when it had its effect.
LEMMA FinishInv ==
  ASSUME ServerInv, NEW r \in Requests, Finish(r)
  PROVE  ServerInv' /\ UNCHANGED vaultVars
  <1>1. step[r] = "finish"
    BY DEF Finish
  <1>2. /\ HandlersOK' /\ step'[r] # "unlocking"
        /\ \A q \in Requests \ {r} : step'[q] = step[q]
    BY <1>1, Unrecorded, AnswerOK, EmitOK DEF Finish, ServerInv
  <1> QED
    BY <1>1, <1>2, Framed, StoredSame DEF Finish

\* A loaded blob is one that the engine sealed for that pulse.
LEMMA LoadInv ==
  ASSUME ServerInv, NEW r \in Requests, Load(r)
  PROVE  ServerInv' /\ UNCHANGED vaultVars
  <1> DEFINE found == stored[work[r].pulse]
             now == [work[r] EXCEPT !.blob = found]
  <1>1. step[r] = "load"
    BY DEF Load
  <1>2. /\ work[r] \in Works /\ work[r].pulse \in Pulses
        /\ work[r].kind # "stream" => work[r].record # "success"
    BY <1>1, Unrecorded
  <1>3. found \in Blobs(work[r].pulse)
    BY <1>2 DEF ServerInv, StoredOK, StoredUnseals, Blobs
  <1>4. /\ now \in Works /\ now.pulse = work[r].pulse /\ now.blob = found
        /\ now.kind = work[r].kind /\ now.record = work[r].record
    BY <1>2, <1>3 DEF Works, Blobs
  <1>5. \/ Answer(r, now)
        \/ now.kind = "stream" /\ Emit(r, now)
        \/ Go(r, "decrypt", now)
        \/ Go(r, "unlock", now)
    BY DEF Load
  <1>6. /\ HandlersOK' /\ step'[r] # "unlocking"
        /\ \A q \in Requests \ {r} : step'[q] = step[q]
    BY <1>2, <1>3, <1>4, <1>5, GoOnOK, EmitOK, AnswerOK DEF Steps, ServerInv
  <1> QED
    BY <1>1, <1>6, Framed, StoredSame DEF Load

\* A decryption is recorded as what it was, but for a stream.
LEMMA DecryptInv ==
  ASSUME ServerInv, NEW r \in Requests, Decrypt(r)
  PROVE  ServerInv' /\ UNCHANGED vaultVars
  <1>1. step[r] = "decrypt"
    BY DEF Decrypt
  <1>2. PICK error \in Raises(r) :
          LET now == [work[r] EXCEPT !.effect = (error = "none"), !.error = error]
          IN  IF now.kind = "stream" THEN Answer(r, now) ELSE Emit(r, now)
    BY DEF Decrypt
  <1> DEFINE now == [work[r] EXCEPT !.effect = (error = "none"), !.error = error]
  <1>3. error \in {"none", "text", "blank"}
    BY DEF Raises
  <1>4. /\ work[r] \in Works /\ work[r].pulse \in Pulses
        /\ work[r].blob \in Blobs(work[r].pulse)
        /\ work[r].kind # "stream" => work[r].record # "success"
    BY <1>1, Unrecorded
  <1>5. /\ now \in Works /\ now.pulse = work[r].pulse /\ now.blob = work[r].blob
        /\ now.kind = work[r].kind /\ now.record = work[r].record
        /\ now.error = error /\ now.effect = (error = "none")
    BY <1>3, <1>4 DEF Works
  <1>6. /\ HandlersOK' /\ step'[r] # "unlocking"
        /\ \A q \in Requests \ {r} : step'[q] = step[q]
    <2>1. CASE now.kind = "stream"
      BY <1>2, <1>4, <1>5, <2>1, AnswerOK
    <2>2. CASE now.kind # "stream"
      BY <1>2, <1>4, <1>5, <2>2, EmitOK DEF ServerInv
    <2> QED
      BY <2>1, <2>2
  <1> QED
    BY <1>1, <1>6, Framed, StoredSame DEF Decrypt

\* A rotation never finds its old key, so it writes nothing.
LEMMA RotateShardInv ==
  ASSUME ServerInv, NEW r \in Requests, RotateShard(r)
  PROVE  ServerInv' /\ UNCHANGED vaultVars
  <1> DEFINE now == [work[r] EXCEPT !.error = "blank"]
  <1>1. step[r] = "rotate"
    BY DEF RotateShard
  <1>2. /\ work[r] \in Works /\ work[r].pulse \in Pulses
        /\ work[r].blob \in Blobs(work[r].pulse)
    BY <1>1, Unrecorded
  <1>3. work[r].blob # OldKey(work[r].pulse, work[r].old)
    BY <1>2, OldKeyIsNone
  <1>4. Emit(r, now) /\ UNCHANGED stored
    BY <1>3 DEF RotateShard
  <1>5. /\ now \in Works /\ now.pulse = work[r].pulse /\ now.blob = work[r].blob
        /\ now.error = "blank"
    BY <1>2 DEF Works
  <1>6. /\ HandlersOK' /\ step'[r] # "unlocking"
        /\ \A q \in Requests \ {r} : step'[q] = step[q]
    BY <1>2, <1>4, <1>5, EmitOK DEF ServerInv
  <1> QED
    BY <1>1, <1>4, <1>6, Framed, StoredSame DEF RotateShard

\* The record of MongoDB is the one of the file.
LEMMA InsertedInv ==
  ASSUME ServerInv, NEW r \in Requests, Inserted(r)
  PROVE  ServerInv' /\ UNCHANGED vaultVars
  <1>1. step[r] = "insert" /\ Go(r, AfterRecord(work[r]), work[r])
    BY DEF Inserted
  <1>2. work[r] \in Works /\ Sound("insert", work[r])
    BY <1>1 DEF ServerInv, HandlersOK
  <1>3. /\ AfterRecord(work[r]) \in {"decrypt", "answered"}
        /\ work[r].kind # "stream" => AfterRecord(work[r]) = "answered"
    BY DEF AfterRecord
  <1>4. Sound(AfterRecord(work[r]), work[r])
    BY <1>2, <1>3 DEF Sound
  <1>5. /\ HandlersOK' /\ step'[r] # "unlocking"
        /\ \A q \in Requests \ {r} : step'[q] = step[q]
    BY <1>1, <1>2, <1>3, <1>4, GoOK DEF ServerInv, Steps
  <1> QED
    BY <1>1, <1>5, Framed, StoredSame DEF Inserted

-----------------------------------------------------------------------------
(* The handlers that use the vault: each step is one of KeyVault, or none. *)

\* A rotation begins with an unlock of the vault, if it needs one.
LEMMA RotateUnlockInv ==
  ASSUME ServerInv, NEW r \in Requests, RotateUnlock(r)
  PROVE  ServerInv' /\ [VaultNext]_vaultVars
  <1>1. step[r] = "unlock" /\ at[r] = "idle"
    BY DEF RotateUnlock, ServerInv, VaultKept, AtVault
  <1>2. /\ work[r] \in Works /\ work[r].pulse \in Pulses
        /\ work[r].blob \in Blobs(work[r].pulse)
        /\ work[r].kind # "stream" => work[r].record # "success"
    BY <1>1, Unrecorded
  <1>3. StoredOK'
    BY StoredSame DEF RotateUnlock
  <1>4. CASE master = NoMaster
    <2>1. Unlock(r) /\ Go(r, "unlocking", work[r])
      BY <1>1, <1>4 DEF RotateUnlock, Unlock
    <2>2. VaultInv'
      BY <2>1, UnlockInv DEF ServerInv
    <2>3. Sound("unlocking", work[r]) /\ "unlocking" \in Steps
      BY <1>2 DEF Sound, Steps
    <2>4. /\ HandlersOK' /\ step'[r] = "unlocking"
          /\ \A q \in Requests \ {r} : step'[q] = step[q]
      BY <1>2, <2>1, <2>3, GoOK DEF ServerInv
    <2>5. /\ at'[r] = "pbkdf2" /\ job'[r].kind = "unlock"
          /\ \A q \in Requests \ {r} : at'[q] = at[q] /\ job'[q] = job[q]
      BY <2>1 DEF Unlock, DeriveMaster, NoJob, ServerInv, VaultInv, VaultTypeOK
    <2>6. VaultKept'
      BY <2>4, <2>5 DEF ServerInv, VaultKept, AtVault
    <2>7. VaultNext
      BY <2>1 DEF VaultNext, VaultCall
    <2> QED
      BY <1>3, <2>2, <2>4, <2>6, <2>7 DEF ServerInv
  <1>5. CASE master # NoMaster
    <2>1. Go(r, "rotate", work[r]) /\ UNCHANGED vaultVars
      BY <1>5 DEF RotateUnlock, vaultVars
    <2>2. /\ HandlersOK' /\ step'[r] # "unlocking"
          /\ \A q \in Requests \ {r} : step'[q] = step[q]
      BY <1>2, <2>1, GoOnOK DEF Steps
    <2> QED
      BY <1>1, <1>3, <2>1, <2>2, Framed
  <1> QED
    BY <1>4, <1>5

\* The unlock of a rotation ends as one of the vault.
LEMMA RotateUnlockedInv ==
  ASSUME ServerInv, NEW r \in Requests, RotateUnlocked(r)
  PROVE  ServerInv' /\ VaultNext
  <1>1. step[r] = "unlocking" /\ MasterReady(r) /\ Go(r, "rotate", work[r])
    BY DEF RotateUnlocked
  <1>2. VaultInv' /\ VaultNext
    BY <1>1, MasterReadyInv DEF ServerInv, VaultNext, VaultCall
  <1>3. /\ HandlersOK' /\ step'[r] = "rotate"
        /\ \A q \in Requests \ {r} : step'[q] = step[q]
    BY <1>1, Unrecorded, GoOK DEF ServerInv, Sound, Steps
  <1>4. /\ at'[r] = "idle"
        /\ \A q \in Requests \ {r} : at'[q] = at[q] /\ job'[q] = job[q]
    BY <1>1 DEF MasterReady, ServerInv, VaultKept, AtVault, VaultInv, VaultTypeOK
  <1>5. VaultKept'
    BY <1>3, <1>4 DEF ServerInv, VaultKept, AtVault
  <1> QED
    BY <1>2, <1>3, <1>5, StoredSame DEF RotateUnlocked, ServerInv

\* A request that leaves is cancelled in the vault too.
LEMMA LeaveInv ==
  ASSUME ServerInv, NEW r \in Requests, Leave(r)
  PROVE  ServerInv' /\ [VaultNext]_vaultVars
  <1>1. Go(r, "idle", NoWork)
    BY DEF Leave, Go
  <1>2. /\ HandlersOK' /\ step'[r] = "idle"
        /\ \A q \in Requests \ {r} : step'[q] = step[q]
    BY <1>1, NoWorkSound, GoOK DEF ServerInv, Steps
  <1>3. StoredOK'
    BY StoredSame DEF Leave
  <1>4. CASE at[r] = "idle"
    <2>1. UNCHANGED vaultVars
      BY <1>4 DEF Leave
    <2>2. VaultInv'
      BY <2>1, StepInv DEF ServerInv
    <2>3. VaultKept'
      BY <1>2, <1>4, <2>1, OutsideVault DEF ServerInv
    <2> QED
      BY <1>2, <1>3, <2>1, <2>2, <2>3 DEF ServerInv
  <1>5. CASE at[r] # "idle"
    <2>1. Cancel(r)
      BY <1>5 DEF Leave
    <2>2. VaultInv' /\ VaultNext
      BY <2>1, CancelInv DEF ServerInv, VaultNext, VaultCall
    <2>3. VaultKept'
      BY <1>2, <2>1 DEF Cancel, ServerInv, VaultKept, AtVault, VaultInv, VaultTypeOK
    <2> QED
      BY <1>2, <1>3, <2>2, <2>3 DEF ServerInv
  <1> QED
    BY <1>4, <1>5

\* Calls of the vault outside the handlers of a pulse.
LEMMA CallInv ==
  ASSUME ServerInv, NEW r \in Requests, step[r] = "idle", VaultCall(r),
         UNCHANGED handlerVars
  PROVE  ServerInv' /\ VaultNext
  <1>1. VaultNext /\ VaultInv'
    BY StepInv DEF VaultNext, ServerInv
  <1>2. \A q \in Requests \ {r} : at'[q] = at[q] /\ job'[q] = job[q]
    BY DEF VaultCall, Unlock, MasterReady, SubKeyReady, Cancel, ChangePassphrase,
           DeriveShardKey, DeriveMaster, LookUp, ServerInv, VaultInv, VaultTypeOK
  <1>3. VaultKept'
    BY <1>2 DEF handlerVars, ServerInv, VaultKept, AtVault
  <1> QED
    BY <1>1, <1>3 DEF handlerVars, ServerInv, HandlersOK, StoredOK, StoredUnseals

\* A new process has a new vault, and the stored pulses or none.
LEMMA ServerRestartInv ==
  ASSUME ServerInv, ServerRestart
  PROVE  ServerInv' /\ VaultNext
  <1>1. VaultNext /\ VaultInv'
    BY RestartInv DEF ServerRestart, VaultNext, ServerInv
  <1>2. HandlersOK'
    BY NoWorkSound DEF ServerRestart, HandlersOK, Steps
  <1>3. VaultKept'
    BY DEF ServerRestart, VaultKept, AtVault
  <1>4. StoredOK'
    BY DEF ServerRestart, ServerInv, StoredOK, StoredUnseals
  <1> QED
    BY <1>1, <1>2, <1>3, <1>4 DEF ServerInv

-----------------------------------------------------------------------------
\* The server starts right.
LEMMA ServerInitInv == ServerInit => ServerInv
  <1> SUFFICES ASSUME ServerInit PROVE ServerInv
    OBVIOUS
  <1>1. VaultInv
    BY InitInv DEF ServerInit
  <1>2. HandlersOK
    BY NoWorkSound DEF ServerInit, HandlersOK, Steps
  <1>3. StoredOK
    BY DEF ServerInit, StoredOK, StoredUnseals
  <1>4. VaultKept
    BY DEF ServerInit, VaultKept, AtVault
  <1> QED
    BY <1>1, <1>2, <1>3, <1>4 DEF ServerInv

\* Every handler keeps ServerInv, and is a step of the vault or none.
LEMMA HandlerInv ==
  ASSUME ServerInv, NEW r \in Requests, Handler(r)
  PROVE  ServerInv' /\ [VaultNext]_vaultVars
  <1>1. ASSUME NEW p \in Pulses, NEW kind \in {"seal", "file"}, Seal(r, kind, p)
        PROVE  ServerInv' /\ UNCHANGED vaultVars
    BY <1>1, ArriveInv DEF Seal, Handlers
  <1>2. ASSUME NEW p \in Pulses, NEW kind \in {"unseal", "stream"}, Read(r, kind, p)
        PROVE  ServerInv' /\ UNCHANGED vaultVars
    BY <1>2, ArriveInv DEF Read, Handlers
  <1>3. ASSUME NEW p \in Pulses, Delete(r, p)
        PROVE  ServerInv' /\ UNCHANGED vaultVars
    BY <1>3, ArriveInv DEF Delete, Handlers
  <1>4. ASSUME NEW p \in Pulses, NEW old \in Passphrases, Rotate(r, p, old)
        PROVE  ServerInv' /\ UNCHANGED vaultVars
    BY <1>4, ArriveInv DEF Rotate, Handlers
  <1> QED
    BY <1>1, <1>2, <1>3, <1>4, EncryptInv, SaveInv, DropInv, RefuseInv, FinishInv,
       LoadInv, DecryptInv, RotateUnlockInv, RotateUnlockedInv, RotateShardInv,
       InsertedInv, LeaveInv DEF Handler

\* Every step keeps ServerInv, and is a step of the vault or none.
LEMMA ServerStepInv ==
  ServerInv /\ [ServerNext]_serverVars => ServerInv' /\ [VaultNext]_vaultVars
  <1> SUFFICES ASSUME ServerInv, [ServerNext]_serverVars
               PROVE  ServerInv' /\ [VaultNext]_vaultVars
    OBVIOUS
  <1>1. ASSUME NEW e \in cache, Expire(e), UNCHANGED handlerVars
        PROVE  ServerInv' /\ VaultNext
    <2>1. VaultNext /\ VaultInv'
      BY <1>1, StepInv DEF VaultNext, ServerInv
    <2>2. HandlersOK' /\ StoredOK' /\ VaultKept'
      BY <1>1 DEF Expire, handlerVars, ServerInv, HandlersOK, StoredOK,
                  StoredUnseals, VaultKept
    <2> QED
      BY <2>1, <2>2 DEF ServerInv
  <1>2. ASSUME UNCHANGED serverVars
        PROVE  ServerInv' /\ UNCHANGED vaultVars
    <2>1. UNCHANGED vaultVars /\ VaultInv'
      BY <1>2, StepInv DEF serverVars, ServerInv
    <2>2. HandlersOK' /\ StoredOK' /\ VaultKept'
      BY <1>2 DEF serverVars, vaultVars, handlerVars, ServerInv, HandlersOK,
                  StoredOK, StoredUnseals, VaultKept
    <2> QED
      BY <2>1, <2>2 DEF ServerInv
  <1> QED
    BY <1>1, <1>2, HandlerInv, CallInv, ServerRestartInv DEF ServerNext

\* ServerInv holds in every state of the server.
LEMMA ServerInvariant == ServerSpec => []ServerInv
  BY ServerInitInv, ServerStepInv, PTL DEF ServerSpec

\* The handlers of main.py use the vault as KeyVault says that it is used.
THEOREM ServerImplementsVault == ServerSpec => VaultSpec
  <1>1. ServerInit => VaultInit
    BY DEF ServerInit
  <1> QED
    BY <1>1, ServerStepInv, ServerInvariant, PTL DEF ServerSpec, VaultSpec

\* In the server too the master key is that of the passphrase, unless the last
\* change met a derivation.
THEOREM ServerMasterOfPassphrase == ServerSpec => []MasterOfPassphrase
  BY ServerImplementsVault, MasterAlwaysOfPassphrase

\* And a sub-key belongs to the master key of its look-up.
THEOREM ServerSubKeyOfMaster == ServerSpec => []SubKeyOfMaster
  BY ServerImplementsVault, SubKeyAlwaysOfMaster

\* What the audit log calls a success has happened, for any number of requests
\* on any pulses.
THEOREM AuditAlwaysTruthful == ServerSpec => []AuditTruthful
  <1>1. ServerInv => AuditTruthful
    BY DEF ServerInv, HandlersOK, Sound, AuditTruthful
  <1> QED
    BY <1>1, ServerInvariant, PTL

\* A stored pulse can always be unsealed by the engine.
THEOREM StoredAlwaysUnseals == ServerSpec => []StoredUnseals
  <1>1. ServerInv => StoredUnseals
    BY DEF ServerInv, StoredOK
  <1> QED
    BY <1>1, ServerInvariant, PTL
=============================================================================
