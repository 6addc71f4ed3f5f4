------------------------------ MODULE KeyVault ------------------------------
(***************************************************************************)
(* core/vault.py: the QuantumVault that the requests of a process share.   *)
(* PBKDF2 and HKDF are free: a master key is the passphrase and the fresh  *)
(* salt that it was derived from, a sub-key is its master key, pulse and   *)
(* salt.  Both run in a thread pool, and the caller awaits them.           *)
(***************************************************************************)
EXTENDS Naturals, FiniteSets

CONSTANTS
  Requests,       \* requests that are in the vault at one time
  Pulses,         \* pulse ids
  Salts,          \* salts of pulses
  Passphrases, Startup,   \* of 16 characters or more; cfg.passphrase
  Nothing,        \* None
  MaxSalts        \* bound of a run: master keys derived

ASSUME VaultAssumption ==
  Startup \in Passphrases /\ Nothing \notin Passphrases /\ MaxSalts \in Nat \ {0}

VARIABLES
  passphrase, master, cache,   \* _passphrase, _master_vk, _cache
  salts,     \* master keys derived so far, each with a salt of its own
  raced,     \* whether a derivation was under way when the passphrase was
             \* last changed
  at,        \* per request: where it is suspended
  job        \* per request: its method, its arguments and what it has read

vaultVars == <<passphrase, master, cache, salts, raced, at, job>>

NoMaster == [pass |-> Nothing, number |-> 0]
Masters  == [pass : Passphrases, number : 1..MaxSalts]
SubKey(m, p, s) == [master |-> m, pulse |-> p, salt |-> s]
NoKey    == SubKey(NoMaster, Nothing, Nothing)
NoJob    == [kind |-> "none", pulse |-> Nothing, salt |-> Nothing,
             master |-> NoMaster, key |-> NoKey]

\* The lifespan unlocks the vault before the first request is served.
VaultInit ==
  /\ passphrase = Startup
  /\ master = [pass |-> Startup, number |-> 1] /\ salts = 1
  /\ cache = {} /\ raced = FALSE
  /\ at = [r \in Requests |-> "idle"] /\ job = [r \in Requests |-> NoJob]

Deriving == {r \in Requests : at[r] = "pbkdf2"}

-----------------------------------------------------------------------------
(* unlock and change_passphrase.                                           *)

\* The derivation takes the passphrase of the moment into the pool.
DeriveMaster(r, pass, now) ==
  /\ salts < MaxSalts /\ salts' = salts + 1
  /\ at' = [at EXCEPT ![r] = "pbkdf2"]
  /\ job' = [job EXCEPT ![r] =
       [now EXCEPT !.master = [pass |-> pass, number |-> salts + 1]]]

\* unlock, called as a method of its own (GET /vault/info).
Unlock(r) ==
  /\ at[r] = "idle" /\ master = NoMaster
  /\ DeriveMaster(r, passphrase, [NoJob EXCEPT !.kind = "unlock"])
  /\ UNCHANGED <<passphrase, master, cache, raced>>

\* Variant: the master key of the old passphrase stays until the new one is
\* there.
KeepMaster(r, new) ==
  /\ at[r] = "idle"
  /\ passphrase' = new /\ cache' = {} /\ UNCHANGED <<master, salts, at, job>>
  /\ raced' = (Deriving # {})

\* A new passphrase that differs from its confirmation, or is too short,
\* raises before anything changes.
ChangePassphrase(r, new) ==
  /\ at[r] = "idle"
  /\ passphrase' = new /\ master' = NoMaster /\ cache' = {}
  /\ DeriveMaster(r, new, [NoJob EXCEPT !.kind = "change"])
  /\ raced' = (Deriving # {})

-----------------------------------------------------------------------------
(* derive_shard_key.  The cache is filed by master key and pulse.          *)

\* Variant: the cache is searched by pulse alone.
CachedByPulse(m, p) == {e \in cache : e.pulse = p}

Cached(m, p) == {e \in cache : e.under = m /\ e.pulse = p}

\* With the master key m: a cached sub-key is returned whatever its salt, a
\* missing one is derived in the pool.
LookUp(r, m, now) ==
  LET found == Cached(m, now.pulse)
  IN  IF found = {}
        THEN /\ at' = [at EXCEPT ![r] = "hkdf"]
             /\ job' = [job EXCEPT ![r] = [now EXCEPT !.master = m]]
        ELSE \E e \in found :
             /\ at' = [at EXCEPT ![r] = "idle"]
             /\ job' = [job EXCEPT ![r] =
                          [now EXCEPT !.master = m, !.key = e.key]]

DeriveShardKey(r, p, s) ==
  LET now == [NoJob EXCEPT !.kind = "derive", !.pulse = p, !.salt = s]
  IN  /\ at[r] = "idle"
      /\ IF master = NoMaster THEN DeriveMaster(r, passphrase, now)
                              ELSE LookUp(r, master, now) /\ UNCHANGED salts
      /\ UNCHANGED <<passphrase, master, cache, raced>>

\* PBKDF2 is done: whoever awaited it makes its key the master key of the
\* vault, and goes on where unlock was called.
MasterReady(r) ==
  /\ at[r] = "pbkdf2"
  /\ master' = job[r].master
  /\ IF job[r].kind = "derive"
       THEN LookUp(r, job[r].master, job[r])
       ELSE /\ at' = [at EXCEPT ![r] = "idle"]
            /\ job' = [job EXCEPT ![r] = NoJob]
  /\ UNCHANGED <<passphrase, cache, salts, raced>>

\* HKDF is done: the sub-key is cached under the master key of the look-up.
SubKeyReady(r) ==
  LET m == job[r].master
      p == job[r].pulse
      k == SubKey(m, p, job[r].salt)
  IN  /\ at[r] = "hkdf"
      /\ cache' = (cache \ Cached(m, p))
                    \cup {[under |-> m, pulse |-> p, key |-> k]}
      /\ at' = [at EXCEPT ![r] = "idle"]
      /\ job' = [job EXCEPT ![r].key = k]
      /\ UNCHANGED <<passphrase, master, salts, raced>>

\* An entry is older than its time to live.
Expire(e) ==
  /\ cache' = cache \ {e}
  /\ UNCHANGED <<passphrase, master, salts, raced, at, job>>

\* The request is cancelled; what it awaits in the pool is thrown away.
Cancel(r) ==
  /\ at[r] # "idle"
  /\ at' = [at EXCEPT ![r] = "idle"] /\ job' = [job EXCEPT ![r] = NoJob]
  /\ UNCHANGED <<passphrase, master, cache, salts, raced>>

\* The end of the lifespan locks the vault; the next process begins with the
\* passphrase of its settings.
Restart ==
  /\ salts < MaxSalts /\ salts' = salts + 1
  /\ passphrase' = Startup
  /\ master' = [pass |-> Startup, number |-> salts + 1]
  /\ cache' = {} /\ raced' = FALSE
  /\ at' = [r \in Requests |-> "idle"] /\ job' = [r \in Requests |-> NoJob]

VaultCall(r) ==
  \/ Unlock(r) \/ MasterReady(r) \/ SubKeyReady(r) \/ Cancel(r)
  \/ \E new \in Passphrases : ChangePassphrase(r, new)
  \/ \E p \in Pulses, s \in Salts : DeriveShardKey(r, p, s)

VaultNext ==
  \/ \E r \in Requests : VaultCall(r)
  \/ \E e \in cache : Expire(e)
  \/ Restart

VaultSpec == VaultInit /\ [][VaultNext]_vaultVars

-----------------------------------------------------------------------------
(* Properties.                                                             *)

\* The master key of an unlocked vault is that of its passphrase, unless the
\* last change of it met a derivation under way.  Then the derivation that ends
\* last wins, whatever it was for, until a change meets none.
MasterOfPassphrase == raced \/ master = NoMaster \/ master.pass = passphrase

\* A sub-key that derive_shard_key returns is one of the master key that the
\* vault had when it was looked up, and of its pulse: a derivation that ends
\* after a change, and caches its result then, is never taken for one of the
\* new master key.
SubKeyOfMaster ==
  \A r \in Requests :
    job[r].key # NoKey => /\ job[r].key.master = job[r].master
                          /\ job[r].key.pulse = job[r].pulse
=============================================================================
