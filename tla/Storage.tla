------------------------------- MODULE Storage -------------------------------
(***************************************************************************)
(* Opening the non-volatile storage (main/storage.c), with or without      *)
(* encryption, over crashes, changes of firmware, provisioning of flash    *)
(* encryption, and keys that are lost.                                     *)
(***************************************************************************)
EXTENDS Integers

CONSTANTS
  Chunks,   \* the NVS partition in units of 256 bytes
  Keys      \* encryption keys the device may generate

Blank == "blank"       \* erased flash
Plain == "plain"       \* data that is not encrypted
Corrupt == "corrupt"   \* a key partition without valid keys

ASSUME StorageAssumption ==
  /\ Chunks \in Nat \ {0}
  /\ Keys \cap {Blank, Plain, Corrupt} = {}

VARIABLES
  flash_encrypted,   \* esp_flash_encryption_enabled()
  nvs_encryption,    \* CONFIG_NVS_ENCRYPTION of the firmware in flash
  keys,              \* the key partition
  nvs,               \* the data partition: what each chunk is written with
  pc, offset,        \* storage_init, and how far it has got
  saved              \* history: what was saved, until its owner gives it up

device  == <<flash_encrypted, nvs_encryption>>
process == <<pc, offset>>
vars == <<device, keys, nvs, process, saved>>

Nothing == [c \in 1..Chunks |-> Blank]

Init ==
  /\ flash_encrypted = FALSE
  /\ nvs_encryption \in BOOLEAN
  /\ keys = Blank
  /\ nvs = Nothing /\ saved = Nothing
  /\ pc = "off" /\ offset = 1

-----------------------------------------------------------------------------
To(from, to) == pc = from /\ pc' = to /\ offset' = 1

\* The program starts; firmware and hardware have to agree.
Start ==
  /\ IF nvs_encryption = flash_encrypted
     THEN To("off", IF nvs_encryption THEN "keys" ELSE "open")
     ELSE To("off", "failed")
  /\ UNCHANGED <<device, keys, nvs, saved>>

\* load_encryption_keys: only a key partition never written leads to new keys.
ReadKeys ==
  /\ To("keys", CASE keys = Blank -> "scan" [] keys = Corrupt -> "failed" [] OTHER -> "open")
  /\ UNCHANGED <<device, keys, nvs, saved>>

Scanned == offset = Chunks + 1

\* require_empty_nvs
Scan ==
  /\ pc = "scan" /\ ~Scanned
  /\ IF nvs[offset] = Blank THEN pc' = pc ELSE pc' = "failed"
  /\ offset' = offset + 1
  /\ UNCHANGED <<device, keys, nvs, saved>>

GenerateKeys ==
  /\ Scanned
  /\ To("scan", "open")
  /\ keys' \in Keys
  /\ UNCHANGED <<device, nvs, saved>>

\* The power fails while the keys are written.
GenerateKeysCut ==
  /\ Scanned
  /\ To("scan", "off")
  /\ keys' = Corrupt
  /\ UNCHANGED <<device, nvs, saved>>

\* nvs_flash_init or nvs_flash_secure_init
Open ==
  /\ To("open", "run") \/ To("erased", "run")
  /\ UNCHANGED <<device, keys, nvs, saved>>

\* Mutant: storage that cannot be opened is erased in both kinds of firmware.
RecoverAny == To("open", "erase")

\* nvs_flash_init finds no free pages or another version.
Recover == ~nvs_encryption /\ To("open", "erase")

Unusable ==
  /\ Recover
  /\ UNCHANGED <<device, keys, nvs, saved>>

\* nvs_flash_erase gives up what was saved without encryption.
Erase ==
  /\ pc = "erase" /\ offset <= Chunks
  /\ nvs' = [nvs EXCEPT ![offset] = Blank]
  /\ saved' = [saved EXCEPT ![offset] = IF @ = Plain THEN Blank ELSE @]
  /\ offset' = offset + 1
  /\ UNCHANGED <<device, keys, pc>>

Erased ==
  /\ offset = Chunks + 1
  /\ To("erase", "erased")
  /\ UNCHANGED <<device, keys, nvs, saved>>

\* A partition that is not there, a read or a call of the NVS library that fails.
Fail ==
  /\ \E from \in {"keys", "scan", "open", "erase", "erased"}: To(from, "failed")
  /\ UNCHANGED <<device, keys, nvs, saved>>

\* Settings, credentials and tokens, once the storage is open.
Save(c) ==
  /\ pc = "run" /\ nvs[c] = Blank
  /\ nvs' = [nvs EXCEPT ![c] = IF nvs_encryption THEN keys ELSE Plain]
  /\ saved' = [saved EXCEPT ![c] = nvs'[c]]
  /\ UNCHANGED <<device, keys, process>>

-----------------------------------------------------------------------------
\* A crash, a restart or a loss of power; ESP_ERROR_CHECK(storage_init()).
Stop ==
  /\ \E from \in {"keys", "scan", "open", "erase", "erased", "failed", "run"}: To(from, "off")
  /\ UNCHANGED <<device, keys, nvs, saved>>

\* Another firmware, over the air or by cable.
Flash ==
  /\ pc = "off"
  /\ nvs_encryption' = ~nvs_encryption
  /\ UNCHANGED <<flash_encrypted, keys, nvs, process, saved>>

\* Flash encryption is there for good.
Provision ==
  /\ pc = "off"
  /\ flash_encrypted' = TRUE
  /\ UNCHANGED <<nvs_encryption, keys, nvs, process, saved>>

LoseKeys ==
  /\ pc = "off"
  /\ keys' \in {Blank, Corrupt}
  /\ UNCHANGED <<device, nvs, process, saved>>

\* A deliberate erase of the data partition.
EraseFlash ==
  /\ pc = "off"
  /\ nvs' = Nothing /\ saved' = Nothing
  /\ UNCHANGED <<device, keys, process>>

Next ==
  \/ Start \/ ReadKeys \/ Scan \/ GenerateKeys \/ GenerateKeysCut \/ Open \/ Unusable
  \/ Erase \/ Erased \/ Fail \/ (\E c \in 1..Chunks: Save(c))
  \/ Stop \/ Flash \/ Provision \/ LoseKeys \/ EraseFlash

Spec == Init /\ [][Next]_vars

-----------------------------------------------------------------------------
\* Whatever is saved stays in flash, and the keys next to it are its own or
\* missing, never others: over wrong firmware, crashes in the middle of the first
\* start or of a recovery, and lost keys.  The one thing given up is data without
\* encryption that its own firmware cannot open.
SavedDataKept ==
  \A c \in 1..Chunks:
    saved[c] # Blank => nvs[c] = saved[c] /\ (keys \in Keys => keys = saved[c])

=============================================================================
