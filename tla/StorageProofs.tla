--------------------------- MODULE StorageProofs ----------------------------
(***************************************************************************)
(* Storage keeps what was saved, for every size of the partition and every *)
(* set of keys.                                                            *)
(***************************************************************************)
EXTENDS Storage, TLAPS

Contents == Keys \cup {Blank, Plain}

Types ==
  /\ flash_encrypted \in BOOLEAN /\ nvs_encryption \in BOOLEAN
  /\ keys \in Keys \cup {Blank, Corrupt}
  /\ nvs \in [1..Chunks -> Contents] /\ saved \in [1..Chunks -> Contents]
  /\ pc \in {"off", "keys", "scan", "open", "erase", "erased", "run", "failed"}
  /\ offset \in Nat /\ offset > 0

\* The program is past its first check only where firmware and hardware agree,
\* so keys exist, and data is encrypted, on an encrypted device only.
Agreed ==
  /\ pc \notin {"off", "failed"} => nvs_encryption = flash_encrypted
  /\ keys \in Keys => flash_encrypted
  /\ \A c \in 1..Chunks: saved[c] \in Keys => flash_encrypted

\* Each stage of storage_init knows what the stages before it found.
Reached ==
  /\ pc = "scan" => /\ nvs_encryption
                    /\ \A c \in 1..Chunks: c < offset => nvs[c] = Blank
  /\ pc \in {"open", "run"} /\ nvs_encryption => keys \in Keys
  /\ pc \in {"erase", "erased"} => ~nvs_encryption
  /\ pc = "keys" => nvs_encryption

StorageInv == Types /\ Agreed /\ Reached /\ SavedDataKept

LEMMA InitInv == Init => StorageInv
<1> SUFFICES ASSUME Init PROVE StorageInv
  OBVIOUS
<1>1. \A c \in 1..Chunks: nvs[c] = Blank /\ saved[c] = Blank
  BY DEF Init, Nothing
<1>2. nvs \in [1..Chunks -> Contents] /\ saved \in [1..Chunks -> Contents]
  BY DEF Init, Contents, Nothing
<1>3. flash_encrypted \in BOOLEAN /\ nvs_encryption \in BOOLEAN
  BY ZenonT(20) DEF Init
<1>4. offset \in Nat /\ offset > 0
  BY DEF Init
<1>5. Types
  BY <1>2, <1>3, <1>4 DEF Init, Types
<1>6. keys = Blank /\ Blank \notin Keys /\ pc = "off"
  BY StorageAssumption DEF Init
<1>7. Agreed
  BY <1>1, <1>6 DEF Agreed
<1>8. Reached
  BY <1>6 DEF Reached
<1> QED
  BY <1>1, <1>5, <1>7, <1>8 DEF StorageInv, SavedDataKept

LEMMA StepInv == StorageInv /\ [Next]_vars => StorageInv'
<1> SUFFICES ASSUME StorageInv, [Next]_vars PROVE StorageInv'
  OBVIOUS
<1> USE StorageAssumption DEF StorageInv, Types, Agreed, Reached, SavedDataKept, Contents,
          Blank, Plain, Corrupt, To, device, process
<1>1. CASE Start
  BY <1>1 DEF Start
<1>2. CASE ReadKeys
  <2>1. /\ pc' \in {"scan", "failed", "open"} /\ offset' = 1
        /\ pc = "keys" /\ UNCHANGED <<flash_encrypted, nvs_encryption, keys, nvs, saved>>
    BY <1>2 DEF ReadKeys
  <2>2. pc' = "open" => keys \in Keys
    BY <1>2 DEF ReadKeys
  <2>3. nvs_encryption = TRUE
    BY <1>2 DEF ReadKeys
  <2> QED
    BY <2>1, <2>2, <2>3
<1>3. CASE Scan
  <2>1. Types' /\ Agreed' /\ SavedDataKept'
    BY <1>3 DEF Scan
  <2>2. Reached'
    BY <1>3 DEF Scan, Scanned
  <2> QED
    BY <2>1, <2>2
<1>4. CASE GenerateKeys
  <2>1. \A c \in 1..Chunks: nvs[c] = Blank /\ saved[c] = Blank
    BY <1>4 DEF GenerateKeys, Scanned
  <2> QED
    BY <1>4, <2>1 DEF GenerateKeys
<1>5. CASE GenerateKeysCut
  BY <1>5 DEF GenerateKeysCut
<1>6. CASE Open
  BY <1>6 DEF Open
<1>7. CASE Unusable
  BY <1>7 DEF Unusable, Recover
<1>8. CASE Erase
  <2>1. \A c \in 1..Chunks: saved[c] \notin Keys
    BY <1>8 DEF Erase
  <2>2. \A c \in 1..Chunks: c # offset => nvs'[c] = nvs[c] /\ saved'[c] = saved[c]
    BY <1>8 DEF Erase
  <2>3. saved[offset] \in {Blank, Plain}
    BY <1>8, <2>1 DEF Erase
  <2>4. saved'[offset] = Blank
    BY <1>8, <2>3 DEF Erase
  <2>5. Types'
    BY <1>8 DEF Erase
  <2> QED
    BY <1>8, <2>1, <2>2, <2>4, <2>5 DEF Erase
<1>9. CASE Erased \/ Fail \/ Stop
  BY <1>9 DEF Erased, Fail, Stop
<1>10. CASE \E c \in 1..Chunks: Save(c)
  <2>1. PICK c \in 1..Chunks: Save(c)
    BY <1>10
  <2>2. nvs'[c] = saved'[c] /\ saved'[c] \in Contents
    BY <2>1 DEF Save
  <2>3. saved'[c] \in Keys => flash_encrypted
    BY <2>1 DEF Save
  <2>4. keys \in Keys => keys = saved'[c]
    BY <2>1 DEF Save
  <2>5. \A b \in 1..Chunks: b # c => nvs'[b] = nvs[b] /\ saved'[b] = saved[b]
    BY <2>1 DEF Save
  <2>6. Types'
    BY <2>1, <2>2 DEF Save
  <2> QED
    BY <2>1, <2>2, <2>3, <2>4, <2>5, <2>6 DEF Save
<1>11. CASE Flash \/ Provision
  BY <1>11 DEF Flash, Provision
<1>12. CASE LoseKeys \/ EraseFlash
  BY <1>12 DEF LoseKeys, EraseFlash, Nothing
<1>13. CASE UNCHANGED vars
  BY <1>13 DEF vars
<1> QED
  BY <1>1, <1>2, <1>3, <1>4, <1>5, <1>6, <1>7, <1>8, <1>9, <1>10, <1>11, <1>12, <1>13 DEF Next

\* What was saved stays, and no other key comes next to it (storage.c).
THEOREM SavedDataIsKept == Spec => []SavedDataKept
<1>1. StorageInv => SavedDataKept
  BY DEF StorageInv
<1> QED
  BY InitInv, StepInv, <1>1, PTL DEF Spec
=============================================================================
