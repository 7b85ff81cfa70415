----------------------------- MODULE ObjectStoreMC -----------------------------
(* ObjectStore on a few objects; their contents are interchangeable.       *)
(* Faults and backups are explored apart, since the status is about        *)
(* deletions that run to their end, and so are reads and backups.          *)
EXTENDS ObjectStore, TLC

Symmetry == Permutations(Hashes)

FaultsOrBackups == faults' > 0 => backup'.step = "idle" /\ backupState' = "none"
ReadsOrBackups == backup'.step # "idle" => downloading' = {} /\ fetched' = {}
MCSpec == Init /\ [][Next /\ FaultsOrBackups /\ ReadsOrBackups]_vars
================================================================================
