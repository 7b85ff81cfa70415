------------------------------- MODULE ModelFiles -------------------------------
(* One model file and the worker processes that load it                        *)
(* (src/model-file-resolver.ts).  A worker reads the shared cache, a local     *)
(* directory or downloads, and hands out only a copy of its own.  The copy is  *)
(* verified where a digest is expected: a local directory has none unless the  *)
(* inventory pins the file.  A download is published to the cache by two       *)
(* renames, the file and then its receipt.                                     *)
EXTENDS Naturals

CONSTANTS Workers,
          MaxDamage        \* bound: times a file is damaged or changed from outside

ASSUME FileAssumption == MaxDamage \in Nat

VARIABLES setup,           \* the configuration, the same for every worker
          cached,          \* the cached file and its receipt
          local,           \* the file in the local directory
          worker,          \* per worker: where its request stands
          damage

fileVars == <<setup, cached, local, worker, damage>>

Bytes == {"good", "bad"}   \* the bytes of the pinned revision, or any others
None  == "none"
Fresh == [phase |-> "idle", got |-> None, digest |-> None, sealed |-> None, stopped |-> FALSE]

(* What the resolver knows of the model: nothing, because it is a directory;   *)
(* the digest of the file; the digests of the snapshot, this file not being in *)
(* it; the digest that the remote host supplies; or nothing.                   *)
Models == {"directory", "pinned", "unlisted", "etag", "plain"}
Setups == [model  : Models,
           online : BOOLEAN,               \* downloads are allowed
           looksLocal : BOOLEAN,           \* local models are allowed, and no revision is set
           foreign : BOOLEAN]              \* the cache holds the file of another program

FilesInit ==
  /\ setup \in Setups
  /\ cached = [file |-> IF setup.foreign THEN "bad" ELSE None, receipt |-> None]
  /\ local \in Bytes \cup {None}
  /\ worker = [w \in Workers |-> Fresh]
  /\ damage = 0

Goto(w, phase) == worker' = [worker EXCEPT ![w].phase = phase]
Moves(w, r)    == worker' = [worker EXCEPT ![w] = r]
Keep           == UNCHANGED <<setup, local, damage>>

(* An integrity failure is fatal for the worker.                               *)
Fails(w) == Moves(w, [worker[w] EXCEPT !.phase = "idle", !.stopped = TRUE])
Seals(w) == Moves(w, [worker[w] EXCEPT !.phase = "idle", !.sealed = worker[w].got])

(* getVerified: one resolution of a file at a time, and none once verified.    *)
Get(w) ==
  /\ worker[w].phase = "idle" /\ worker[w].sealed = None /\ ~worker[w].stopped
  /\ Goto(w, "look") /\ UNCHANGED cached /\ Keep

(* resolveFile: the cached file is used when a digest for it is known; a file  *)
(* that a pinned snapshot does not list is refused.                            *)
Look(w) ==
  /\ worker[w].phase = "look" /\ setup.model # "unlisted"
  /\ Goto(w, IF setup.model # "directory" /\ cached.file # None THEN "receipt" ELSE "elsewhere")
  /\ UNCHANGED cached /\ Keep

LookUnlisted(w) ==
  /\ worker[w].phase = "look" /\ setup.model = "unlisted"
  /\ IF cached.file # None THEN Fails(w) ELSE Goto(w, "idle")
  /\ UNCHANGED cached /\ Keep

Receipt(w) ==
  /\ worker[w].phase = "receipt"
  /\ LET digest == IF setup.model = "pinned" THEN "good" ELSE cached.receipt IN
     Moves(w, [worker[w] EXCEPT !.digest = digest,
                 !.phase = CASE digest # None                  -> "read"
                             [] digest = None /\ setup.online  -> "elsewhere"
                             [] digest = None /\ ~setup.online -> "idle"])   \* OFFLINE
  /\ UNCHANGED cached /\ Keep

(* The model or its cache is a local directory, or the file is downloaded.     *)
Elsewhere(w) ==
  /\ worker[w].phase = "elsewhere"
  /\ Goto(w, CASE setup.looksLocal /\ local # None -> "local"
               [] OTHER -> IF setup.online /\ setup.model # "directory" THEN "fetch" ELSE "idle")
  /\ UNCHANGED cached /\ Keep

ReadLocal(w) ==
  /\ worker[w].phase = "local"
  /\ IF local = None THEN Goto(w, "idle")
     ELSE Moves(w, [worker[w] EXCEPT !.got = local, !.phase = "verify",
                      !.digest = IF setup.model = "pinned" THEN "good" ELSE None])
  /\ UNCHANGED cached /\ Keep

ReadCached(w) ==
  /\ worker[w].phase = "read"
  /\ Moves(w, [worker[w] EXCEPT !.got = cached.file, !.phase = "verify"])
  /\ UNCHANGED cached /\ Keep

(* download: any bytes may arrive; the digest is the pinned or the upstream    *)
(* one, and without either the one of the bytes themselves is recorded.        *)
Fetch(w) ==
  /\ worker[w].phase = "fetch"
  /\ \E b \in Bytes :
       Moves(w, [worker[w] EXCEPT !.got = b, !.phase = "verifyFetched",
                   !.digest = IF setup.model \in {"pinned", "etag"} THEN "good" ELSE b])
  /\ UNCHANGED cached /\ Keep

NoFetch(w) ==
  /\ worker[w].phase = "fetch"
  /\ Goto(w, "idle") \/ Fails(w)
  /\ UNCHANGED cached /\ Keep

(* snapshot: the copy is hashed while it is written, and removed when it does  *)
(* not have the digest that is expected, if one is.                            *)
MutantTrustsCache(w) == worker[w].phase = "verify" \/ worker[w].got = worker[w].digest
DigestMatches(w) == worker[w].digest \in {None, worker[w].got}

Verify(w) ==
  /\ worker[w].phase = "verify"
  /\ IF DigestMatches(w) THEN Seals(w) ELSE Fails(w)
  /\ UNCHANGED cached /\ Keep

AfterFetch(w) == IF DigestMatches(w) THEN "publish" ELSE "refused"

VerifyFetched(w) ==
  /\ worker[w].phase = "verifyFetched"
  /\ IF AfterFetch(w) = "publish" THEN Goto(w, "publish") ELSE Fails(w)
  /\ UNCHANGED cached /\ Keep

(* publish, by two renames; an error in between leaves the first.              *)
PublishFile(w) ==
  /\ worker[w].phase = "publish"
  /\ cached' = [cached EXCEPT !.file = worker[w].got]
  /\ Goto(w, "publishReceipt") /\ Keep

PublishReceipt(w) ==
  /\ worker[w].phase = "publishReceipt"
  /\ cached' = [cached EXCEPT !.receipt = worker[w].digest]
  /\ Seals(w) /\ Keep

PublishFails(w) ==
  /\ worker[w].phase \in {"publish", "publishReceipt"}
  /\ Goto(w, "idle") /\ UNCHANGED cached /\ Keep

(* The worker is killed; the next one starts with nothing verified.            *)
Replace(w) ==
  /\ worker[w] # Fresh
  /\ Moves(w, Fresh) /\ UNCHANGED cached /\ Keep

DamageCache ==
  /\ cached.file = "good" /\ damage < MaxDamage
  /\ damage' = damage + 1
  /\ cached' = [cached EXCEPT !.file = "bad"]
  /\ UNCHANGED <<setup, local, worker>>

ChangeLocal ==
  /\ damage < MaxDamage /\ damage' = damage + 1
  /\ local' \in (Bytes \cup {None}) \ {local}
  /\ UNCHANGED <<setup, cached, worker>>

FilesNext ==
  \/ \E w \in Workers :
       \/ Get(w) \/ Look(w) \/ LookUnlisted(w) \/ Receipt(w) \/ Elsewhere(w) \/ ReadLocal(w)
       \/ ReadCached(w) \/ Fetch(w) \/ NoFetch(w)
       \/ Verify(w) \/ VerifyFetched(w) \/ PublishFile(w) \/ PublishReceipt(w)
       \/ PublishFails(w) \/ Replace(w)
  \/ DamageCache \/ ChangeLocal

FilesSpec == FilesInit /\ [][FilesNext]_fileVars

Requests ==
  [phase : {"idle", "look", "receipt", "elsewhere", "local", "read", "fetch", "verify",
            "verifyFetched", "publish", "publishReceipt"},
   got : Bytes \cup {None}, digest : Bytes \cup {None}, sealed : Bytes \cup {None},
   stopped : BOOLEAN]

FilesTypeOK ==
  /\ setup \in Setups /\ local \in Bytes \cup {None}
  /\ cached \in [file : Bytes \cup {None}, receipt : Bytes \cup {None}]
  /\ worker \in [Workers -> Requests]
  /\ damage \in 0..MaxDamage

(* What the loader gets of a remote model matches a digest, whatever other     *)
(* workers did to the cache, and however it was damaged, between the look at   *)
(* the receipt and the read of the file: those bytes are the pinned ones, or   *)
(* those the host vouched for.  Bytes without a digest come from a local       *)
(* directory only, and never stand in for a pinned file; of a pinned snapshot  *)
(* no other file is loaded.                                                    *)
LocalUnverified(w) == setup.looksLocal /\ setup.model # "pinned" /\ worker[w].digest = None

SealedIsVerified ==
  \A w \in Workers : worker[w].sealed # None =>
    /\ setup.model # "unlisted"
    /\ LocalUnverified(w) \/ (setup.model # "directory" /\ worker[w].sealed = worker[w].digest)
    /\ setup.model \in {"pinned", "etag"} => LocalUnverified(w) \/ worker[w].sealed = "good"

(* A corrupted download is not published, nor are local files: until the disk  *)
(* damages it, a file that got its receipt is the one of the revision wherever *)
(* a digest of it is known, and only another program leaves one without.       *)
CorruptIsNotPublished ==
  /\ setup.model \in {"pinned", "etag"} /\ damage = 0 =>
       cached.file \in {None, "good"} \/ (setup.foreign /\ cached.receipt = None)
  /\ setup.model \in {"directory", "unlisted"} => cached.receipt = None

(* Neither the loader nor the cache gets bytes of a remote model that nobody   *)
(* has verified.                                                               *)
CacheIsVerified == SealedIsVerified /\ CorruptIsNotPublished
================================================================================
