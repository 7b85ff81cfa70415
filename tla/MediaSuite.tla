------------------------------- MODULE MediaSuite --------------------------------
(* What lies around the catalog, side by side for TLC: workspaces, archives,    *)
(* the closing of its file, the indexes of search and similarity, the files of  *)
(* a model and the leases on resources.  One part runs in a behaviour, the      *)
(* others stay as they start: each module models what it needs around it.       *)
EXTENDS Workspaces, BookArchive, CatalogClose, SearchIndexMC, Similarity, VectorIndex, ModelFiles,
        ResourceLocks

VARIABLE part        \* the part that runs

MediaSymmetry == Permutations(Callers) \cup Permutations(Objects)

RestingSimilarity ==
  /\ originals = [i \in Items |-> "gone"]
  /\ embedded = [i \in Items |-> NotEmbedded] /\ embedId = 0
  /\ neighbours = [k \in {"media", "text"} |-> NotCached]
  /\ indexing = [c \in Indexers |-> NotIndexing] /\ replaced = 0

(* A part that does not run starts in one state only.                           *)
MediaInit ==
  /\ part \in {"workspaces", "archive", "close", "search", "similarity", "vectors", "models", "locks"}
  /\ WsInit /\ ArchiveInit /\ CloseInit /\ VectorInit /\ LockInit
  /\ SearchInit /\ (part = "search" \/ media = [a \in Sources |-> CHOOSE o \in Contents : TRUE])
  /\ IF part = "similarity" THEN SimilarityInit ELSE RestingSimilarity
  /\ (part = "close" \/ ~catalog.lacks)
  /\ FilesInit
  /\ part = "models" \/ (setup.model = "plain" /\ local = None
                           /\ ~(setup.online \/ setup.looksLocal \/ setup.foreign))

MediaNext ==
  \/ part = "workspaces" /\ WsNext
     /\ UNCHANGED <<part, archiveVars, closeVars, searchVars, similarityVars, vectorVars, fileVars, lockVars>>
  \/ part = "archive" /\ ArchiveNext
     /\ UNCHANGED <<part, wsVars, closeVars, searchVars, similarityVars, vectorVars, fileVars, lockVars>>
  \/ part = "close" /\ CloseNext
     /\ UNCHANGED <<part, wsVars, archiveVars, searchVars, similarityVars, vectorVars, fileVars, lockVars>>
  \/ part = "search" /\ SearchNext
     /\ UNCHANGED <<part, wsVars, archiveVars, closeVars, similarityVars, vectorVars, fileVars, lockVars>>
  \/ part = "similarity" /\ SimilarityNext
     /\ UNCHANGED <<part, wsVars, archiveVars, closeVars, searchVars, vectorVars, fileVars, lockVars>>
  \/ part = "vectors" /\ VectorNext
     /\ UNCHANGED <<part, wsVars, archiveVars, closeVars, searchVars, similarityVars, fileVars, lockVars>>
  \/ part = "models" /\ FilesNext
     /\ UNCHANGED <<part, wsVars, archiveVars, closeVars, searchVars, similarityVars, vectorVars, lockVars>>
  \/ part = "locks" /\ LockNext
     /\ UNCHANGED <<part, wsVars, archiveVars, closeVars, searchVars, similarityVars, vectorVars, fileVars>>

MediaSpec ==
  MediaInit /\ [][MediaNext]_<<part, wsVars, archiveVars, closeVars, searchVars, similarityVars,
                               vectorVars, fileVars, lockVars>>

(* Every part keeps the types and the keys of the tables that it models.        *)
MediaTypeOK ==
  /\ part = "workspaces" => WsTypeOK
  /\ part = "archive" => ArchiveTypeOK
  /\ part = "close" => CloseTypeOK
  /\ part = "search" => SearchTypeOK
  /\ part = "similarity" => SimilarityTypeOK
  /\ part = "vectors" => VectorTypeOK
  /\ part = "models" => FilesTypeOK
  /\ part = "locks" => LockTypeOK
================================================================================
