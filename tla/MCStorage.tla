------------------------------ MODULE MCStorage ------------------------------
(***************************************************************************)
(* For TLC: what is kept in Telegram's channels: the objects of a bucket,  *)
(* the messages of a chain, or a project with its rows and its backups.    *)
(* They share nothing; a behaviour is about one of them, and leaves the    *)
(* others' variables alone.                                                *)
(***************************************************************************)
EXTENDS Naturals, FiniteSets, TLC

CONSTANTS
  Requests, MaxFaults,                                      \* Objects; all
  NumParts, MaxCalls,                                       \* Objects
  Short, Long, LongParts, Page, MaxChainCalls,              \* MessageChain
  Members, Accounts, Writers, Retention, MaxRequests, MaxBackups  \* Backup

VARIABLES
  part,                                                     \* which of the three
  manifests, parts, pc, request, ids, expected,             \* Objects
  messages, chains,                                         \* MessageChain
  record, listed, rows, sent, sqlite, backup, restore, dirs, catalogue, made, done, channels, \* Backup
  job,                                                      \* MessageChain and Backup
  faults, calls, incidents                                  \* all three

objects == <<manifests, parts, pc, request, ids, expected>>
chain   == <<messages, chains>>
project == <<record, listed, rows, sent, sqlite, backup, restore, dirs, catalogue, made, done,
             channels>>
vars    == <<part, objects, chain, project, job, faults, calls, incidents>>

Store == INSTANCE Objects WITH Clients <- Requests
Chain == INSTANCE MessageChain WITH MaxCalls <- MaxChainCalls
Saved == INSTANCE Backup WITH Users <- Members, Requests <- Writers, MaxCalls <- MaxRequests

ASSUME StorageAssumption ==
  /\ NumParts \in Nat \ {0} /\ MaxCalls \in Nat /\ MaxFaults \in Nat
  /\ LongParts \in Nat \ {0, 1} /\ Page \in Nat \ {0} /\ MaxChainCalls \in Nat
  /\ Retention \in Nat \ {0} /\ MaxRequests \in Nat /\ MaxBackups \in Nat
  /\ IsFiniteSet(Accounts)

Unused == 0
NoObjects == /\ manifests = Unused /\ parts = Unused /\ pc = Unused
             /\ request = Unused /\ ids = Unused /\ expected = Unused
NoChain   == messages = Unused /\ chains = Unused
NoProject == /\ record = Unused /\ listed = Unused /\ rows = Unused /\ sent = Unused
             /\ sqlite = Unused /\ backup = Unused /\ restore = Unused /\ dirs = Unused
             /\ catalogue = Unused /\ made = Unused /\ done = Unused /\ channels = Unused

Init ==
  \/ part = "objects" /\ Store!Init /\ NoChain /\ NoProject /\ job = Unused
  \/ part = "chain" /\ Chain!Init /\ NoObjects /\ NoProject
  \/ part = "project" /\ Saved!Init /\ NoObjects /\ NoChain

Next ==
  \/ part = "objects" /\ Store!Next /\ UNCHANGED <<part, chain, project, job>>
  \/ part = "chain" /\ Chain!Next /\ UNCHANGED <<part, objects, project>>
  \/ part = "project" /\ Saved!Next /\ UNCHANGED <<part, objects, chain>>

Spec == Init /\ [][Next]_vars

Interchangeable == Permutations(Requests) \cup Permutations(Accounts) \cup Permutations(Long)

-----------------------------------------------------------------------------
(* Properties.                                                              *)

\* What the listing of a bucket shows can be downloaded, and nothing else lies in its channel;
\* a path has one object, that of the last request answered (StorageService.uploadStream,
\* storeUpload, findFile, deleteFile), up to the crossings and failures that are named there.
ObjectsStand ==
  part = "objects" =>
    /\ Store!ManifestsAreWhole /\ Store!NoOrphans
    /\ Store!OneManifest /\ Store!ReadersFindTheLast

\* Patches that do not overlap add up (StorageService.updateObject).
PatchesAddUp == [][part = "objects" => Store!FieldsKept]_vars

\* Edits and deletions of a long message leave each chain all its parts, and no others
\* (TelegramStorageProvider.editMessage, deleteMessage).
ChainsStand == part = "chain" => Chain!TextsStand /\ Chain!NoStrayParts

\* A reader is given texts as they were sent, and a lister all of those that stood
\* (TelegramStorageProvider.getMessage, getMessages and the loops that page through them).
ReadersAreServed == part = "chain" => Chain!ReadsAreSound /\ Chain!ListingsComplete

\* The catalogue lists the backups that are there, and after a restoration members find the
\* project, and sign-ins the accounts (BackupService.createBackup, pruneRetention,
\* restoreRedisSnapshot, restoreProjectManifests).
BackupsStand ==
  part = "project" => Saved!CatalogueTruthful /\ Saved!MembershipRestored /\ Saved!AccountsFound
=============================================================================
