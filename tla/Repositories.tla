---------------------------- MODULE Repositories ----------------------------
(***************************************************************************)
(* The repositories of one user: imports through a connection and uploads  *)
(* of ZIP archives, whose files live in a directory of their own.          *)
(*                                                                         *)
(* An archive is a sequence of entries [path, size, safe]; a path that     *)
(* leaves the directory, or a symbolic link, is not safe.                  *)
(***************************************************************************)
EXTENDS Connections, Sequences, Functions

CONSTANTS
  Paths,       \* the paths of entries
  Archives,    \* the archives that are uploaded
  MaxEntries,  \* MAX_ZIP_ENTRY_COUNT
  MaxBytes,    \* maxZipUploadBytes times ZIP_MAX_EXPANSION_FACTOR
  Invalid      \* the archives that validateZipFile refuses

ASSUME ArchivesAssumption ==
  /\ Archives \subseteq Seq([path : Paths, size : Nat, safe : BOOLEAN])
  /\ Invalid \subseteq Archives /\ None \notin Archives
  /\ MaxEntries \in Nat /\ MaxBytes \in Nat

VARIABLES
  repo,     \* the imported repository: the account of its connection, or None
  zipConn,  \* whether the user has the ZIP connection
  upload,   \* progress of the upload
  disk,     \* its directory
  row       \* the archive that its repository row stands for, or None

repoVars == <<repo, zipConn, upload, disk, row>>
vars == <<connVars, req, used, repoVars>>

NoFiles == {}
Gone == [there |-> FALSE, files |-> NoFiles]
NoUpload == [archive |-> <<>>, next |-> 1, bytes |-> 0]

Init ==
  /\ ConnInit
  /\ repo = None
  /\ zipConn = FALSE
  /\ upload = NoUpload
  /\ disk = Gone
  /\ row = None

-----------------------------------------------------------------------------
(* Imports                                                                 *)

\* upsertProviderRepository: one row per owner, provider and external id; the
\* last importer's connection stays.
Save(q) ==
  /\ req[q].pc = "save"
  /\ repo' = req[q].of
  /\ End(q)
  /\ UNCHANGED <<connVars, used, zipConn, upload, disk, row>>

\* A scan clones through the connection of the repository, if it is active.
BeginClone(q) ==
  /\ repo # None
  /\ Begin(q, "clone", repo)
  /\ UNCHANGED repoVars

-----------------------------------------------------------------------------
(* Uploads                                                                 *)

Uploading == \E q \in Requests : req[q].kind = "upload"

\* uploadZipRepository: the ZIP connection first.  Uploads have ids of their own
\* and share nothing, so that one is enough.
BeginUpload(q, archive) ==
  /\ req[q].pc = "idle"
  /\ row = None /\ disk = Gone /\ ~Uploading
  /\ SpendAll(IfWorking)
  /\ zipConn' = TRUE
  /\ upload' = [NoUpload EXCEPT !.archive = archive]
  /\ req' = [req EXCEPT ![q] = [Idle EXCEPT !.pc = "prepare",
                                            !.kind = "upload"]]
  /\ UNCHANGED <<connVars, repo, disk, row>>

Drop(q) ==
  /\ End(q)
  /\ upload' = NoUpload

\* validateZipFile, and then an empty directory with the archive.
Prepare(q) ==
  /\ req[q].pc = "prepare"
  /\ IF upload.archive \in Invalid
     THEN Drop(q) /\ UNCHANGED disk
     ELSE /\ disk' = [there |-> TRUE, files |-> NoFiles]
          /\ Go(q, "entry")
          /\ UNCHANGED upload
  /\ UNCHANGED <<connVars, used, repo, zipConn, row>>

\* Slip: the sizes are not added up.
BytesWithEach(entry) == entry.size

\* totalUncompressedBytes after this entry.
BytesWith(entry) == upload.bytes + entry.size

\* One entry is read, checked and written before the next one is asked for.
Entry(q) ==
  LET archive == upload.archive
      n == upload.next
      entry == archive[n]
  IN
  /\ req[q].pc = "entry"
  /\ n <= Len(archive)
  /\ IF n > MaxEntries \/ BytesWith(entry) > MaxBytes \/ ~entry.safe
     THEN Go(q, "tidy") /\ UNCHANGED <<upload, disk>>
     ELSE /\ disk' = [disk EXCEPT !.files = @ \cup {entry.path}]
          /\ upload' = [upload EXCEPT !.next = n + 1,
                                      !.bytes = BytesWith(entry)]
          /\ UNCHANGED req
  /\ UNCHANGED <<connVars, used, repo, zipConn, row>>

\* The event "end" of the archive.
EndOfArchive(q) ==
  /\ req[q].pc = "entry"
  /\ upload.next > Len(upload.archive)
  /\ Go(q, "row")
  /\ UNCHANGED <<connVars, used, repoVars>>

\* Slip: an error of the database leaves the files alone.
RowFailsUntidy(q) ==
  /\ req[q].pc = "row"
  /\ Spend("failure")
  /\ Drop(q)
  /\ UNCHANGED <<connVars, repo, zipConn, disk, row>>

\* createZipRepository fails: the stored files are removed again.
RowFails(q) ==
  /\ req[q].pc = "row"
  /\ Spend("failure")
  /\ Go(q, "tidy")
  /\ UNCHANGED <<connVars, repoVars>>

\* An error of the file system or of the archive, the first one counts.
EntryFails(q) ==
  /\ req[q].pc = "entry"
  /\ Spend("failure")
  /\ Go(q, "tidy")
  /\ UNCHANGED <<connVars, repoVars>>

CreateRow(q) ==
  /\ req[q].pc = "row"
  /\ row' = upload.archive
  /\ Drop(q)
  /\ UNCHANGED <<connVars, used, repo, zipConn, disk>>

\* The directory is removed, or that fails as well.
Tidy(q) ==
  /\ req[q].pc = "tidy"
  /\ \/ disk' = Gone /\ UNCHANGED used
     \/ Spend("untidy") /\ UNCHANGED disk
  /\ Drop(q)
  /\ UNCHANGED <<connVars, repo, zipConn, row>>

Next ==
  \/ /\ ConnNext
     /\ upload' = IF Uploading' THEN upload ELSE NoUpload
     /\ UNCHANGED <<repo, zipConn, disk, row>>
  \/ \E q \in Requests :
       \/ Save(q) \/ BeginClone(q)
       \/ \E archive \in Archives : BeginUpload(q, archive)
       \/ Prepare(q) \/ Entry(q) \/ EndOfArchive(q) \/ RowFails(q)
       \/ EntryFails(q) \/ CreateRow(q) \/ Tidy(q)

Spec == Init /\ [][Next]_vars

-----------------------------------------------------------------------------
(* Properties                                                              *)

Steps == {"idle", "store", "refresh", "update", "call", "validate", "save",
          "close", "prepare", "entry", "row", "tidy"}
Kinds == {"none", "callback", "list", "import", "clone", "disconnect", "upload"}
ConnectionRows == [status : {"ABSENT", "ACTIVE", "REVOKED"},
                   access : Tokens \cup {None}, refresh : Tokens \cup {None}]
Grants == [of : Accounts \cup {None}, access : BOOLEAN, refresh : BOOLEAN, due : BOOLEAN]
RequestStates == [pc : Steps, kind : Kinds, of : Accounts \cup {None},
                  access : Tokens \cup {None}, refresh : Tokens \cup {None},
                  listed : SUBSET Nat, total : Nat]

\* Every variable stays in its range; rows are ordered by their last writes, two
\* of them never tie, a row's access token was issued for its account, and a
\* repository has a connection row, active or not.
TypeOK ==
  /\ provider \in {"GITHUB", "BITBUCKET"}
  /\ conn \in [Accounts -> ConnectionRows]
  /\ grant \in [Tokens -> Grants]
  /\ req \in [Requests -> RequestStates]
  /\ used \in [Disturbances -> Nat] /\ \A d \in Disturbances : used[d] <= Limit[d]
  /\ later \subseteq Rows \X Rows
  /\ \A a, b \in Rows : <<a, b>> \in later <=> a # b /\ <<b, a>> \notin later
  /\ \A a, b, c \in Rows : <<a, b>> \in later /\ <<b, c>> \in later => <<a, c>> \in later
  /\ \A a \in Rows : conn[a].access \in Tokens /\ grant[conn[a].access].of = a
  /\ repo # None => repo \in Rows
  /\ zipConn \in BOOLEAN
  /\ row # None => row \in Archives
  /\ upload \in [archive : Archives \cup {<<>>}, next : Nat, bytes : Nat]
  /\ disk \in [there : BOOLEAN, files : SUBSET Paths]

\* The sizes of the entries add up to at most MaxBytes.
Fits(archive) ==
  \E sum \in [0..Len(archive) -> 0..MaxBytes] :
    sum[0] = 0 /\ \A n \in 1..Len(archive) : sum[n] = sum[n - 1] + archive[n].size

\* The repository of an upload has all the files of its archive, and the
\* archive keeps all the limits (extractArchive).
UploadIsWhole ==
  row # None =>
    /\ disk = [there |-> TRUE, files |-> {entry.path : entry \in Range(row)}]
    /\ Len(row) <= MaxEntries
    /\ Fits(row)
    /\ \A entry \in Range(row) : entry.safe

\* An upload that failed leaves no files behind, wherever it failed, unless the
\* process died or the files could not be removed (uploadZipRepository and
\* storeZipRepository tidy up for different errors).
NothingLeftBehind ==
  Never({"lost", "untidy"}) /\ disk.there => row # None \/ Uploading

=============================================================================
