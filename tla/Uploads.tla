------------------------------- MODULE Uploads -------------------------------
(***************************************************************************)
(* Uploading a file, making a document of it, and replacing its file:      *)
(* savePdf (files.services.ts), putFileServerSide and putPdfFileServerSide *)
(* (put-file.server.ts), createDocument and updateDocumentFile             *)
(* (createDocument.services.ts), await by await.                           *)
(*                                                                         *)
(* A file is the request that uploaded it.  It is kept in the bucket under *)
(* a key made of its name, or in the database; the row of DocumentData has *)
(* the key or the file, and once more the file (initialData), which is     *)
(* what gets rendered.  The organisation and the user, whose ids are in    *)
(* the key beside the name, are one and the same here; the activity log is *)
(* left out, and so is deleteDocument, the only one to destroy a row: here *)
(* a document always has its row (updateDocumentFile asks, and updates     *)
(* nothing where another document took the row they shared with it).       *)
(***************************************************************************)
EXTENDS Integers, Sequences

CONSTANTS
    Names,      \* names of files, as slugify leaves them
    Requests,   \* HTTP requests, each handled once
    Bodies,     \* what the clients may ask for
    Transports, \* values of NEXT_PRIVATE_UPLOAD_TRANSPORT
    Faults,     \* may a query fail, or the process die, inside a handler?
    FolderIds,  \* ids a Folder may have
    None        \* an absent value

VARIABLES
    folderIds,  \* the ids in the Folder table
    transport,
    bucket,     \* the object under each key
    rows,       \* the DocumentData table
    documents,  \* the Document table: the row, and the folder
    pc,
    body,
    loaded,     \* createDocument: documentData, the instance
    buffer,     \* createDocument: the file that is being normalised
    dataId,     \* createDocument: documentDataId
    (* history *)
    fileOf,     \* the file each row is meant to hold
    namesOf,    \* the names that file has had on its way into the row
    puts        \* the files that were put under each name

tables  == <<transport, bucket, rows, documents>>
history == <<fileOf, namesOf, puts>>
vars    == <<folderIds, tables, pc, body, loaded, buffer, dataId, history>>

-----------------------------------------------------------------------------
(* Types *)

\* Text columns: a key of the bucket, a file in base64, or ''.
Key    == [kind: {"key"}, of: Names]
Base64 == [kind: {"base64"}, of: Requests]

NoFile == [kind |-> "empty"]

DataRow == [data: Key \union Base64, initial: Key \union Base64 \union {NoFile}]
Document == [row: Nat \ {0}, folder: FolderIds \union {None}]

\* "valid": the size, type and content of the file pass savePdf's checks.  A
\* replacement sends the data of an uploaded row, with its initialData or without:
\* they are optional.
UploadBody  == [op: {"upload"}, name: Names, valid: BOOLEAN]
CreateBody  == [op: {"create"}, row: Nat \ {0}, title: Names, normalize: BOOLEAN,
                folder: FolderIds \union {None}]
ReplaceBody == [op: {"replace"}, document: Nat \ {0}, row: Nat \ {0}, withInitial: BOOLEAN]
NoBody      == [op |-> "none"]
Body        == UploadBody \union CreateBody \union ReplaceBody

\* An instance of a row, with what is meant by the row (history).
Instance == [row: DataRow, file: Requests, names: SUBSET Names]
NoInstance == [row |-> None]

Running  == {"put", "createRow", "findData", "getFile", "putNormalized",
             "createNormalizedRow", "createDocument"}
Finished == {"done", "failed", "refused", "notFound", "aborted"}

\* What is assumed of the constants (Filing states it as an assumption).
ConstantsOK ==
    /\ Bodies \subseteq Body
    /\ Transports \subseteq {"s3", "database"}
    /\ None \notin Requests \union FolderIds

-----------------------------------------------------------------------------
(* Storing a file *)

InBucket(name) == [kind |-> "key", of |-> name]
Encoded(file)  == [kind |-> "base64", of |-> file]

\* What putFileServerSide answers as data.
StoredData(name, file) == IF transport = "s3" THEN InBucket(name) ELSE Encoded(file)

\* savePdf stores the file itself as initialData.
InitialFile(name, file) == Encoded(file)

\* uploadS3File: PutObject, over whatever has the key.
PutFile(name, file) ==
    /\ bucket' = IF transport = "s3" THEN [bucket EXCEPT ![name] = file] ELSE bucket
    /\ puts' = [puts EXCEPT ![name] = @ \union {file}]

\* What a data column leads to.
Reached(data) == IF data.kind = "key" THEN bucket[data.of] ELSE data.of

-----------------------------------------------------------------------------
(* The handlers *)

Init ==
    /\ folderIds = {}
    /\ transport \in Transports
    /\ bucket = [n \in Names |-> None]
    /\ rows = <<>>
    /\ documents = <<>>
    /\ pc     = [r \in Requests |-> "idle"]
    /\ body   = [r \in Requests |-> NoBody]
    /\ loaded = [r \in Requests |-> NoInstance]
    /\ buffer = [r \in Requests |-> None]
    /\ dataId = [r \in Requests |-> 0]
    /\ fileOf = <<>>
    /\ namesOf = <<>>
    /\ puts   = [n \in Names |-> {}]

Goto(r, label) == pc' = [pc EXCEPT ![r] = label]

Receive(r, b) ==
    /\ pc[r] = "idle"
    /\ body' = [body EXCEPT ![r] = b]
    /\ UNCHANGED folderIds

\* upload: the checks of the controller and of savePdf.
Upload(r) ==
    \E b \in Bodies :
        /\ b.op = "upload"
        /\ Receive(r, b)
        /\ Goto(r, IF b.valid THEN "put" ELSE "refused")
        /\ UNCHANGED <<tables, loaded, buffer, dataId, history>>

\* putFileServerSide
Put(r) ==
    /\ pc[r] = "put"
    /\ PutFile(body[r].name, r)
    /\ Goto(r, "createRow")
    /\ UNCHANGED <<folderIds, transport, rows, documents, body, loaded, buffer, dataId,
                   fileOf, namesOf>>

\* DocumentData.create
CreateRow(r) ==
    /\ pc[r] = "createRow"
    /\ rows' = Append(rows, [data    |-> StoredData(body[r].name, r),
                             initial |-> InitialFile(body[r].name, r)])
    /\ fileOf'  = Append(fileOf, r)
    /\ namesOf' = Append(namesOf, {body[r].name})
    /\ Goto(r, "done")
    /\ UNCHANGED <<folderIds, transport, bucket, documents, body, loaded, buffer, dataId,
                   puts>>

\* createDocument: Folder.findOne
CreateDocument(r) ==
    \E b \in Bodies :
        /\ b.op = "create"
        /\ Receive(r, b)
        /\ dataId' = [dataId EXCEPT ![r] = b.row]
        /\ Goto(r, CASE b.folder \notin folderIds \union {None} -> "notFound"
                     [] b.folder \in folderIds \union {None} /\ b.normalize -> "findData"
                     [] b.folder \in folderIds \union {None} /\ ~b.normalize ->
                            "createDocument")
        /\ UNCHANGED <<tables, loaded, buffer, history>>

\* DocumentData.findOne; without it there is nothing to normalise.
FindData(r) ==
    LET k == body[r].row
    IN  /\ pc[r] = "findData"
        /\ IF k \in DOMAIN rows
           THEN /\ loaded' = [loaded EXCEPT ![r] = [row   |-> rows[k], file |-> fileOf[k],
                                                   names |-> namesOf[k]]]
                /\ Goto(r, "getFile")
           ELSE /\ Goto(r, "createDocument")
                /\ UNCHANGED loaded
        /\ UNCHANGED <<folderIds, tables, body, buffer, dataId, history>>

\* getFileServerSide by the instance, then normalizePdf, which keeps what the file
\* is.
GetFile(r) ==
    /\ pc[r] = "getFile"
    /\ buffer' = [buffer EXCEPT ![r] = Reached(loaded[r].row.data)]
    /\ Goto(r, "putNormalized")
    /\ UNCHANGED <<folderIds, tables, body, loaded, dataId, history>>

\* putPdfFileServerSide: the file is put under the title of the document ...
PutNormalized(r) ==
    /\ pc[r] = "putNormalized"
    /\ PutFile(body[r].title, buffer[r])
    /\ Goto(r, "createNormalizedRow")
    /\ UNCHANGED <<folderIds, transport, rows, documents, body, loaded, buffer, dataId,
                   fileOf, namesOf>>

\* ... and its row gets the data also as initialData.
CreateNormalizedRow(r) ==
    LET data == StoredData(body[r].title, buffer[r])
    IN  /\ pc[r] = "createNormalizedRow"
        /\ rows'    = Append(rows, [data |-> data, initial |-> data])
        /\ fileOf'  = Append(fileOf, loaded[r].file)
        /\ namesOf' = Append(namesOf, loaded[r].names \union {body[r].title})
        /\ dataId'  = [dataId EXCEPT ![r] = Len(rows) + 1]
        /\ Goto(r, "createDocument")
        /\ UNCHANGED <<folderIds, transport, bucket, documents, body, loaded, buffer, puts>>

\* The transaction: the document with its meta and audit log, or an error for
\* a row or a folder that is not there.
InsertDocument(r) ==
    /\ pc[r] = "createDocument"
    /\ IF dataId[r] \in DOMAIN rows /\ body[r].folder \in folderIds \union {None}
       THEN /\ documents' = Append(documents, [row    |-> dataId[r],
                                               folder |-> body[r].folder])
            /\ Goto(r, "done")
       ELSE /\ Goto(r, "failed")
            /\ UNCHANGED documents
    /\ UNCHANGED <<folderIds, transport, bucket, rows, body, loaded, buffer, dataId, history>>

\* Seeded fault: the row with the number of the document is updated.
RowOfNumber(d) == IF d \in DOMAIN rows THEN d ELSE documents[d].row

\* DocumentData.update({ where: { id: documentData.id } })
RowOf(d) == documents[d].row

\* Seeded fault: initialData is left as it was.
KeepInitial(old, new, withInitial) == [new EXCEPT !.initial = old.initial]

\* The row that is written: all of it comes from the request (initialData ?? '').
Replaced(old, new, withInitial) ==
    [new EXCEPT !.initial = IF withInitial THEN new.initial ELSE NoFile]

\* updateDocumentFile, in one transaction.
UpdateDocumentFile(r) ==
    \E b \in Bodies :
        /\ b.op = "replace"
        /\ b.row \in DOMAIN rows
        /\ Receive(r, b)
        /\ IF b.document \in DOMAIN documents
           THEN /\ rows'    = [rows EXCEPT ![RowOf(b.document)] =
                                  Replaced(@, rows[b.row], b.withInitial)]
                /\ fileOf'  = [fileOf EXCEPT ![documents[b.document].row] = fileOf[b.row]]
                /\ namesOf' = [namesOf EXCEPT ![documents[b.document].row] = namesOf[b.row]]
                /\ Goto(r, "done")
           ELSE /\ Goto(r, "notFound")
                /\ UNCHANGED <<rows, fileOf, namesOf>>
        /\ UNCHANGED <<transport, bucket, documents, loaded, buffer, dataId, puts>>

\* A query or a call of the bucket fails, or the process dies.
Abort(r) ==
    /\ Faults
    /\ pc[r] \in Running
    /\ Goto(r, "aborted")
    /\ UNCHANGED <<folderIds, tables, body, loaded, buffer, dataId, history>>

Step(r) ==
    \/ Upload(r) \/ Put(r) \/ CreateRow(r)
    \/ CreateDocument(r) \/ FindData(r) \/ GetFile(r) \/ PutNormalized(r)
    \/ CreateNormalizedRow(r) \/ InsertDocument(r)
    \/ UpdateDocumentFile(r)
    \/ Abort(r)

\* Folders are made and deleted (FolderPaths); a document whose folder is
\* deleted is left without one.
ChangeFolders ==
    /\ folderIds' \in SUBSET FolderIds
    /\ documents' = [d \in DOMAIN documents |->
                       IF documents[d].folder \in folderIds' \union {None}
                       THEN documents[d]
                       ELSE [documents[d] EXCEPT !.folder = None]]
    /\ UNCHANGED <<transport, bucket, rows, pc, body, loaded, buffer, dataId, history>>

Next == (\E r \in Requests : Step(r)) \/ ChangeFolders

Spec == Init /\ [][Next]_vars

-----------------------------------------------------------------------------
(* Properties *)

\* Type invariant of the tables and the handlers' variables.
TypeOK ==
    /\ transport \in Transports
    /\ bucket \in [Names -> Requests \union {None}]
    /\ rows \in Seq(DataRow)
    /\ documents \in Seq(Document)
    /\ pc \in [Requests -> {"idle"} \union Running \union Finished]
    /\ body \in [Requests -> Bodies \union {NoBody}]
    /\ loaded \in [Requests -> Instance \union {NoInstance}]
    /\ buffer \in [Requests -> Requests \union {None}]
    /\ dataId \in [Requests -> Nat]
    /\ fileOf \in Seq(Requests)
    /\ namesOf \in Seq(SUBSET Names)
    /\ puts \in [Names -> SUBSET Requests]

\* No other file was put under one of the names that row i's file has had.
OwnNames(i) == \A n \in namesOf[i] : puts[n] \subseteq {fileOf[i]}

\* Every row leads to the file it was created for, or was given last: there is
\* no row whose file was not stored, whatever step failed, and no file is lost,
\* unless another one was put under one of its names (two uploads of one name,
\* or the title of a document that is normalised, overwrite each other).
FileKept ==
    \A i \in DOMAIN rows : OwnNames(i) => Reached(rows[i].data) = fileOf[i]

\* DocumentData.findOne({ data: key }), with the key of the document's own row:
\* any row with the same data.
Rendered(d) == {i \in DOMAIN rows : rows[i].data = rows[documents[d].row].data}

\* Whichever row is found for a document, what is rendered is the document's own
\* file, under the same condition, or nothing at all: a normalised row of the
\* bucket has its key for initialData, and a row that was replaced without
\* initialData has '', neither of which can be parsed.
RendersOwn ==
    \A d \in DOMAIN documents :
        OwnNames(documents[d].row) =>
            \A i \in Rendered(d) :
                \/ rows[i].initial = Encoded(fileOf[documents[d].row])
                \/ rows[i].initial = NoFile
                \/ rows[i].initial = rows[i].data /\ rows[i].data.kind = "key"
=============================================================================
