---------------------------- MODULE FilingProofs ----------------------------
(* What holds of Filing for every set of requests, bodies and names. *)
EXTENDS Filing, SequenceTheorems, TLAPS

-----------------------------------------------------------------------------
(* Files: what a row of DocumentData leads to *)

\* A row's data were put under one of the names its file has had, and its
\* initialData are those of its data, or empty.
Holds(row, names) ==
    /\ row.data.kind = "key" =>
           row.data.of \in names /\ bucket[row.data.of] \in puts[row.data.of]
    /\ row.data.kind = "base64" => \E n \in names : row.data.of \in puts[n]
    /\ row.initial.kind = "base64" =>
           IF row.data.kind = "key" THEN row.initial.of \in puts[row.data.of]
                                    ELSE row.initial.of = row.data.of
    /\ row.initial.kind = "key" => row.initial = row.data

Stored == \A i \in DOMAIN rows : Holds(rows[i], namesOf[i])

\* The file was put under the name.
IsPut(name, file) ==
    /\ name \in FileNames /\ file \in FileRequests
    /\ file \in puts[name]
    /\ transport = "s3" => bucket[name] \in puts[name]

BucketType == /\ transport \in Transports
              /\ bucket \in [FileNames -> FileRequests \union {None}]
              /\ puts \in [FileNames -> SUBSET FileRequests]

RowsType == /\ rows \in Seq(U!DataRow)
            /\ fileOf \in Seq(FileRequests)
            /\ namesOf \in Seq(SUBSET FileNames)
            /\ Len(fileOf) = Len(rows) /\ Len(namesOf) = Len(rows)

DocumentsType == /\ documents \in Seq(U!Document)
                 /\ \A d \in DOMAIN documents : documents[d].row \in DOMAIN rows

Tables == BucketType /\ RowsType /\ DocumentsType /\ Stored

\* What a request at each query has to go by.
FileControl(r) ==
    /\ pc[r] \in {"put", "createRow"} => body[r] \in U!UploadBody
    /\ pc[r] \in {"findData", "getFile", "putNormalized", "createNormalizedRow",
                  "createDocument"} => body[r] \in U!CreateBody
    /\ pc[r] = "createRow" => IsPut(body[r].name, r)
    /\ pc[r] \in {"getFile", "putNormalized", "createNormalizedRow"} =>
           loaded[r] \in U!Instance /\ Holds(loaded[r].row, loaded[r].names)
    /\ pc[r] = "putNormalized" => buffer[r] \in FileRequests
    /\ pc[r] = "createNormalizedRow" => IsPut(body[r].title, buffer[r])

HandlersType ==
    /\ pc \in [FileRequests -> {"idle"} \union U!Running \union U!Finished]
    /\ body \in [FileRequests -> FileBodies \union {U!NoBody}]
    /\ loaded \in [FileRequests -> U!Instance \union {U!NoInstance}]
    /\ buffer \in [FileRequests -> FileRequests \union {None}]
    /\ dataId \in [FileRequests -> Nat]

FileInv == Tables /\ HandlersType /\ \A r \in FileRequests : FileControl(r)

-----------------------------------------------------------------------------
(* The tables *)

\* What was put under a name still is, and what holds of a row goes on to hold.
StillHolds ==
    /\ \A n \in FileNames, f \in FileRequests : IsPut(n, f) => IsPut(n, f)'
    /\ \A row \in U!DataRow, names \in SUBSET FileNames :
           Holds(row, names) => Holds(row, names)'

\* What is put under a name afterwards, or not at all, leaves a row as good.
LEMMA StillPut ==
    ASSUME Tables,
           \A n \in FileNames : puts[n] \subseteq puts'[n],
           \A n \in FileNames : bucket[n] \in puts[n] => bucket'[n] \in puts'[n],
           UNCHANGED <<rows, namesOf, documents, fileOf>>, BucketType'
    PROVE  Tables'
  <1>1. ASSUME NEW i \in DOMAIN rows
        PROVE  Holds(rows[i], namesOf[i])'
    <2>1. /\ rows[i] \in U!DataRow
          /\ namesOf[i] \in SUBSET FileNames
      BY DEF Tables, RowsType
    <2>2. Holds(rows[i], namesOf[i])
      BY DEF Tables, Stored
    <2>3. rows'[i] = rows[i] /\ namesOf'[i] = namesOf[i]
      OBVIOUS
    <2>4. QED  BY <2>1, <2>2, <2>3 DEF Holds, U!DataRow, U!Key, U!Base64
  <1>2. Stored'
    BY <1>1 DEF Stored
  <1>3. QED  BY <1>2 DEF Tables, RowsType, DocumentsType

\* A row is added.
LEMMA RowAdded ==
    ASSUME Tables, NEW row \in U!DataRow, NEW names \in SUBSET FileNames,
           NEW file \in FileRequests, Holds(row, names),
           rows' = Append(rows, row), namesOf' = Append(namesOf, names),
           fileOf' = Append(fileOf, file), UNCHANGED <<transport, bucket, puts, documents>>
    PROVE  Tables' /\ DOMAIN rows \subseteq DOMAIN rows'
  <1>1. /\ rows' \in Seq(U!DataRow) /\ Len(rows') = Len(rows) + 1
        /\ fileOf' \in Seq(FileRequests) /\ Len(fileOf') = Len(rows) + 1
        /\ namesOf' \in Seq(SUBSET FileNames) /\ Len(namesOf') = Len(rows) + 1
    BY DEF Tables, RowsType
  <1>2. /\ DOMAIN rows = 1..Len(rows) /\ DOMAIN rows' = 1..(Len(rows) + 1)
        /\ DOMAIN namesOf = 1..Len(rows) /\ Len(rows) \in Nat
    BY <1>1 DEF Tables, RowsType
  <1>3. ASSUME NEW i \in DOMAIN rows'
        PROVE  Holds(rows[i], namesOf[i])'
    <2>1. CASE i \in DOMAIN rows
      <3>1. rows'[i] = rows[i] /\ namesOf'[i] = namesOf[i]
        BY <1>2, <2>1 DEF Tables, RowsType
      <3>2. QED  BY <2>1, <3>1 DEF Tables, Stored, Holds
    <2>2. CASE i = Len(rows) + 1
      <3>1. rows'[i] = row /\ namesOf'[i] = names
        BY <1>2, <2>2 DEF Tables, RowsType
      <3>2. QED  BY <3>1 DEF Holds
    <2>3. QED  BY <1>2, <2>1, <2>2
  <1>4. Stored'
    BY <1>3 DEF Stored
  <1>5. DOMAIN rows \subseteq DOMAIN rows'
    BY <1>2
  <1>6. QED  BY <1>1, <1>4, <1>5 DEF Tables, BucketType, RowsType, DocumentsType

\* A row becomes a copy of another one, with its initialData or without.
LEMMA RowCopied ==
    ASSUME Tables, NEW k \in DOMAIN rows, NEW j \in DOMAIN rows,
           NEW copy \in {rows[j], [rows[j] EXCEPT !.initial = U!NoFile]},
           rows' = [rows EXCEPT ![k] = copy],
           namesOf' = [namesOf EXCEPT ![k] = namesOf[j]],
           fileOf' = [fileOf EXCEPT ![k] = fileOf[j]],
           UNCHANGED <<transport, bucket, puts, documents>>
    PROVE  Tables' /\ DOMAIN rows' = DOMAIN rows
  <1>1. /\ DOMAIN rows = 1..Len(rows) /\ DOMAIN namesOf = 1..Len(rows)
        /\ DOMAIN fileOf = 1..Len(rows) /\ Len(rows) \in Nat
        /\ rows[j] \in U!DataRow /\ fileOf[j] \in FileRequests
        /\ namesOf[j] \in SUBSET FileNames
    BY DEF Tables, RowsType
  <1>0. copy \in U!DataRow /\ Holds(copy, namesOf[j])
    <2>1. Holds(rows[j], namesOf[j])
      BY DEF Tables, Stored
    <2>2. CASE copy = rows[j]
      BY <1>1, <2>1, <2>2
    <2>3. CASE copy = [rows[j] EXCEPT !.initial = U!NoFile]
      <3>1. copy.data = rows[j].data /\ copy.initial = U!NoFile /\ copy \in U!DataRow
        BY <1>1, <2>3 DEF U!DataRow
      <3>2. U!NoFile.kind = "empty"
        BY DEF U!NoFile
      <3>3. QED  BY <2>1, <3>1, <3>2 DEF Holds
    <2>4. QED  BY <2>2, <2>3
  <1>2. /\ rows' \in Seq(U!DataRow) /\ Len(rows') = Len(rows)
        /\ fileOf' \in Seq(FileRequests) /\ Len(fileOf') = Len(rows)
        /\ namesOf' \in Seq(SUBSET FileNames) /\ Len(namesOf') = Len(rows)
    BY <1>0, <1>1, ExceptSeq DEF Tables, RowsType
  <1>3. DOMAIN rows' = DOMAIN rows
    BY <1>1, <1>2
  <1>4. ASSUME NEW i \in DOMAIN rows'
        PROVE  Holds(rows[i], namesOf[i])'
    <2>1. CASE i = k
      <3>1. rows'[i] = copy /\ namesOf'[i] = namesOf[j]
        BY <1>1, <1>3, <2>1
      <3>2. QED  BY <1>0, <3>1 DEF Holds
    <2>2. CASE i # k
      <3>1. rows'[i] = rows[i] /\ namesOf'[i] = namesOf[i] /\ i \in DOMAIN rows
        BY <1>1, <1>3, <2>2
      <3>2. QED  BY <3>1 DEF Tables, Stored, Holds
    <2>3. QED  BY <2>1, <2>2
  <1>5. Stored'
    BY <1>4 DEF Stored
  <1>6. QED  BY <1>2, <1>3, <1>5 DEF Tables, BucketType, RowsType, DocumentsType

\* PutFile, and what it has put.
LEMMA FilePut ==
    ASSUME Tables, NEW name \in FileNames, NEW file \in FileRequests,
           U!PutFile(name, file), UNCHANGED <<transport, rows, namesOf, documents, fileOf>>
    PROVE  /\ Tables'
           /\ IsPut(name, file)'
           /\ StillHolds
  <1>1. /\ puts' = [puts EXCEPT ![name] = puts[name] \union {file}]
        /\ bucket' = IF transport = "s3" THEN [bucket EXCEPT ![name] = file] ELSE bucket
    BY DEF U!PutFile
  <1>2. BucketType'
    BY <1>1 DEF Tables, BucketType
  <1>3. /\ \A n \in FileNames : puts[n] \subseteq puts'[n]
        /\ \A n \in FileNames : bucket[n] \in puts[n] => bucket'[n] \in puts'[n]
    BY <1>1 DEF Tables, BucketType
  <1>4. Tables'
    BY <1>2, <1>3, StillPut
  <1>5. IsPut(name, file)'
    BY <1>1 DEF Tables, BucketType, IsPut
  <1>6. ASSUME NEW row \in U!DataRow, NEW names \in SUBSET FileNames, Holds(row, names)
        PROVE  Holds(row, names)'
    BY <1>3, <1>6 DEF Holds, U!DataRow, U!Key, U!Base64
  <1>7. QED  BY <1>3, <1>4, <1>5, <1>6 DEF StillHolds, IsPut

-----------------------------------------------------------------------------
(* The handlers *)

\* A request that takes no part in a step.
LEMMA OthersGoOn ==
    ASSUME NEW q \in FileRequests, FileControl(q), Tables, HandlersType,
           pc'[q] = pc[q], body'[q] = body[q], loaded'[q] = loaded[q],
           buffer'[q] = buffer[q],
           DOMAIN rows \subseteq DOMAIN rows',
           StillHolds
    PROVE  FileControl(q)'
  <1>1. pc[q] = "createRow" => IsPut(body[q].name, q)'
    BY DEF FileControl, StillHolds, IsPut
  <1>2. pc[q] = "createNormalizedRow" => IsPut(body[q].title, buffer[q])'
    BY DEF FileControl, StillHolds, IsPut
  <1>3. pc[q] \in {"getFile", "putNormalized", "createNormalizedRow"} =>
            loaded[q] \in U!Instance /\ Holds(loaded[q].row, loaded[q].names)'
    BY DEF FileControl, StillHolds, U!Instance
  <1>4. QED  BY <1>1, <1>2, <1>3 DEF FileControl, IsPut, Holds

\* A step of r that leaves the tables alone.
LEMMA QuietStep ==
    ASSUME FileInv, NEW r \in FileRequests, NEW label, NEW b, NEW inst, NEW file,
           NEW id,
           label \in {"idle"} \union U!Running \union U!Finished,
           b \in FileBodies \union {U!NoBody},
           inst \in U!Instance \union {U!NoInstance},
           file \in FileRequests \union {None}, id \in Nat,
           pc' = [pc EXCEPT ![r] = label], body' = [body EXCEPT ![r] = b],
           loaded' = [loaded EXCEPT ![r] = inst],
           buffer' = [buffer EXCEPT ![r] = file], dataId' = [dataId EXCEPT ![r] = id],
           Tables', DOMAIN rows \subseteq DOMAIN rows',
           StillHolds,
           FileControl(r)'
    PROVE  FileInv'
  <1>1. HandlersType'
    BY DEF FileInv, HandlersType
  <1>2. ASSUME NEW q \in FileRequests, q # r
        PROVE  FileControl(q)'
    <2>1. /\ pc'[q] = pc[q] /\ body'[q] = body[q]
          /\ loaded'[q] = loaded[q] /\ buffer'[q] = buffer[q]
      BY <1>2 DEF FileInv, HandlersType
    <2>2. QED  BY <2>1, OthersGoOn DEF FileInv
  <1>3. QED  BY <1>1, <1>2 DEF FileInv

\* One that has not read a row, either.
LEMMA SilentStep ==
    ASSUME FileInv, NEW r \in FileRequests, NEW label, NEW b, NEW file, NEW id,
           label \in {"idle"} \union U!Running \union U!Finished,
           b \in FileBodies \union {U!NoBody},
           file \in FileRequests \union {None}, id \in Nat,
           pc' = [pc EXCEPT ![r] = label], body' = [body EXCEPT ![r] = b],
           UNCHANGED loaded,
           buffer' = [buffer EXCEPT ![r] = file], dataId' = [dataId EXCEPT ![r] = id],
           Tables', DOMAIN rows \subseteq DOMAIN rows', StillHolds, FileControl(r)'
    PROVE  FileInv'
  <1>1. /\ loaded[r] \in U!Instance \union {U!NoInstance}
        /\ loaded' = [loaded EXCEPT ![r] = loaded[r]]
    BY DEF FileInv, HandlersType
  <1>2. QED  BY <1>1, QuietStep

\* The invariant of the files holds at first, and every step preserves it.
LEMMA InitFiles == Init => FileInv
  <1> SUFFICES ASSUME Init PROVE FileInv
    OBVIOUS
  <1>1. Tables
    BY DEF Init, U!Init, Tables, BucketType, RowsType, DocumentsType, Stored
  <1>2. HandlersType
    BY DEF Init, U!Init, HandlersType
  <1>3. ASSUME NEW r \in FileRequests
        PROVE  FileControl(r)
    BY DEF Init, U!Init, FileControl
  <1>4. QED  BY <1>1, <1>2, <1>3 DEF FileInv

\* The tables do not change, nor what was put under the names.
LEMMA SameTables ==
    ASSUME Tables, UNCHANGED <<transport, bucket, rows, documents, fileOf, namesOf, puts>>
    PROVE  /\ Tables' /\ DOMAIN rows \subseteq DOMAIN rows'
           /\ StillHolds
  <1>1. Stored'
    BY DEF Tables, Stored, Holds
  <1>2. StillHolds
    BY DEF StillHolds, IsPut, Holds
  <1>3. QED  BY <1>1, <1>2 DEF Tables, BucketType, RowsType, DocumentsType

\* Each query of upload, createDocument and the reads keeps it.
LEMMA FileStepKeeps ==
    ASSUME FileInv, NEW r \in FileRequests, UNCHANGED folderVars, U!Step(r)
    PROVE  FileInv'
  <1> USE DEF U!Goto, U!tables, U!history
  <1> DEFINE Label(label) == pc' = [pc EXCEPT ![r] = label]
  <1>a. /\ pc \in [FileRequests -> {"idle"} \union U!Running \union U!Finished]
        /\ body \in [FileRequests -> FileBodies \union {U!NoBody}]
        /\ loaded \in [FileRequests -> U!Instance \union {U!NoInstance}]
        /\ buffer \in [FileRequests -> FileRequests \union {None}]
        /\ dataId \in [FileRequests -> Nat]
        /\ FileControl(r) /\ Tables
    BY DEF FileInv, HandlersType
  <1>b. /\ FileBodies \subseteq U!Body
        /\ Len(rows) \in Nat /\ DOMAIN rows = 1..Len(rows)
    BY <1>a, FileAssumption DEF U!ConstantsOK, Tables, RowsType
  <1>c. UNCHANGED body => body' = [body EXCEPT ![r] = body[r]]
    BY <1>a
  <1>d. UNCHANGED buffer => buffer' = [buffer EXCEPT ![r] = buffer[r]]
    BY <1>a
  <1>e. UNCHANGED dataId => dataId' = [dataId EXCEPT ![r] = dataId[r]]
    BY <1>a
  <1>1. CASE U!Upload(r)
    <2>1. PICK b \in FileBodies :
              /\ b.op = "upload" /\ body' = [body EXCEPT ![r] = b]
              /\ pc' = [pc EXCEPT ![r] = IF b.valid THEN "put" ELSE "refused"]
              /\ UNCHANGED <<transport, bucket, rows, documents, fileOf, namesOf, puts,
                             loaded, buffer, dataId>>
      BY <1>1 DEF U!Upload, U!Receive
    <2>2. b \in U!UploadBody
      BY <1>b, <2>1 DEF U!Body, U!UploadBody, U!CreateBody, U!ReplaceBody
    <2>3. FileControl(r)'
      BY <1>a, <2>1, <2>2 DEF FileControl
    <2>4. (IF b.valid THEN "put" ELSE "refused") \in {"idle"} \union U!Running \union U!Finished
      BY DEF U!Running, U!Finished
    <2>5. Tables' /\ DOMAIN rows \subseteq DOMAIN rows' /\ StillHolds
      BY <1>a, <2>1, SameTables
    <2>6. QED  BY <1>a, <1>d, <1>e, <2>1, <2>3, <2>4, <2>5, SilentStep
  <1>2. CASE U!Put(r)
    <2>1. /\ pc[r] = "put" /\ U!PutFile(body[r].name, r)
          /\ pc' = [pc EXCEPT ![r] = "createRow"]
          /\ UNCHANGED <<transport, rows, documents, body, loaded, buffer, dataId, fileOf,
                         namesOf>>
      BY <1>2 DEF U!Put
    <2>2. body[r].name \in FileNames
      BY <1>a, <2>1 DEF FileControl, U!UploadBody
    <2>3. /\ Tables' /\ IsPut(body[r].name, r)'
          /\ StillHolds
      BY <1>a, <2>1, <2>2, FilePut
    <2>4. FileControl(r)'
      BY <1>a, <2>1, <2>3 DEF FileControl, IsPut
    <2>5. QED  BY <1>a, <1>c, <1>d, <1>e, <2>1, <2>3, <2>4, SilentStep
               DEF U!Running, U!Finished
  <1>3. CASE U!CreateRow(r)
    <2> DEFINE row == [data    |-> U!StoredData(body[r].name, r),
                       initial |-> U!InitialFile(body[r].name, r)]
    <2>1. /\ pc[r] = "createRow"
          /\ rows' = Append(rows, row) /\ fileOf' = Append(fileOf, r)
          /\ namesOf' = Append(namesOf, {body[r].name})
          /\ pc' = [pc EXCEPT ![r] = "done"]
          /\ UNCHANGED <<transport, bucket, documents, body, loaded, buffer, dataId, puts>>
      BY <1>3 DEF U!CreateRow
    <2>2. body[r].name \in FileNames /\ IsPut(body[r].name, r)
      BY <1>a, <2>1 DEF FileControl, U!UploadBody
    <2>3. row \in U!DataRow
      BY <2>2 DEF U!StoredData, U!InitialFile, U!Encoded, U!InBucket, U!DataRow, U!Key,
         U!Base64
    <2>4. Holds(row, {body[r].name})
      BY <2>2 DEF Holds, IsPut, U!StoredData, U!InitialFile, U!Encoded, U!InBucket
    <2> HIDE DEF row
    <2>5. Tables' /\ DOMAIN rows \subseteq DOMAIN rows'
      BY <1>a, <2>1, <2>2, <2>3, <2>4, RowAdded
    <2>6. FileControl(r)'
      BY <1>a, <2>1 DEF FileControl
    <2>7. StillHolds
      BY <2>1 DEF StillHolds, IsPut, Holds
    <2>8. QED  BY <1>a, <1>c, <1>d, <1>e, <2>1, <2>5, <2>6, <2>7, SilentStep
               DEF U!Running, U!Finished
  <1>4. CASE U!CreateDocument(r)
    <2>1. PICK b \in FileBodies :
              /\ b.op = "create" /\ body' = [body EXCEPT ![r] = b]
              /\ dataId' = [dataId EXCEPT ![r] = b.row]
              /\ pc' = [pc EXCEPT ![r] =
                           CASE b.folder \notin DOMAIN folders \union {None} -> "notFound"
                             [] b.folder \in DOMAIN folders \union {None} /\ b.normalize
                                -> "findData"
                             [] b.folder \in DOMAIN folders \union {None} /\ ~b.normalize
                                -> "createDocument"]
              /\ UNCHANGED <<transport, bucket, rows, documents, fileOf, namesOf, puts,
                             loaded, buffer>>
      BY <1>4 DEF U!CreateDocument, U!Receive
    <2>2. b \in U!CreateBody
      BY <1>b, <2>1 DEF U!Body, U!UploadBody, U!CreateBody, U!ReplaceBody
    <2>3. PICK label \in {"notFound", "findData", "createDocument"} :
              pc' = [pc EXCEPT ![r] = label]
      BY <2>1, <2>2 DEF U!CreateBody
    <2>4. FileControl(r)'
      BY <1>a, <2>1, <2>2, <2>3 DEF FileControl
    <2>5. b.row \in Nat
      BY <2>2 DEF U!CreateBody
    <2>6. label \in {"idle"} \union U!Running \union U!Finished
      BY <2>3 DEF U!Running, U!Finished
    <2>7. QED  BY <1>a, <1>d, <2>1, <2>3, <2>4, <2>5, <2>6, SameTables, SilentStep
  <1>5. CASE U!FindData(r)
    <2> DEFINE k    == body[r].row
               inst == IF k \in DOMAIN rows
                       THEN [row |-> rows[k], file |-> fileOf[k], names |-> namesOf[k]]
                       ELSE loaded[r]
    <2>1. /\ pc[r] = "findData"
          /\ pc' = [pc EXCEPT ![r] = IF k \in DOMAIN rows THEN "getFile"
                                     ELSE "createDocument"]
          /\ loaded' = [loaded EXCEPT ![r] = inst]
          /\ UNCHANGED <<transport, bucket, rows, documents, fileOf, namesOf, puts, body,
                         buffer, dataId>>
      BY <1>5, <1>a DEF U!FindData
    <2>2. k \in DOMAIN rows => /\ inst \in U!Instance
                              /\ Holds(inst.row, inst.names)
      <3>1. ASSUME k \in DOMAIN rows
            PROVE  /\ rows[k] \in U!DataRow /\ fileOf[k] \in FileRequests
                   /\ namesOf[k] \in SUBSET FileNames /\ Holds(rows[k], namesOf[k])
        BY <1>a, <3>1 DEF Tables, RowsType, Stored
      <3>2. QED  BY <3>1 DEF U!Instance
    <2>3. inst \in U!Instance \union {U!NoInstance}
      BY <1>a, <2>2
    <2> HIDE DEF inst
    <2>4. FileControl(r)'
      BY <1>a, <2>1, <2>2 DEF FileControl, Holds
    <2>5. PICK label \in {"getFile", "createDocument"} : pc' = [pc EXCEPT ![r] = label]
      BY <2>1
    <2>6. label \in {"idle"} \union U!Running \union U!Finished
      BY <2>5 DEF U!Running, U!Finished
    <2>7. buffer' = [buffer EXCEPT ![r] = buffer[r]]
      BY <1>a, <2>1
    <2>8. QED  BY <1>a, <1>c, <1>e, <2>1, <2>3, <2>4, <2>5, <2>6, <2>7, SameTables,
                  QuietStep
  <1>6. CASE U!GetFile(r)
    <2> DEFINE file == U!Reached(loaded[r].row.data)
    <2>1. /\ pc[r] = "getFile"
          /\ pc' = [pc EXCEPT ![r] = "putNormalized"]
          /\ buffer' = [buffer EXCEPT ![r] = file]
          /\ UNCHANGED <<transport, bucket, rows, documents, fileOf, namesOf, puts, body,
                         loaded, dataId>>
      BY <1>6 DEF U!GetFile
    <2>2. /\ body[r] \in U!CreateBody /\ loaded[r] \in U!Instance
          /\ Holds(loaded[r].row, loaded[r].names)
      BY <1>a, <2>1 DEF FileControl
    <2>3. loaded[r].row \in U!DataRow /\ loaded[r].names \in SUBSET FileNames
      BY <2>2 DEF U!Instance
    <2>4. file \in FileRequests
      BY <1>a, <2>2, <2>3 DEF U!Reached, Holds, U!DataRow, U!Key, U!Base64, Tables,
         BucketType
    <2> HIDE DEF file
    <2>5. FileControl(r)'
      BY <1>a, <2>1, <2>2, <2>4 DEF FileControl, Holds
    <2>6. QED  BY <1>a, <1>c, <1>e, <2>1, <2>4, <2>5, SameTables, SilentStep
               DEF U!Running, U!Finished
  <1>7. CASE U!PutNormalized(r)
    <2>1. /\ pc[r] = "putNormalized" /\ U!PutFile(body[r].title, buffer[r])
          /\ pc' = [pc EXCEPT ![r] = "createNormalizedRow"]
          /\ UNCHANGED <<transport, rows, documents, body, loaded, buffer, dataId, fileOf,
                         namesOf>>
      BY <1>7 DEF U!PutNormalized
    <2>2. /\ body[r].title \in FileNames /\ buffer[r] \in FileRequests
          /\ body[r] \in U!CreateBody /\ loaded[r] \in U!Instance
          /\ Holds(loaded[r].row, loaded[r].names)
      BY <1>a, <2>1 DEF FileControl, U!CreateBody
    <2>3. /\ Tables' /\ IsPut(body[r].title, buffer[r])'
          /\ StillHolds
      BY <1>a, <2>1, <2>2, FilePut
    <2>4. Holds(loaded[r].row, loaded[r].names)'
      BY <2>1, <2>2, <2>3 DEF StillHolds, U!Instance, Holds
    <2>5. FileControl(r)'
      BY <1>a, <2>1, <2>2, <2>3, <2>4 DEF FileControl, IsPut
    <2>6. QED  BY <1>a, <1>c, <1>d, <1>e, <2>1, <2>3, <2>5, SilentStep
               DEF U!Running, U!Finished
  <1>8. CASE U!CreateNormalizedRow(r)
    <2> DEFINE data == U!StoredData(body[r].title, buffer[r])
               row  == [data |-> data, initial |-> data]
               names == loaded[r].names \union {body[r].title}
    <2>1. /\ pc[r] = "createNormalizedRow"
          /\ rows' = Append(rows, row)
          /\ fileOf' = Append(fileOf, loaded[r].file)
          /\ namesOf' = Append(namesOf, names)
          /\ dataId' = [dataId EXCEPT ![r] = Len(rows) + 1]
          /\ pc' = [pc EXCEPT ![r] = "createDocument"]
          /\ UNCHANGED <<transport, bucket, documents, body, loaded, buffer, puts>>
      BY <1>8 DEF U!CreateNormalizedRow
    <2>2. /\ body[r].title \in FileNames /\ IsPut(body[r].title, buffer[r])
          /\ body[r] \in U!CreateBody /\ loaded[r] \in U!Instance
          /\ Holds(loaded[r].row, loaded[r].names)
      BY <1>a, <2>1 DEF FileControl, U!CreateBody
    <2>3. loaded[r].file \in FileRequests /\ loaded[r].names \in SUBSET FileNames
      BY <2>2 DEF U!Instance
    <2>4. row \in U!DataRow /\ names \in SUBSET FileNames
      BY <2>2, <2>3 DEF IsPut, U!StoredData, U!Encoded, U!InBucket, U!DataRow, U!Key,
         U!Base64
    <2>5. Holds(row, names)
      BY <2>2 DEF Holds, IsPut, U!StoredData, U!Encoded, U!InBucket
    <2> HIDE DEF row, names, data
    <2>6. Tables' /\ DOMAIN rows \subseteq DOMAIN rows'
      BY <1>a, <2>1, <2>3, <2>4, <2>5, RowAdded
    <2>7. FileControl(r)'
      BY <1>a, <2>1, <2>2 DEF FileControl
    <2>8. StillHolds
      BY <2>1 DEF StillHolds, IsPut, Holds
    <2>9. Len(rows) + 1 \in Nat
      BY <1>b
    <2>10. QED  BY <1>a, <1>c, <1>d, <2>1, <2>6, <2>7, <2>8, <2>9, SilentStep
                DEF U!Running, U!Finished
  <1>9. CASE U!InsertDocument(r)
    <2>1. /\ pc[r] = "createDocument"
          /\ \E label \in {"done", "failed"} : pc' = [pc EXCEPT ![r] = label]
          /\ UNCHANGED <<transport, bucket, rows, fileOf, namesOf, puts, body, loaded, buffer,
                         dataId>>
      BY <1>9 DEF U!InsertDocument
    <2>2. documents' \in Seq(U!Document)
          /\ \A d \in DOMAIN documents' : documents'[d].row \in DOMAIN rows
      <3>1. body[r] \in U!CreateBody
        BY <1>a, <2>1 DEF FileControl
      <3>2. CASE UNCHANGED documents
        BY <1>a, <3>2 DEF Tables, DocumentsType
      <3>3. CASE /\ dataId[r] \in DOMAIN rows
                 /\ documents' = Append(documents, [row |-> dataId[r],
                                                    folder |-> body[r].folder])
        <4>1. [row |-> dataId[r], folder |-> body[r].folder] \in U!Document
          BY <1>b, <3>1, <3>3 DEF U!Document, U!CreateBody
        <4>2. documents \in Seq(U!Document)
          BY <1>a DEF Tables, DocumentsType
        <4>3. documents' \in Seq(U!Document) /\ Len(documents') = Len(documents) + 1
          BY <3>3, <4>1, <4>2
        <4>4. ASSUME NEW d \in DOMAIN documents'
              PROVE  documents'[d].row \in DOMAIN rows
          <5>1. d \in DOMAIN documents \/ d = Len(documents) + 1
            BY <4>2, <4>3
          <5>2. CASE d \in DOMAIN documents
            BY <1>a, <3>3, <4>2, <5>2 DEF Tables, DocumentsType
          <5>3. CASE d = Len(documents) + 1
            BY <3>3, <4>2, <5>3
          <5>4. QED  BY <5>1, <5>2, <5>3
        <4>5. QED  BY <4>3, <4>4
      <3>4. QED  BY <1>9, <3>2, <3>3 DEF U!InsertDocument
    <2>3. Tables'
      <3>1. Stored'
        BY <1>a, <2>1 DEF Tables, Stored, Holds
      <3>2. QED  BY <1>a, <2>1, <2>2, <3>1 DEF Tables, BucketType, RowsType, DocumentsType
    <2>4. FileControl(r)'
      BY <1>a, <2>1 DEF FileControl
    <2>5. StillHolds
      BY <2>1 DEF StillHolds, IsPut, Holds
    <2>6. QED  BY <1>a, <1>c, <1>d, <1>e, <2>1, <2>3, <2>4, <2>5, SilentStep
               DEF U!Running, U!Finished
  <1>10. CASE U!UpdateDocumentFile(r)
    <2>1. PICK b \in FileBodies :
              /\ b.op = "replace" /\ b.row \in DOMAIN rows
              /\ body' = [body EXCEPT ![r] = b]
              /\ \/ /\ b.document \in DOMAIN documents
                    /\ rows' = [rows EXCEPT ![documents[b.document].row] =
                                   U!Replaced(@, rows[b.row], b.withInitial)]
                    /\ fileOf' = [fileOf EXCEPT ![documents[b.document].row] =
                                                   fileOf[b.row]]
                    /\ namesOf' = [namesOf EXCEPT ![documents[b.document].row] =
                                                    namesOf[b.row]]
                 \/ UNCHANGED <<rows, fileOf, namesOf>>
              /\ \E label \in {"done", "notFound"} : pc' = [pc EXCEPT ![r] = label]
              /\ UNCHANGED <<transport, bucket, documents, loaded, buffer, dataId, puts>>
      BY <1>10 DEF U!UpdateDocumentFile, U!Receive, U!RowOf
    <2> DEFINE old  == rows[documents[b.document].row]
               copy == U!Replaced(old, rows[b.row], b.withInitial)
    <2>2. copy \in {rows[b.row], [rows[b.row] EXCEPT !.initial = U!NoFile]}
      <3>1. rows[b.row] \in U!DataRow
        BY <1>a, <2>1 DEF Tables, RowsType
      <3>2. [rows[b.row] EXCEPT !.initial = rows[b.row].initial] = rows[b.row]
        BY <3>1 DEF U!DataRow
      <3>3. QED  BY <3>2 DEF U!Replaced
    <2>3. Tables' /\ DOMAIN rows \subseteq DOMAIN rows'
      <3>1. CASE UNCHANGED <<rows, fileOf, namesOf>>
        BY <1>a, <2>1, <3>1, SameTables
      <3>2. CASE /\ b.document \in DOMAIN documents
                 /\ rows' = [rows EXCEPT ![documents[b.document].row] = copy]
                 /\ fileOf' = [fileOf EXCEPT ![documents[b.document].row] = fileOf[b.row]]
                 /\ namesOf' = [namesOf EXCEPT ![documents[b.document].row] =
                                                 namesOf[b.row]]
        <4>1. documents[b.document].row \in DOMAIN rows
          BY <1>a, <3>2 DEF Tables, DocumentsType
        <4> HIDE DEF copy
        <4>2. QED  BY <1>a, <2>1, <2>2, <3>2, <4>1, RowCopied
      <3>3. QED  BY <2>1, <3>1, <3>2
    <2>4. FileControl(r)'
      BY <1>a, <2>1 DEF FileControl
    <2>5. StillHolds
      BY <2>1 DEF StillHolds, IsPut, Holds
    <2>6. QED  BY <1>a, <1>d, <1>e, <2>1, <2>3, <2>4, <2>5, SilentStep
               DEF U!Running, U!Finished
  <1>11. CASE U!Abort(r)
    <2>1. /\ pc' = [pc EXCEPT ![r] = "aborted"]
          /\ UNCHANGED <<transport, bucket, rows, documents, fileOf, namesOf, puts, body,
                         loaded, buffer, dataId>>
      BY <1>11 DEF U!Abort
    <2>2. FileControl(r)'
      BY <1>a, <2>1 DEF FileControl
    <2>3. QED  BY <1>a, <1>c, <1>d, <1>e, <2>1, <2>2, SameTables, SilentStep
               DEF U!Running, U!Finished
  <1>12. QED
    BY <1>1, <1>2, <1>3, <1>4, <1>5, <1>6, <1>7, <1>8, <1>9, <1>10, <1>11 DEF U!Step

\* A step about folders only takes documents out of them.
LEMMA FolderStepKeeps == FileInv /\ FolderStep => FileInv'
  <1> SUFFICES ASSUME FileInv, FolderStep PROVE FileInv'
    OBVIOUS
  <1>1. /\ UNCHANGED <<transport, rows, bucket, pc, body, loaded, buffer, dataId, fileOf,
                       namesOf, puts>>
        /\ \E gone \in SUBSET Filed :
               documents' = [d \in DOMAIN documents |->
                                IF documents[d].folder \in gone
                                THEN [documents[d] EXCEPT !.folder = None]
                                ELSE documents[d]]
    BY DEF FolderStep
  <1>2. documents \in Seq(U!Document) /\ DOMAIN documents = 1..Len(documents)
        /\ Len(documents) \in Nat
    BY DEF FileInv, Tables, DocumentsType
  <1>3. /\ DOMAIN documents' = 1..Len(documents)
        /\ \A d \in 1..Len(documents) : /\ documents'[d] \in U!Document
                                        /\ documents'[d].row = documents[d].row
    <2>1. DOMAIN documents' = 1..Len(documents)
      BY <1>1, <1>2
    <2>2. ASSUME NEW d \in 1..Len(documents)
          PROVE  /\ documents'[d] \in U!Document
                 /\ documents'[d].row = documents[d].row
      <3>1. documents[d] \in U!Document
        BY <1>2
      <3>2. \/ documents'[d] = documents[d]
            \/ documents'[d] = [documents[d] EXCEPT !.folder = None]
        BY <1>1, <1>2
      <3>3. QED  BY <3>1, <3>2 DEF U!Document
    <2>3. QED  BY <2>1, <2>2
  <1>4. documents' \in [1..Len(documents) -> U!Document]
    BY <1>1, <1>2, <1>3
  <1>5. documents' \in Seq(U!Document)
    BY <1>2, <1>4, SeqDef
  <1>6. DocumentsType'
    BY <1>1, <1>2, <1>3, <1>5 DEF FileInv, Tables, DocumentsType
  <1>7. Stored'
    BY <1>1 DEF FileInv, Tables, Stored, Holds
  <1>8. Tables'
    BY <1>1, <1>6, <1>7 DEF FileInv, Tables, BucketType, RowsType
  <1>9. HandlersType' /\ \A r \in FileRequests : FileControl(r)'
    BY <1>1 DEF FileInv, HandlersType, FileControl, IsPut, Holds
  <1>10. QED  BY <1>8, <1>9 DEF FileInv

\* Steps of either component keep the invariant of the files.
LEMMA NextFiles == FileInv /\ [Next]_vars => FileInv'
  <1> SUFFICES ASSUME FileInv, [Next]_vars PROVE FileInv'
    OBVIOUS
  <1>1. CASE FolderStep
    BY <1>1, FolderStepKeeps
  <1>2. CASE FileStep
    BY <1>2, FileStepKeeps DEF FileStep
  <1>3. CASE UNCHANGED vars
    <2>1. UNCHANGED <<transport, bucket, rows, documents, pc, body, loaded, buffer,
                      dataId, fileOf, namesOf, puts>>
      BY <1>3 DEF vars, fileVars
    <2>2. Tables'
      BY <2>1, SameTables DEF FileInv
    <2>3. QED  BY <2>1, <2>2 DEF FileInv, HandlersType, FileControl, IsPut, Holds
  <1>4. QED  BY <1>1, <1>2, <1>3 DEF Next, Terminated

\* As long as no other file was put under its names, a row leads to its own
\* file.
LEMMA OwnFile ==
    ASSUME FileInv, NEW i \in DOMAIN rows, U!OwnNames(i)
    PROVE  U!Reached(rows[i].data) = fileOf[i]
  <1>1. /\ rows[i] \in U!DataRow /\ namesOf[i] \in SUBSET FileNames
        /\ Holds(rows[i], namesOf[i])
    BY DEF FileInv, Tables, RowsType, Stored
  <1>2. QED  BY <1>1 DEF U!OwnNames, U!Reached, Holds, U!DataRow, U!Key, U!Base64

\* The file that is rendered is the one of the row it was found by.
LEMMA OwnRendered ==
    ASSUME FileInv, NEW d \in DOMAIN documents, NEW i \in U!Rendered(d),
           U!OwnNames(documents[d].row)
    PROVE  \/ rows[i].initial = U!Encoded(fileOf[documents[d].row])
           \/ rows[i].initial = U!NoFile
           \/ rows[i].initial = rows[i].data /\ rows[i].data.kind = "key"
  <1> DEFINE k == documents[d].row
  <1>1. k \in DOMAIN rows /\ i \in DOMAIN rows /\ rows[i].data = rows[k].data
    BY DEF FileInv, Tables, DocumentsType, U!Rendered
  <1>2. U!Reached(rows[k].data) = fileOf[k]
    BY <1>1, OwnFile
  <1>3. /\ rows[k] \in U!DataRow /\ namesOf[k] \in SUBSET FileNames
        /\ Holds(rows[k], namesOf[k]) /\ Holds(rows[i], namesOf[i])
        /\ rows[i] \in U!DataRow
    BY <1>1 DEF FileInv, Tables, RowsType, Stored
  <1>4. CASE rows[i].initial \in U!Base64
    <2>1. rows[i].initial.kind = "base64"
      BY <1>4 DEF U!Base64
    <2>2. rows[i].initial.of = fileOf[k]
      <3>1. CASE rows[k].data.kind = "key"
        BY <1>1, <1>3, <2>1, <3>1 DEF U!OwnNames, Holds, U!DataRow, U!Key, U!Base64
      <3>2. CASE rows[k].data.kind # "key"
        BY <1>1, <1>2, <1>3, <2>1, <3>2 DEF U!Reached, Holds
      <3>3. QED  BY <3>1, <3>2
    <2>3. rows[i].initial = [kind |-> "base64", of |-> fileOf[k]]
      BY <1>4, <2>2 DEF U!Base64
    <2>4. QED  BY <2>3 DEF U!Encoded
  <1>5. CASE rows[i].initial \in U!Key
    <2>1. rows[i].initial.kind = "key"
      BY <1>5 DEF U!Key
    <2>2. rows[i].initial = rows[i].data
      BY <1>3, <2>1 DEF Holds
    <2>3. QED  BY <2>1, <2>2
  <1>6. CASE rows[i].initial = U!NoFile
    BY <1>6
  <1>7. QED  BY <1>3, <1>4, <1>5, <1>6 DEF U!DataRow

\* Every row of DocumentData leads to its own file, unless another one was put
\* under one of its names: whatever uploads, normalisations and replacements
\* interleave or are aborted (FileKept).
THEOREM FilesSafe == Spec => []FileKept
  <1>1. FileInv => FileKept
    BY OwnFile DEF FileKept, U!FileKept
  <1>2. QED  BY <1>1, InitFiles, NextFiles, PTL DEF Spec

\* Whichever row is found by the data of a document's row, what is rendered is
\* the document's own file, under the same condition, or nothing where the row has
\* a key or nothing for initialData (RendersOwn).
THEOREM RenderedSafe == Spec => []RendersOwn
  <1>1. FileInv => RendersOwn
    BY OwnRendered DEF RendersOwn, U!RendersOwn
  <1>2. QED  BY <1>1, InitFiles, NextFiles, PTL DEF Spec

-----------------------------------------------------------------------------
(* Folders: the table and the handlers *)

TableType ==
    /\ nextId \in Nat \ {0}
    /\ DOMAIN folders \subseteq 1..(nextId - 1)
    /\ folders \in [DOMAIN folders -> F!Folder]
    /\ \A f \in DOMAIN folders : folders[f].parent \in DOMAIN folders \union {Root}
    /\ DOMAIN maker \subseteq 1..(nextId - 1)
    /\ maker \in [DOMAIN maker -> FolderRequests]
    /\ disturbed \subseteq FolderRequests

FolderHandlers ==
    /\ folderPc \in [FolderRequests -> {"idle"} \union F!Running \union F!Finished]
    /\ folderBody \in [FolderRequests -> FolderBodies \union {F!NoBody}]
    /\ left \in [FolderRequests -> Seq(FolderNames)]
    /\ at \in [FolderRequests -> Nat \union {Root}]
    /\ found \in [FolderRequests -> SUBSET Nat]
    /\ crumbs = [q \in FolderRequests |-> crumbs[q]]

Crumb == [next: Nat \union {Root}, path: Seq(FolderNames)]

\* What a request at each query has to go by.
FolderControl(r) ==
    /\ folderPc[r] \in {"findPart", "createPart"} =>
           folderBody[r] \in F!PathBody /\ left[r] # <<>>
    /\ folderPc[r] = "insert" => folderBody[r] \in F!CreateBody
    /\ folderPc[r] = "update" => folderBody[r] \in F!RenameBody
    /\ folderPc[r] = "destroy" => folderBody[r] \in F!DeleteBody
    /\ folderPc[r] = "crumbs" => folderBody[r] \in F!ListBody
    /\ folderPc[r] = "done" /\ folderBody[r].op = "createPath" => left[r] = <<>>
    /\ folderPc[r] \in {"crumbs", "done"} /\ folderBody[r].op = "list" =>
           crumbs[r] \in [found[r] -> Crumb]
    /\ folderPc[r] = "done" /\ folderBody[r].op = "list" =>
           \A f \in found[r] : crumbs[r][f].next = Root

FolderType == TableType /\ FolderHandlers /\ \A r \in FolderRequests : FolderControl(r)

\* What r does not touch.
Only(r) ==
    \A q \in FolderRequests \ {r} :
        /\ folderPc'[q] = folderPc[q] /\ folderBody'[q] = folderBody[q]
        /\ left'[q] = left[q] /\ at'[q] = at[q]
        /\ found'[q] = found[q] /\ crumbs'[q] = crumbs[q]

\* The table has more rows, at most.
Grows == /\ DOMAIN folders \subseteq DOMAIN folders'
         /\ \A f \in DOMAIN folders : folders'[f] = folders[f]
         /\ disturbed' = disturbed

\* Rows are changed by r, and whoever has come is disturbed.
Shakes(r) == folderPc[r] # "idle" /\ disturbed' = disturbed \union F!Started

\* Which kind of body a request has is told by its operation.
LEMMA BodyOf ==
    ASSUME NEW b \in FolderBodies
    PROVE  /\ b.op = "createPath" => b \in F!PathBody
           /\ b.op = "create" => b \in F!CreateBody
           /\ b.op = "rename" => b \in F!RenameBody
           /\ b.op = "delete" => b \in F!DeleteBody
           /\ b.op = "list" => b \in F!ListBody
  BY FolderAssumption DEF F!ConstantsOK, F!Body, F!PathBody, F!CreateBody, F!RenameBody,
     F!DeleteBody, F!ListBody

\* The tables and the handlers are well formed at first.
LEMMA InitFolders == Init => FolderType
  <1> SUFFICES ASSUME Init PROVE FolderType
    OBVIOUS
  <1>1. TableType
    BY DEF Init, F!Init, TableType
  <1>2. FolderHandlers
    BY DEF Init, F!Init, FolderHandlers
  <1>3. \A r \in FolderRequests : FolderControl(r)
    BY DEF Init, F!Init, FolderControl
  <1>4. QED  BY <1>1, <1>2, <1>3 DEF FolderType

\* Insert, from a table that has the parent.
LEMMA Inserted ==
    ASSUME TableType, NEW name \in FolderNames, NEW parent \in DOMAIN folders \union {Root},
           F!Insert(name, parent), disturbed' = disturbed
    PROVE  /\ Grows
           /\ DOMAIN folders' = DOMAIN folders \union {nextId}
           /\ nextId \notin DOMAIN folders /\ nextId \notin DOMAIN maker
           /\ folders'[nextId] = [name |-> name, parent |-> parent]
           /\ (UNCHANGED maker \/ \E r \in FolderRequests :
                  maker' = [f \in DOMAIN maker \union {nextId} |->
                               IF f = nextId THEN r ELSE maker[f]])
              => TableType'
  <1>1. /\ folders' = [f \in DOMAIN folders \union {nextId} |->
                          IF f = nextId THEN [name |-> name, parent |-> parent]
                                        ELSE folders[f]]
        /\ nextId' = nextId + 1
    BY DEF F!Insert, F!Ids
  <1>2. nextId \in Nat \ {0} /\ nextId \notin DOMAIN folders /\ nextId \notin DOMAIN maker
    BY DEF TableType
  <1>3. DOMAIN folders' = DOMAIN folders \union {nextId}
    BY <1>1
  <1>4. Grows
    BY <1>1, <1>2 DEF Grows
  <1>5. folders'[nextId] = [name |-> name, parent |-> parent]
    BY <1>1
  <1>6. [name |-> name, parent |-> parent] \in F!Folder
    BY <1>2 DEF F!Folder, TableType
  <1>7. folders' \in [DOMAIN folders' -> F!Folder]
    BY <1>1, <1>3, <1>6 DEF TableType
  <1>8. \A f \in DOMAIN folders' : folders'[f].parent \in DOMAIN folders' \union {Root}
    BY <1>3, <1>4, <1>5 DEF TableType, Grows
  <1>9. nextId' \in Nat \ {0} /\ DOMAIN folders' \subseteq 1..(nextId' - 1)
    BY <1>1, <1>2, <1>3 DEF TableType
  <1>10. ASSUME UNCHANGED maker
         PROVE  TableType'
    BY <1>1, <1>2, <1>7, <1>8, <1>9, <1>10 DEF TableType
  <1>11. ASSUME NEW r \in FolderRequests,
                maker' = [f \in DOMAIN maker \union {nextId} |->
                             IF f = nextId THEN r ELSE maker[f]]
         PROVE  TableType'
    <2>1. DOMAIN maker' \subseteq 1..(nextId' - 1)
      BY <1>1, <1>2, <1>11 DEF TableType
    <2>2. maker' \in [DOMAIN maker' -> FolderRequests]
      BY <1>11 DEF TableType
    <2>3. QED  BY <1>7, <1>8, <1>9, <2>1, <2>2 DEF TableType
  <1>12. QED  BY <1>2, <1>3, <1>4, <1>5, <1>10, <1>11

\* What a request goes by is its own: a step of r can only disturb r's.
LEMMA ControlAside ==
    ASSUME NEW r \in FolderRequests, Only(r), FolderType, FolderControl(r)'
    PROVE  \A q \in FolderRequests : FolderControl(q)'
  BY DEF Only, FolderType, FolderControl

\* A request that arrives is at its first query, or answered; the table is as before.
LEMMA Received ==
    ASSUME FolderType, NEW r \in FolderRequests, NEW b \in FolderBodies, F!Receive(r, b),
           NEW label, F!Goto(r, label), label \in F!Running \union F!Finished,
           left' = [left EXCEPT ![r] = left'[r]], left'[r] \in Seq(FolderNames),
           found' = [found EXCEPT ![r] = found'[r]], found'[r] \in SUBSET Nat,
           crumbs' = [crumbs EXCEPT ![r] = crumbs'[r]],
           UNCHANGED <<folders, nextId, maker, at>>
    PROVE  /\ TableType' /\ FolderHandlers' /\ Only(r) /\ Grows
           /\ folderPc'[r] = label /\ folderBody'[r] = b
           /\ folderPc[r] = "idle"
  <1>1. /\ folderPc' = [folderPc EXCEPT ![r] = label] /\ folderPc[r] = "idle"
        /\ folderBody' = [folderBody EXCEPT ![r] = b]
        /\ disturbed' = disturbed
    BY DEF F!Receive, F!Goto
  <1>2. TableType' /\ Grows
    BY <1>1 DEF FolderType, TableType, Grows
  <1>3. FolderHandlers'
    BY <1>1 DEF FolderType, FolderHandlers
  <1>4. Only(r) /\ folderPc'[r] = label /\ folderBody'[r] = b
    BY <1>1 DEF FolderType, FolderHandlers, Only
  <1>5. QED  BY <1>1, <1>2, <1>3, <1>4

\* A path without its first part.
LEMMA TailOf ==
    ASSUME NEW s \in Seq(FolderNames), s # <<>>
    PROVE  /\ Head(s) \in FolderNames /\ Tail(s) \in Seq(FolderNames)
           /\ Len(s) = 1 => Tail(s) = <<>>
           /\ Len(s) # 1 => Tail(s) # <<>>
  <1>1. /\ Head(s) \in FolderNames /\ Tail(s) \in Seq(FolderNames)
        /\ Len(Tail(s)) = Len(s) - 1
    BY HeadTailProperties
  <1>2. Tail(s) = <<>> <=> Len(Tail(s)) = 0
    BY <1>1, EmptySeq
  <1>3. Len(s) \in Nat
    OBVIOUS
  <1>4. Len(Tail(s)) = 0 <=> Len(s) = 1
    BY <1>1, <1>3
  <1>5. QED  BY <1>1, <1>2, <1>4, Zenon

\* The table does not change.
LEMMA TableSame ==
    ASSUME TableType, UNCHANGED <<folders, nextId, maker, disturbed>>
    PROVE  TableType' /\ Grows
  BY DEF TableType, Grows

\* Every step keeps the table and the handlers well formed, touches one request,
\* and either adds rows at most or disturbs whoever has come.
LEMMA FolderStepType ==
    ASSUME FolderType, NEW r \in FolderRequests, F!Step(r)
    PROVE  FolderType' /\ Only(r) /\ (Grows \/ Shakes(r))
  <1> USE DEF F!Goto
  <1>a. /\ TableType /\ FolderHandlers /\ FolderControl(r)
        /\ folderBody[r] \in FolderBodies \union {F!NoBody}
        /\ left[r] \in Seq(FolderNames) /\ at[r] \in Nat \union {Root}
        /\ found[r] \in SUBSET Nat
    BY DEF FolderType, FolderHandlers
  <1>b. ASSUME TableType', FolderHandlers', Only(r), FolderControl(r)'
        PROVE  FolderType'
    BY <1>b, ControlAside DEF FolderType
  <1>c. /\ left = [left EXCEPT ![r] = left[r]] /\ at = [at EXCEPT ![r] = at[r]]
        /\ found = [found EXCEPT ![r] = found[r]]
        /\ crumbs = [crumbs EXCEPT ![r] = crumbs[r]]
    BY <1>a DEF FolderHandlers
  <1>1. CASE F!CreateFolderPath(r)
    <2>1. PICK b \in FolderBodies :
              /\ b.op = "createPath" /\ F!Receive(r, b)
              /\ left' = [left EXCEPT ![r] = b.path]
              /\ F!Goto(r, IF b.path = <<>> THEN "failed" ELSE "findPart")
              /\ UNCHANGED <<folders, nextId, maker, at, found, crumbs>>
      BY <1>1 DEF F!CreateFolderPath
    <2>2. b \in F!PathBody /\ b.path \in Seq(FolderNames)
      BY <2>1, BodyOf DEF F!PathBody
    <2>3. PICK label : /\ label = (IF b.path = <<>> THEN "failed" ELSE "findPart")
                       /\ F!Goto(r, label)
      BY <2>1
    <2>4. left'[r] = b.path
      BY <1>a, <2>1 DEF FolderHandlers
    <2>5. /\ TableType' /\ FolderHandlers' /\ Only(r) /\ Grows
          /\ folderPc'[r] = label /\ folderBody'[r] = b
      BY <1>a, <1>c, <2>1, <2>2, <2>3, <2>4, Received DEF F!Running, F!Finished
    <2>6. FolderControl(r)'
      BY <2>2, <2>3, <2>4, <2>5 DEF FolderControl
    <2>7. QED  BY <1>b, <2>5, <2>6
  <1>2. CASE F!FindPart(r)
    <2>1. /\ folderPc[r] = "findPart"
          /\ UNCHANGED <<folders, nextId, maker, folderBody, found, crumbs, disturbed>>
          /\ \/ folderPc' = [folderPc EXCEPT ![r] = "createPart"] /\ UNCHANGED <<left, at>>
             \/ /\ \E f \in DOMAIN folders : at' = [at EXCEPT ![r] = f]
                /\ left' = [left EXCEPT ![r] = Tail(left[r])]
                /\ folderPc' = [folderPc EXCEPT ![r] = IF Len(left[r]) = 1 THEN "done"
                                                                        ELSE "findPart"]
      BY <1>2 DEF F!FindPart, F!Matching, F!Ids, F!table
    <2>2. folderBody[r] \in F!PathBody /\ left[r] # <<>>
      BY <1>a, <2>1 DEF FolderControl
    <2>3. /\ Tail(left[r]) \in Seq(FolderNames)
          /\ Len(left[r]) = 1 => Tail(left[r]) = <<>>
          /\ Len(left[r]) # 1 => Tail(left[r]) # <<>>
      BY <1>a, <2>2, TailOf
    <2>4. DOMAIN folders \subseteq Nat
      BY <1>a DEF TableType
    <2>5. TableType' /\ Grows
      BY <1>a, <2>1, TableSame
    <2>6. FolderHandlers'
      BY <1>a, <2>1, <2>3, <2>4 DEF FolderHandlers, F!Running, F!Finished
    <2>7. Only(r)
      BY <1>a, <2>1 DEF FolderHandlers, Only
    <2>8. FolderControl(r)'
      BY <1>a, <2>1, <2>2, <2>3 DEF FolderControl, FolderHandlers, F!PathBody
    <2>9. QED  BY <1>b, <2>5, <2>6, <2>7, <2>8
  <1>3. CASE F!CreatePart(r)
    <2>1. folderPc[r] = "createPart"
          /\ UNCHANGED <<folderBody, found, crumbs, disturbed>>
      BY <1>3 DEF F!CreatePart
    <2>2. folderBody[r] \in F!PathBody /\ left[r] # <<>>
      BY <1>a, <2>1 DEF FolderControl
    <2>3. CASE F!Exists(at[r])
      <3>1. /\ F!Insert(Head(left[r]), at[r])
            /\ maker' = [f \in DOMAIN maker \union {nextId} |->
                             IF f = nextId THEN r ELSE maker[f]]
            /\ at' = [at EXCEPT ![r] = nextId]
            /\ left' = [left EXCEPT ![r] = Tail(left[r])]
            /\ folderPc' = [folderPc EXCEPT ![r] = IF Len(left[r]) = 1 THEN "done"
                                                                    ELSE "findPart"]
        BY <1>3, <2>3 DEF F!CreatePart
      <3>2. Head(left[r]) \in FolderNames /\ at[r] \in DOMAIN folders \union {Root}
        BY <1>a, <2>2, <2>3, TailOf DEF F!Exists, F!Ids
      <3>3. /\ Tail(left[r]) \in Seq(FolderNames)
            /\ Len(left[r]) = 1 => Tail(left[r]) = <<>>
            /\ Len(left[r]) # 1 => Tail(left[r]) # <<>>
        BY <1>a, <2>2, TailOf
      <3>4. TableType' /\ Grows
        BY <1>a, <2>1, <3>1, <3>2, Inserted
      <3>5. FolderHandlers'
        BY <1>a, <2>1, <3>1, <3>3 DEF FolderHandlers, F!Running, F!Finished, TableType
      <3>6. Only(r)
        BY <1>a, <2>1, <3>1 DEF FolderHandlers, Only
      <3>7. FolderControl(r)'
        BY <1>a, <2>1, <2>2, <3>1, <3>3 DEF FolderControl, FolderHandlers, F!PathBody
      <3>8. QED  BY <1>b, <3>4, <3>5, <3>6, <3>7
    <2>4. CASE ~F!Exists(at[r])
      <3>1. /\ folderPc' = [folderPc EXCEPT ![r] = "failed"]
            /\ UNCHANGED <<folders, nextId, maker, at, left>>
        BY <1>3, <2>4 DEF F!CreatePart
      <3>2. TableType' /\ Grows
        BY <1>a, <2>1, <3>1, TableSame
      <3>3. FolderHandlers' /\ Only(r)
        BY <1>a, <2>1, <3>1 DEF FolderHandlers, Only, F!Running, F!Finished
      <3>4. FolderControl(r)'
        BY <1>a, <2>1, <3>1 DEF FolderControl, FolderHandlers
      <3>5. QED  BY <1>b, <3>2, <3>3, <3>4
    <2>5. QED  BY <2>3, <2>4
  <1>4. CASE F!CreateFolder(r)
    <2>1. PICK b \in FolderBodies :
              /\ b.op = "create" /\ F!Receive(r, b)
              /\ F!Goto(r, IF F!Exists(b.parent) THEN "insert" ELSE "notFound")
              /\ UNCHANGED <<folders, nextId, maker, left, at, found, crumbs>>
      BY <1>4 DEF F!CreateFolder
    <2>2. b \in F!CreateBody
      BY <2>1, BodyOf
    <2>3. PICK label : /\ label = (IF F!Exists(b.parent) THEN "insert" ELSE "notFound")
                       /\ F!Goto(r, label)
      BY <2>1
    <2>4. /\ TableType' /\ FolderHandlers' /\ Only(r) /\ Grows
          /\ folderPc'[r] = label /\ folderBody'[r] = b
      BY <1>a, <1>c, <2>1, <2>3, Received DEF F!Running, F!Finished
    <2>5. FolderControl(r)'
      BY <2>1, <2>2, <2>3, <2>4 DEF FolderControl
    <2>6. QED  BY <1>b, <2>4, <2>5
  <1>5. CASE F!CreateOne(r)
    <2>1. folderPc[r] = "insert"
          /\ UNCHANGED <<maker, folderBody, left, at, found, crumbs, disturbed>>
      BY <1>5 DEF F!CreateOne
    <2>2. folderBody[r] \in F!CreateBody
      BY <1>a, <2>1 DEF FolderControl
    <2>3. PICK label \in {"done", "failed"} : folderPc' = [folderPc EXCEPT ![r] = label]
      BY <1>5 DEF F!CreateOne
    <2>4. TableType' /\ Grows
      <3>1. CASE F!Exists(folderBody[r].parent)
        <4>1. F!Insert(folderBody[r].name, folderBody[r].parent)
          BY <1>5, <3>1 DEF F!CreateOne
        <4>2. /\ folderBody[r].name \in FolderNames
              /\ folderBody[r].parent \in DOMAIN folders \union {Root}
          BY <2>2, <3>1 DEF F!Exists, F!Ids, F!CreateBody
        <4>3. QED  BY <1>a, <2>1, <4>1, <4>2, Inserted
      <3>2. CASE ~F!Exists(folderBody[r].parent)
        BY <1>a, <1>5, <2>1, <3>2, TableSame DEF F!CreateOne
      <3>3. QED  BY <3>1, <3>2
    <2>5. FolderHandlers' /\ Only(r)
      BY <1>a, <2>1, <2>3 DEF FolderHandlers, Only, F!Running, F!Finished
    <2>6. FolderControl(r)'
      BY <1>a, <2>1, <2>2, <2>3 DEF FolderControl, FolderHandlers, F!CreateBody
    <2>7. QED  BY <1>b, <2>4, <2>5, <2>6
  <1>6. CASE F!RenameFolder(r)
    <2>1. PICK b \in FolderBodies :
              /\ b.op = "rename" /\ F!Receive(r, b)
              /\ F!Goto(r, IF b.folder \in DOMAIN folders THEN "update" ELSE "notFound")
              /\ UNCHANGED <<folders, nextId, maker, left, at, found, crumbs>>
      BY <1>6 DEF F!RenameFolder, F!Ids
    <2>2. b \in F!RenameBody
      BY <2>1, BodyOf
    <2>3. PICK label : /\ label = (IF b.folder \in DOMAIN folders THEN "update"
                                                                ELSE "notFound")
                       /\ F!Goto(r, label)
      BY <2>1
    <2>4. /\ TableType' /\ FolderHandlers' /\ Only(r) /\ Grows
          /\ folderPc'[r] = label /\ folderBody'[r] = b
      BY <1>a, <1>c, <2>1, <2>3, Received DEF F!Running, F!Finished
    <2>5. FolderControl(r)'
      BY <2>1, <2>2, <2>3, <2>4 DEF FolderControl
    <2>6. QED  BY <1>b, <2>4, <2>5
  <1>7. CASE F!Update(r)
    <2>1. /\ folderPc[r] = "update"
          /\ folders' = [f \in DOMAIN folders |->
                            IF f = folderBody[r].folder
                            THEN [folders[f] EXCEPT !.name = folderBody[r].name]
                            ELSE folders[f]]
          /\ disturbed' = disturbed \union F!Started
          /\ folderPc' = [folderPc EXCEPT ![r] = "done"]
          /\ UNCHANGED <<nextId, maker, folderBody, left, at, found, crumbs>>
      BY <1>7 DEF F!Update, F!Ids
    <2>2. folderBody[r] \in F!RenameBody
      BY <1>a, <2>1 DEF FolderControl
    <2>3. DOMAIN folders' = DOMAIN folders
      BY <2>1
    <2>4. \A f \in DOMAIN folders : /\ folders'[f] \in F!Folder
                                    /\ folders'[f].parent = folders[f].parent
      <3>1. ASSUME NEW f \in DOMAIN folders
            PROVE  /\ folders'[f] \in F!Folder
                   /\ folders'[f].parent = folders[f].parent
        <4>1. folders[f] \in F!Folder /\ folderBody[r].name \in FolderNames
          BY <1>a, <2>2 DEF TableType, F!RenameBody
        <4>2. \/ folders'[f] = folders[f]
              \/ folders'[f] = [folders[f] EXCEPT !.name = folderBody[r].name]
          BY <2>1
        <4>3. QED  BY <4>1, <4>2 DEF F!Folder
      <3>2. QED  BY <3>1
    <2>5. folders' \in [DOMAIN folders' -> F!Folder]
      BY <2>1, <2>3, <2>4
    <2>6. TableType'
      BY <1>a, <2>1, <2>3, <2>4, <2>5 DEF TableType, F!Started
    <2>7. FolderHandlers' /\ Only(r)
      BY <1>a, <2>1 DEF FolderHandlers, Only, F!Running, F!Finished
    <2>8. FolderControl(r)'
      BY <1>a, <2>1, <2>2 DEF FolderControl, FolderHandlers, F!RenameBody
    <2>9. QED  BY <1>b, <2>1, <2>6, <2>7, <2>8 DEF Shakes
  <1>8. CASE F!DeleteFolder(r)
    <2>1. PICK b \in FolderBodies :
              /\ b.op = "delete" /\ F!Receive(r, b)
              /\ found' = [found EXCEPT ![r] = IF b.folder \in DOMAIN folders
                                              THEN F!Subtree(b.folder) ELSE {}]
              /\ F!Goto(r, IF b.folder \in DOMAIN folders THEN "destroy" ELSE "notFound")
              /\ UNCHANGED <<folders, nextId, maker, left, at, crumbs>>
      BY <1>8 DEF F!DeleteFolder, F!Ids
    <2>2. b \in F!DeleteBody
      BY <2>1, BodyOf
    <2>3. PICK label : /\ label = (IF b.folder \in DOMAIN folders THEN "destroy"
                                                                ELSE "notFound")
                       /\ F!Goto(r, label)
      BY <2>1
    <2>4. F!Subtree(b.folder) \subseteq Nat
      BY <1>a DEF F!Subtree, F!Ids, TableType
    <2>5. found'[r] \in SUBSET Nat /\ found' = [found EXCEPT ![r] = found'[r]]
      BY <1>a, <2>1, <2>4 DEF FolderHandlers
    <2>6. /\ TableType' /\ FolderHandlers' /\ Only(r) /\ Grows
          /\ folderPc'[r] = label /\ folderBody'[r] = b
      BY <1>a, <1>c, <2>1, <2>3, <2>5, Received DEF F!Running, F!Finished
    <2>7. FolderControl(r)'
      BY <2>1, <2>2, <2>3, <2>6 DEF FolderControl
    <2>8. QED  BY <1>b, <2>6, <2>7
  <1>9. CASE F!Destroy(r)
    <2>1. /\ folderPc[r] = "destroy"
          /\ UNCHANGED <<nextId, maker, folderBody, left, at, found, crumbs>>
      BY <1>9 DEF F!Destroy
    <2>2. folderBody[r] \in F!DeleteBody
      BY <1>a, <2>1 DEF FolderControl
    <2>3. PICK label \in {"done", "conflict"} : folderPc' = [folderPc EXCEPT ![r] = label]
      BY <1>9 DEF F!Destroy
    <2>4. TableType' /\ (Grows \/ Shakes(r))
      <3>1. CASE UNCHANGED <<folders, disturbed>>
        BY <1>a, <2>1, <3>1, TableSame
      <3>2. CASE /\ folders' = [f \in DOMAIN folders \ found[r] |->
                                    IF folders[f].parent \in found[r]
                                    THEN [folders[f] EXCEPT !.parent = Root]
                                    ELSE folders[f]]
                 /\ disturbed' = disturbed \union F!Started
        <4>1. DOMAIN folders' = DOMAIN folders \ found[r]
          BY <3>2
        <4>2. ASSUME NEW f \in DOMAIN folders'
              PROVE  /\ folders'[f] \in F!Folder
                     /\ folders'[f].parent \in DOMAIN folders' \union {Root}
          <5>1. /\ folders[f] \in F!Folder
                /\ folders[f].parent \in DOMAIN folders \union {Root}
            BY <1>a, <4>1 DEF TableType
          <5>2. CASE folders[f].parent \in found[r]
            <6>1. folders'[f] = [folders[f] EXCEPT !.parent = Root]
              BY <3>2, <4>1, <5>2
            <6>2. QED  BY <5>1, <6>1 DEF F!Folder
          <5>3. CASE folders[f].parent \notin found[r]
            <6>1. folders'[f] = folders[f]
              BY <3>2, <4>1, <5>3
            <6>2. QED  BY <4>1, <5>1, <5>3, <6>1
          <5>4. QED  BY <5>2, <5>3
        <4>3. folders' \in [DOMAIN folders' -> F!Folder]
          BY <3>2, <4>1, <4>2
        <4>4. QED
          BY <1>a, <2>1, <3>2, <4>1, <4>2, <4>3 DEF TableType, Shakes, F!Started
      <3>3. QED  BY <1>9, <3>1, <3>2 DEF F!Destroy, F!Ids
    <2>5. FolderHandlers' /\ Only(r)
      BY <1>a, <2>1, <2>3 DEF FolderHandlers, Only, F!Running, F!Finished
    <2>6. FolderControl(r)'
      BY <1>a, <2>1, <2>2, <2>3 DEF FolderControl, FolderHandlers, F!DeleteBody
    <2>7. QED  BY <1>b, <2>4, <2>5, <2>6
  <1>10. CASE F!ListFolders(r)
    <2>1. PICK b \in FolderBodies :
              /\ b.op = "list" /\ F!Receive(r, b)
              /\ found' = [found EXCEPT ![r] = F!Children({b.parent})]
              /\ crumbs' = [crumbs EXCEPT ![r] =
                               [f \in F!Children({b.parent}) |-> [next |-> f, path |-> <<>>]]]
              /\ F!Goto(r, IF F!Children({b.parent}) = {} THEN "done" ELSE "crumbs")
              /\ UNCHANGED <<folders, nextId, maker, left, at>>
      BY <1>10 DEF F!ListFolders
    <2>2. b \in F!ListBody
      BY <2>1, BodyOf
    <2>3. PICK label : /\ label = (IF F!Children({b.parent}) = {} THEN "done" ELSE "crumbs")
                       /\ F!Goto(r, label)
      BY <2>1
    <2>4. F!Children({b.parent}) \subseteq Nat
      BY <1>a DEF F!Children, F!Ids, TableType
    <2>5. /\ found'[r] = F!Children({b.parent})
          /\ crumbs'[r] = [f \in F!Children({b.parent}) |-> [next |-> f, path |-> <<>>]]
      BY <1>a, <2>1 DEF FolderHandlers
    <2>6. /\ found' = [found EXCEPT ![r] = found'[r]]
          /\ crumbs' = [crumbs EXCEPT ![r] = crumbs'[r]]
      BY <2>1, <2>5
    <2>7. left' = [left EXCEPT ![r] = left'[r]] /\ left'[r] \in Seq(FolderNames)
      BY <1>a, <1>c, <2>1
    <2>8. found'[r] \in SUBSET Nat
      BY <2>4, <2>5
    <2>9. label \in F!Running \union F!Finished
      BY <2>3 DEF F!Running, F!Finished
    <2>10. /\ TableType' /\ FolderHandlers' /\ Only(r) /\ Grows
           /\ folderPc'[r] = label /\ folderBody'[r] = b
      BY <2>1, <2>3, <2>6, <2>7, <2>8, <2>9, Received
    <2>11. crumbs'[r] \in [found'[r] -> Crumb]
      <3>1. <<>> \in Seq(FolderNames)
        OBVIOUS
      <3>2. \A f \in found'[r] : [next |-> f, path |-> <<>>] \in Crumb
        BY <2>8, <3>1 DEF Crumb
      <3>3. crumbs'[r] = [f \in found'[r] |-> [next |-> f, path |-> <<>>]]
        BY <2>5
      <3>4. QED  BY <3>2, <3>3
    <2>12. FolderControl(r)'
      BY <2>1, <2>2, <2>3, <2>5, <2>10, <2>11 DEF FolderControl
    <2>13. QED  BY <1>b, <2>10, <2>12
  <1>11. CASE F!FindCrumb(r)
    <2>1. /\ folderPc[r] = "crumbs"
          /\ UNCHANGED <<folders, nextId, maker, disturbed, folderBody, left, at, found>>
      BY <1>11 DEF F!FindCrumb, F!table
    <2>2. PICK f \in found[r] :
              crumbs' = [crumbs EXCEPT ![r] = [crumbs[r] EXCEPT ![f] =
                  IF crumbs[r][f].next \in DOMAIN folders
                  THEN [next |-> folders[crumbs[r][f].next].parent,
                        path |-> <<folders[crumbs[r][f].next].name>> \o crumbs[r][f].path]
                  ELSE [crumbs[r][f] EXCEPT !.next = Root]]]
      BY <1>11 DEF F!FindCrumb, F!Ids, F!Unshifted
    <2>3. /\ folderBody[r] \in F!ListBody /\ folderBody[r].op = "list"
          /\ crumbs[r] \in [found[r] -> Crumb]
      BY <1>a, <2>1 DEF FolderControl, F!ListBody
    <2> DEFINE c == crumbs[r][f]
               d == IF c.next \in DOMAIN folders
                    THEN [next |-> folders[c.next].parent,
                          path |-> <<folders[c.next].name>> \o c.path]
                    ELSE [c EXCEPT !.next = Root]
    <2>4. d \in Crumb
      <3>1. c \in Crumb
        BY <2>3
      <3>2. CASE c.next \in DOMAIN folders
        <4>1. folders[c.next] \in F!Folder
          BY <1>a, <3>2 DEF TableType
        <4>2. <<folders[c.next].name>> \o c.path \in Seq(FolderNames)
          BY <3>1, <4>1, ConcatProperties DEF Crumb, F!Folder
        <4>3. QED  BY <3>2, <4>1, <4>2 DEF Crumb, F!Folder
      <3>3. CASE c.next \notin DOMAIN folders
        BY <3>1, <3>3 DEF Crumb
      <3>4. QED  BY <3>2, <3>3
    <2>5. crumbs'[r] = [crumbs[r] EXCEPT ![f] = d]
      BY <1>a, <2>2 DEF FolderHandlers
    <2> HIDE DEF c, d
    <2>6. crumbs'[r] \in [found[r] -> Crumb]
      BY <2>3, <2>4, <2>5
    <2>7. folderPc' = [folderPc EXCEPT ![r] =
              IF \A g \in found[r] : crumbs'[r][g].next = Root THEN "done" ELSE "crumbs"]
      BY <1>11 DEF F!FindCrumb
    <2>8. TableType' /\ Grows
      BY <1>a, <2>1, TableSame
    <2>9. FolderHandlers' /\ Only(r)
      BY <1>a, <2>1, <2>2, <2>7 DEF FolderHandlers, Only, F!Running, F!Finished
    <2>10. FolderControl(r)'
      BY <1>a, <2>1, <2>3, <2>6, <2>7 DEF FolderControl, FolderHandlers
    <2>11. QED  BY <1>b, <2>8, <2>9, <2>10
  <1>12. CASE F!Abort(r)
    <2>1. /\ folderPc' = [folderPc EXCEPT ![r] = "aborted"]
          /\ UNCHANGED <<folders, nextId, maker, disturbed, folderBody, left, at, found,
                         crumbs>>
      BY <1>12 DEF F!Abort, F!table
    <2>2. TableType' /\ Grows
      BY <1>a, <2>1, TableSame
    <2>3. FolderHandlers' /\ Only(r)
      BY <1>a, <2>1 DEF FolderHandlers, Only, F!Running, F!Finished
    <2>4. FolderControl(r)'
      BY <1>a, <2>1 DEF FolderControl, FolderHandlers
    <2>5. QED  BY <1>b, <2>2, <2>3, <2>4
  <1>13. QED
    BY <1>1, <1>2, <1>3, <1>4, <1>5, <1>6, <1>7, <1>8, <1>9, <1>10, <1>11, <1>12
       DEF F!Step

-----------------------------------------------------------------------------
(* Paths *)

\* The names in path lead from a folder, or the root, to f.
LeadsIn(table, from, path, f) ==
    \E chain \in [0..Len(path) -> DOMAIN table \union {Root}] :
        /\ chain[0] = from
        /\ chain[Len(path)] = f
        /\ \A k \in 1..Len(path) :
               /\ chain[k] \in DOMAIN table
               /\ table[chain[k]] = [name |-> path[k], parent |-> chain[k - 1]]

Leads(from, path, f) == LeadsIn(folders, from, path, f)

\* createFolderPath is at the end of the parts it has come to.
Follows(r) ==
    /\ folderPc[r] = "idle" => at[r] = Root
    /\ /\ r \notin disturbed
       /\ folderPc[r] \in {"findPart", "createPart", "done"}
       /\ folderBody[r].op = "createPath"
       => \E gone \in Seq(FolderNames) :
              folderBody[r].path = gone \o left[r] /\ Leads(Root, gone, at[r])

\* The breadcrumbs known of a folder lead to it.
CrumbsLead(r) ==
    /\ r \notin disturbed
    /\ folderPc[r] \in {"crumbs", "done"}
    /\ folderBody[r].op = "list"
    => \A f \in found[r] : Leads(crumbs[r][f].next, crumbs[r][f].path, f)

\* No names lead from anything to itself.
LEMMA LeadsStart ==
    ASSUME NEW f \in DOMAIN folders \union {Root}
    PROVE  Leads(f, <<>>, f)
  <1> DEFINE chain == [k \in 0..0 |-> f]
  <1>1. Len(<<>>) = 0
    OBVIOUS
  <1>2. chain \in [0..0 -> DOMAIN folders \union {Root}] /\ chain[0] = f
    OBVIOUS
  <1> HIDE DEF chain
  <1>3. QED  BY <1>1, <1>2 DEF Leads, LeadsIn

\* More rows do not disturb a path.
LEMMA LeadsOn ==
    ASSUME NEW from, NEW path, NEW f, Grows, Leads(from, path, f)
    PROVE  Leads(from, path, f)'
  <1>1. PICK chain \in [0..Len(path) -> DOMAIN folders \union {Root}] :
            /\ chain[0] = from
            /\ chain[Len(path)] = f
            /\ \A k \in 1..Len(path) :
                   /\ chain[k] \in DOMAIN folders
                   /\ folders[chain[k]] = [name |-> path[k], parent |-> chain[k - 1]]
    BY DEF Leads, LeadsIn
  <1>2. chain \in [0..Len(path) -> DOMAIN folders' \union {Root}]
    BY DEF Grows
  <1>3. \A k \in 1..Len(path) :
            /\ chain[k] \in DOMAIN folders'
            /\ folders'[chain[k]] = [name |-> path[k], parent |-> chain[k - 1]]
    BY <1>1 DEF Grows
  <1>4. QED  BY <1>1, <1>2, <1>3 DEF Leads, LeadsIn

\* One more part at the end.
LEMMA LeadsNext ==
    ASSUME NEW table, NEW from, NEW path \in Seq(FolderNames), NEW f,
           LeadsIn(table, from, path, f), NEW name \in FolderNames,
           NEW g \in DOMAIN table, table[g] = [name |-> name, parent |-> f]
    PROVE  LeadsIn(table, from, Append(path, name), g)
  <1>1. PICK chain \in [0..Len(path) -> DOMAIN table \union {Root}] :
            /\ chain[0] = from
            /\ chain[Len(path)] = f
            /\ \A k \in 1..Len(path) :
                   /\ chain[k] \in DOMAIN table
                   /\ table[chain[k]] = [name |-> path[k], parent |-> chain[k - 1]]
    BY DEF LeadsIn
  <1> DEFINE n == Len(path)
             more == [k \in 0..(n + 1) |-> IF k = n + 1 THEN g ELSE chain[k]]
  <1>2. /\ n \in Nat /\ Len(Append(path, name)) = n + 1
        /\ \A k \in 1..n : Append(path, name)[k] = path[k]
        /\ Append(path, name)[n + 1] = name
    BY AppendProperties
  <1>3. more \in [0..(n + 1) -> DOMAIN table \union {Root}]
    BY <1>1, <1>2
  <1>4. more[0] = from /\ more[n + 1] = g /\ \A k \in 0..n : more[k] = chain[k]
    BY <1>1, <1>2
  <1> HIDE DEF more
  <1>5. ASSUME NEW k \in 1..(n + 1)
        PROVE  /\ more[k] \in DOMAIN table
               /\ table[more[k]] = [name |-> Append(path, name)[k], parent |-> more[k - 1]]
    <2>1. CASE k \in 1..n
      <3>1. k \in 0..n /\ k - 1 \in 0..n
        BY <1>2, <2>1
      <3>2. QED  BY <1>1, <1>2, <1>4, <2>1, <3>1
    <2>2. CASE k = n + 1
      <3>1. k - 1 = n /\ n \in 0..n
        BY <1>2, <2>2
      <3>2. QED  BY <1>1, <1>2, <1>4, <2>2, <3>1
    <2>3. QED  BY <1>2, <2>1, <2>2
  <1> HIDE DEF n
  <1>6. QED  BY <1>2, <1>3, <1>4, <1>5 DEF LeadsIn

\* One more folder before the first.
LEMMA LeadsBefore ==
    ASSUME TableType, NEW from \in DOMAIN folders, NEW path \in Seq(FolderNames), NEW f,
           Leads(from, path, f)
    PROVE  Leads(folders[from].parent, <<folders[from].name>> \o path, f)
  <1>1. PICK chain \in [0..Len(path) -> DOMAIN folders \union {Root}] :
            /\ chain[0] = from
            /\ chain[Len(path)] = f
            /\ \A k \in 1..Len(path) :
                   /\ chain[k] \in DOMAIN folders
                   /\ folders[chain[k]] = [name |-> path[k], parent |-> chain[k - 1]]
    BY DEF Leads, LeadsIn
  <1> DEFINE n == Len(path)
             parent == folders[from].parent
             long == <<folders[from].name>> \o path
             more == [k \in 0..(n + 1) |-> IF k = 0 THEN parent ELSE chain[k - 1]]
  <1>2. /\ folders[from] \in F!Folder /\ parent \in DOMAIN folders \union {Root}
    BY DEF TableType
  <1>3. <<folders[from].name>> \in Seq(FolderNames)
    BY <1>2 DEF F!Folder
  <1>4. /\ n \in Nat /\ Len(long) = n + 1 /\ long[1] = folders[from].name
        /\ \A k \in 1..n : long[k + 1] = path[k]
    BY <1>3, ConcatProperties
  <1>5. more \in [0..(n + 1) -> DOMAIN folders \union {Root}]
    BY <1>1, <1>2, <1>4
  <1>6. more[0] = parent /\ \A k \in 1..(n + 1) : more[k] = chain[k - 1]
    BY <1>4
  <1> HIDE DEF more, long
  <1>7. ASSUME NEW k \in 1..(n + 1)
        PROVE  /\ more[k] \in DOMAIN folders
               /\ folders[more[k]] = [name |-> long[k], parent |-> more[k - 1]]
    <2>1. CASE k = 1
      <3>1. more[k] = from /\ more[k - 1] = parent /\ long[k] = folders[from].name
        BY <1>1, <1>4, <1>6, <2>1
      <3>2. QED  BY <1>2, <3>1 DEF F!Folder
    <2>2. CASE k # 1
      <3>1. PICK j \in 1..n : k = j + 1
        BY <1>4, <2>2
      <3>2. more[k] = chain[j] /\ more[k - 1] = chain[j - 1] /\ long[k] = path[j]
        BY <1>4, <1>6, <3>1
      <3>3. QED  BY <1>1, <3>2
    <2>3. QED  BY <2>1, <2>2
  <1>8. more[n + 1] = f
    BY <1>1, <1>4, <1>6
  <1> HIDE DEF n, parent
  <1>9. QED  BY <1>4, <1>5, <1>6, <1>7, <1>8 DEF Leads, LeadsIn, long, parent, n

\* The next part moves from the parts to come to those gone.
LEMMA PartMoves ==
    ASSUME NEW gone \in Seq(FolderNames), NEW s \in Seq(FolderNames), s # <<>>
    PROVE  gone \o s = Append(gone, Head(s)) \o Tail(s)
  <1>1. Head(s) \in FolderNames /\ Tail(s) \in Seq(FolderNames)
    BY TailOf
  <1>2. Len(s) \in Nat \ {0} /\ s[1] = Head(s)
    BY EmptySeq
  <1>3. s = <<Head(s)>> \o Tail(s)
    <2>1. SubSeq(s, 1, Len(s)) = s /\ Tail(s) = SubSeq(s, 2, Len(s))
      BY SubSeqFull, TailIsSubSeq
    <2>2. 1 \in 1..Len(s) /\ Len(s) \in 1..Len(s) /\ 1 + 1 = 2
      BY <1>2
    <2>3. SubSeq(s, 1, Len(s)) = <<s[1]>> \o SubSeq(s, 1 + 1, Len(s))
      BY <2>2, SubSeqRecursiveFirst
    <2>4. QED  BY <1>2, <2>1, <2>2, <2>3
  <1>4. Append(gone, Head(s)) = gone \o <<Head(s)>>
    BY <1>1, AppendIsConcat
  <1>5. <<Head(s)>> \in Seq(FolderNames)
    BY <1>1
  <1>6. (gone \o <<Head(s)>>) \o Tail(s) = gone \o (<<Head(s)>> \o Tail(s))
    BY <1>1, <1>5, ConcatAssociative
  <1>7. QED  BY <1>3, <1>4, <1>6, Zenon

\* Whoever has come before a row is changed is disturbed.
LEMMA Disturbed ==
    ASSUME FolderType, NEW r \in FolderRequests, Shakes(r), Only(r),
           NEW q \in FolderRequests, q \notin disturbed'
    PROVE  folderPc[q] = "idle" /\ folderPc'[q] = "idle"
  BY DEF Shakes, F!Started, Only

\* Only three steps are about a path, and only two about breadcrumbs.
LEMMA NoPath ==
    ASSUME FolderType, NEW r \in FolderRequests, F!Step(r),
           ~F!CreateFolderPath(r), ~F!FindPart(r), ~F!CreatePart(r)
    PROVE  /\ folderPc'[r] \notin {"idle", "findPart", "createPart"}
           /\ folderPc'[r] = "done" => folderBody'[r].op # "createPath"
  <1>1. folderPc' = [folderPc EXCEPT ![r] = folderPc'[r]]
        /\ folderBody' = [folderBody EXCEPT ![r] = folderBody'[r]]
    BY DEF F!Step, FolderType, FolderHandlers, F!CreateFolder, F!CreateOne,
       F!RenameFolder, F!Update, F!DeleteFolder, F!Destroy, F!ListFolders, F!FindCrumb,
       F!Abort, F!Goto, F!Receive
  <1> USE DEF F!Goto, F!Receive, FolderType, FolderHandlers, FolderControl
  <1>2. CASE F!CreateFolder(r) \/ F!CreateOne(r)
    BY <1>1, <1>2 DEF F!CreateFolder, F!CreateOne, F!CreateBody
  <1>3. CASE F!RenameFolder(r) \/ F!Update(r)
    BY <1>1, <1>3 DEF F!RenameFolder, F!Update, F!RenameBody
  <1>4. CASE F!DeleteFolder(r) \/ F!Destroy(r)
    BY <1>1, <1>4 DEF F!DeleteFolder, F!Destroy, F!DeleteBody
  <1>5. CASE F!ListFolders(r) \/ F!FindCrumb(r)
    BY <1>1, <1>5 DEF F!ListFolders, F!FindCrumb, F!ListBody
  <1>6. CASE F!Abort(r)
    BY <1>1, <1>6 DEF F!Abort
  <1>7. QED  BY <1>2, <1>3, <1>4, <1>5, <1>6 DEF F!Step

LEMMA NoCrumbs ==
    ASSUME FolderType, NEW r \in FolderRequests, F!Step(r),
           ~F!ListFolders(r), ~F!FindCrumb(r)
    PROVE  /\ folderPc'[r] # "crumbs"
           /\ folderPc'[r] = "done" => folderBody'[r].op # "list"
  <1> USE DEF F!Goto, F!Receive, FolderType, FolderHandlers, FolderControl
  <1>1. CASE F!CreateFolderPath(r)
    BY <1>1 DEF F!CreateFolderPath
  <1>2. CASE F!FindPart(r) \/ F!CreatePart(r)
    <2>1. folderBody[r] \in F!PathBody /\ folderBody' = folderBody
          /\ folderPc'[r] # "crumbs"
      BY <1>2 DEF F!FindPart, F!CreatePart
    <2>2. QED  BY <2>1 DEF F!PathBody
  <1>3. CASE F!CreateFolder(r) \/ F!CreateOne(r)
    BY <1>3 DEF F!CreateFolder, F!CreateOne, F!CreateBody
  <1>4. CASE F!RenameFolder(r) \/ F!Update(r)
    BY <1>4 DEF F!RenameFolder, F!Update, F!RenameBody
  <1>5. CASE F!DeleteFolder(r) \/ F!Destroy(r)
    BY <1>5 DEF F!DeleteFolder, F!Destroy, F!DeleteBody
  <1>6. CASE F!Abort(r)
    BY <1>6 DEF F!Abort
  <1>7. QED  BY <1>1, <1>2, <1>3, <1>4, <1>5, <1>6 DEF F!Step

\* createFolderPath stays at the end of its parts, whoever takes a step.
LEMMA FollowsStep ==
    ASSUME FolderType, NEW r \in FolderRequests, F!Step(r),
           \A q \in FolderRequests : Follows(q)
    PROVE  \A q \in FolderRequests : Follows(q)'
  <1>1. FolderType' /\ Only(r) /\ (Grows \/ Shakes(r))
    BY FolderStepType
  <1>2. ASSUME NEW q \in FolderRequests, q # r
        PROVE  Follows(q)'
    <2>1. /\ folderPc'[q] = folderPc[q] /\ folderBody'[q] = folderBody[q]
          /\ left'[q] = left[q] /\ at'[q] = at[q]
      BY <1>1, <1>2 DEF Only
    <2>2. CASE Shakes(r)
      BY <1>1, <2>1, <2>2, Disturbed DEF Follows
    <2>3. CASE Grows
      <3>1. folderPc'[q] = "idle" => at'[q] = Root
        BY <2>1 DEF Follows
      <3>2. ASSUME q \notin disturbed', folderBody'[q].op = "createPath",
                   folderPc'[q] \in {"findPart", "createPart", "done"}
            PROVE  \E gone \in Seq(FolderNames) :
                       folderBody'[q].path = gone \o left'[q] /\ Leads(Root, gone, at[q])'
        <4>1. q \notin disturbed
          BY <2>3, <3>2 DEF Grows
        <4>2. PICK gone \in Seq(FolderNames) :
                  folderBody[q].path = gone \o left[q] /\ Leads(Root, gone, at[q])
          BY <2>1, <3>2, <4>1 DEF Follows
        <4>3. Leads(Root, gone, at[q])'
          <5> DEFINE f == at[q]
          <5>1. PICK g : g = at[q]
            OBVIOUS
          <5>2. Leads(Root, gone, g)
            BY <4>2, <5>1
          <5>3. Leads(Root, gone, g)'
            BY <2>3, <5>2, LeadsOn
          <5>4. QED  BY <2>1, <5>1, <5>3
        <4>4. QED  BY <2>1, <4>2, <4>3
      <3>3. QED  BY <3>1, <3>2 DEF Follows
    <2>4. QED  BY <1>1, <2>2, <2>3
  <1>3. Follows(r)'
    <2>a. /\ TableType /\ FolderHandlers /\ FolderControl(r) /\ Follows(r)
          /\ left[r] \in Seq(FolderNames)
      BY DEF FolderType, FolderHandlers
    <2>1. CASE F!CreateFolderPath(r)
      <3>1. PICK b \in FolderBodies :
                /\ folderPc[r] = "idle" /\ folderPc'[r] # "idle"
                /\ folderBody'[r] = b /\ left'[r] = b.path /\ at'[r] = at[r]
                /\ b.op = "createPath"
                /\ UNCHANGED <<folders, disturbed>>
        BY <2>1, <2>a DEF F!CreateFolderPath, F!Receive, F!Goto, FolderHandlers
      <3>2. b.path \in Seq(FolderNames)
        BY <3>1, BodyOf DEF F!PathBody
      <3>3. b.path = <<>> \o b.path /\ <<>> \in Seq(FolderNames)
        BY <3>2, ConcatEmptySeq
      <3>4. Leads(Root, <<>>, Root)
        BY LeadsStart
      <3>5. Leads(Root, <<>>, Root)'
        BY <3>1, <3>4, LeadsOn DEF Grows
      <3>6. at'[r] = Root
        BY <2>a, <3>1 DEF Follows
      <3>7. QED  BY <3>1, <3>3, <3>5, <3>6 DEF Follows
    <2>2. CASE F!FindPart(r) \/ F!CreatePart(r)
      <3>1. /\ folderPc[r] \in {"findPart", "createPart"} /\ folderPc'[r] # "idle"
            /\ disturbed' = disturbed /\ folderBody' = folderBody
        BY <2>a, <2>2 DEF F!FindPart, F!CreatePart, F!Goto, FolderHandlers
      <3>2. folderBody[r].op = "createPath" /\ left[r] # <<>>
        BY <2>a, <3>1 DEF FolderControl, F!PathBody
      <3> SUFFICES ASSUME r \notin disturbed,
                          folderPc'[r] \in {"findPart", "createPart", "done"}
                   PROVE  \E gone \in Seq(FolderNames) :
                              /\ folderBody'[r].path = gone \o left'[r]
                              /\ Leads(Root, gone, at[r])'
        BY <3>1 DEF Follows
      <3>3. PICK gone \in Seq(FolderNames) :
                folderBody[r].path = gone \o left[r] /\ Leads(Root, gone, at[r])
        BY <2>a, <3>1, <3>2 DEF Follows
      <3>4. Grows
        BY <1>1, <3>1 DEF Shakes, F!Started, FolderType, TableType
      <3>5. PICK g : g = at[r]
        OBVIOUS
      <3>6. Leads(Root, gone, g) /\ Leads(Root, gone, g)'
        BY <3>3, <3>4, <3>5, LeadsOn
      <3>7. CASE UNCHANGED <<left, at>>
        BY <3>1, <3>3, <3>5, <3>6, <3>7
      <3>8. CASE /\ left' = [left EXCEPT ![r] = Tail(left[r])]
                 /\ at'[r] \in DOMAIN folders'
                 /\ folders'[at'[r]] = [name |-> Head(left[r]), parent |-> at[r]]
        <4>1. left'[r] = Tail(left[r])
          BY <2>a, <3>8 DEF FolderHandlers
        <4>2. Head(left[r]) \in FolderNames
          BY <2>a, <3>2, TailOf
        <4>3. Append(gone, Head(left[r])) \in Seq(FolderNames)
          BY <4>2, AppendProperties
        <4>4. folderBody'[r].path = Append(gone, Head(left[r])) \o left'[r]
          BY <2>a, <3>1, <3>2, <3>3, <4>1, PartMoves
        <4>5. PICK n, h : n = Head(left[r]) /\ h = at'[r]
          OBVIOUS
        <4>6. Leads(Root, Append(gone, n), h)'
          <5>1. /\ n \in FolderNames /\ h \in DOMAIN folders'
                /\ folders'[h] = [name |-> n, parent |-> g]
            BY <3>5, <3>8, <4>2, <4>5
          <5>2. QED  BY <3>6, <5>1, LeadsNext DEF Leads
        <4>7. QED  BY <4>3, <4>4, <4>5, <4>6
      <3>9. QED
        <4>1. CASE F!FindPart(r)
          <5>1. \/ UNCHANGED <<left, at>>
                \/ /\ left' = [left EXCEPT ![r] = Tail(left[r])]
                   /\ \E f \in F!Matching(Head(left[r]), at[r]) : at' = [at EXCEPT ![r] = f]
            BY <4>1 DEF F!FindPart
          <5>2. UNCHANGED folders
            BY <4>1 DEF F!FindPart, F!table
          <5>3. ASSUME NEW f \in F!Matching(Head(left[r]), at[r]), at' = [at EXCEPT ![r] = f]
                PROVE  /\ at'[r] \in DOMAIN folders'
                       /\ folders'[at'[r]] = [name |-> Head(left[r]), parent |-> at[r]]
            BY <2>a, <5>2, <5>3 DEF F!Matching, F!Ids, FolderHandlers
          <5>4. QED  BY <3>7, <3>8, <5>1, <5>3
        <4>2. CASE F!CreatePart(r) /\ F!Exists(at[r])
          <5>1. /\ F!Insert(Head(left[r]), at[r])
                /\ at' = [at EXCEPT ![r] = nextId]
                /\ left' = [left EXCEPT ![r] = Tail(left[r])]
            BY <4>2 DEF F!CreatePart
          <5>2. Head(left[r]) \in FolderNames /\ at[r] \in DOMAIN folders \union {Root}
            BY <2>a, <3>2, <4>2, TailOf DEF F!Exists, F!Ids
          <5>3. /\ nextId \in DOMAIN folders'
                /\ folders'[nextId] = [name |-> Head(left[r]), parent |-> at[r]]
            BY <2>a, <3>1, <5>1, <5>2, Inserted
          <5>4. at'[r] = nextId
            BY <2>a, <5>1 DEF FolderHandlers
          <5>5. QED  BY <3>8, <5>1, <5>3, <5>4
        <4>3. CASE F!CreatePart(r) /\ ~F!Exists(at[r])
          BY <3>7, <4>3 DEF F!CreatePart
        <4>4. QED  BY <2>2, <4>1, <4>2, <4>3
    <2>3. CASE ~F!CreateFolderPath(r) /\ ~F!FindPart(r) /\ ~F!CreatePart(r)
      BY <2>3, NoPath DEF Follows
    <2>4. QED  BY <2>1, <2>2, <2>3
  <1>4. QED  BY <1>2, <1>3

\* Breadcrumbs keep leading to their folder, whoever takes a step.
LEMMA CrumbsStep ==
    ASSUME FolderType, NEW r \in FolderRequests, F!Step(r),
           \A q \in FolderRequests : CrumbsLead(q)
    PROVE  \A q \in FolderRequests : CrumbsLead(q)'
  <1>1. FolderType' /\ Only(r) /\ (Grows \/ Shakes(r))
    BY FolderStepType
  <1>2. ASSUME NEW q \in FolderRequests, q # r
        PROVE  CrumbsLead(q)'
    <2>1. /\ folderPc'[q] = folderPc[q] /\ folderBody'[q] = folderBody[q]
          /\ found'[q] = found[q] /\ crumbs'[q] = crumbs[q]
      BY <1>1, <1>2 DEF Only
    <2>2. CASE Shakes(r)
      BY <1>1, <2>1, <2>2, Disturbed DEF CrumbsLead
    <2>3. CASE Grows
      <3> SUFFICES ASSUME q \notin disturbed', folderPc'[q] \in {"crumbs", "done"},
                          folderBody'[q].op = "list", NEW f \in found'[q]
                   PROVE  Leads(crumbs[q][f].next, crumbs[q][f].path, f)'
        BY DEF CrumbsLead
      <3>1. q \notin disturbed
        BY <2>3 DEF Grows
      <3>2. PICK n, p : n = crumbs[q][f].next /\ p = crumbs[q][f].path
        OBVIOUS
      <3>3. Leads(n, p, f)
        BY <2>1, <3>1, <3>2 DEF CrumbsLead
      <3>4. Leads(n, p, f)'
        BY <2>3, <3>3, LeadsOn
      <3>5. QED  BY <2>1, <3>2, <3>4
    <2>4. QED  BY <1>1, <2>2, <2>3
  <1>3. CrumbsLead(r)'
    <2>a. /\ TableType /\ FolderHandlers /\ FolderControl(r) /\ CrumbsLead(r)
      BY DEF FolderType
    <2>1. CASE F!ListFolders(r)
      <3>1. PICK b \in FolderBodies :
                /\ found'[r] = F!Children({b.parent})
                /\ crumbs'[r] = [f \in F!Children({b.parent}) |->
                                    [next |-> f, path |-> <<>>]]
                /\ UNCHANGED folders
        BY <2>1, <2>a DEF F!ListFolders, FolderHandlers
      <3>2. ASSUME NEW f \in found'[r]
            PROVE  Leads(crumbs[r][f].next, crumbs[r][f].path, f)'
        <4>1. f \in DOMAIN folders
          BY <3>1 DEF F!Children, F!Ids
        <4>2. Leads(f, <<>>, f)
          BY <4>1, LeadsStart
        <4>3. crumbs'[r][f].next = f /\ crumbs'[r][f].path = <<>>
          BY <3>1
        <4>4. QED  BY <3>1, <4>2, <4>3 DEF Leads
      <3>3. QED  BY <3>2 DEF CrumbsLead
    <2>2. CASE F!FindCrumb(r)
      <3>1. /\ folderPc[r] = "crumbs"
            /\ UNCHANGED <<folders, disturbed, folderBody, found>>
        BY <2>2 DEF F!FindCrumb, F!table
      <3>2. PICK g \in found[r] :
                /\ crumbs[r][g].next # Root
                /\ crumbs' = [crumbs EXCEPT ![r] = [crumbs[r] EXCEPT ![g] =
                      IF crumbs[r][g].next \in DOMAIN folders
                      THEN [next |-> folders[crumbs[r][g].next].parent,
                            path |-> <<folders[crumbs[r][g].next].name>>
                                     \o crumbs[r][g].path]
                      ELSE [crumbs[r][g] EXCEPT !.next = Root]]]
        BY <2>2 DEF F!FindCrumb, F!Ids, F!Unshifted
      <3>3. folderBody[r].op = "list" /\ crumbs[r] \in [found[r] -> Crumb]
        BY <2>a, <3>1 DEF FolderControl, F!ListBody
      <3> SUFFICES ASSUME r \notin disturbed, NEW f \in found[r]
                   PROVE  Leads(crumbs[r][f].next, crumbs[r][f].path, f)'
        BY <3>1 DEF CrumbsLead
      <3>4. Leads(crumbs[r][f].next, crumbs[r][f].path, f)
        BY <2>a, <3>1, <3>3 DEF CrumbsLead
      <3> DEFINE from == crumbs[r][f].next
                 path == crumbs[r][f].path
      <3>5. crumbs'[r] = [crumbs[r] EXCEPT ![g] =
                IF crumbs[r][g].next \in DOMAIN folders
                THEN [next |-> folders[crumbs[r][g].next].parent,
                      path |-> <<folders[crumbs[r][g].next].name>> \o crumbs[r][g].path]
                ELSE [crumbs[r][g] EXCEPT !.next = Root]]
        BY <2>a, <3>2 DEF FolderHandlers
      <3>6. CASE f # g
        <4>1. crumbs'[r][f] = crumbs[r][f]
          BY <3>5, <3>6
        <4>2. QED  BY <3>1, <3>4, <4>1 DEF Leads
      <3>7. CASE f = g
        <4>1. from \in DOMAIN folders
          <5>1. PICK chain \in [0..Len(path) -> DOMAIN folders \union {Root}] :
                    chain[0] = from
            BY <3>4 DEF Leads, LeadsIn
          <5>2. path \in Seq(FolderNames)
            BY <3>3 DEF Crumb
          <5>3. 0 \in 0..Len(path)
            BY <5>2
          <5>4. QED  BY <3>2, <3>7, <5>1, <5>3
        <4>2. path \in Seq(FolderNames)
          BY <3>3 DEF Crumb
        <4>3. Leads(folders[from].parent, <<folders[from].name>> \o path, f)
          BY <2>a, <3>4, <4>1, <4>2, LeadsBefore
        <4>4. /\ crumbs'[r][f].next = folders[from].parent
              /\ crumbs'[r][f].path = <<folders[from].name>> \o path
          BY <3>3, <3>5, <3>7, <4>1
        <4> HIDE DEF from, path
        <4>5. QED  BY <3>1, <4>3, <4>4 DEF Leads
      <3>8. QED  BY <3>6, <3>7
    <2>3. CASE ~F!ListFolders(r) /\ ~F!FindCrumb(r)
      BY <2>3, NoCrumbs DEF CrumbsLead
    <2>4. QED  BY <2>1, <2>2, <2>3
  <1>4. QED  BY <1>2, <1>3

-----------------------------------------------------------------------------
(* Two folders of one name *)

\* Requests that run at the same time have been in flight together.
Pairs == \A q, r \in F!Active : q # r => {q, r} \in together

Excused(q, r) == {q, r} \in together \/ q \in disturbed \/ r \in disturbed

MakerStarted == \A f \in DOMAIN maker : maker[f] \in F!Started

\* A folder that createFolderPath did not find and that is there nevertheless has
\* been made by a request in flight.
Missed(r) ==
    folderPc[r] = "createPart" =>
        \A f \in DOMAIN folders \intersect DOMAIN maker :
            folders[f] = [name |-> Head(left[r]), parent |-> at[r]]
            => Excused(maker[f], r)

Apart ==
    \A f, g \in DOMAIN folders \intersect DOMAIN maker :
        f # g /\ folders[f] = folders[g] => Excused(maker[f], maker[g])

PairsInv == /\ Pairs /\ MakerStarted /\ Apart
            /\ \A r \in FolderRequests : Missed(r)

\* What a step other than the creation of a folder of a path does.
LEMMA QuietKinds ==
    ASSUME FolderType, NEW r \in FolderRequests, F!Step(r),
           ~(F!CreatePart(r) /\ F!Exists(at[r]))
    PROVE  /\ together \subseteq together' /\ folderPc'[r] # "idle"
           /\ r \in F!Active \/ \A q \in F!Active : {r, q} \in together'
           /\ maker' = maker
           /\ Grows => DOMAIN folders' \subseteq DOMAIN folders \union {nextId}
           /\ folderPc'[r] = "createPart" =>
                 /\ UNCHANGED <<folders, left, at>>
                 /\ F!Matching(Head(left[r]), at[r]) = {}
  <1> USE DEF F!Goto, F!Receive, FolderType, FolderHandlers, F!Active, F!Running, F!table,
              F!Ids
  <1>1. CASE F!CreateFolderPath(r)
    BY <1>1 DEF F!CreateFolderPath
  <1>2. CASE F!FindPart(r)
    BY <1>2 DEF F!FindPart
  <1>3. CASE F!CreatePart(r)
    BY <1>3 DEF F!CreatePart
  <1>4. CASE F!CreateFolder(r)
    BY <1>4 DEF F!CreateFolder
  <1>5. CASE F!CreateOne(r)
    BY <1>5 DEF F!CreateOne, F!Insert
  <1>6. CASE F!RenameFolder(r)
    BY <1>6 DEF F!RenameFolder
  <1>7. CASE F!Update(r)
    BY <1>7 DEF F!Update
  <1>8. CASE F!DeleteFolder(r)
    BY <1>8 DEF F!DeleteFolder
  <1>9. CASE F!Destroy(r)
    <2>1. /\ folderPc[r] = "destroy" /\ folderPc'[r] \in {"conflict", "done"}
          /\ UNCHANGED <<together, maker>>
      BY <1>9 DEF F!Destroy
    <2>2. DOMAIN folders' \subseteq DOMAIN folders
      <3>1. \/ folders' = folders
            \/ folders' = [f \in DOMAIN folders \ found[r] |->
                               IF folders[f].parent \in found[r]
                               THEN [folders[f] EXCEPT !.parent = Root]
                               ELSE folders[f]]
        BY <1>9 DEF F!Destroy
      <3>2. DOMAIN folders' = DOMAIN folders \/ DOMAIN folders' = DOMAIN folders \ found[r]
        BY <3>1
      <3>3. QED  BY <3>2
    <2>3. QED  BY <2>1, <2>2
  <1>10. CASE F!ListFolders(r)
    BY <1>10 DEF F!ListFolders
  <1>11. CASE F!FindCrumb(r)
    BY <1>11 DEF F!FindCrumb
  <1>12. CASE F!Abort(r)
    BY <1>12 DEF F!Abort
  <1>13. QED
    BY <1>1, <1>2, <1>3, <1>4, <1>5, <1>6, <1>7, <1>8, <1>9, <1>10, <1>11, <1>12
       DEF F!Step

\* Two requests make folders of one name only as Excused says, whoever takes a step.
LEMMA PairsStep ==
    ASSUME FolderType, NEW r \in FolderRequests, F!Step(r), PairsInv
    PROVE  PairsInv'
  <1>1. FolderType' /\ Only(r) /\ (Grows \/ Shakes(r))
    BY FolderStepType
  <1>2. TableType /\ FolderHandlers /\ FolderControl(r)
    BY DEF FolderType
  <1>3. CASE ~(F!CreatePart(r) /\ F!Exists(at[r]))
    <2>1. /\ together \subseteq together' /\ folderPc'[r] # "idle"
          /\ r \in F!Active \/ \A q \in F!Active : {r, q} \in together'
          /\ maker' = maker
          /\ Grows => DOMAIN folders' \subseteq DOMAIN folders \union {nextId}
          /\ folderPc'[r] = "createPart" =>
                /\ UNCHANGED <<folders, left, at>>
                /\ F!Matching(Head(left[r]), at[r]) = {}
      BY <1>3, QuietKinds
    <2>2. Pairs'
      <3> SUFFICES ASSUME NEW p \in F!Active', NEW q \in F!Active', p # q
                   PROVE  {p, q} \in together'
        BY DEF Pairs
      <3>1. p # r => p \in F!Active
        BY <1>1 DEF Only, F!Active
      <3>2. q # r => q \in F!Active
        BY <1>1 DEF Only, F!Active
      <3>3. {p, q} = {q, p}
        OBVIOUS
      <3>4. QED  BY <2>1, <3>1, <3>2, <3>3 DEF PairsInv, Pairs
    <2>3. MakerStarted'
      <3>1. ASSUME NEW f \in DOMAIN maker'
            PROVE  maker'[f] \in F!Started'
        <4>1. maker'[f] = maker[f] /\ maker[f] \in F!Started
          BY <2>1, <3>1 DEF PairsInv, MakerStarted
        <4>2. QED  BY <1>1, <2>1, <4>1 DEF Only, F!Started
      <3>2. QED  BY <3>1 DEF MakerStarted
    <2>4. disturbed \subseteq disturbed'
      BY <1>1 DEF Grows, Shakes
    <2>5. Apart'
      <3>1. CASE Shakes(r)
        <4>1. \A f \in DOMAIN maker : maker'[f] \in disturbed'
          BY <2>1, <3>1 DEF Shakes, PairsInv, MakerStarted
        <4>2. QED  BY <2>1, <4>1 DEF Apart, Excused
      <3>2. CASE Grows
        <4> SUFFICES ASSUME NEW f \in DOMAIN folders' \intersect DOMAIN maker',
                            NEW g \in DOMAIN folders' \intersect DOMAIN maker',
                            f # g, folders'[f] = folders'[g]
                     PROVE  Excused(maker[f], maker[g])'
          BY DEF Apart
        <4>1. f \in DOMAIN folders /\ g \in DOMAIN folders
          BY <1>2, <2>1, <3>2 DEF TableType
        <4>2. folders[f] = folders[g]
          BY <3>2, <4>1 DEF Grows
        <4>3. Excused(maker[f], maker[g])
          BY <2>1, <4>1, <4>2 DEF PairsInv, Apart
        <4>4. QED  BY <2>1, <2>4, <4>3 DEF Excused
      <3>3. QED  BY <1>1, <3>1, <3>2
    <2>6. ASSUME NEW q \in FolderRequests
          PROVE  Missed(q)'
      <3>1. CASE q = r
        BY <2>1, <3>1 DEF Missed, F!Matching, F!Ids
      <3>2. CASE q # r
        <4>1. folderPc'[q] = folderPc[q] /\ left'[q] = left[q] /\ at'[q] = at[q]
          BY <1>1, <3>2 DEF Only
        <4> SUFFICES ASSUME folderPc[q] = "createPart",
                            NEW f \in DOMAIN folders' \intersect DOMAIN maker',
                            folders'[f] = [name |-> Head(left[q]), parent |-> at[q]]
                     PROVE  Excused(maker[f], q)'
          BY <4>1 DEF Missed
        <4>2. CASE Shakes(r)
          BY <4>2 DEF Shakes, F!Started, Excused
        <4>3. CASE Grows
          <5>1. f \in DOMAIN folders /\ folders[f] = folders'[f]
            BY <1>2, <2>1, <4>3 DEF TableType, Grows
          <5>2. Excused(maker[f], q)
            BY <2>1, <5>1 DEF PairsInv, Missed
          <5>3. QED  BY <2>1, <2>4, <5>2 DEF Excused
        <4>4. QED  BY <1>1, <4>2, <4>3
      <3>3. QED  BY <3>1, <3>2
    <2>7. QED  BY <2>2, <2>3, <2>5, <2>6 DEF PairsInv
  <1>4. CASE F!CreatePart(r) /\ F!Exists(at[r])
    <2>1. /\ folderPc[r] = "createPart"
          /\ F!Insert(Head(left[r]), at[r])
          /\ maker' = [f \in DOMAIN maker \union {nextId} |->
                          IF f = nextId THEN r ELSE maker[f]]
          /\ folderPc'[r] \in {"done", "findPart"}
          /\ UNCHANGED <<together, disturbed>>
      BY <1>2, <1>4 DEF F!CreatePart, F!Goto, FolderHandlers
    <2>2. Head(left[r]) \in FolderNames /\ at[r] \in DOMAIN folders \union {Root}
      <3>1. left[r] # <<>> /\ left[r] \in Seq(FolderNames)
        BY <1>2, <2>1 DEF FolderControl, FolderHandlers
      <3>2. QED  BY <1>4, <3>1, TailOf DEF F!Exists, F!Ids
    <2>3. PICK part : part = [name |-> Head(left[r]), parent |-> at[r]]
      OBVIOUS
    <2>4. /\ Grows /\ DOMAIN folders' = DOMAIN folders \union {nextId}
          /\ nextId \notin DOMAIN folders /\ nextId \notin DOMAIN maker
          /\ folders'[nextId] = part
      BY <1>2, <2>1, <2>2, <2>3, Inserted
    <2>5. r \in F!Active
      BY <2>1 DEF F!Active, F!Running
    <2>6. F!Active' \subseteq F!Active
      BY <1>1, <2>5 DEF Only, F!Active
    <2>7. Pairs'
      BY <2>1, <2>6 DEF PairsInv, Pairs
    <2>8. MakerStarted'
      <3>1. ASSUME NEW f \in DOMAIN maker'
            PROVE  maker'[f] \in F!Started'
        <4>1. CASE f = nextId
          BY <2>1, <4>1 DEF F!Started
        <4>2. CASE f # nextId
          <5>1. maker'[f] = maker[f] /\ maker[f] \in F!Started
            BY <2>1, <3>1, <4>2 DEF PairsInv, MakerStarted
          <5>2. QED  BY <1>1, <2>1, <5>1 DEF Only, F!Started
        <4>3. QED  BY <4>1, <4>2
      <3>2. QED  BY <3>1 DEF MakerStarted
    <2>9. ASSUME NEW f \in DOMAIN folders \intersect DOMAIN maker
          PROVE  folders'[f] = folders[f] /\ maker'[f] = maker[f]
      BY <2>1, <2>4 DEF Grows
    <2>10. maker'[nextId] = r
      BY <2>1
    <2>11. DOMAIN folders' \intersect DOMAIN maker'
               \subseteq (DOMAIN folders \intersect DOMAIN maker) \union {nextId}
      BY <2>1, <2>4
    <2>12. Apart'
      <3>1. ASSUME NEW f \in DOMAIN folders \intersect DOMAIN maker,
                   folders[f] = part
            PROVE  Excused(maker[f], r)
        BY <2>1, <2>3, <3>1 DEF PairsInv, Missed
      <3> SUFFICES ASSUME NEW f \in DOMAIN folders' \intersect DOMAIN maker',
                          NEW g \in DOMAIN folders' \intersect DOMAIN maker',
                          f # g, folders'[f] = folders'[g]
                   PROVE  Excused(maker'[f], maker'[g])
        BY <2>1 DEF Apart, Excused
      <3>2. CASE f = nextId
        <4>1. Excused(maker[g], r)
          BY <2>4, <2>9, <2>11, <3>1, <3>2
        <4>2. {maker[g], r} = {r, maker[g]}
          OBVIOUS
        <4>3. maker'[f] = r /\ maker'[g] = maker[g]
          BY <2>9, <2>10, <2>11, <3>2
        <4>4. QED  BY <4>1, <4>2, <4>3 DEF Excused
      <3>3. CASE g = nextId
        BY <2>4, <2>9, <2>10, <2>11, <3>1, <3>3
      <3>4. CASE f # nextId /\ g # nextId
        BY <2>9, <2>11, <3>4 DEF PairsInv, Apart
      <3>5. QED  BY <3>2, <3>3, <3>4
    <2>13. ASSUME NEW q \in FolderRequests
           PROVE  Missed(q)'
      <3>1. CASE q = r
        BY <2>1, <3>1 DEF Missed
      <3>2. CASE q # r
        <4>1. folderPc'[q] = folderPc[q] /\ left'[q] = left[q] /\ at'[q] = at[q]
          BY <1>1, <3>2 DEF Only
        <4> SUFFICES ASSUME folderPc[q] = "createPart",
                            NEW f \in DOMAIN folders' \intersect DOMAIN maker',
                            folders'[f] = [name |-> Head(left[q]), parent |-> at[q]]
                     PROVE  Excused(maker'[f], q)
          BY <2>1, <4>1 DEF Missed, Excused
        <4>2. CASE f = nextId
          <5>1. q \in F!Active
            BY DEF F!Active, F!Running
          <5>2. {r, q} \in together
            BY <2>5, <3>2, <5>1 DEF PairsInv, Pairs
          <5>3. QED  BY <2>10, <4>2, <5>2 DEF Excused
        <4>3. CASE f # nextId
          BY <2>9, <2>11, <4>3 DEF PairsInv, Missed
        <4>4. QED  BY <4>2, <4>3
      <3>3. QED  BY <3>1, <3>2
    <2>14. QED  BY <2>7, <2>8, <2>12, <2>13 DEF PairsInv
  <1>5. QED  BY <1>3, <1>4

-----------------------------------------------------------------------------
(* The invariant of the folders *)

FolderInv == /\ FolderType /\ PairsInv
             /\ \A r \in FolderRequests : Follows(r) /\ CrumbsLead(r)

\* The invariant of the folders holds at first, and every step preserves it.
LEMMA StartFolders == Init => FolderInv
  <1> SUFFICES ASSUME Init PROVE FolderInv
    OBVIOUS
  <1>1. \A r \in FolderRequests : Follows(r) /\ CrumbsLead(r)
    BY DEF Init, F!Init, Follows, CrumbsLead
  <1>2. PairsInv
    BY DEF Init, F!Init, PairsInv, Pairs, MakerStarted, Apart, Missed, F!Active, F!Running
  <1>3. QED  BY <1>1, <1>2, InitFolders DEF FolderInv

\* Steps of either component keep the invariant of the folders.
LEMMA NextFolders == FolderInv /\ [Next]_vars => FolderInv'
  <1> SUFFICES ASSUME FolderInv, [Next]_vars PROVE FolderInv'
    OBVIOUS
  <1>1. CASE FolderStep
    <2>1. PICK r \in FolderRequests : F!Step(r)
      BY <1>1 DEF FolderStep
    <2>2. FolderType'
      BY <2>1, FolderStepType DEF FolderInv
    <2>3. \A q \in FolderRequests : Follows(q)'
      BY <2>1, FollowsStep DEF FolderInv
    <2>4. \A q \in FolderRequests : CrumbsLead(q)'
      BY <2>1, CrumbsStep DEF FolderInv
    <2>5. PairsInv'
      BY <2>1, PairsStep DEF FolderInv
    <2>6. QED  BY <2>2, <2>3, <2>4, <2>5 DEF FolderInv
  <1>2. CASE FileStep \/ UNCHANGED vars
    <2>1. UNCHANGED <<folders, nextId, folderPc, folderBody, left, at, found, crumbs,
                      maker, together, disturbed>>
      BY <1>2 DEF FileStep, vars, folderVars
    <2>2. FolderType'
      BY <2>1 DEF FolderInv, FolderType, TableType, FolderHandlers, FolderControl
    <2>3. \A r \in FolderRequests : Follows(r)' /\ CrumbsLead(r)'
      BY <2>1 DEF FolderInv, Follows, CrumbsLead, Leads
    <2>4. PairsInv'
      BY <2>1 DEF FolderInv, PairsInv, Pairs, MakerStarted, Apart, Missed, Excused,
                  F!Active, F!Started
    <2>5. QED  BY <2>2, <2>3, <2>4 DEF FolderInv
  <1>3. QED  BY <1>1, <1>2 DEF Next, Terminated

\* A folder at the end of the parts from the root is the folder at that path.
LEMMA AtTheEnd ==
    ASSUME NEW path, NEW f, Leads(Root, path, f)
    PROVE  F!IsAt(f, path)
  BY DEF Leads, LeadsIn, F!IsAt, F!Ids

\* createFolderPath answers the folder at the path it was given, for any table,
\* any paths and any number of requests: those that find a part and those that
\* make one stay at the end of the parts they have come to.
THEOREM PathsReached == Spec => []PathReached
  <1>1. ASSUME FolderInv PROVE PathReached
    <2> SUFFICES ASSUME NEW r \in FolderRequests \ disturbed,
                        folderPc[r] = "done", folderBody[r].op = "createPath"
                 PROVE  F!IsAt(at[r], folderBody[r].path)
      BY DEF PathReached, F!PathReached
    <2>1. PICK gone \in Seq(FolderNames) :
              folderBody[r].path = gone \o left[r] /\ Leads(Root, gone, at[r])
      BY <1>1 DEF FolderInv, Follows
    <2>2. left[r] = <<>>
      BY <1>1 DEF FolderInv, FolderType, FolderControl
    <2>3. folderBody[r].path = gone
      BY <2>1, <2>2, ConcatEmptySeq
    <2>4. QED  BY <2>1, <2>3, AtTheEnd
  <1>2. QED  BY <1>1, StartFolders, NextFolders, PTL DEF Spec

\* The breadcrumbs of every listed folder are its path, however the look-ups of
\* the listings and the inserts of others interleave.
THEOREM BreadcrumbsSafe == Spec => []BreadcrumbsWhole
  <1>1. ASSUME FolderInv PROVE BreadcrumbsWhole
    <2> SUFFICES ASSUME NEW r \in FolderRequests \ disturbed,
                        folderPc[r] = "done", folderBody[r].op = "list",
                        NEW f \in found[r]
                 PROVE  F!IsAt(f, crumbs[r][f].path)
      BY DEF BreadcrumbsWhole, F!BreadcrumbsWhole
    <2>1. Leads(crumbs[r][f].next, crumbs[r][f].path, f)
      BY <1>1 DEF FolderInv, CrumbsLead
    <2>2. crumbs[r][f].next = Root
      BY <1>1 DEF FolderInv, FolderType, FolderControl
    <2>3. QED  BY <2>1, <2>2, AtTheEnd
  <1>2. QED  BY <1>1, StartFolders, NextFolders, PTL DEF Spec

\* Only requests that were in flight together, or before a folder was renamed or
\* deleted, make two folders of one name in one parent.
THEOREM OverlapOnly == Spec => []DuplicatesOverlap
  <1>1. FolderInv => DuplicatesOverlap
    BY DEF FolderInv, PairsInv, Apart, Excused, DuplicatesOverlap, F!DuplicatesOverlap,
           F!Ids
  <1>2. QED  BY <1>1, StartFolders, NextFolders, PTL DEF Spec
=============================================================================
