-------------------------- MODULE DocumentSigning --------------------------
(***************************************************************************)
(* One document and the HTTP requests that sign, reject or save it.        *)
(*                                                                         *)
(* Three handlers change the Document row and its Recipient rows without a *)
(* lock: updateStatus and rejectDocument (getDocument.services.ts) and     *)
(* updateDocumentData (createDocument.services.ts).  Each of them loads    *)
(* the document, awaits other queries, and writes back what it computed    *)
(* from the copy it loaded.  A request here is a process, and an action is *)
(* the code between two awaits of its handler, so the requests interleave  *)
(* as they do on the replicas of the service.                              *)
(*                                                                         *)
(* Data: the JSON of documentSignData is the three parts the handlers      *)
(* treat differently: the fields of each signer (key "2"), the top-level   *)
(* signature and the top-level rejection.  A value is the request or the   *)
(* signer that wrote it.                                                   *)
(***************************************************************************)

CONSTANTS
    Recipients,    \* e-mail addresses that can have a Recipient row
    Requests,      \* HTTP requests, each handled once
    Bodies,        \* the request bodies the clients may send
    InitStatuses,  \* Document.status before the first request
    InitSettings,  \* values of DocumentMeta.emailSettings (flags that are on)
    Faults,        \* may a query fail, or the process die, inside a handler?
    Owner,         \* the user who owns the document
    NoEmail,       \* a request without e-mail
    None           \* an absent value

VARIABLES
    doc,        \* the Document row: status and documentSignData
    recipient,  \* Recipient.signingStatus of each address, or ABSENT
    settings,   \* DocumentMeta.emailSettings
    pc,         \* what each request does next
    body,       \* the body of each request
    loaded,     \* the Document instance as each request loaded it
    row,        \* signingStatus of the Recipient instance as loaded
    seen,       \* recipientData: the rows as Recipient.findAll returned them
    mails,      \* the e-mails handed to the mailer
    (* history *)
    changer,       \* the request that last changed a Recipient row
    everAllSigned, \* were all recipients SIGNED at some moment?
    overlapped,    \* were two requests ever in flight together?
    serial         \* documentSignData had every write been atomic

database == <<doc, recipient, settings>>
locals   == <<body, loaded, row, seen>>
history  == <<changer, everAllSigned, overlapped, serial>>
vars     == <<database, pc, locals, mails, history>>

-----------------------------------------------------------------------------
(* Types *)

SigningStatus == {"NOT_SIGNED", "SIGNED", "REJECTED"}
Row           == SigningStatus \union {"ABSENT"}
DocStatus     == {"COMPLETED", "DRAFT", "PENDING", "REJECTED", "INBOX", "ALL"}
EmailSetting  == {"documentCompleted", "ownerDocumentCompleted",
                  "documentPending", "recipientSigningRequest"}
Email         == Recipients \union {NoEmail}

\* Bodies of updateStatus, rejectDocument and updateDocumentData.  "INVALID"
\* stands for a status that Document.status does not accept.
UpdateBody == [op: {"updateStatus"}, email: Email,
               status: DocStatus \union {"INVALID"}, signature: BOOLEAN]
RejectBody == [op: {"reject"}, email: Recipients, owner: BOOLEAN,
               notifySender: BOOLEAN]
SaveBody   == [op: {"save"}, fields: SUBSET Recipients,
               isComplete: BOOLEAN, echo: BOOLEAN]
NoBody     == [op |-> "none"]
Body       == UpdateBody \union RejectBody \union SaveBody

SignData == [fields:    [Recipients -> Requests \union {None}],
             signature: Email \union {None},
             rejection: Requests \union {None}]
Document == [status: DocStatus, data: SignData]
Mail     == [by: Requests, kind: {"signed", "completed", "pending", "rejected"},
             to: Email \union {Owner}]

Running  == {"findRecipient", "saveRecipient", "findAll", "saveDocument", "notify"}
Finished == {"done", "failed", "aborted"}

NoData == [fields    |-> [e \in Recipients |-> None],
           signature |-> None,
           rejection |-> None]

ASSUME BodiesAssumption   == Bodies \subseteq Body
ASSUME StatusAssumption   == InitStatuses \subseteq DocStatus \ {"COMPLETED"}
ASSUME SettingsAssumption == InitSettings \subseteq SUBSET EmailSetting
ASSUME FaultsAssumption   == Faults \in BOOLEAN
ASSUME NoneAssumption     == /\ None \notin Requests \union Email
                             /\ NoEmail \notin Recipients
                             /\ Owner \notin Email

-----------------------------------------------------------------------------
(* What the handlers compute *)

EverySigned(rows) == \A e \in Recipients : rows[e] \in {"SIGNED", "ABSENT"}

SomeRecipient(rows) == \E e \in Recipients : rows[e] # "ABSENT"

\* Seeded fault: one signature is enough.
AnySigned(rows) == \E e \in Recipients : rows[e] = "SIGNED"

\* recipientData.every((recipient) => recipient.signingStatus === 'SIGNED'),
\* which is true of a document without recipients.
CheckAllSigned(rows) == EverySigned(rows)

\* The model's validation of Document.status, which save() runs.
Valid(new) == new.status # "INVALID"

\* The status the handler gives the Recipient instance it saves.
NewSigningStatus(b) ==
    IF b.op = "reject" \/ b.status = "REJECTED" THEN "REJECTED" ELSE "SIGNED"

\* updateStatus saves the recipient for these two statuses only; for another
\* one it changes the instance and forgets it.
SavesRecipient(b) == b.op = "reject" \/ b.status \in {"COMPLETED", "REJECTED"}

\* updateStatus: the signature is stored, and the requested status set, only
\* when every recipient has signed; otherwise the document is PENDING.
StatusUpdated(b, d, rows) ==
    IF CheckAllSigned(rows)
    THEN [status |-> b.status,
          data   |-> [d.data EXCEPT !.signature = IF b.signature THEN b.email
                                                                 ELSE None]]
    ELSE [d EXCEPT !.status = "PENDING"]

\* Seeded fault: the rejection is stored and the status left alone.
RejectedOnlyInData(r, d) == [d EXCEPT !.data.rejection = r]

Rejected(r, d) ==
    [status |-> "REJECTED", data |-> [d.data EXCEPT !.rejection = r]]

\* updateDocumentData: a complete save merges the fields by signer and keeps
\* the keys the body does not have; any other save replaces everything.  With
\* "echo" the body repeats the keys the client has just read.
FieldsSaved(r, b, d) ==
    [d EXCEPT !.data =
        [fields    |-> [e \in Recipients |->
                            IF e \in b.fields THEN r
                            ELSE IF b.isComplete THEN @.fields[e] ELSE None],
         signature |-> IF b.isComplete \/ b.echo THEN @.signature ELSE None,
         rejection |-> IF b.isComplete \/ b.echo THEN @.rejection ELSE None]]

\* What request r makes of a document d.
Computed(r, d) ==
    CASE body[r].op = "updateStatus" -> StatusUpdated(body[r], d, seen[r])
      [] body[r].op = "reject"       -> Rejected(r, d)
      [] body[r].op = "save"         -> FieldsSaved(r, body[r], d)

\* Sequelize's save() writes the attributes that differ from the loaded ones.
\* A signature set to undefined makes documentSignData differ.
DataChanged(r, new) ==
    \/ new.data # loaded[r].data
    \/ /\ body[r].op = "updateStatus"
       /\ CheckAllSigned(seen[r])
       /\ ~body[r].signature

\* Seeded fault: save() writes every attribute of the instance.
WriteBackAll(r, new) == new

WriteBack(r, new) ==
    [status |-> IF new.status # loaded[r].status THEN new.status ELSE doc.status,
     data   |-> IF DataChanged(r, new) THEN new.data ELSE doc.data]

\* Seeded fault: the owner is told only if the document was PENDING before.
TellsOwnerOfPending(r) ==
    /\ "ownerDocumentCompleted" \in settings
    /\ CheckAllSigned(seen[r])
    /\ loaded[r].status = "PENDING"

TellsOwner(r) == "ownerDocumentCompleted" \in settings /\ CheckAllSigned(seen[r])

When(condition, set) == IF condition THEN set ELSE {}

\* The e-mails updateStatus sends, from the settings and the rows it saw.
StatusMails(r) ==
    LET b           == body[r]
        M(kind, to) == [by |-> r, kind |-> kind, to |-> to]
    IN  When(b.status = "COMPLETED",
             When("documentCompleted" \in settings, {M("signed", b.email)})
             \union When(TellsOwner(r), {M("completed", Owner)})
             \union When("documentPending" \in settings,
                         {M("pending", e) : e \in {f \in Recipients :
                                                   seen[r][f] = "NOT_SIGNED"}}))
        \union When(b.status = "REJECTED" /\ "recipientSigningRequest" \in settings,
                    {M("rejected", b.email), M("rejected", Owner)})

\* The e-mails rejectDocument sends.
RejectMails(r) ==
    When(body[r].notifySender \/ "recipientSigningRequest" \in settings,
         {[by |-> r, kind |-> "rejected", to |-> to] : to \in {body[r].email, Owner}})

-----------------------------------------------------------------------------
(* The handlers *)

Init ==
    /\ \E s \in InitStatuses : doc = [status |-> s, data |-> NoData]
    /\ recipient \in [Recipients -> {"ABSENT", "NOT_SIGNED"}]
    /\ settings \in InitSettings
    /\ pc     = [r \in Requests |-> "idle"]
    /\ body   = [r \in Requests |-> NoBody]
    /\ loaded = [r \in Requests |-> doc]
    /\ row    = [r \in Requests |-> "ABSENT"]
    /\ seen   = [r \in Requests |-> [e \in Recipients |-> "ABSENT"]]
    /\ mails  = {}
    /\ changer = None
    /\ everAllSigned = EverySigned(recipient)
    /\ overlapped = FALSE
    /\ serial = NoData

Goto(r, label) == pc' = [pc EXCEPT ![r] = label]

\* A request arrives with body b and awaits Document.findOne.
Load(r, b, next) ==
    /\ pc[r] = "idle"
    /\ body'   = [body EXCEPT ![r] = b]
    /\ loaded' = [loaded EXCEPT ![r] = doc]
    /\ overlapped' = (overlapped \/ \E q \in Requests : pc[q] \in Running)
    /\ Goto(r, next)
    /\ UNCHANGED <<database, row, seen, mails, changer, everAllSigned, serial>>

LoadUpdateStatus(r) ==
    \E b \in Bodies : /\ b.op = "updateStatus"
                      /\ Load(r, b, IF b.email = NoEmail THEN "findAll"
                                                         ELSE "findRecipient")

\* Only the owner's id is accepted; any other ends the request.
LoadReject(r) ==
    \E b \in Bodies : /\ b.op = "reject"
                      /\ Load(r, b, IF b.owner THEN "findRecipient" ELSE "failed")

LoadSave(r) ==
    \E b \in Bodies : /\ b.op = "save"
                      /\ Load(r, b, "saveDocument")

\* Recipient.findOne({ documentId, email })
FindRecipient(r) ==
    /\ pc[r] = "findRecipient"
    /\ row' = [row EXCEPT ![r] = recipient[body[r].email]]
    /\ Goto(r, IF recipient[body[r].email] = "ABSENT" THEN "failed"
               ELSE IF SavesRecipient(body[r]) THEN "saveRecipient"
               ELSE "findAll")
    /\ UNCHANGED <<database, body, loaded, seen, mails, history>>

\* recipient.save(): nothing is written when the status is the loaded one.
SaveRecipient(r) ==
    LET e   == body[r].email
        new == NewSigningStatus(body[r])
    IN  /\ pc[r] = "saveRecipient"
        /\ recipient' = IF new = row[r] THEN recipient
                                        ELSE [recipient EXCEPT ![e] = new]
        /\ changer' = IF recipient' = recipient THEN changer ELSE r
        /\ everAllSigned' = (everAllSigned \/ EverySigned(recipient'))
        /\ Goto(r, IF body[r].op = "reject" THEN "saveDocument" ELSE "findAll")
        /\ UNCHANGED <<doc, settings, locals, mails, overlapped, serial>>

\* Seeded fault: the rows are those of before recipient.save().
FindAllBeforeSave(r) ==
    /\ pc[r] = "findAll"
    /\ seen' = [seen EXCEPT ![r] = IF body[r].email \in Recipients
                                   THEN [recipient EXCEPT ![body[r].email] = row[r]]
                                   ELSE recipient]
    /\ Goto(r, "saveDocument")
    /\ UNCHANGED <<database, body, loaded, row, mails, history>>

\* Recipient.findAll({ documentId }), in updateStatus
FindAll(r) ==
    /\ pc[r] = "findAll"
    /\ seen' = [seen EXCEPT ![r] = recipient]
    /\ Goto(r, "saveDocument")
    /\ UNCHANGED <<database, body, loaded, row, mails, history>>

\* What a request is meant to change in documentSignData: a signer its own
\* fields, the last signer the signature, a rejection its reason, and a save
\* that is not complete everything.  Only the history variable uses it.
Effect(r, data) ==
    LET b == body[r]
    IN  CASE b.op = "updateStatus" ->
                IF EverySigned(seen[r])
                THEN [data EXCEPT !.signature = IF b.signature THEN b.email ELSE None]
                ELSE data
          [] b.op = "reject" -> [data EXCEPT !.rejection = r]
          [] b.op = "save" /\ b.isComplete ->
                [data EXCEPT !.fields = [e \in Recipients |->
                                             IF e \in b.fields THEN r ELSE @[e]]]
          [] b.op = "save" /\ ~b.isComplete ->
                [fields    |-> [e \in Recipients |-> IF e \in b.fields THEN r ELSE None],
                 signature |-> IF b.echo THEN data.signature ELSE None,
                 rejection |-> IF b.echo THEN data.rejection ELSE None]

\* document.save(), which validates the status it is about to write.
SaveDocument(r) ==
    LET new == Computed(r, loaded[r])
    IN  /\ pc[r] = "saveDocument"
        /\ IF Valid(new)
           THEN /\ doc' = WriteBack(r, new)
                /\ serial' = Effect(r, serial)
                /\ Goto(r, IF body[r].op = "save" THEN "done" ELSE "notify")
           ELSE /\ Goto(r, "failed")
                /\ UNCHANGED <<doc, serial>>
        /\ UNCHANGED <<recipient, settings, locals, mails,
                       changer, everAllSigned, overlapped>>

\* DocumentMeta.findOne, the e-mails and the activity log.
Notify(r) ==
    /\ pc[r] = "notify"
    /\ mails' = mails \union (IF body[r].op = "reject" THEN RejectMails(r)
                                                       ELSE StatusMails(r))
    /\ Goto(r, "done")
    /\ UNCHANGED <<database, locals, history>>

\* A query or the rendering of the PDF fails, or the process dies.
Abort(r) ==
    /\ Faults
    /\ pc[r] \in Running
    /\ Goto(r, "aborted")
    /\ UNCHANGED <<database, locals, mails, history>>

Terminated ==
    /\ \A r \in Requests : pc[r] \in Finished
    /\ UNCHANGED vars

Step(r) == \/ FindRecipient(r) \/ SaveRecipient(r) \/ FindAll(r)
           \/ SaveDocument(r)  \/ Notify(r)

Next ==
    \/ \E r \in Requests : \/ LoadUpdateStatus(r) \/ LoadReject(r) \/ LoadSave(r)
                           \/ Step(r) \/ Abort(r)
    \/ Terminated

Spec == Init /\ [][Next]_vars

\* A handler that has started goes on: every await is settled.  Nothing makes
\* a client send a request.
FairSpec == Spec /\ \A r \in Requests : WF_vars(Step(r))

-----------------------------------------------------------------------------
(* Properties *)

\* Type invariant of the database rows and of the handlers' variables.
TypeOK ==
    /\ doc \in Document
    /\ recipient \in [Recipients -> Row]
    /\ settings \subseteq EmailSetting
    /\ pc \in [Requests -> {"idle"} \union Running \union Finished]
    /\ body \in [Requests -> Body \union {NoBody}]
    /\ loaded \in [Requests -> Document]
    /\ row \in [Requests -> Row]
    /\ seen \in [Requests -> [Recipients -> Row]]
    /\ mails \subseteq Mail
    /\ changer \in Requests \union {None}
    /\ everAllSigned \in BOOLEAN
    /\ overlapped \in BOOLEAN
    /\ serial \in SignData

Quiet     == \A r \in Requests : pc[r] \notin Running
NoneFailed == \A r \in Requests : pc[r] # "aborted"

\* However the requests interleave or fail, the document is COMPLETED only
\* if there was a moment at which every recipient row was SIGNED: updateStatus
\* decides from rows it reads one query before it writes.
CompletedNeedsAllSigned == doc.status = "COMPLETED" => everAllSigned

\* Of several signers who finish together, the last to save its row finds all
\* the others SIGNED: updateStatus saves before it reads the rows, so no
\* interleaving lets every signer believe that somebody else is missing.
LastSignerSeesAll ==
    \A r \in Requests :
        /\ changer = r
        /\ pc[r] \in {"saveDocument", "notify", "done"}
        /\ EverySigned(recipient)
        => EverySigned(seen[r])

\* When every recipient has signed and the request of the last one is over,
\* that request has told the owner (with ownerDocumentCompleted on).
OwnerTold ==
    \A r \in Requests :
        /\ changer = r
        /\ pc[r] = "done"
        /\ EverySigned(recipient)
        /\ "ownerDocumentCompleted" \in settings
        => [by |-> r, kind |-> "completed", to |-> Owner] \in mails

\* Without overlapping or failing requests, between two requests, the two
\* tables agree: a COMPLETED document has only SIGNED recipients.
CompletedAgreesWithoutOverlap ==
    /\ Quiet /\ NoneFailed /\ ~overlapped
    /\ doc.status = "COMPLETED"
    => EverySigned(recipient)

\* Without overlap, no handler loses what another one wrote in
\* documentSignData: every write-back equals the write applied to the latest
\* data.  (With overlap a whole JSON computed from an old copy is written.)
NothingLostWithoutOverlap == ~overlapped => doc.data = serial

\* As long as requests do not overlap, each of them changes a row or the document
\* in one step from what the tables hold, however many queries it makes; and
\* when they do, the document is still not COMPLETED before everyone signed.
Atomic == INSTANCE AtomicDocument WITH calm <- ~overlapped, agreed <- everAllSigned
ImplementsAtomic == Atomic!Spec

\* Liveness, for a document that has left DRAFT and requests that sign it: once
\* every recipient has signed, the document becomes and stays COMPLETED.
AllSignedLeadsToCompleted ==
    (SomeRecipient(recipient) /\ EverySigned(recipient))
        ~> [](doc.status = "COMPLETED")

\* The "Document Completed!" e-mail tells the owner that all recipients have
\* signed (email.services.ts); once no request is running, the document says so
\* too.
CompletedMailMeansCompleted ==
    (Quiet /\ \E m \in mails : m.kind = "completed") => doc.status = "COMPLETED"

=============================================================================
