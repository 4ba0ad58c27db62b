---------------------------- MODULE SigningLinks ----------------------------
(***************************************************************************)
(* The signing links of one document: initiateDocumentSigning, which mails *)
(* a link with a fresh token to each recipient and stores the token in the *)
(* Recipient row, and getDocumentForPublic, which opens the document for   *)
(* whoever shows the stored token.                                         *)
(*                                                                         *)
(* initiateDocumentSigning starts one promise per recipient and awaits     *)
(* them only if the sender asked for signing-request e-mails, so a request *)
(* here is a handler (pc) and a task per recipient, which may outlive the  *)
(* handler.  updateStatus mails reminders with tokens of its own.          *)
(*                                                                         *)
(* A token is the request that generated it (for one address).  Tokens     *)
(* generated by different requests are taken to be different: their JWT    *)
(* differs in its issue time, of one second's resolution.                  *)
(***************************************************************************)

CONSTANTS
    Emails,     \* e-mail addresses
    Requests,   \* HTTP requests, each handled once
    Bodies,     \* the bodies of the requests
    Faults,     \* may a mail, a query or a process fail?
    None        \* no token

VARIABLES
    listed,      \* addresses with a Recipient row (one row per address)
    sendStatus,  \* Recipient.sendStatus
    authToken,   \* Recipient.authToken
    settings,    \* DocumentMeta.emailSettings: the flags that are on
    pc,          \* what each handler does next
    body,        \* the body of each request
    task,        \* the promise of each request and recipient
    inbox,       \* the links that reached each address: [kind, token]
    overlapped,  \* history: has a send started while another one, or one of
                 \* its tasks, was running?
    awaited      \* history: the sends that waited for their tasks

rows == <<listed, sendStatus, authToken>>
vars == <<rows, settings, pc, body, task, inbox, overlapped, awaited>>

-----------------------------------------------------------------------------
(* Types *)

Setting  == {"recipientSigningRequest", "documentPending"}
SendBody == [op: {"send"}, recipients: (SUBSET Emails) \ {{}},
             meta: BOOLEAN, flags: SUBSET Setting, manual: BOOLEAN]
RemindBody == [op: {"remind"}]
NoBody   == [op |-> "none"]
Link     == [kind: {"sign", "reminder"}, token: Requests]

Running   == {"updateMeta", "findRecipients", "readMeta", "settle"}
TaskState == {"none", "mail", "update", "sent", "failed"}

ASSUME BodiesAssumption == Bodies \subseteq SendBody \union RemindBody
ASSUME FaultsAssumption == Faults \in BOOLEAN
ASSUME NoneAssumption   == None \notin Requests

-----------------------------------------------------------------------------
(* What the code computes *)

TaskRunning(r) == \E e \in Emails : task[r][e] \in {"mail", "update"}
Busy(r)        == pc[r] \in Running \/ TaskRunning(r)

\* Seeded fault: everybody in the body is mailed again.
ToEverybody(r) == body[r].recipients

\* The recipients of the body whose row is not SENT.
RecipientsToSend(r) ==
    {e \in body[r].recipients : ~(e \in listed /\ sendStatus[e] = "SENT")}

\* getDocumentForPublic: the token opens the document for the recipient.
Opens(e, token) == e \in listed /\ authToken[e] = token

Goto(r, label) == pc' = [pc EXCEPT ![r] = label]

-----------------------------------------------------------------------------
(* initiateDocumentSigning *)

Init ==
    /\ listed \in SUBSET Emails
    /\ sendStatus = [e \in Emails |-> "NOT_SENT"]
    /\ authToken  = [e \in Emails |-> None]
    /\ settings = {}
    /\ pc    = [r \in Requests |-> "idle"]
    /\ body  = [r \in Requests |-> NoBody]
    /\ task  = [r \in Requests |-> [e \in Emails |-> "none"]]
    /\ inbox = [e \in Emails |-> {}]
    /\ overlapped = FALSE
    /\ awaited = {}

\* Document.findOne.  Without e-mail settings in the body the next query is
\* that of the recipients.
Send(r) ==
    /\ pc[r] = "idle"
    /\ \E b \in Bodies :
           /\ b.op = "send"
           /\ body' = [body EXCEPT ![r] = b]
           /\ Goto(r, IF b.meta THEN "updateMeta" ELSE "findRecipients")
    /\ overlapped' = (overlapped \/ \E q \in Requests : Busy(q))
    /\ UNCHANGED <<rows, settings, task, inbox, awaited>>

\* DocumentMeta.update, and the early return of the manual distribution.
UpdateMeta(r) ==
    /\ pc[r] = "updateMeta"
    /\ settings' = body[r].flags
    /\ Goto(r, IF body[r].manual THEN "done" ELSE "findRecipients")
    /\ UNCHANGED <<rows, body, task, inbox, overlapped, awaited>>

\* Recipient.findAll; map() starts the promise of every recipient to mail.
FindRecipients(r) ==
    /\ pc[r] = "findRecipients"
    /\ task' = [task EXCEPT ![r] = [e \in Emails |->
                   IF e \in RecipientsToSend(r) THEN "mail" ELSE "none"]]
    /\ Goto(r, "readMeta")
    /\ UNCHANGED <<rows, settings, body, inbox, overlapped, awaited>>

\* DocumentMeta.findOne: the promises are awaited only with
\* recipientSigningRequest; otherwise the request succeeds at once.
ReadMeta(r) ==
    /\ pc[r] = "readMeta"
    /\ Goto(r, IF "recipientSigningRequest" \in settings THEN "settle" ELSE "done")
    /\ UNCHANGED <<rows, settings, body, task, inbox, overlapped, awaited>>

\* Promise.allSettled(emailPromises)
Settle(r) ==
    /\ pc[r] = "settle"
    /\ ~TaskRunning(r)
    /\ awaited' = awaited \union {r}
    /\ Goto(r, "done")
    /\ UNCHANGED <<rows, settings, body, task, inbox, overlapped>>

-----------------------------------------------------------------------------
(* The promise of one recipient *)

\* sendEmail and sendSms: sendEmail answers false when the mail fails, and the
\* promise goes on.
MailLink(r, e) ==
    /\ task[r][e] = "mail"
    /\ \/ inbox' = [inbox EXCEPT ![e] = @ \union {[kind |-> "sign", token |-> r]}]
       \/ Faults /\ UNCHANGED inbox
    /\ task' = [task EXCEPT ![r][e] = "update"]
    /\ UNCHANGED <<rows, settings, pc, body, overlapped, awaited>>

\* Seeded fault: the status is stored and the token forgotten.
StoreStatusOnly(r, e) ==
    /\ task[r][e] = "update"
    /\ sendStatus' = [sendStatus EXCEPT ![e] = IF e \in listed THEN "SENT" ELSE @]
    /\ task' = [task EXCEPT ![r][e] = "sent"]
    /\ UNCHANGED <<listed, authToken, settings, pc, body, inbox, overlapped, awaited>>

\* Recipient.update({ sendStatus: 'SENT', authToken: token }), which matches
\* no row if the address is not a recipient.
StoreToken(r, e) ==
    /\ task[r][e] = "update"
    /\ sendStatus' = [sendStatus EXCEPT ![e] = IF e \in listed THEN "SENT" ELSE @]
    /\ authToken'  = [authToken EXCEPT ![e] = IF e \in listed THEN r ELSE @]
    /\ task' = [task EXCEPT ![r][e] = "sent"]
    /\ UNCHANGED <<listed, settings, pc, body, inbox, overlapped, awaited>>

Task(r, e) == MailLink(r, e) \/ StoreToken(r, e)

-----------------------------------------------------------------------------
(* Reminders, failures *)

\* updateStatus, after a signature: with documentPending, every recipient who
\* has not signed (any of them) is mailed a link with a token of its own,
\* which is stored nowhere.
Remind(r) ==
    /\ pc[r] = "idle"
    /\ \E b \in Bodies : b.op = "remind" /\ body' = [body EXCEPT ![r] = b]
    /\ "documentPending" \in settings
    /\ \E pending \in SUBSET listed :
           inbox' = [e \in Emails |->
                       IF e \in pending
                       THEN inbox[e] \union {[kind |-> "reminder", token |-> r]}
                       ELSE inbox[e]]
    /\ Goto(r, "done")
    /\ UNCHANGED <<rows, settings, task, overlapped, awaited>>

\* A query of the handler fails: the request fails, its promises go on.
FailHandler(r) ==
    /\ Faults
    /\ pc[r] \in Running
    /\ Goto(r, "failed")
    /\ UNCHANGED <<rows, settings, body, task, inbox, overlapped, awaited>>

\* Recipient.update fails, or the process dies with the promise.
FailTask(r, e) ==
    /\ Faults
    /\ task[r][e] \in {"mail", "update"}
    /\ task' = [task EXCEPT ![r][e] = "failed"]
    /\ UNCHANGED <<rows, settings, pc, body, inbox, overlapped, awaited>>

\* Nothing needs to happen once no handler and no promise is running.
Terminated ==
    /\ \A r \in Requests : ~Busy(r)
    /\ UNCHANGED vars

Step(r) == \/ UpdateMeta(r) \/ FindRecipients(r) \/ ReadMeta(r) \/ Settle(r)
           \/ \E e \in Emails : Task(r, e)

Next ==
    \/ \E r \in Requests : \/ Send(r) \/ Remind(r) \/ Step(r) \/ FailHandler(r)
                           \/ \E e \in Emails : FailTask(r, e)
    \/ Terminated

Spec == Init /\ [][Next]_vars

-----------------------------------------------------------------------------
(* Properties *)

\* Type invariant of the rows, the handlers and the promises.
TypeOK ==
    /\ listed \subseteq Emails
    /\ sendStatus \in [Emails -> {"NOT_SENT", "SENT"}]
    /\ authToken \in [Emails -> Requests \union {None}]
    /\ settings \subseteq Setting
    /\ pc \in [Requests -> {"idle", "done", "failed"} \union Running]
    /\ body \in [Requests -> SendBody \union RemindBody \union {NoBody}]
    /\ task \in [Requests -> [Emails -> TaskState]]
    /\ inbox \in [Emails -> SUBSET Link]
    /\ overlapped \in BOOLEAN
    /\ awaited \subseteq Requests

\* If no two sends have overlapped and no promise has failed, then every
\* signing link that reached a recipient opens the document, as soon as the
\* promise that mailed it is over: a recipient who was SENT a link is not sent
\* another one that would overwrite the token of the first.
MailedLinkOpens ==
    \A r \in Requests, e \in listed :
        /\ ~overlapped
        /\ \A q \in Requests : task[q][e] # "failed"
        /\ [kind |-> "sign", token |-> r] \in inbox[e]
        /\ task[r][e] # "update"
        => Opens(e, r)

\* A send that waited for its promises, none of which failed, leaves every
\* recipient it names with a SENT row and a stored token, also when another
\* send that ran at the same time was the one to mail some of them.
AwaitedSendReaches ==
    \A r \in awaited : \A e \in body[r].recipients \intersect listed :
        task[r][e] # "failed" => sendStatus[e] = "SENT" /\ authToken[e] # None

=============================================================================
