------------------------- MODULE SigningLinksProofs -------------------------
(* What holds of SigningLinks for every set of addresses and requests. *)
EXTENDS SigningLinks, TLAPS

\* A running handler, and one that has awaited its promises, is that of a send.
SendRuns == \A r \in Requests :
    /\ pc[r] \in Running \/ r \in awaited => body[r] \in SendBody
    /\ r \in awaited => pc[r] = "done"

TypeInv == TypeOK /\ SendRuns

\* A handler has no promise before it has read the recipients, and none is
\* running once it has awaited them.
Handlers ==
    /\ \A r \in Requests, e \in Emails :
           pc[r] \in {"idle", "updateMeta", "findRecipients"} => task[r][e] = "none"
    /\ \A r \in awaited : ~TaskRunning(r)

\* A link is in an inbox only if its promise has mailed it.
LinksMailed ==
    \A r \in Requests, e \in Emails :
        [kind |-> "sign", token |-> r] \in inbox[e]
        => task[r][e] \in {"update", "sent", "failed"}

\* A promise that is over has left a SENT row, and a SENT row has a token.
SentStored ==
    \A e \in listed :
        /\ sendStatus[e] = "SENT" => authToken[e] # None
        /\ \A r \in Requests : task[r][e] = "sent" => sendStatus[e] = "SENT"

\* Past Recipient.findAll, a recipient in the body has a promise or was SENT.
Considered ==
    \A r \in Requests :
        pc[r] \in {"readMeta", "settle"} \/ r \in awaited
        => \A e \in body[r].recipients \intersect listed :
               task[r][e] # "none" \/ sendStatus[e] = "SENT"

\* Without overlap one request at a time is busy, and, unless a promise has
\* failed, one request mails a recipient and its token is the stored one.
OneBusy == ~overlapped =>
    \A q, r \in Requests : Busy(q) /\ Busy(r) => q = r

NoneFailed(e) == \A q \in Requests : task[q][e] # "failed"

OneMailer == ~overlapped =>
    \A e \in listed : NoneFailed(e) =>
        /\ \A q, r \in Requests : task[q][e] # "none" /\ task[r][e] # "none" => q = r
        /\ \A r \in Requests : task[r][e] = "sent" => authToken[e] = r

-----------------------------------------------------------------------------
(* Types *)

LEMMA InitType == Init => TypeInv
  <1> SUFFICES ASSUME Init PROVE TypeInv
    OBVIOUS
  <1>1. inbox \in [Emails -> SUBSET Link]
    BY DEF Init
  <1>2. task \in [Requests -> [Emails -> TaskState]]
    BY DEF Init, TaskState
  <1>3. /\ pc \in [Requests -> {"idle", "done", "failed"} \union Running]
        /\ body \in [Requests -> SendBody \union RemindBody \union {NoBody}]
        /\ SendRuns
    BY DEF Init, SendRuns, Running
  <1>4. QED
    BY <1>1, <1>2, <1>3 DEF Init, TypeInv, TypeOK

LEMMA NextType == TypeInv /\ [Next]_vars => TypeInv'
  <1> SUFFICES ASSUME TypeInv, [Next]_vars PROVE TypeInv'
    OBVIOUS
  <1> USE BodiesAssumption
  <1>1. ASSUME NEW r \in Requests, Send(r)
        PROVE  TypeInv'
    BY <1>1 DEF TypeInv, TypeOK, SendRuns, rows, Goto, Running, RemindBody, Send
  <1>2. ASSUME NEW r \in Requests, UpdateMeta(r)
        PROVE  TypeInv'
    BY <1>2 DEF TypeInv, TypeOK, SendRuns, rows, Goto, Running, SendBody,
       UpdateMeta
  <1>3. ASSUME NEW r \in Requests, FindRecipients(r)
        PROVE  TypeInv'
    BY <1>3 DEF TypeInv, TypeOK, SendRuns, rows, Goto, Running, TaskState,
       FindRecipients
  <1>4. ASSUME NEW r \in Requests, ReadMeta(r)
        PROVE  TypeInv'
    BY <1>4 DEF TypeInv, TypeOK, SendRuns, rows, Goto, Running, ReadMeta
  <1>5. ASSUME NEW r \in Requests, Settle(r)
        PROVE  TypeInv'
    BY <1>5 DEF TypeInv, TypeOK, SendRuns, rows, Goto, Settle
  <1>6. ASSUME NEW r \in Requests, NEW e \in Emails, MailLink(r, e)
        PROVE  TypeInv'
    BY <1>6 DEF TypeInv, TypeOK, SendRuns, rows, TaskState, RemindBody, Link,
       MailLink
  <1>7. ASSUME NEW r \in Requests, NEW e \in Emails, StoreToken(r, e)
        PROVE  TypeInv'
    BY <1>7 DEF TypeInv, TypeOK, SendRuns, TaskState, StoreToken
  <1>8. ASSUME NEW r \in Requests, Remind(r)
        PROVE  TypeInv'
    <2>1. PICK pending \in SUBSET listed :
              inbox' = [e \in Emails |->
                          IF e \in pending
                          THEN inbox[e] \union {[kind |-> "reminder", token |-> r]}
                          ELSE inbox[e]]
      BY <1>8 DEF Remind
    <2>2. inbox' \in [Emails -> SUBSET Link]
      BY <2>1 DEF TypeInv, TypeOK, Link
    <2>3. body' \in [Requests -> SendBody \union RemindBody \union {NoBody}]
      BY <1>8 DEF Remind, TypeInv, TypeOK
    <2>4. QED
      BY <1>8, <2>2, <2>3 DEF Remind, TypeInv, TypeOK, SendRuns, rows, Goto,
         Running
  <1>9. ASSUME NEW r \in Requests, FailHandler(r)
        PROVE  TypeInv'
    BY <1>9 DEF TypeInv, TypeOK, SendRuns, rows, Goto, Running, FailHandler
  <1>10. ASSUME NEW r \in Requests, NEW e \in Emails, FailTask(r, e)
        PROVE  TypeInv'
    BY <1>10 DEF TypeInv, TypeOK, SendRuns, rows, TaskState, FailTask
  <1>11. CASE UNCHANGED vars
    BY <1>11 DEF TypeInv, TypeOK, SendRuns, rows, vars
  <1>12. QED
    BY <1>1, <1>2, <1>3, <1>4, <1>5, <1>6, <1>7, <1>8, <1>9, <1>10, <1>11 DEF
       Next, Step, Task, Terminated

\* The rows, handlers and promises always have their types.
THEOREM TypeCorrect == Spec => []TypeOK
  <1>1. Spec => []TypeInv  BY InitType, NextType, PTL DEF Spec
  <1>2. TypeInv => TypeOK  BY DEF TypeInv
  <1>3. QED  BY <1>1, <1>2, PTL

-----------------------------------------------------------------------------
(* Handlers and their promises *)

LEMMA InitHandlers == Init => Handlers
  BY DEF Init, Handlers

LEMMA NextHandlers == TypeInv /\ Handlers /\ [Next]_vars => Handlers'
  <1> SUFFICES ASSUME TypeInv, Handlers, [Next]_vars PROVE Handlers'
    OBVIOUS
  <1> USE DEF TypeInv, TypeOK, Goto, rows, Running
  <1>1. ASSUME NEW r \in Requests, Send(r)
        PROVE  Handlers'
    BY <1>1 DEF Handlers, TaskRunning, Send
  <1>2. ASSUME NEW r \in Requests, UpdateMeta(r)
        PROVE  Handlers'
    BY <1>2 DEF Handlers, TaskRunning, UpdateMeta
  <1>3. ASSUME NEW r \in Requests, FindRecipients(r)
        PROVE  Handlers'
    BY <1>3 DEF Handlers, SendRuns, TaskRunning, FindRecipients
  <1>4. ASSUME NEW r \in Requests, ReadMeta(r)
        PROVE  Handlers'
    BY <1>4 DEF Handlers, TaskRunning, ReadMeta
  <1>5. ASSUME NEW r \in Requests, Settle(r)
        PROVE  Handlers'
    BY <1>5 DEF Handlers, TaskRunning, Settle
  <1>6. ASSUME NEW r \in Requests, NEW e \in Emails, MailLink(r, e)
        PROVE  Handlers'
    BY <1>6 DEF Handlers, TaskRunning, MailLink
  <1>7. ASSUME NEW r \in Requests, NEW e \in Emails, StoreToken(r, e)
        PROVE  Handlers'
    BY <1>7 DEF Handlers, TaskRunning, StoreToken
  <1>8. ASSUME NEW r \in Requests, Remind(r)
        PROVE  Handlers'
    BY <1>8 DEF Handlers, TaskRunning, Remind
  <1>9. ASSUME NEW r \in Requests, FailHandler(r)
        PROVE  Handlers'
    BY <1>9 DEF Handlers, TaskRunning, FailHandler
  <1>10. ASSUME NEW r \in Requests, NEW e \in Emails, FailTask(r, e)
        PROVE  Handlers'
    BY <1>10 DEF Handlers, TaskRunning, FailTask
  <1>11. CASE UNCHANGED vars
    BY <1>11 DEF Handlers, TaskRunning, vars
  <1>12. QED
    BY <1>1, <1>2, <1>3, <1>4, <1>5, <1>6, <1>7, <1>8, <1>9, <1>10, <1>11 DEF
       Next, Step, Task, Terminated

LEMMA InitLinksMailed == Init => LinksMailed
  BY DEF Init, LinksMailed

LEMMA NextLinksMailed ==
    TypeInv /\ Handlers /\ LinksMailed /\ [Next]_vars => LinksMailed'
  <1> SUFFICES ASSUME TypeInv /\ Handlers, LinksMailed, [Next]_vars
               PROVE  LinksMailed'
    OBVIOUS
  <1> USE DEF TypeInv, TypeOK, Goto, rows, Running
  <1>1. ASSUME NEW r \in Requests, Send(r)
        PROVE  LinksMailed'
    BY <1>1 DEF LinksMailed, Send
  <1>2. ASSUME NEW r \in Requests, UpdateMeta(r)
        PROVE  LinksMailed'
    BY <1>2 DEF LinksMailed, UpdateMeta
  <1>3. ASSUME NEW r \in Requests, FindRecipients(r)
        PROVE  LinksMailed'
    BY <1>3 DEF LinksMailed, Handlers, FindRecipients
  <1>4. ASSUME NEW r \in Requests, ReadMeta(r)
        PROVE  LinksMailed'
    BY <1>4 DEF LinksMailed, ReadMeta
  <1>5. ASSUME NEW r \in Requests, Settle(r)
        PROVE  LinksMailed'
    BY <1>5 DEF LinksMailed, Settle
  <1>6. ASSUME NEW r \in Requests, NEW e \in Emails, MailLink(r, e)
        PROVE  LinksMailed'
    BY <1>6 DEF LinksMailed, MailLink
  <1>7. ASSUME NEW r \in Requests, NEW e \in Emails, StoreToken(r, e)
        PROVE  LinksMailed'
    BY <1>7 DEF LinksMailed, StoreToken
  <1>8. ASSUME NEW r \in Requests, Remind(r)
        PROVE  LinksMailed'
    BY <1>8 DEF LinksMailed, Remind
  <1>9. ASSUME NEW r \in Requests, FailHandler(r)
        PROVE  LinksMailed'
    BY <1>9 DEF LinksMailed, FailHandler
  <1>10. ASSUME NEW r \in Requests, NEW e \in Emails, FailTask(r, e)
        PROVE  LinksMailed'
    BY <1>10 DEF LinksMailed, FailTask
  <1>11. CASE UNCHANGED vars
    BY <1>11 DEF LinksMailed, vars
  <1>12. QED
    BY <1>1, <1>2, <1>3, <1>4, <1>5, <1>6, <1>7, <1>8, <1>9, <1>10, <1>11 DEF
       Next, Step, Task, Terminated

LEMMA InitSentStored == Init => SentStored
  <1> SUFFICES ASSUME Init, NEW e \in listed PROVE
          /\ sendStatus[e] # "SENT"
          /\ \A r \in Requests : task[r][e] # "sent"
    BY DEF SentStored
  <1>1. e \in Emails  BY DEF Init
  <1>2. QED  BY <1>1 DEF Init

LEMMA NextSentStored == TypeInv /\ SentStored /\ [Next]_vars => SentStored'
  <1> SUFFICES ASSUME TypeInv, SentStored, [Next]_vars PROVE SentStored'
    OBVIOUS
  <1> USE DEF TypeInv, TypeOK, Goto, rows, Running
  <1>1. ASSUME NEW r \in Requests, Send(r)
        PROVE  SentStored'
    BY <1>1 DEF SentStored, Send
  <1>2. ASSUME NEW r \in Requests, UpdateMeta(r)
        PROVE  SentStored'
    BY <1>2 DEF SentStored, UpdateMeta
  <1>3. ASSUME NEW r \in Requests, FindRecipients(r)
        PROVE  SentStored'
    BY <1>3 DEF SentStored, FindRecipients
  <1>4. ASSUME NEW r \in Requests, ReadMeta(r)
        PROVE  SentStored'
    BY <1>4 DEF SentStored, ReadMeta
  <1>5. ASSUME NEW r \in Requests, Settle(r)
        PROVE  SentStored'
    BY <1>5 DEF SentStored, Settle
  <1>6. ASSUME NEW r \in Requests, NEW e \in Emails, MailLink(r, e)
        PROVE  SentStored'
    BY <1>6 DEF SentStored, MailLink
  <1>7. ASSUME NEW r \in Requests, NEW e \in Emails, StoreToken(r, e)
        PROVE  SentStored'
    BY <1>7, NoneAssumption DEF SentStored, StoreToken
  <1>8. ASSUME NEW r \in Requests, Remind(r)
        PROVE  SentStored'
    BY <1>8 DEF SentStored, Remind
  <1>9. ASSUME NEW r \in Requests, FailHandler(r)
        PROVE  SentStored'
    BY <1>9 DEF SentStored, FailHandler
  <1>10. ASSUME NEW r \in Requests, NEW e \in Emails, FailTask(r, e)
        PROVE  SentStored'
    BY <1>10 DEF SentStored, FailTask
  <1>11. CASE UNCHANGED vars
    BY <1>11 DEF SentStored, vars
  <1>12. QED
    BY <1>1, <1>2, <1>3, <1>4, <1>5, <1>6, <1>7, <1>8, <1>9, <1>10, <1>11 DEF
       Next, Step, Task, Terminated

LEMMA InitConsidered == Init => Considered
  BY DEF Init, Considered

LEMMA NextConsidered ==
    TypeInv /\ Handlers /\ Considered /\ [Next]_vars => Considered'
  <1> SUFFICES ASSUME TypeInv /\ Handlers, Considered, [Next]_vars PROVE Considered'
    OBVIOUS
  <1> USE DEF TypeInv, TypeOK, Goto, rows, Running
  <1>1. ASSUME NEW r \in Requests, Send(r)
        PROVE  Considered'
    BY <1>1 DEF Considered, SendRuns, Send
  <1>2. ASSUME NEW r \in Requests, UpdateMeta(r)
        PROVE  Considered'
    BY <1>2 DEF Considered, UpdateMeta
  <1>3. ASSUME NEW r \in Requests, FindRecipients(r)
        PROVE  Considered'
    BY <1>3 DEF Considered, RecipientsToSend, FindRecipients
  <1>4. ASSUME NEW r \in Requests, ReadMeta(r)
        PROVE  Considered'
    BY <1>4 DEF Considered, ReadMeta
  <1>5. ASSUME NEW r \in Requests, Settle(r)
        PROVE  Considered'
    BY <1>5 DEF Considered, Settle
  <1>6. ASSUME NEW r \in Requests, NEW e \in Emails, MailLink(r, e)
        PROVE  Considered'
    BY <1>6 DEF Considered, MailLink
  <1>7. ASSUME NEW r \in Requests, NEW e \in Emails, StoreToken(r, e)
        PROVE  Considered'
    BY <1>7 DEF Considered, StoreToken
  <1>8. ASSUME NEW r \in Requests, Remind(r)
        PROVE  Considered'
    BY <1>8 DEF Considered, SendRuns, Remind
  <1>9. ASSUME NEW r \in Requests, FailHandler(r)
        PROVE  Considered'
    BY <1>9 DEF Considered, FailHandler
  <1>10. ASSUME NEW r \in Requests, NEW e \in Emails, FailTask(r, e)
        PROVE  Considered'
    BY <1>10 DEF Considered, FailTask
  <1>11. CASE UNCHANGED vars
    BY <1>11 DEF Considered, vars
  <1>12. QED
    BY <1>1, <1>2, <1>3, <1>4, <1>5, <1>6, <1>7, <1>8, <1>9, <1>10, <1>11 DEF
       Next, Step, Task, Terminated

LEMMA InitOneBusy == Init => OneBusy
  BY DEF Init, OneBusy, Busy, TaskRunning, Running

LEMMA NextOneBusy == TypeInv /\ Handlers /\ OneBusy /\ [Next]_vars => OneBusy'
  <1> SUFFICES ASSUME TypeInv /\ Handlers, OneBusy, [Next]_vars PROVE OneBusy'
    OBVIOUS
  <1> USE DEF TypeInv, TypeOK, Goto, rows, Running
  <1>1. ASSUME NEW r \in Requests, Send(r)
        PROVE  OneBusy'
    <2> SUFFICES ASSUME ~overlapped', NEW q \in Requests, Busy(q)' PROVE q = r
      BY DEF OneBusy
    <2>1. ~Busy(q)  BY <1>1 DEF Send
    <2>2. q # r => pc'[q] = pc[q] /\ task'[q] = task[q]  BY <1>1 DEF Send
    <2>3. QED  BY <2>1, <2>2 DEF Busy, TaskRunning
  <1>2. ASSUME NEW r \in Requests, UpdateMeta(r)
        PROVE  OneBusy'
    BY <1>2 DEF OneBusy, Busy, TaskRunning, UpdateMeta
  <1>3. ASSUME NEW r \in Requests, FindRecipients(r)
        PROVE  OneBusy'
    BY <1>3 DEF OneBusy, Busy, TaskRunning, FindRecipients
  <1>4. ASSUME NEW r \in Requests, ReadMeta(r)
        PROVE  OneBusy'
    BY <1>4 DEF OneBusy, Busy, TaskRunning, ReadMeta
  <1>5. ASSUME NEW r \in Requests, Settle(r)
        PROVE  OneBusy'
    BY <1>5 DEF OneBusy, Busy, TaskRunning, Settle
  <1>6. ASSUME NEW r \in Requests, NEW e \in Emails, MailLink(r, e)
        PROVE  OneBusy'
    BY <1>6 DEF OneBusy, Busy, TaskRunning, MailLink
  <1>7. ASSUME NEW r \in Requests, NEW e \in Emails, StoreToken(r, e)
        PROVE  OneBusy'
    BY <1>7 DEF OneBusy, Busy, TaskRunning, StoreToken
  <1>8. ASSUME NEW r \in Requests, Remind(r)
        PROVE  OneBusy'
    BY <1>8 DEF OneBusy, Busy, TaskRunning, Remind
  <1>9. ASSUME NEW r \in Requests, FailHandler(r)
        PROVE  OneBusy'
    BY <1>9 DEF OneBusy, Busy, TaskRunning, FailHandler
  <1>10. ASSUME NEW r \in Requests, NEW e \in Emails, FailTask(r, e)
        PROVE  OneBusy'
    BY <1>10 DEF OneBusy, Busy, TaskRunning, FailTask
  <1>11. CASE UNCHANGED vars
    BY <1>11 DEF OneBusy, Busy, TaskRunning, vars
  <1>12. QED
    BY <1>1, <1>2, <1>3, <1>4, <1>5, <1>6, <1>7, <1>8, <1>9, <1>10, <1>11 DEF
       Next, Step, Task, Terminated

LEMMA InitOneMailer == Init => OneMailer
  BY DEF Init, OneMailer

LEMMA NextOneMailer ==
    TypeInv /\ Handlers /\ SentStored /\ OneBusy /\ OneMailer /\ [Next]_vars
    => OneMailer'
  <1> SUFFICES ASSUME TypeInv /\ Handlers /\ SentStored /\ OneBusy,
                      OneMailer, [Next]_vars
               PROVE  OneMailer'
    OBVIOUS
  <1> USE DEF TypeInv, TypeOK, Goto, rows, Running
  <1>1. ASSUME NEW r \in Requests, Send(r)
        PROVE  OneMailer'
    BY <1>1 DEF OneMailer, NoneFailed, Send
  <1>2. ASSUME NEW r \in Requests, UpdateMeta(r)
        PROVE  OneMailer'
    BY <1>2 DEF OneMailer, NoneFailed, UpdateMeta
  <1>3. ASSUME NEW r \in Requests, FindRecipients(r)
        PROVE  OneMailer'
    <2> SUFFICES ASSUME ~overlapped', NEW e \in listed, NoneFailed(e)'
                 PROVE  /\ \A p, q \in Requests :
                               task'[p][e] # "none" /\ task'[q][e] # "none" => p = q
                        /\ \A q \in Requests : task'[q][e] = "sent" => authToken[e] = q
      BY <1>3 DEF OneMailer, FindRecipients
    <2>1. /\ e \in Emails /\ pc[r] = "findRecipients" /\ task[r][e] = "none"
          /\ ~overlapped
          /\ task'[r][e] = IF e \in RecipientsToSend(r) THEN "mail" ELSE "none"
          /\ \A q \in Requests \ {r} : task'[q] = task[q]
      BY <1>3 DEF FindRecipients, Handlers
    <2>2. NoneFailed(e)
      BY <2>1 DEF NoneFailed
    <2>3. \A q \in Requests \ {r} : task[q][e] \in {"none", "sent"}
      <3> SUFFICES ASSUME NEW q \in Requests \ {r} PROVE task[q][e] \in {"none", "sent"}
        OBVIOUS
      <3>1. Busy(r)  BY <2>1 DEF Busy
      <3>2. ~Busy(q)  BY <2>1, <3>1 DEF OneBusy
      <3>3. task[q][e] \notin {"mail", "update"}
        BY <2>1, <3>2 DEF Busy, TaskRunning
      <3>4. task[q][e] \in TaskState  BY <2>1
      <3>5. QED  BY <2>2, <3>3, <3>4 DEF NoneFailed, TaskState
    <2>4. (\E q \in Requests \ {r} : task[q][e] = "sent") => task'[r][e] = "none"
      BY <2>1 DEF SentStored, RecipientsToSend
    <2>5. /\ \A p, q \in Requests : task[p][e] # "none" /\ task[q][e] # "none" => p = q
          /\ \A q \in Requests : task[q][e] = "sent" => authToken[e] = q
      BY <2>1, <2>2 DEF OneMailer
    <2>6. ASSUME NEW p \in Requests, NEW q \in Requests,
                 task'[p][e] # "none", task'[q][e] # "none", p # q
          PROVE  FALSE
      <3>1. CASE p # r /\ q # r  BY <2>1, <2>5, <2>6, <3>1
      <3>2. CASE p = r  BY <2>1, <2>3, <2>4, <2>6, <3>2
      <3>3. CASE q = r  BY <2>1, <2>3, <2>4, <2>6, <3>3
      <3>4. QED  BY <3>1, <3>2, <3>3
    <2>7. QED
      BY <2>1, <2>5, <2>6
  <1>4. ASSUME NEW r \in Requests, ReadMeta(r)
        PROVE  OneMailer'
    BY <1>4 DEF OneMailer, NoneFailed, ReadMeta
  <1>5. ASSUME NEW r \in Requests, Settle(r)
        PROVE  OneMailer'
    BY <1>5 DEF OneMailer, NoneFailed, Settle
  <1>6. ASSUME NEW r \in Requests, NEW e \in Emails, MailLink(r, e)
        PROVE  OneMailer'
    BY <1>6 DEF OneMailer, NoneFailed, MailLink
  <1>7. ASSUME NEW r \in Requests, NEW e \in Emails, StoreToken(r, e)
        PROVE  OneMailer'
    BY <1>7 DEF OneMailer, NoneFailed, StoreToken
  <1>8. ASSUME NEW r \in Requests, Remind(r)
        PROVE  OneMailer'
    BY <1>8 DEF OneMailer, NoneFailed, Remind
  <1>9. ASSUME NEW r \in Requests, FailHandler(r)
        PROVE  OneMailer'
    BY <1>9 DEF OneMailer, NoneFailed, FailHandler
  <1>10. ASSUME NEW r \in Requests, NEW e \in Emails, FailTask(r, e)
        PROVE  OneMailer'
    BY <1>10 DEF OneMailer, NoneFailed, FailTask
  <1>11. CASE UNCHANGED vars
    BY <1>11 DEF OneMailer, NoneFailed, vars
  <1>12. QED
    BY <1>1, <1>2, <1>3, <1>4, <1>5, <1>6, <1>7, <1>8, <1>9, <1>10, <1>11 DEF
       Next, Step, Task, Terminated

-----------------------------------------------------------------------------
(* Theorems *)

Inv == /\ TypeInv /\ Handlers /\ LinksMailed /\ SentStored
       /\ Considered /\ OneBusy /\ OneMailer

LEMMA Invariance == Spec => []Inv
  <1>1. Init => Inv
    BY InitType, InitHandlers, InitLinksMailed, InitSentStored, InitConsidered,
       InitOneBusy, InitOneMailer DEF Inv
  <1>2. Inv /\ [Next]_vars => Inv'
    BY NextType, NextHandlers, NextLinksMailed, NextSentStored, NextConsidered,
       NextOneBusy, NextOneMailer DEF Inv
  <1>3. QED  BY <1>1, <1>2, PTL DEF Spec

\* Without overlapping sends or failing promises, every signing link that
\* reached a recipient opens the document once its promise is over.
THEOREM LinksOpen == Spec => []MailedLinkOpens
  <1>1. Inv => MailedLinkOpens
    <2> SUFFICES ASSUME Inv, NEW r \in Requests, NEW e \in listed, ~overlapped,
                        NoneFailed(e), [kind |-> "sign", token |-> r] \in inbox[e],
                        task[r][e] # "update"
                 PROVE  Opens(e, r)
      BY DEF MailedLinkOpens, NoneFailed
    <2>1. e \in Emails  BY DEF Inv, TypeInv, TypeOK
    <2>2. task[r][e] = "sent"  BY <2>1 DEF Inv, LinksMailed, NoneFailed
    <2>3. QED  BY <2>2 DEF Inv, OneMailer, Opens
  <1>2. QED  BY <1>1, Invariance, PTL

\* A send that awaited its promises leaves every recipient it names, unless its
\* promise failed, with a SENT row and a token.
THEOREM AwaitedReaches == Spec => []AwaitedSendReaches
  <1>1. Inv => AwaitedSendReaches
    <2> SUFFICES ASSUME Inv, NEW r \in awaited,
                        NEW e \in body[r].recipients \intersect listed,
                        task[r][e] # "failed"
                 PROVE  sendStatus[e] = "SENT" /\ authToken[e] # None
      BY DEF AwaitedSendReaches
    <2>1. r \in Requests /\ e \in Emails  BY DEF Inv, TypeInv, TypeOK
    <2>2. task[r][e] \in {"none", "sent"}
      BY <2>1 DEF Inv, Handlers, TaskRunning, TypeInv, TypeOK, TaskState
    <2>3. sendStatus[e] = "SENT"  BY <2>1, <2>2 DEF Inv, Considered, SentStored
    <2>4. QED  BY <2>3 DEF Inv, SentStored
  <1>2. QED  BY <1>1, Invariance, PTL

=============================================================================
