---------------------------- MODULE DocumentList ----------------------------
(***************************************************************************)
(* A user's list of documents: getAllDocumentService page after page, with *)
(* the numbers beside it, and getDocumentStatusesService, query by query,  *)
(* while the documents change.  The filters that all of the queries have   *)
(* (user, team, folder) narrow the table and are left out, and so is the   *)
(* search.                                                                 *)
(***************************************************************************)
EXTENDS Integers, FiniteSets

CONSTANTS
    Readers,  \* clients; each goes through the list once
    Filters,  \* the statuses they may ask for, and All
    Periods,  \* the periods they may ask for, in ticks, and All
    All,
    Limits    \* the limits they may ask for

VARIABLES
    clock,
    documents, \* the Document table: status and createdAt of each id
    place,     \* where each reader is
    reads,     \* the queries of findAndCountAll that are under way
    query,     \* whereClause, limit and page
    rows,      \* result.rows
    count,     \* result.count
    counts,    \* countsMap
    total,     \* totalDocuments
    (* history *)
    first,     \* the documents of the list when it was opened
    shown,     \* the documents on the pages that were answered
    shrunk,    \* readers from whose list a document was taken
    torn,      \* readers to whose list one was added between rows and count
    uneasy     \* readers during whose last page the table changed

answer  == <<rows, count, counts, total>>
history == <<first, shown, shrunk, torn, uneasy>>
vars    == <<clock, documents, place, reads, query, answer, history>>

\* The keys of countsMap.
Status == {"DRAFT", "PENDING", "COMPLETED", "REJECTED"}

\* What is assumed of the constants (Dashboard states it as an assumption).
ConstantsOK ==
    /\ All \notin Status
    /\ Filters \subseteq Status \union {All}
    /\ Periods \subseteq Nat \union {All}
    /\ Limits \subseteq Nat \ {0}

-----------------------------------------------------------------------------
(* The list *)

Ids == DOMAIN documents

\* whereClause, made when a request comes: a period goes back from that moment.
Where(status, period) ==
    [status |-> status, period |-> period,
     from |-> IF period = All THEN 0 ELSE clock - period]

ListedIn(table, where) ==
    {d \in DOMAIN table : /\ where.status \in {All, table[d].status}
                          /\ where.period = All \/ table[d].createdAt >= where.from}
Listed(where) == ListedIn(documents, where)

\* statusCountsWhereClause, here for one of the statuses: it has no period.
Ever(status) == Where(status, All)

\* order: createdAt DESC; documents of one time come in any order, another one
\* for each query.
Orders(set) ==
    {s \in [1..Cardinality(set) -> set] :
        \A i, j \in DOMAIN s : i < j =>
            /\ s[i] # s[j]
            /\ documents[s[i]].createdAt >= documents[s[j]].createdAt}

\* Seeded fault: pages are counted from 0.
OffsetOfPage(q) == q.page * q.limit

Offset(q) == (q.page - 1) * q.limit

\* totalPages
TotalPages(items, limit) == (items + limit - 1) \div limit

CountOf(where) == Cardinality(Listed(where))

\* Seeded fault: countsMap without REJECTED.
SomeCounts == [s \in Status |-> IF s = "REJECTED" THEN 0 ELSE CountOf(Ever(s))]

\* The documents grouped by status, in countsMap.
StatusCounts == [s \in Status |-> CountOf(Ever(s))]

-----------------------------------------------------------------------------
(* The queries *)

NoQuery  == [where |-> Ever(All), limit |-> 1, page |-> 0]
NoCounts == [s \in Status |-> 0]

Init ==
    /\ place  = [r \in Readers |-> "idle"]
    /\ reads  = [r \in Readers |-> {}]
    /\ query  = [r \in Readers |-> NoQuery]
    /\ rows   = [r \in Readers |-> {}]
    /\ count  = [r \in Readers |-> 0]
    /\ counts = [r \in Readers |-> NoCounts]
    /\ total  = [r \in Readers |-> 0]
    /\ first  = [r \in Readers |-> {}]
    /\ shown  = [r \in Readers |-> {}]
    /\ shrunk = {}
    /\ torn   = {}
    /\ uneasy = {}

Goto(r, label) == place' = [place EXCEPT ![r] = label]

\* The first page is asked for.
Open(r) ==
    /\ place[r] = "idle"
    /\ \E status \in Filters, period \in Periods, limit \in Limits :
           /\ query' = [query EXCEPT ![r] = [where |-> Where(status, period),
                                             limit |-> limit, page |-> 1]]
           /\ first' = [first EXCEPT ![r] = Listed(Where(status, period))]
    /\ reads' = [reads EXCEPT ![r] = {"rows", "count"}]
    /\ Goto(r, "page")
    /\ UNCHANGED <<clock, documents, answer, shown, shrunk, torn, uneasy>>

\* getDocumentStatusesService is called instead.
OpenStatuses(r) ==
    /\ place[r] = "idle"
    /\ Goto(r, "statuses")
    /\ UNCHANGED <<clock, documents, reads, query, answer, history>>

\* findAndCountAll sends two queries at once, on two connections.
Read(r, what) ==
    /\ place[r] = "page"
    /\ what \in reads[r]
    /\ reads' = [reads EXCEPT ![r] = @ \ {what}]
    /\ Goto(r, IF reads[r] = {what} THEN "statuses" ELSE "page")
    /\ UNCHANGED <<clock, documents, query, counts, total, history>>

ReadRows(r) ==
    LET q == query[r]
    IN  /\ Read(r, "rows")
        /\ \E s \in Orders(Listed(q.where)) :
               rows' = [rows EXCEPT ![r] =
                           {s[i] : i \in DOMAIN s \intersect Offset(q) + 1..Offset(q) + q.limit}]
        /\ UNCHANGED count

ReadCount(r) ==
    /\ Read(r, "count")
    /\ count' = [count EXCEPT ![r] = CountOf(query[r].where)]
    /\ UNCHANGED rows

\* Document.findAll, grouped by status, whatever status the list is of.
CountStatuses(r) ==
    /\ place[r] = "statuses"
    /\ counts' = [counts EXCEPT ![r] = StatusCounts]
    /\ Goto(r, "total")
    /\ UNCHANGED <<clock, documents, reads, query, rows, count, total, history>>

\* Document.count; then the page is answered.
CountAll(r) ==
    /\ place[r] = "total"
    /\ total' = [total EXCEPT ![r] = CountOf(Ever(All))]
    /\ shown' = [shown EXCEPT ![r] = @ \union rows[r]]
    /\ Goto(r, "answered")
    /\ UNCHANGED <<clock, documents, reads, query, rows, count, counts, first, shrunk, torn,
                   uneasy>>

\* The client asks for the next page while there is one; what has got too old for
\* the period since the last page is gone from the list.
NextPage(r) ==
    LET old   == query[r].where
        where == Where(old.status, old.period)
    IN  /\ place[r] = "answered"
        /\ query[r].page < TotalPages(count[r], query[r].limit)
        /\ query' = [query EXCEPT ![r].where = where, ![r].page = @ + 1]
        /\ reads' = [reads EXCEPT ![r] = {"rows", "count"}]
        /\ shrunk' = shrunk \union {q \in {r} : Listed(where) # Listed(old)}
        /\ uneasy' = uneasy \ {r}
        /\ Goto(r, "page")
        /\ UNCHANGED <<clock, documents, answer, first, shown, torn>>

LastPage(r) == query[r].page >= TotalPages(count[r], query[r].limit)

Step(r) ==
    \/ Open(r) \/ OpenStatuses(r)
    \/ ReadRows(r) \/ ReadCount(r)
    \/ CountStatuses(r) \/ CountAll(r)
    \/ NextPage(r)

\* The table changes (documents'): who is disturbed by it.
Watch ==
    LET Before(r) == Listed(query[r].where)
        After(r)  == ListedIn(documents', query[r].where)
        Reading   == {r \in Readers : place[r] \notin {"idle", "answered"}}
    IN  /\ shrunk' = shrunk \union
               {r \in Readers : place[r] # "idle" /\ Before(r) \ After(r) # {}}
        /\ torn' = torn \union
               {r \in Reading : Cardinality(reads[r]) = 1 /\ After(r) \ Before(r) # {}}
        /\ uneasy' = IF documents' = documents THEN uneasy ELSE uneasy \union Reading
        /\ UNCHANGED <<place, reads, query, answer, first, shown>>

-----------------------------------------------------------------------------
(* Properties *)

\* Going through the pages, a client sees every document that was in the list
\* at the beginning, although each page is another query: documents that come
\* meanwhile only push others to a later page.  This needs that none has left
\* the list (taken out of it, or too old for the period of a later page), that
\* none came between the two queries of a page (the older count ends the list too
\* early), and that no two have the same createdAt.
PagesComplete ==
    \A r \in Readers \ (shrunk \union torn) :
        /\ place[r] = "answered" /\ query[r].page > 0 /\ LastPage(r)
        /\ \A d, e \in Ids : d # e => documents[d].createdAt # documents[e].createdAt
        => first[r] \subseteq shown[r]

\* The numbers beside a page agree, unless the table changed between their
\* queries: the statuses add up to the total, and the items of the list are
\* those of its status, or fewer if a period was asked for, which the queries of
\* the numbers do not have.
CountsAgree ==
    \A r \in Readers \ uneasy :
        LET where  == query[r].where
            number == IF where.status = All THEN total[r]
                      ELSE counts[r][where.status]
        IN  place[r] = "answered"
            => /\ total[r] = counts[r]["DRAFT"] + counts[r]["PENDING"]
                             + counts[r]["COMPLETED"] + counts[r]["REJECTED"]
               /\ query[r].page > 0
                  => /\ count[r] <= number
                     /\ where.period = All => count[r] = number
=============================================================================
