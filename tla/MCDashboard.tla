----------------------------- MODULE MCDashboard -----------------------------
EXTENDS Dashboard, TLC

CONSTANTS noUser

Table(status, at) == [d \in DOMAIN at |-> [status |-> status[d], createdAt |-> at[d]]]

\* Two documents, or three made one after another or two of them at once.
SomeTables ==
    {Table(<<"PENDING", "PENDING">>, <<-2, -1>>),
     Table(<<"COMPLETED", "PENDING", "PENDING">>, <<-3, -2, -1>>),
     Table(<<"PENDING", "PENDING", "PENDING">>, <<-3, -1, -1>>)}

SomeBodies ==
    [op: {"save"}, doc: {1, 2}, user: {1}]
    \union [op: {"delete", "reject", "send"}, doc: {1}, user: {1}]
    \union [op: {"sign"}, doc: {1}, user: {1, noUser}, to: {"COMPLETED"}]

SomeLoads ==
    [requests: {3}, inFlight: {2}, failures: {0}, readers: {0}, documents: {2},
     clock: {2}]
    \union [requests: {2}, inFlight: {2}, failures: {1}, readers: {0},
            documents: {2}, clock: {2}]
    \union [requests: {1}, inFlight: {1}, failures: {0}, readers: {1},
            documents: {4}, clock: {1}]
    \union [requests: {2}, inFlight: {1}, failures: {0}, readers: {1},
            documents: {3}, clock: {0}]

Symmetry == Permutations(Requests)
=============================================================================
