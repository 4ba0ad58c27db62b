--------------------------- MODULE MCSigningLinks ---------------------------
(* Instances of SigningLinks for TLC. *)
EXTENDS SigningLinks, TLC

Symmetry == Permutations(Requests) \union Permutations(Emails)

\* Every send that behaves differently: the settings matter only in a body
\* that has them, and a manual distribution ignores all but the reminders.
SendBodies ==
    {b \in SendBody :
        /\ ~b.meta  => b.flags = {} /\ ~b.manual
        /\ b.manual => b.flags \subseteq {"documentPending"}}

AllBodies == SendBodies \union RemindBody
=============================================================================
