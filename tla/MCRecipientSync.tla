-------------------------- MODULE MCRecipientSync --------------------------
(* Instances of RecipientSync for TLC. *)
EXTENDS RecipientSync, TLC

Symmetry == Permutations(Requests) \union Permutations(Emails)
            \union Permutations(Phones) \union Permutations(Colors)

ListsUpTo(entries, n) == UNION {[1..k -> entries] : k \in 1..n}

\* Every list of up to two entries, valid or not.
AllLists == ListsUpTo(Entry, 2)

\* Those that name nobody twice.  An invalid entry is the last and nothing more.
OrderlyLists ==
    {list \in AllLists :
        /\ DistinctEmails(list)
        /\ \A k \in DOMAIN list :
               list[k].valid \/ /\ k = Len(list)
                                /\ list[k].phone = None /\ list[k].color = None}

\* Tables of at most n rows, of different addresses and colours.
TablesUpTo(n) ==
    {t \in UNION {[1..k -> Row] : k \in 0..n} :
        \A i, j \in DOMAIN t : i # j => /\ t[i].email # t[j].email
                                        /\ t[i].color # t[j].color \/ t[i].color = None}

OneRowTables == TablesUpTo(1)
=============================================================================
