------------------------------ MODULE CfgLists ------------------------------
(***************************************************************************)
(* The comparison of two successive configuration lists, which the UDP     *)
(* generator and the TCP reader share word for word (config_loader): a     *)
(* list is a sequence of entries [id, c], the id that must be unique and   *)
(* the maintained settings.                                                *)
(***************************************************************************)
EXTENDS Naturals, Sequences

Ids(a) == {a[i].id : i \in DOMAIN a}

\* The loop over a list ends at the first entry the other list does not have;
\* what is behind it is not compared.
FirstMissing(a, b) ==
    IF Ids(a) \subseteq Ids(b) THEN Len(a) + 1
    ELSE CHOOSE i \in DOMAIN a : a[i].id \notin Ids(b) /\ \A k \in 1..i-1 : a[k].id \in Ids(b)

\* The changed mark of entry j of the new list: everything is new at first;
\* then one of the two loops must come to a pair that differs, or j is the
\* first entry without a counterpart.
Flagged(old, new, j) ==
    \/ old = << >>
    \/ j = FirstMissing(new, old)
    \/ \E i \in DOMAIN old :
        /\ old[i].id = new[j].id /\ old[i].c # new[j].c
        /\ i < FirstMissing(old, new) \/ j < FirstMissing(new, old)

Marked(old, new) ==
    [j \in DOMAIN new |-> [id |-> new[j].id, c |-> new[j].c, chg |-> Flagged(old, new, j)]]

\* Whether the manager is told that anything changed.
AnyChange(old, new) ==
    \/ ~(Ids(old) \subseteq Ids(new))
    \/ \E j \in DOMAIN new : Flagged(old, new, j)
=============================================================================
