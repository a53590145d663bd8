------------------------------ MODULE MCInbox ------------------------------
EXTENDS Inbox, TLC

File(input, base, canon, doc) ==
    [input |-> input, url |-> FALSE, base |-> base, canon |-> canon, gives |-> {doc}]
Url(input, base, canon, gives) ==
    [input |-> input, url |-> TRUE, base |-> base, canon |-> canon, gives |-> gives]

\* Two files with one name, one of them not admissible; a file and a URL with one
\* canonical identity; a URL without one.
MCItems == {File("f1", "a", None, "d1"), File("f2", "a", None, "bad"),
            File("f3", "b", "c", "d2"), Url("u1", "b", "c", {None, "d1"}),
            Url("u2", "b", None, {None, "bad", "d2"})}
Symmetry == Permutations(Workers)
=============================================================================
