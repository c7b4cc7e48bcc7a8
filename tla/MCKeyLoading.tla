---------------------------- MODULE MCKeyLoading ----------------------------
(***************************************************************************)
(* Bounded instance of KeyLoading: two inodes, passwords of at most three  *)
(* bytes with every line ending, an encrypted and a plain key.             *)
(***************************************************************************)
EXTENDS KeyLoading, TLC

x == 120
Doc(label, key, secret, size) == [label |-> label, key |-> key, password |-> secret, size |-> size]

MCDocuments ==
    {Doc("plain", "k1", <<>>, 1), Doc("encrypted", "k2", <<x>>, 1), Doc("encrypted", "k2", <<x, CR>>, 1),
     Doc("encrypted", "k2", <<x, LF>>, 1), Doc("encrypted", "k1", <<>>, 2), Doc("plain", "none", <<>>, 1),
     Doc("garbled", "none", <<>>, 1), Doc("binary", "none", <<>>, 1)}
MCOptions ==
    {NoOption, Unreadable, Piped, <<>>, <<x>>, <<x, LF>>, <<x, CR>>, <<x, CR, LF>>, <<x, LF, LF>>, <<x, x, CR, LF>>}
MCEnvironments == {NoVariable, NotUnicode, <<x>>, <<x, LF>>}
MCTyped == {<<x>>, <<x, LF>>}
NoKey == "none"

CONSTANTS i, j

File(kind, private, d) == [kind |-> kind, private |-> private, document |-> d]
Locked == Doc("encrypted", "k2", <<x>>, 1)
Plain == Doc("plain", "k1", <<>>, 1)
MCDisks ==
    [path : {i}, inodes : {(i :> f) @@ (j :> g) :
        f \in {File("regular", private, d) : private \in BOOLEAN, d \in MCDocuments}
              \cup {File(kind, TRUE, Locked) : kind \in {"directory", "fifo"}},
        g \in {File("regular", TRUE, Plain), File("regular", FALSE, Locked), File("fifo", TRUE, Plain)}}]
    \cup [path : {NoInode}, inodes : {[k \in {i, j} |-> File("regular", TRUE, Locked)]}]
=============================================================================
