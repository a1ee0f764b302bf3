-------------------------- MODULE MCListTransactions --------------------------
(* Three people, two transactions, the empty memo, one that is base64 and  *)
(* one that only looks like it; one person asks, as the handlers share     *)
(* nothing they change.                                                    *)
EXTENDS ListTransactions, TLC

Symmetric == Permutations(People \ Listers)

MCTexts == {"thank you", "abcd", "x===", ""}
MCLookAlikes == {"abcd", "x===", ""}
MCDecodable == {"abcd", ""}

MkParams(page, size, desc, creations) ==
    [currentPage |-> page, pageSize |-> size, orderDESC |-> desc, onlyCreations |-> creations]

(* The whole list from the newest on, and the second oldest creation. *)
MCParams == {MkParams(1, 2, TRUE, FALSE), MkParams(2, 1, FALSE, TRUE)}
=============================================================================
