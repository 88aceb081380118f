-------------------------------- MODULE Paging --------------------------------
(* The page arithmetic FolderView (app/navigation.py) and ResultSet            *)
(* (app/search.py) share, over a listing of `total` entries.                   *)
EXTENDS Integers

\* pages: -(-total // size), and one page for an empty listing
Pages(total, size) == IF total = 0 THEN 1 ELSE (total + size - 1) \div size

\* clamp: a number inside the listing, whatever the callback said
Clamp(total, size, page) == IF page < 1 THEN 1
                            ELSE IF page > Pages(total, size) THEN Pages(total, size)
                            ELSE page

Offset(size, page) == (page - 1) * size

\* page: the indices of the entries shown, counted from 0 as a slice does
OnPage(total, size, page) ==
    LET start == Offset(size, Clamp(total, size, page))
    IN {i \in 0..(total - 1) : start <= i /\ i < start + size}
=============================================================================
