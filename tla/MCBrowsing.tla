------------------------------ MODULE MCBrowsing ------------------------------
\* A small vault: one title in three folders and in two cases, a note that is no
\* .md, and folders typed in ways that are read differently.
EXTENDS Browsing, TLC

MCPlace == ("p" :> 1) @@ ("q" :> 2) @@ ("r" :> 3) @@ ("." :> 4) @@ ("" :> 5)
           @@ ("a.txt" :> 6) @@ ("A.md" :> 7) @@ ("a.md" :> 8) @@ ("A" :> 9) @@ ("a" :> 10)
           @@ ("p.md" :> 11) @@ ("q.md" :> 12)
Id == [s \in DOMAIN MCPlace |-> s]
MCLower == ("A.md" :> "a.md") @@ ("A" :> "a") @@ Id
MCSuffixed == ("a" :> "a.md") @@ ("p" :> "p.md") @@ ("q" :> "q.md") @@ Id
MCBare == ("a.md" :> "a") @@ ("A.md" :> "A") @@ ("p.md" :> "p") @@ ("q.md" :> "q") @@ Id
MCExtended == ("a" :> "a.md") @@ ("A" :> "A.md") @@ ("p" :> "p.md") @@ ("q" :> "q.md")
              @@ [s \in DOMAIN MCPlace |-> "another"]  \* no note is called so
MCStem == ("a.txt" :> "a") @@ MCBare

MCFolders == {<<"p">>, <<"p", "q">>}
MCFiles == {<<"a.md">>, <<"a.txt">>, <<"p", "A.md">>}
MCTyped == {<<>>, <<"p">>, <<".", "p">>, <<"a">>}
MCTargets == {<<"a">>, <<"a.md">>, <<"A">>, <<"p", "a">>, <<"p", "q", "a.md">>, <<"q">>, <<"a.txt">>}
MCLinksIn == ("a.md" :> << <<"a">>, <<"r">>, <<"p", "A.md">> >>) @@ ("A.md" :> << <<"a.txt">> >>)
             @@ [s \in DOMAIN MCPlace |-> <<>>]
MCSays == ("a.md" :> "beyond") @@ ("a.txt" :> "exact") @@ ("A.md" :> "case")
          @@ [s \in DOMAIN MCPlace |-> "no"]
MCTagged == {"a.md", "a.txt"}
===============================================================================
