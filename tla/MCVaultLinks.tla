---------------------------- MODULE MCVaultLinks ----------------------------
(* Small vaults: up to three notes in three folders, of which one has links. *)
EXTENDS VaultLinks

MCPathOrder ==
  <<<<"m">>, <<"n">>, <<"a", "m">>, <<"a", "n">>, <<"7 - n">>, <<"a", "b", "n">>,
    <<"a", "7 - n">>, <<"a", "7">>>>
MCDigits == [r \in {"7", "#7"} |-> "7"]
MCWorkItems == [d \in {"7"} |-> {"7 - n"}]

Wiki(path) == [kind |-> "wiki", dot |-> FALSE, up |-> 0, path |-> path]
Md(dot, up, path) == [kind |-> "md", dot |-> dot, up |-> up, path |-> path]

Link == {Wiki(<<"n">>), Wiki(<<"m">>), Wiki(<<"a", "n">>), Wiki(<<"x", "n">>),
         Wiki(<<"user-k">>), Wiki(<<"7">>),
         Md(FALSE, 0, <<"n">>), Md(TRUE, 0, <<"n">>), Md(FALSE, 1, <<"n">>),
         Md(FALSE, 0, <<"a", "n">>), Md(FALSE, 1, <<"a", "n">>)}
Pairs == {<<Wiki(<<"n">>), Md(FALSE, 0, <<"n">>)>>,
          <<Wiki(<<"a", "n">>), Md(FALSE, 0, <<"n">>)>>}
MCTexts == {<<>>} \cup {<<l>> : l \in Link} \cup Pairs

Titled == {p \in Paths : Last(p) \in {"m", "n"}}
MCVaults ==
  {[p \in notes |-> IF p = q THEN text ELSE <<>>] :
     q \in Titled, text \in MCTexts,
     notes \in UNION {kSubset(k, Titled) : k \in 1 .. 3}
               \cup UNION {kSubset(k, Paths) : k \in 1 .. 2}}

MCTrashed == {<<".trash", "n", 1>>}

MCTails == {<<>>, <<"--apply">>, <<"--apply", "id">>, <<"--apply", "word">>,
            <<"word", "--apply">>, <<"--apply", "--apply">>}
Saved == {<<Wiki(<<"n">>)>>, <<Wiki(<<"a", "n">>)>>}
=============================================================================
