----------------------------- MODULE MCLinkScan -----------------------------
(***************************************************************************)
(* Lines put together from the pieces that can interfere with one another. *)
(***************************************************************************)
EXTENDS LinkScan

Chunks == {<<"tick1">>, <<"tick2">>, <<"open">>, <<"comment">>, <<"end">>, <<"w">>,
           <<"open", "t", "close">>, <<"open", "t", "pipe", "t", "close">>,
           <<"open", "t", "pipe">>, <<"open", "w", "close">>, <<"md">>}
LinesOf(n) == {FlattenSeq(c) : c \in SeqOf(Chunks, n)}

MCSlips == -1 .. 1

MCFirstLines == LinesOf(3) \cup {<<"tick1">> \o l : l \in LinesOf(3)} \cup
                {FenceLine, <<"open", "t", "pipe", "tick1", "close", "tick1">>}
MCMoreLines == {FenceLine, <<>>, <<"end">>, <<"md">>, <<"open", "t", "close">>,
                <<"end", "open", "t", "close">>, <<"comment", "open", "t", "close">>,
                <<"tick1", "end", "tick1", "open", "t", "close">>,
                <<"tick1", "open", "tick1", "open", "t", "close">>}
=============================================================================
