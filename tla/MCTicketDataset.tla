--------------------------- MODULE MCTicketDataset ---------------------------
(***************************************************************************)
(* Instances of TicketDataset for TLC: every text of a few blocks, every   *)
(* pair of dates around the minimum, every small set of columns, and every *)
(* request for a source that is accepted.                                  *)
(***************************************************************************)
EXTENDS TicketDataset, SequencesExt

CONSTANTS MaxBlocks  \* bound: blocks of a text

Blocks == {<<"a">>, <<"d">>, <<"_">>, <<"w", ".">>, <<"a", "@">>, <<"l", "_">>,
           <<"d", ".", "d">>, <<"d", "_", "d">>, <<"<", "a", ">">>, <<"N">>, <<"&", "d">>,
           <<"&", "&", "&", "a">>}
(* Letters encoded n times, before a number. *)
EncodedTexts ==
  {FlattenSeq([i \in 1..k |-> [j \in 1..n |-> "&"] \o <<"a">>]) \o <<"d", "d", "d">> :
     k \in {1, 2, 3, 4, 8}, n \in 1..5}
(* Parts of matches, which are joined once the tags have gone. *)
TaggedTexts ==
  {FlattenSeq([i \in 1..4 |-> b[i] \o <<"<", "a", ">">>]) :
     b \in [1..4 -> {<<"l">>, <<"d">>, <<"d", "d">>, <<"a", "@", "a", "d">>}]}
TextsUpTo(n) == {FlattenSeq(b) : b \in UNION {[1..k -> Blocks] : k \in 0..n}}

Aware(hours, offset) == [kind |-> "aware", hours |-> hours, offset |-> offset]
Record(summary, details, date) ==
  [columns |-> RawInputAllowlist, summary |-> summary, details |-> details, date |-> date]

Dates == {[kind |-> k, hours |-> 0, offset |-> 0] : k \in {"none", "limit"}}
  \cup [kind : {"naive"}, hours : {-1, 0}, offset : {0}]
  \cup [kind : {"aware"}, hours : {-2, -1, 0, 1, 2}, offset : {-1, 0, 2}]

NameSet == {"summary", "details", "ticket_created_at", "closed_at", "status"}
ColumnSets == {S \in SUBSET [name : NameSet, lower : BOOLEAN] : Cardinality(S) <= 4}

Fine == [real |-> TRUE, path |-> "fine", ttl |-> 24]
Plain == Record(<<"a">>, <<"d">>, Aware(0, 0))

TextCases == {<<Record(t, <<>>, Aware(0, 0))>> : t \in TextsUpTo(MaxBlocks) \cup EncodedTexts \cup TaggedTexts}
  \cup {<<Record(<<"I">> \o t, <<>>, Aware(0, 0))>> : t \in TextsUpTo(2)}
  \cup {<<Record(s, d, Aware(0, 0))>> : s \in TextsUpTo(1), d \in TextsUpTo(2)}
DateCases == {<<Record(<<"a">>, <<>>, d), Record(<<"d", "d", "d">>, <<>>, e)>> : d, e \in Dates}
ColumnCases == {<<[Plain EXCEPT !.columns = S]>> : S \in ColumnSets}
Requests == [real : BOOLEAN, path : {"none", "empty", "not parquet", "in a workspace", "fine"},
             ttl : {-1, 0, 24}]

AllCases ==
  [source : TextCases \cup DateCases \cup ColumnCases, request : {Fine}]
    \cup [source : {<<>>, <<Plain>>}, request : Requests]
AllZones == {-2, 0, 1}
=============================================================================
