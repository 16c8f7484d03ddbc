---------------------------- MODULE MCPgzInflate ----------------------------
(* PgzInflate for TLC: files of up to two members, whole, damaged or cut, and of none. *)
EXTENDS PgzInflate

CONSTANTS Lengths, Junks, Cuts

MemberLists == {<<a>> : a \in Lengths} \cup {<<a, b>> : a, b \in Lengths}

MCContents ==
  [members : MemberLists \cup {<<>>}, fault : {"none"}, cut : {0}, junk : Junks]
  \cup [members : {l \in MemberLists : Last(l) > 0},
        fault : {"data", "check", "len"}, cut : {0}, junk : {0}]
  \cup {ct \in [members : MemberLists, fault : {"none"}, cut : Cuts, junk : {0}] :
          ct.cut <= 7 + Last(ct.members)}

=============================================================================
