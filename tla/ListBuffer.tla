----------------------------- MODULE ListBuffer -----------------------------
(***************************************************************************)
(* uv::ListBuffer: the byte queue kept in a std::list, without a limit of   *)
(* its own.                                                                *)
(***************************************************************************)
EXTENDS Integers, Sequences

CONSTANTS Byte, Chunks

VARIABLES list,         \* buffer_
          listReply     \* what the last call returned

listVars == <<list, listReply>>

ListInit == list = <<>> /\ listReply = [rc |-> 0, data |-> <<>>]

append(d) ==
    /\ list' = list \o d
    /\ listReply' = [rc |-> 0, data |-> <<>>]

readBufferN(n) ==
    /\ listReply' = (IF n > Len(list) THEN [rc |-> -1, data |-> <<>>]
                     ELSE [rc |-> 0, data |-> SubSeq(list, 1, n)])
    /\ UNCHANGED list

ClearOneMore(n) ==  \* mutant: <= for < in the loop
    /\ list' = SubSeq(list, n + 2, Len(list))
    /\ listReply' = [rc |-> 0, data |-> <<>>]

\* n times pop_front, until the list is empty.
clearBufferN(n) ==
    /\ list' = SubSeq(list, n + 1, Len(list))
    /\ listReply' = [rc |-> 0, data |-> <<>>]

clear == list' = <<>> /\ listReply' = [rc |-> 0, data |-> <<>>]
=============================================================================
