------------------------------ MODULE MCServing ------------------------------
(***************************************************************************)
(* An instance of Serving for TLC.  A list of the second version is longer *)
(* than that of the first one, or shorter; the patch has characters of two *)
(* bytes and of one.                                                       *)
(***************************************************************************)
EXTENDS Serving

CONSTANTS w1, w2, w3, w4, p1, p2, agent, c1, c2

\* Others write what the agent reads and the callers enrich; what the pages
\* fetch is left to them.
Clients == {{p1, p2}, {agent}, {c1, c2}}

Opened == [p \in Pages |-> IF p = p1 THEN {w1, w2} ELSE {w2}]
Read == [r \in Readers |-> w3]
Related == [t \in Targets |-> w4]

Versions == [w \in Workspaces |-> IF w \in {w3, w4} THEN 3 ELSE 0]
Snapshots == [w \in Workspaces |-> IF w = w3 THEN 2 ELSE IF w = w4 THEN 1 ELSE 0]

Ops == {"search_prs", "get_group", "read_patch", "get_file_review",
        "find_related"}

Lists == [op \in Ops |->
            CASE op = "search_prs" -> {"prs"}
              [] op = "get_group" -> {"members", "shared"}
              [] op = "read_patch" -> {"patch"}
              [] op = "get_file_review" -> {"files", "findings"}
              [] OTHER -> {"related"}]

ListLengths == [prs |-> <<2, 3>>, members |-> <<2, 1>>, shared |-> <<2, 2>>,
                patch |-> <<5>>, files |-> <<1, 2>>, findings |-> <<2, 1>>,
                related |-> <<1, 1>>]

TwoByte == [starts |-> {0, 2, 4}, bytes |-> 5]

==============================================================================
