----------------------------- MODULE JsonNodes -----------------------------
(* A parsed data file as the loaders see it (core json.h): a flat array of *)
(* nodes, linked first kid and next sibling, and the cursor API.           *)
EXTENDS Integers, Sequences, SequencesExt

NoText == ""

(* struct Node; 0 is no node, and the root is node 1.                      *)
BlankNode ==
  [type |-> "null", num |-> 0, text |-> NoText, key |-> NoText,
   firstKid |-> 0, nextSib |-> 0, kidCount |-> 0]

(* The cursor API.  A lookup that misses gives 0, and the value of 0 is 0; *)
(* the loaders look at the recorded failure afterwards (Met in Loaders).   *)
Root(d)    == IF d.nodes = <<>> THEN 0 ELSE 1
Type(d, v) == IF v = 0 THEN "null" ELSE d.nodes[v].type
Size(d, v) == IF v \in DOMAIN d.nodes THEN d.nodes[v].kidCount ELSE 0

(* Value::at walks i steps along the siblings; indices count from 1.       *)
Elem(d, v, i) ==
  LET walk[k \in 1 .. i] == IF k = 1 THEN d.nodes[v].firstKid ELSE d.nodes[walk[k - 1]].nextSib
  IN  IF Type(d, v) \in {"array", "object"} /\ i <= Size(d, v) THEN walk[i] ELSE 0

Elems(d, v) == [i \in 1 .. Size(d, v) |-> Elem(d, v, i)]

(* Value::operator[] and has: the first kid with the key, to the end of    *)
(* the chain.                                                              *)
Key(d, v, k) ==
  LET first[u \in {0} \cup DOMAIN d.nodes] ==
        IF u = 0 THEN 0 ELSE IF d.nodes[u].key = k THEN u ELSE first[d.nodes[u].nextSib]
  IN  IF Type(d, v) = "object" THEN first[d.nodes[v].firstKid] ELSE 0

Num(d, v) == IF Type(d, v) = "int" THEN d.nodes[v].num ELSE 0
Str(d, v) == IF Type(d, v) = "string" THEN d.nodes[v].text ELSE NoText
=============================================================================
