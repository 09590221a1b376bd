--------------------------- MODULE MCNodeLibrary ---------------------------
(* The five-node workflow of examples/eth_threshold.rs with other kinds and *)
(* arguments in its places. *)
EXTENDS NodeLibrary

MCWiring == <<<<1, 4>>, <<2, 4>>, <<3, 4>>, <<4, 5>>>>

Node(kind, args) == [kind |-> kind, args |-> args]
Prices == {Num(0), Num(4), Num(8)}
Url == Str("http://prices")
MCHostsIn(url) == IF url = "http://prices" THEN {"prices"} ELSE {}

\* A price, a record with a price, a text, or a fetch that is allowed or not
Sources ==
  {Node("constant", v) : v \in Prices \cup {Obj([value |-> Num(8)]), Str("n/a")}}
    \cup {Node("http_fetch", Obj([url |-> Url])),
          Node("http_fetch", Obj([url |-> Url, allowlist |-> Arr({"other"})]))}
Limit(op) == Node("threshold", Obj([threshold |-> Num(4), op |-> Str(op)]))
Mids == {Node("median", Null), Node("sha256", Null), Limit("gt")}
Lasts ==
  {Limit(op) : op \in Ops}
    \cup {Node("median", Null), Node("sha256", Null), Node("plot", Null),
          Node("threshold", Obj([threshold |-> Num(4), op |-> Str("near")])),
          Node("http_fetch", Obj([allowlist |-> Null]))}

MCWorkflows == {<<a, b, c, m, z>> : a, b, c \in Sources, m \in Mids, z \in Lasts}
MCBodies == {Num(8), Str("<html>")}
MCJson == MCBodies \cup {node.args : node \in Sources \cup Mids \cup Lasts}
=============================================================================
