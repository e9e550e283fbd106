--------------------------- MODULE MCSpiNorArray ---------------------------
(***************************************************************************)
(* Small flashes: two pages in 8D-8D-8D protocol, and four pages of half   *)
(* an erase unit in another.                                               *)
(***************************************************************************)
EXTENDS SpiNorArray

Part(size, page, ers, span, eight) ==
  [size |-> size, page |-> page, ers |-> ers, span |-> span, eight |-> eight]

MCBits == {"b0"}
MCNoise == {"noise"}

\* Programs write all zeros, or every other byte.
Zeros(n)   == [i \in 0 .. n - 1 |-> {}]
Stripes(n) == [i \in 0 .. n - 1 |-> IF i % 2 = 0 THEN {} ELSE {"b0"}]

Ask(op, addr, n, data) == [op |-> op, addr |-> addr, n |-> n, data |-> data]

\* Ranges that begin and end before, on and behind pages and pairs, some of
\* them not allowed.
MCCalls ==
  {Ask("read", r[1], r[2], <<>>) : r \in {<<0, 8>>, <<1, 6>>, <<2, 5>>, <<7, 1>>, <<6, 3>>}}
  \cup {Ask("erase", r[1], r[2], <<>>) : r \in {<<0, 8>>, <<4, 4>>, <<2, 4>>, <<4, 0>>}}
  \cup {Ask("program", r[1], r[2], Zeros(r[2])) : r \in {<<0, 5>>, <<6, 1>>}}
  \cup {Ask("program", r[1], r[2], Stripes(r[2])) : r \in {<<1, 6>>, <<3, 4>>, <<8, 1>>}}

MCParts == {Part(8, 4, 4, 8, TRUE), Part(8, 2, 4, 16, FALSE)}
=============================================================================
