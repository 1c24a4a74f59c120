------------------------- MODULE MCGatewayOrderSend -------------------------
(* Instances of GatewayOrderSend for TLC. *)
EXTENDS GatewayOrderSend, TLC

CONSTANTS r1, r2, r3, t1, t2, c1, c2

Entry(k, c, s) == [kind |-> k, cid |-> c, ticket |-> t1, stop |-> s, valid |-> TRUE]
Order(k, t, s) == [kind |-> k, cid |-> c1, ticket |-> t, stop |-> s, valid |-> TRUE]

\* Entries over two ids, one of them past the cap on a trade.
EntryBodies == {Entry("entry", c1, 1), Entry("entry", c2, 1), Entry("entry", c1, 2)}

\* Two entries and what may move the stop of a ticket or remove it.
StopBodies == {Entry("limit", c1, 1), Entry("entry", c2, 2), Order("modify_pending", t1, 2),
               Order("cancel", t1, 1), Order("sltp", t1, 1), Order("sltp", t1, 2)}

\* A request of each route.
RouteBodies == {Entry("entry", c1, 1), Entry("entry", c2, 1),
                [Entry("entry", c1, 1) EXCEPT !.valid = FALSE],
                Order("sltp", t1, 1), Order("close", t1, 1), Order("cancel", t1, 1)}

Symmetry == Permutations(Request)
=============================================================================
