--------------------------- MODULE MCOrderRouting ---------------------------
(***************************************************************************)
(* OrderRouting for TLC.                                                   *)
(***************************************************************************)
EXTENDS OrderRouting, FiniteSetsExt, TLC

\* ClOrdIDs are interchangeable: nothing compares or chooses among them.
Symmetry == Permutations(ClOrd)

\* The state without the report that the last step sent: no action and no
\* invariant reads it, only action properties do, of the step that sends it.
Unreported == <<orders, used, reqs, ex, wire, f, h, reconnects>>

Lots    == MapThenSumSet(LAMBDA o : ex[o].qty, DOMAIN ex)
Cancels == {r \in reqs : r.kind = "cancel"}
Outside == \E o \in DOMAIN ex : ex[o].cid \in Ext

\* Two scenarios.  One order of the session, cancelled or replaced, of up to
\* MaxQty lots and over MaxReconnects reconnections; or an order entered
\* outside the session, with one request of the session beside it, where the
\* lots of both and the reconnections come to MaxQty.
Scenarios ==
    IF Outside
    THEN /\ Cardinality(used) <= 1
         /\ reconnects + Lots <= MaxQty
         /\ \A r \in Cancels : r.cid \in {None, Zero} \cup Ext \cup used
    ELSE /\ Len(ex) <= 1
         /\ \A r \in Cancels : r.oid <= 1 /\ r.cid \notin Ext
=============================================================================
