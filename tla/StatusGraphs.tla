---------------------------- MODULE StatusGraphs ----------------------------
(***************************************************************************)
(* The status graphs of the four aggregates (constants/status.go) and the  *)
(* status a new record starts in (model/*.go).  A graph maps each status   *)
(* to the set of statuses a transition request may ask for next.           *)
(***************************************************************************)
EXTENDS Naturals

GeneratorGraph ==
  [ active     |-> {"restricted", "suspended", "expired"},
    restricted |-> {"active", "suspended", "expired"},
    suspended  |-> {"active", "expired"},
    expired    |-> {} ]

CarrierGraph ==
  [ pending    |-> {"verified", "restricted"},
    verified   |-> {"restricted", "expired"},
    restricted |-> {"pending", "expired"},
    expired    |-> {} ]

ManifestGraph ==
  [ draft      |-> {"submitted"},
    submitted  |-> {"in_transit", "rejected"},
    in_transit |-> {"received", "rejected"},
    received   |-> {},
    rejected   |-> {} ]

CheckGraph ==
  [ pending   |-> {"pass", "fail"},
    pass      |-> {},
    fail      |-> {"escalated"},
    escalated |-> {} ]

\* The transitions that the workbench offers for a carrier: its own copy of
\* the graph (TRANSITIONS in types/status.ts).
CarrierOffers ==
  [ pending    |-> {"verified", "restricted", "expired"},
    verified   |-> {"restricted", "expired"},
    restricted |-> {"pending", "expired"},
    expired    |-> {} ]

GeneratorInitialStatus == "active"
CarrierInitialStatus   == "pending"
ManifestInitialStatus  == "draft"
CheckInitialStatus     == "pending"

\* constants.CanTransition: the status is a key of the graph and the target
\* one of its successors.
CanTransition(graph, from, to) == from \in DOMAIN graph /\ to \in graph[from]
=============================================================================
