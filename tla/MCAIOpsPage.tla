---------------------------- MODULE MCAIOpsPage ----------------------------
(***************************************************************************)
(* AIOpsPage for TLC, within three bounds: an operator changes between     *)
(* sessions, watches a reply grow while access is revoked, or sends over a *)
(* connection that breaks.                                                 *)
(***************************************************************************)
EXTENDS AIOpsPage, TLC

Bounds ==
  [switching |-> [sessions |-> 2, turn |-> 1, draft |-> 0, access |-> 1, request |-> 0,
                  reads |-> 2, events |-> 1],
   watching  |-> [sessions |-> 1, turn |-> 1, draft |-> 1, access |-> 2, request |-> 0,
                  reads |-> 1, events |-> 1],
   sending   |-> [sessions |-> 1, turn |-> 2, draft |-> 0, access |-> 1, request |-> 2,
                  reads |-> 1, events |-> 0]]

Fits(b) ==
  /\ Cardinality({s \in Sessions : Exists(s)}) <= b.sessions
  /\ \A s \in Sessions : Exists(s) => /\ data[s].turn <= b.turn
                                      /\ data[s].draft <= b.draft
                                      /\ data[s].access <= b.access
  /\ ids <= b.request /\ (b.request = 0 => draft = None)
  /\ Cardinality(reads) <= b.reads /\ Len(stream.events) <= b.events

Within == \E scene \in DOMAIN Bounds : Fits(Bounds[scene])

MCSymmetry == Permutations(Sessions) \cup Permutations(Messages)
=============================================================================
