----------------------- MODULE MCModelCacheController -----------------------
(***************************************************************************)
(* Small instances of ModelCacheController for TLC.                        *)
(***************************************************************************)
EXTENDS ModelCacheController, MCCachePlanner, TLC

CONSTANTS a, b, n1, n2, p, q

Cap(x, y) == (n1 :> x) @@ (n2 :> y)
OneNode == n1 :> 3
TwoNodes == Cap(3, 2)
RankOne == n1 :> 1
RankTwo == Cap(1, 2)

S(path, pin, size, rev) ==
  [path |-> path, pin |-> pin, size |-> size, rev |-> rev, valid |-> TRUE, secretRef |-> FALSE]

(* Two caches of the same size that fit a node one at a time. *)
Base == S(p, NoNode, 2, 1)
Rev2 == [Base EXCEPT !.rev = 2]
Moved == [Base EXCEPT !.path = q]
Invalid == [Base EXCEPT !.valid = FALSE]
Pinned == [Base EXCEPT !.pin = n1]
Guarded == [Base EXCEPT !.secretRef = TRUE]
Small == S(q, NoNode, 1, 1)

BothBase == {[c \in Caches |-> Base]}
BaseAndRev2 == {(a :> Base) @@ (b :> Rev2)}
RivalsOrNot == {(a :> Base) @@ (b :> x) : x \in {Base, Small, Invalid}}
BothPinned == {[c \in Caches |-> Pinned]}
GuardedAndSmall == {(a :> Guarded) @@ (b :> x) : x \in {Small, Invalid}}

SpecsRivals == {Rev2, Small}
SpecsEdited == {Base, Rev2, Moved}
NoSpecs == {}
SpecsPinned == {Pinned}
SpecsInvalid == {Base, Invalid, Moved}
=============================================================================
