--------------------------- MODULE MCSegmentStore ---------------------------
(* Four documents in one segment that spans every partition.  Each layout   *)
(* is one instance: which documents are written, how often, which deleted,  *)
(* how many calls fail, whether the process ends and whether two drains     *)
(* overlap.                                                                 *)
EXTENDS SegmentStore, TLC

CONSTANTS a, b, c, e

TwoParts == a :> 0 @@ c :> 0 @@ b :> 1 @@ e :> 1
ThreeParts == a :> 0 @@ e :> 1 @@ b :> 2 @@ c :> 2
BAlone == a :> 0 @@ c :> 0 @@ e :> 0 @@ b :> 1
OnePart == [d \in {a, b, c, e} |-> 0]

Writes(D, n) == [d \in {a, b, c, e} |-> IF d \in D THEN n ELSE 0]

Layout(part, writes, deletes, nfaults, ncrashes, overlap) ==
    [part |-> part, writes |-> writes, deletes |-> deletes,
     faults |-> nfaults, crashes |-> ncrashes, overlap |-> overlap]

Smooth(part, writes, deletes) == Layout(part, writes, deletes, 0, 0, FALSE)

\* Nothing fails, no process ends and drains take turns.
SmoothLayouts ==
    {Smooth(TwoParts, Writes({a}, 1), {b}),
     Smooth(TwoParts, Writes({a}, 1), {b, e}),
     Smooth(ThreeParts, [Writes({a}, 2) EXCEPT ![e] = 1], {}),
     Smooth(BAlone, Writes({a}, 1), {b}),
     Smooth(OnePart, Writes({a, e}, 1), {b}),
     Smooth(OnePart, Writes({a}, 2), {b}),
     Smooth(OnePart, Writes({a}, 1), {a})}

\* Failed calls, a crash, and two drains at once.
FaultLayouts ==
    {Layout(TwoParts, Writes({a, e}, 1), {}, 1, 0, FALSE),
     Layout(OnePart, Writes({a}, 1), {b}, 2, 0, FALSE),
     Layout(OnePart, Writes({a}, 2), {}, 2, 0, FALSE),
     Layout(OnePart, Writes({a}, 1), {}, 4, 0, FALSE),
     Layout(OnePart, Writes({a}, 1), {b}, 1, 1, FALSE),
     Layout(OnePart, Writes({a}, 1), {}, 0, 0, TRUE)}

StoreLayouts == SmoothLayouts \cup FaultLayouts

\* Each of the following is the smallest instance that has a history the README
\* describes.  The cold load is read in every state: no crash need happen.
ReclaimLayouts == {Smooth(TwoParts, Writes({a}, 1), {})}
BlankLayouts == {Smooth(OnePart, Writes({a}, 1), {})}
AbandonLayouts == {Layout(OnePart, Writes({a}, 1), {}, 1, 0, FALSE)}
DeleteLayouts == {Smooth(OnePart, Writes({a}, 1), {b})}
SealLayouts == {Smooth(OnePart, Writes({}, 1), {a, b})}
OverlapLayouts == {Layout(OnePart, Writes({a}, 1), {}, 0, 0, TRUE)}
LoadLayouts == {Smooth(OnePart, Writes({a}, 2), {b})}

=============================================================================
