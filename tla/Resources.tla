----------------------------- MODULE Resources -----------------------------
(***************************************************************************)
(* Resource arithmetic of the broker (internal/resource/availability.go,   *)
(* not part of the published sources: modelled from spec section 4.1 and   *)
(* the behaviour pinned by internal/resource/calculator_test.go).          *)
(*                                                                         *)
(* A quantity is a function from the two required resource kinds to Nat;  *)
(* units are abstracted (millicores and bytes become small integers).      *)
(* The optional GPU/Storage components are not modelled: no handler of the *)
(* reservation path reads them.                                            *)
(***************************************************************************)
EXTENDS Integers

CONSTANT Nil            \* the absent (nil) Reserved pointer of ResourceMetrics

Res == {"cpu", "mem"}

Quantity == [Res -> Nat]

ASSUME NilAssumption == Nil \notin Quantity

Zero == [x \in Res |-> 0]

\* A nil Reserved counts as zero in every computation (TestCalculateAvailable_ZeroReserved).
ReservedOrZero(r) == IF r = Nil THEN Zero ELSE r

AddQ(a, b) == [x \in Res |-> a[x] + b[x]]

Clamp(n) == IF n < 0 THEN 0 ELSE n

\* Mutant: the availability computation without the clamp at zero.
CalculateAvailableNoClamp(allocatable, allocated, reserved) ==
    [x \in Res |-> allocatable[x] - allocated[x] - ReservedOrZero(reserved)[x]]

\* Available = Allocatable - Allocated - (Reserved or 0), clamped at zero
\* (the one subtraction that spec section 4.1 allows to clamp).
CalculateAvailable(allocatable, allocated, reserved) ==
    [x \in Res |-> Clamp(allocatable[x] - allocated[x] - ReservedOrZero(reserved)[x])]

\* The fit check of the lock step: it reads the stored Available field, not
\* Allocatable - Allocated - Reserved (TestCanReserve_InsufficientCPU).
CanReserve(available, req) == \A x \in Res : req[x] =< available[x]

\* Reserved += req, then Available recomputed from the new Reserved
\* (TestAddReservation_DecreasesAvailable, _MultipleReservationsAccumulate).
\* a is an advertisement record with fields available and reserved.
AddReservation(a, allocatable, allocated, req) ==
    LET r == AddQ(ReservedOrZero(a.reserved), req)
    IN  [a EXCEPT !.reserved = r,
                  !.available = CalculateAvailable(allocatable, allocated, r)]

=============================================================================
