-------------------------------- MODULE MCV3 --------------------------------
EXTENDS MCCoordinator, VRFServiceCoordinatorV3

\* A caller may pretend that a request is at another stage, was never delivered,
\* or reserved nothing.
Forge(w) == {[w EXCEPT !.status = st, !.callbackSucceeded = FALSE] :
                 st \in {"pending", "fulfilled", "expired"}}
            \cup {[w EXCEPT !.terms.reservedPayment = 0]}
AsSeen(w) == {}
=============================================================================
