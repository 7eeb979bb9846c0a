-------------------------------- MODULE MCV2 --------------------------------
EXTENDS MCCoordinator, VRFServiceCoordinatorV2
=============================================================================
