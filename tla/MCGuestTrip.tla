---------------------------- MODULE MCGuestTrip ----------------------------
EXTENDS GuestTrip
=============================================================================
