--------------------------- MODULE MCStoreReaders ---------------------------
(* One event to a page, so that two events are two pages; one incident,      *)
(* whose status changes while it is read.                                    *)
EXTENDS StoreReaders

CONSTANTS r1

MCRules == {r1}
MCBodies == {"info"}
MCEventStatuses == {"open", "resolved"}
MCIncidentStatuses == {"open", "resolved"}
=============================================================================
