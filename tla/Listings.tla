------------------------------ MODULE Listings ------------------------------
(***************************************************************************)
(* The two listings a client reads page by page: the events of the event   *)
(* indexer and the invoices of an originator in the registry.  The two     *)
(* contracts do not call each other; every step is a step of one of them.  *)
(***************************************************************************)
EXTENDS EventIndexer, OriginatorIndex

ListingsInit == IdxInit /\ OriInit

ListingsNext ==
  \/ IdxNext /\ UNCHANGED oriVars
  \/ OriNext /\ UNCHANGED idxVars

ListingsSpec == ListingsInit /\ [][ListingsNext]_<<idxVars, oriVars>>
=============================================================================
