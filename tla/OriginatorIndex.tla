--------------------------- MODULE OriginatorIndex ---------------------------
(***************************************************************************)
(* The registry's index of invoices by originator: inserted in the order   *)
(* of ids, never shortened, read page by page, and built for the invoices  *)
(* of an earlier release by the hook of the upgrade.  Registry counts how  *)
(* often an account lists an invoice, and has the conditions on who may    *)
(* register and sell; here are the lists themselves, for any such order.   *)
(* The new executable runs from the call after upgrade on, the hook is a   *)
(* call of its own.  The earlier release is not in the repository: all     *)
(* that is known of it is that it keeps no index and mints no tokens.      *)
(***************************************************************************)
EXTENDS Enumerations

CONSTANTS
  Ids,            \* ids of invoices, numbered in the order of symbols
  Owners,         \* accounts that may hold an invoice
  ListingSizes,   \* bound: page sizes a client may ask for
  MaxListing,     \* bound: length of an account's list
  Nobody,         \* holder of an id that is not registered
  NoIndex         \* "by_origin" is not stored

ASSUME OriginatorIndexAssumption ==
  /\ Ids \subseteq Nat
  /\ ListingSizes \subseteq Nat \ {0}
  /\ MaxListing \in Nat
  /\ Nobody \notin Owners
  /\ NoIndex \notin [Owners -> Seq(Ids)]

VARIABLES
  release,     \* the release that runs: "earlier" or "this"
  awaited,     \* an upgrade is pending, its hook has not run
  retained,    \* there is a release to roll back to
  holder,      \* originator of each invoice, or Nobody
  tokens,      \* the invoices that have a token
  by_origin,   \* "by_origin", or NoIndex
  overtaken,   \* history: an index was stored without invoices that existed
  reader       \* a client: whose list it pages through and what it has read

releaseVars == <<release, awaited, retained>>
oriVars     == <<releaseVars, holder, tokens, by_origin, overtaken, reader>>

Registered(i) == holder[i] # Nobody

Listed(o) == IF by_origin = NoIndex THEN << >> ELSE by_origin[o]

OriInit ==
  /\ release \in {"earlier", "this"}
  /\ awaited = FALSE
  /\ retained = FALSE
  /\ holder = [i \in Ids |-> Nobody]
  /\ tokens = {}
  /\ by_origin = NoIndex
  /\ overtaken = FALSE
  /\ \E o \in Owners :
       reader = [owner |-> o, size |-> 1, page |-> 0, seen |-> << >>, due |-> << >>,
                 done |-> TRUE]

-----------------------------------------------------------------------------
(* insert_sorted_id: before the first entry that is not smaller.           *)
InsertSortedId(ids, i) ==
  LET pos == SelectInSeq(ids, LAMBDA e : e >= i)
  IN IF pos = 0 THEN Append(ids, i) ELSE InsertAt(ids, pos, i)

(* index_invoice_originator                                                *)
IndexInvoiceOriginator(o, i) ==
  /\ Len(Listed(o)) < MaxListing
  /\ by_origin' = [c \in Owners |->
       IF c = o THEN InsertSortedId(Listed(c), i) ELSE Listed(c)]

(* register_invoice; also what a batch does with each of its entries.      *)
RegisterInvoice(o, i) ==
  /\ release = "this"
  /\ ~Registered(i)
  /\ holder' = [holder EXCEPT ![i] = o]
  /\ IndexInvoiceOriginator(o, i)
  /\ tokens' = tokens \cup {i}
  /\ overtaken' = (overtaken \/ (by_origin = NoIndex /\ \E j \in Ids : Registered(j)))
  /\ UNCHANGED <<releaseVars, reader>>

(* Mutant: the seller's list is shortened.                                 *)
TransferUnlisting(i, to) ==
  /\ release = "this"
  /\ i \in tokens
  /\ holder[i] # to
  /\ Len(Listed(to)) < MaxListing
  /\ holder' = [holder EXCEPT ![i] = to]
  /\ by_origin' = [c \in Owners |->
       CASE c = to        -> InsertSortedId(Listed(c), i)
         [] c = holder[i] -> RemoveFirst(Listed(c), i)
         [] OTHER         -> Listed(c)]
  /\ UNCHANGED <<releaseVars, tokens, overtaken, reader>>

(* execute_token_transfer: the buyer lists the invoice, the seller still   *)
(* does; who buys back lists it once more.                                 *)
Transfer(i, to) ==
  /\ release = "this"
  /\ i \in tokens
  /\ holder[i] # to
  /\ holder' = [holder EXCEPT ![i] = to]
  /\ IndexInvoiceOriginator(to, i)
  /\ UNCHANGED <<releaseVars, tokens, overtaken, reader>>

-----------------------------------------------------------------------------
(* Upgrade and rollback *)

(* An invoice the earlier release registers.                               *)
RegisterEarlier(o, i) ==
  /\ release = "earlier"
  /\ ~Registered(i)
  /\ holder' = [holder EXCEPT ![i] = o]
  /\ overtaken' = (overtaken \/ by_origin # NoIndex)
  /\ UNCHANGED <<releaseVars, tokens, by_origin, reader>>

Upgrade ==
  /\ release = "earlier"
  /\ release' = "this"
  /\ awaited' = TRUE
  /\ retained' = TRUE
  /\ UNCHANGED <<holder, tokens, by_origin, overtaken, reader>>

(* Mutant: each invoice starts the list of its originator anew.            *)
BackfillLastOnly ==
  IF by_origin = NoIndex /\ \E i \in Ids : Registered(i)
  THEN by_origin' = [o \in Owners |->
         LET own == {i \in Ids : holder[i] = o}
         IN IF own = {} THEN << >> ELSE <<CHOOSE i \in own : \A j \in own : j <= i>>]
  ELSE UNCHANGED by_origin

(* backfill_originator_index: only if no index is stored yet.              *)
BackfillOriginatorIndex ==
  IF by_origin = NoIndex /\ \E i \in Ids : Registered(i)
  THEN by_origin' = [o \in Owners |-> InOrder({i \in Ids : holder[i] = o})]
  ELSE UNCHANGED by_origin

(* post_upgrade, with the hook of this release.                            *)
PostUpgrade ==
  /\ awaited
  /\ BackfillOriginatorIndex
  /\ awaited' = FALSE
  /\ UNCHANGED <<release, retained, holder, tokens, overtaken, reader>>

Rollback ==
  /\ release = "this"
  /\ ~awaited
  /\ retained
  /\ release' = "earlier"
  /\ retained' = FALSE
  /\ UNCHANGED <<awaited, holder, tokens, by_origin, overtaken, reader>>

-----------------------------------------------------------------------------
(* The client: asks for page after page until one comes back short.        *)

GetOriginatorPage(o, page, size) ==
  LET ids   == Listed(o)
      start == page * size
  IN SubSeq(ids, start + 1, IF start + size <= Len(ids) THEN start + size ELSE Len(ids))

OpenListing(o, size) ==
  /\ reader.done
  /\ release = "this"
  /\ reader' = [owner |-> o, size |-> size, page |-> 0, seen |-> << >>, due |-> Listed(o),
                done |-> FALSE]
  /\ UNCHANGED <<releaseVars, holder, tokens, by_origin, overtaken>>

NextPage ==
  LET ids == GetOriginatorPage(reader.owner, reader.page, reader.size)
  IN /\ ~reader.done
     /\ release = "this"
     /\ reader' = [reader EXCEPT !.page = @ + 1,
                                 !.seen = @ \o ids,
                                 !.done = Len(ids) < reader.size]
     /\ UNCHANGED <<releaseVars, holder, tokens, by_origin, overtaken>>

OriNext ==
  \/ \E i \in Ids, o \in Owners :
       \/ RegisterInvoice(o, i)
       \/ RegisterEarlier(o, i)
       \/ Transfer(i, o)
  \/ Upgrade \/ PostUpgrade \/ Rollback
  \/ \E o \in Owners, size \in ListingSizes : OpenListing(o, size)
  \/ NextPage

-----------------------------------------------------------------------------
(* Properties *)

EachIsListed == \A i \in Ids : Registered(i) => i \in ToSet(Listed(holder[i]))

(***************************************************************************)
(* A client that pages through an account's list, while invoices are       *)
(* registered and sold between its calls, reads every invoice that was     *)
(* listed when it began: an id inserted before its place can make it read  *)
(* an invoice again or go back in the order, never skip one.  It reads     *)
(* nothing the account never held, and without such calls it reads the     *)
(* list as it is (get_originator_page takes the number of a page).         *)
(***************************************************************************)
PagesMissNothing ==
  LET ids == Listed(reader.owner)
  IN /\ reader.done => ToSet(reader.due) \subseteq ToSet(reader.seen)
     /\ ToSet(reader.seen) \subseteq ToSet(ids)
     /\ reader.done /\ ids = reader.due => reader.seen = ids

(***************************************************************************)
(* Once the hook has run, every invoice is listed by who holds it, in the  *)
(* order of ids, unless the index was overtaken: an invoice was registered *)
(* between the upgrade and its hook of a registry that already had some,   *)
(* or by the earlier release after a rollback.                             *)
(***************************************************************************)
ListedUnlessOvertaken ==
  /\ release = "this" /\ ~awaited /\ ~overtaken => EachIsListed
  /\ \A o \in Owners : \A k \in 1 .. Len(Listed(o)) - 1 : Listed(o)[k] <= Listed(o)[k + 1]

(***************************************************************************)
(* registry/src/lib.rs:253-254: "One-time backfill for deployments that    *)
(* pre-date the by_origin index.  Rebuilds it from the invoices map so     *)
(* historical invoices stay listed."  The hook is a transaction of its     *)
(* own, and does nothing when a registration has stored an index by then.  *)
(***************************************************************************)
HistoricalStayListed == release = "this" /\ ~awaited => EachIsListed
=============================================================================
