------------------------------ MODULE Selection ------------------------------
(***************************************************************************)
(* The highlighted row of the services panel and its filter                *)
(* (internal/app/ui/services/update.go, model.go, filter.go).  The panel   *)
(* keeps an index, not a service: every key that changes the list the      *)
(* index points into has to find the highlighted service again, because    *)
(* the next key stops or restarts whatever the index points at.            *)
(*                                                                         *)
(* A query stands for the services whose name contains it; Blank are the   *)
(* queries that are empty once trimmed, and Empty is the one without a     *)
(* character.  Typing or erasing leads to any query but, or also, Empty.   *)
(***************************************************************************)
EXTENDS Naturals, Sequences

CONSTANTS Services,   \* service ids
          Queries,    \* filter queries
          Blank,      \* those that normalise to nothing
          Match,      \* the services that match each other query
          Empty,      \* the query without a character
          None        \* no service, no filtered list

ASSUME SelectionAssumption ==
  Empty \in Blank /\ None \notin Services /\ None \notin Seq(Services)

VARIABLES
  serviceIDs,    \* state.serviceIDs
  selected,      \* state.selected, from 0
  filterActive,  \* state.filterActive: keys go to the query
  filterQuery,   \* state.filterQuery
  filteredIDs,   \* state.filteredIDs, None for nil
  preFilter,     \* state.preFilterSelectedID
  lastFiltered,  \* state.lastFilteredSelectedID
  last           \* history: the service highlighted last

filterVars == <<filterActive, filterQuery, filteredIDs, preFilter, lastFiltered>>
selectionVars == <<serviceIDs, selected, filterVars, last>>

\* filterServiceIDs; pick[i] is what its loop has selected after i ids
Filtered(q, ids) ==
  LET pick[i \in 0..Len(ids)] ==
        IF i = 0 THEN <<>>
        ELSE IF ids[i] \in Match[q] THEN Append(pick[i - 1], ids[i]) ELSE pick[i - 1]
  IN  IF q \in Blank THEN ids ELSE pick[Len(ids)]

\* activeServiceIDs
ActiveIDs == IF filterQuery \in Blank THEN serviceIDs ELSE filteredIDs

\* The service at index i of ids, if there is one
At(ids, i) == IF i < Len(ids) THEN ids[i + 1] ELSE None

\* The service that the keys act on: getSelectedService
Highlighted == At(ActiveIDs, selected)

\* The index of s in ids, 0 when it is not there
IndexOf(s, ids) ==
  IF \E i \in 1..Len(ids) : ids[i] = s
    THEN (CHOOSE i \in 1..Len(ids) : ids[i] = s) - 1
    ELSE 0

\* Follows the highlight through a step
Watched == last' = IF Highlighted' # None THEN Highlighted' ELSE last

SelectionInit ==
  /\ serviceIDs = <<>> /\ selected = 0
  /\ filterActive = FALSE /\ filterQuery = Empty /\ filteredIDs = None
  /\ preFilter = None /\ lastFiltered = None
  /\ last = None

-----------------------------------------------------------------------------

\* The part of handleProfileResolved about the list
ResetSelection(ids) ==
  /\ serviceIDs' = ids /\ selected' = 0
  /\ filterActive' = FALSE /\ filterQuery' = Empty /\ filteredIDs' = None
  /\ preFilter' = None /\ lastFiltered' = None
  /\ last' = At(ids, 0)

FilterKey ==
  /\ ~filterActive
  /\ filterActive' = TRUE
  /\ preFilter' = IF Highlighted # None THEN Highlighted ELSE preFilter
  /\ UNCHANGED <<serviceIDs, selected, filterQuery, filteredIDs, lastFiltered, last>>

\* The list that the index points into while a filter is set
FilterList == IF filteredIDs = None THEN serviceIDs ELSE filteredIDs

FirstOf(s, t) == IF s # None THEN s ELSE t

\* Faulty: keeps the index, which now points into another list
ApplyFilterKeepsIndex(q) ==
  /\ filterQuery' = q
  /\ filteredIDs' = Filtered(q, serviceIDs)
  /\ LET previous == FirstOf(At(FilterList, selected), lastFiltered)
     IN  /\ selected' = IF selected < Len(filteredIDs') THEN selected ELSE 0
         /\ lastFiltered' = FirstOf(previous, lastFiltered)
  /\ UNCHANGED <<serviceIDs, filterActive, preFilter>>
  /\ Watched

\* applyFilter, after a key changed the query to q
ApplyFilter(q) ==
  /\ filterQuery' = q
  /\ filteredIDs' = Filtered(q, serviceIDs)
  /\ LET previous == FirstOf(At(FilterList, selected), lastFiltered)
     IN  /\ selected' = IndexOf(previous, filteredIDs')
         /\ lastFiltered' = FirstOf(previous, lastFiltered)
  /\ UNCHANGED <<serviceIDs, filterActive, preFilter>>
  /\ Watched

TypeQuery == filterActive /\ \E q \in Queries \ {Empty} : ApplyFilter(q)

EraseQuery == filterActive /\ filterQuery # Empty /\ \E q \in Queries : ApplyFilter(q)

\* Enter keeps the filter and gives the keys back
AcceptFilter ==
  /\ filterActive
  /\ filterActive' = FALSE
  /\ UNCHANGED <<serviceIDs, selected, filterQuery, filteredIDs, preFilter, lastFiltered, last>>

\* clearFilter: escape while typing, or later when there is a query
ClearFilter ==
  /\ filterActive \/ filterQuery # Empty
  /\ LET previous == FirstOf(FirstOf(At(FilterList, selected), lastFiltered), preFilter)
     IN  selected' = IndexOf(previous, serviceIDs)
  /\ filterActive' = FALSE /\ filterQuery' = Empty /\ filteredIDs' = None
  /\ preFilter' = None /\ lastFiltered' = None
  /\ UNCHANGED serviceIDs
  /\ Watched

Move(i) ==
  /\ selected' = i
  /\ UNCHANGED <<serviceIDs, filterVars>>
  /\ Watched

Up == selected > 0 /\ Move(selected - 1)

Down == selected + 1 < Len(ActiveIDs) /\ Move(selected + 1)

SelectionKey ==
  FilterKey \/ TypeQuery \/ EraseQuery \/ AcceptFilter \/ ClearFilter \/ Up \/ Down

-----------------------------------------------------------------------------

Listed == {ActiveIDs[i] : i \in 1..Len(ActiveIDs)}

\* What a change of the filter may do to the highlight: the highlighted service
\* stays highlighted if it is still listed, and when nothing was listed the one
\* highlighted last comes back as soon as it is listed again.
KeepsHighlight ==
  /\ Highlighted # None /\ Highlighted \in Listed' => Highlighted' = Highlighted
  /\ Highlighted = None /\ last \in Listed' => Highlighted' = last

\* A filter key never moves the highlight to another service while the one it
\* was on is in the list (update.go:201-315).
SelectionStays ==
  [][serviceIDs' = serviceIDs /\ filterVars' # filterVars => KeepsHighlight]_selectionVars

=============================================================================
