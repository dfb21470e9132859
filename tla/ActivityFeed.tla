---------------------------- MODULE ActivityFeed ----------------------------
(***************************************************************************)
(* The activity feed of the web application (frontend                      *)
(* hooks/useActivityFeed.ts over EventService.fetchEvents): a load that    *)
(* replaces the list, a loadMore that extends it from the cursor, and live *)
(* events, all sharing one set of seen ids.  The requests are answered in  *)
(* any order.  Events are numbered in the order of the chain; a filter is  *)
(* the set of the events it lets through, applied after the page is read.  *)
(* The order of the list on the screen is left out.                        *)
(***************************************************************************)
EXTENDS Integers, FiniteSets

CONSTANTS
  FeedFilters,     \* the filters: sets of events
  FeedPage,        \* pageSize
  MaxFeedEvents,
  MaxFeedLoads     \* bound: loads

VARIABLES
  made,            \* events 1 .. made exist
  feedItems, feedSeen,
  feedCursor,      \* the last event of the last page; 0: none
  feedFilter, hasMore,
  fetchId,         \* the number of the newest load
  feedLoads,       \* loads under way: [id, filter]
  more,            \* the loadMore under way, a sequence of at most one
  feedMuddled          \* history: since the newest load began, a live event came while
                   \* it was under way, or a loadMore overlapped it

feedVars == <<made, feedItems, feedSeen, feedCursor, feedFilter, hasMore, fetchId, feedLoads,
              more, feedMuddled>>

FeedInit ==
  /\ made = 1 /\ feedItems = {} /\ feedSeen = {} /\ feedCursor = 0 /\ hasMore = TRUE
  /\ feedFilter \in FeedFilters
  /\ fetchId = 1 /\ feedLoads = {[id |-> 1, filter |-> feedFilter]}
  /\ more = <<>> /\ feedMuddled = FALSE

eventMade ==
  /\ made < MaxFeedEvents
  /\ made' = made + 1
  /\ UNCHANGED <<feedItems, feedSeen, feedCursor, feedFilter, hasMore, fetchId, feedLoads,
                 more, feedMuddled>>

\* fetchEvents: the page after a cursor, oldest first; a request that fails
\* reads as an empty last page.
feedPageAfter(cursor) ==
  [events |-> {e \in 1 .. made : e > cursor /\ e <= cursor + FeedPage},
   next |-> IF made > cursor
            THEN IF made < cursor + FeedPage THEN made ELSE cursor + FeedPage
            ELSE 0,
   hasMore |-> made >= cursor + FeedPage]

failedPage == [events |-> {}, next |-> 0, hasMore |-> FALSE]

resetSeen_not == feedSeen

resetSeen == {}

Loading == \E l \in feedLoads : l.id = fetchId

\* A load: the seen ids and the cursor are reset, the list is kept until the
\* answer comes.
load(filter) ==
  /\ fetchId < MaxFeedLoads
  /\ fetchId' = fetchId + 1
  /\ feedSeen' = resetSeen
  /\ feedCursor' = 0
  /\ feedLoads' = feedLoads \union {[id |-> fetchId + 1, filter |-> filter]}
  /\ feedMuddled' = (more # <<>>)
  /\ UNCHANGED <<made, feedItems, hasMore, more>>

setFilter(filter) ==
  /\ filter # feedFilter
  /\ feedFilter' = filter
  /\ load(filter)

refresh == load(feedFilter) /\ UNCHANGED feedFilter

\* The new items of a page.
unseen(page, filter) == (page.events \intersect filter) \ feedSeen

\* The answer to a load; that of an older one is dropped.
loadAnswered(l, page) ==
  /\ l \in feedLoads
  /\ feedLoads' = feedLoads \ {l}
  /\ IF l.id # fetchId
     THEN UNCHANGED <<feedItems, feedSeen, feedCursor, hasMore>>
     ELSE /\ feedItems' = unseen(page, l.filter)
          /\ feedSeen' = feedSeen \union unseen(page, l.filter)
          /\ feedCursor' = page.next
          /\ hasMore' = page.hasMore
  /\ UNCHANGED <<made, feedFilter, fetchId, more, feedMuddled>>

loadMore ==
  /\ more = <<>> /\ hasMore
  /\ more' = <<[filter |-> feedFilter, cursor |-> feedCursor]>>
  /\ feedMuddled' = (feedMuddled \/ Loading)
  /\ UNCHANGED <<made, feedItems, feedSeen, feedCursor, feedFilter, hasMore, fetchId,
                 feedLoads>>

\* The answer to a loadMore is applied whatever was loaded since.
moreAnswered(page) ==
  /\ feedItems' = feedItems \union unseen(page, more[1].filter)
  /\ feedSeen' = feedSeen \union unseen(page, more[1].filter)
  /\ feedCursor' = page.next
  /\ hasMore' = page.hasMore
  /\ more' = <<>>
  /\ UNCHANGED <<made, feedFilter, fetchId, feedLoads, feedMuddled>>

\* A live event, perhaps not for the first time.
liveEvent(e) ==
  /\ e \in feedFilter \ feedSeen
  /\ feedSeen' = feedSeen \union {e}
  /\ feedItems' = feedItems \union {e}
  /\ feedMuddled' = (feedMuddled \/ Loading)
  /\ UNCHANGED <<made, feedCursor, feedFilter, hasMore, fetchId, feedLoads, more>>

FeedNext ==
  \/ eventMade \/ refresh \/ loadMore
  \/ \E filter \in FeedFilters : setFilter(filter)
  \/ \E l \in feedLoads : \E page \in {feedPageAfter(0), failedPage} : loadAnswered(l, page)
  \/ /\ more # <<>>
     /\ \E page \in {feedPageAfter(more[1].cursor), failedPage} : moreAnswered(page)
  \/ \E e \in 1 .. made : liveEvent(e)

\* With no request under way, the list shows every event up to the cursor
\* that the filter lets through, and no other event than those: unless a live
\* event came during the load (it is marked as seen, and the answer that
\* holds it replaces the list without it) or a loadMore overlapped the load.
FeedShowsItsPages ==
  ~Loading /\ more = <<>> /\ ~feedMuddled =>
    /\ (1 .. feedCursor) \intersect feedFilter \subseteq feedItems
    /\ feedItems \subseteq feedFilter
=============================================================================
