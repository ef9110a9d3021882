----------------------------- MODULE Dashboard -----------------------------
(***************************************************************************)
(* The inventory page of the dashboard, of one browser tab: the URL that   *)
(* says what is shown, the router that changes it, the search field with   *)
(* its debounce, the table with its pager and the sidebar with its counts, *)
(* over the lists the API answers with (VolumeQueries).                    *)
(*                                                                         *)
(* What the hooks of React, Next and TanStack Query do is modelled from    *)
(* how the code uses them: an effect runs after a render in which one of   *)
(* its dependencies changed; a navigation that has not been committed is   *)
(* discarded when another one begins; an answer is filed under the key it  *)
(* was asked for; placeholderData shows the last data of the same observer *)
(* while a key has none; a page whose host segment changes is mounted      *)
(* anew, the sidebar around it is not.  Of the query cache only the last   *)
(* entry besides the one on screen is kept, and an answer that failed is   *)
(* asked for again at the next poll.                                       *)
(***************************************************************************)
EXTENDS VolumeQueries

CONSTANTS
    Hosts,
    Names,         \* of volumes, in their order
    Texts,         \* what may be typed; "" is one of them
    NamesWith,     \* NamesWith[t]: the names the text t is in
    Usages,        \* of volumes, and Unset for the list of all
    Containers,    \* the lists of containers a host may have
    Table,         \* the measurements
    Limit,         \* PaginationDefaults.LIMIT
    MaxInflight,   \* bound of the model: requests under way at once
    MaxClicks,     \* bound of the model: what the user does
    MaxChanges     \* bound of the model: what happens at the daemons

ASSUME PageOptions ==
    /\ IsFiniteSet(Names) /\ "" \in Texts /\ Unset \in Usages
    /\ Limit \in Nat \ {0} /\ {MaxClicks, MaxChanges} \subseteq Nat

VARIABLES
    inventory,     \* inventory[h]: the volumes of a host
    containers,    \* containers[h]: the containers of a host
    url,           \* the committed location
    nav,           \* the navigation that is under way, if any
    draft, editing, timer,   \* SearchField: its text, isEditing, a debounce is set
    view,          \* the data of useVolumes, of the URL or a placeholder
    kept,          \* one more entry of the query cache
    inflight,      \* requests the server has read, on their way back
    cached,        \* cached[h]: the cached summary
    side,          \* the summary the sidebar shows
    clicks, changes,
    pasted,        \* the location the behaviour began with
    removed,       \* a volume has gone away
    regrouped,     \* a volume may be in use that was not, or no longer be
    blind,         \* the pager was used on a placeholder
    dropped        \* a push of the search text gave way to a navigation to
                   \* the location that was already shown

daemons == <<inventory, containers>>
field == <<draft, editing, timer>>
lists == <<view, kept, inflight>>
chrome == <<cached, side>>
ghosts == <<pasted, removed, regrouped, blind, dropped>>
pageVars == <<daemons, url, nav, field, lists, chrome, clicks, changes, ghosts>>

\* A location that is pasted may have any offset, in either order.
Location == [host : Hosts, usage : Usages, search : Texts, order : {"ASC", "DESC"}, offset : Nat]

\* A link names a host and a usage, and leaves the rest to its defaults.
Link(h, u) == [host |-> h, usage |-> u, search |-> "", order |-> "DESC", offset |-> 0]
NoUrl == Link("none", Unset)
NoNav == [to |-> NoUrl, ofField |-> FALSE]

\* What the API answers is determined by what it was asked and the volumes
\* and containers that were there; PageOf is the page that was sent.
Answer(u) == [of |-> u, present |-> inventory[u.host], users |-> containers[u.host]]
NoView == [of |-> NoUrl, present |-> {}, users |-> <<>>]
Summary(h) == [host |-> h, present |-> inventory[h], users |-> containers[h]]
NoSummary == [host |-> "none", present |-> {}, users |-> <<>>]

World(present, users) ==
    [volumes |-> {[name |-> n, managed |-> FALSE, createdAt |-> n] : n \in present},
     containers |-> users, table |-> Table, now |-> 0, ttl |-> 0]

\* useVolumeQuery: the query the URL stands for.
QueryOf(u) == [usage |-> u.usage, search |-> NamesWith[u.search], sort |-> "SIZE",
               order |-> u.order, limit |-> Limit, offset |-> u.offset]
PageOf(a) == List(World(a.present, a.users), a.of.host, QueryOf(a.of))

Placeholder == view # NoView /\ view.of # url

PageTypeOK ==
    /\ inventory \in [Hosts -> SUBSET Names] /\ containers \in [Hosts -> Containers]
    /\ {url, pasted} \subseteq Location
    /\ draft \in Texts /\ editing \in BOOLEAN /\ timer \in BOOLEAN
    /\ \A h \in Hosts : cached[h] # NoSummary => cached[h].host = h
    /\ clicks \in 0..MaxClicks /\ changes \in 0..MaxChanges
    /\ {removed, regrouped, blind, dropped} \subseteq BOOLEAN

PageInit ==
    /\ inventory \in [Hosts -> SUBSET Names] /\ containers \in [Hosts -> Containers]
    /\ url \in Location /\ pasted = url
    /\ nav = NoNav
    /\ draft = url.search /\ editing = FALSE /\ timer = FALSE
    /\ view = NoView /\ kept = NoView /\ inflight = {}
    /\ cached = [h \in Hosts |-> NoSummary] /\ side = NoSummary
    /\ clicks = 0 /\ changes = 0
    /\ removed = FALSE /\ regrouped = FALSE /\ blind = FALSE /\ dropped = FALSE

-----------------------------------------------------------------------------
(* The router.  setQuery builds the new location from the one of the last  *)
(* render, url, and not from a navigation under way.  ofField: this        *)
(* navigation, or one it took the place of, carried the field's text.      *)

Navigate(to, ofField) ==
    nav' = [to |-> to, ofField |-> ofField \/ nav.ofField]

\* A patch without an offset goes back to the first page.
WithSearch(s) == [url EXCEPT !.search = s, !.offset = 0]
Unfiltered == [url EXCEPT !.usage = Unset, !.search = "", !.offset = 0]
Reversed == [url EXCEPT !.order = IF @ = "ASC" THEN "DESC" ELSE "ASC", !.offset = 0]
WithOffset(o) == [url EXCEPT !.offset = IF o > 0 THEN o ELSE 0]

Click == clicks < MaxClicks /\ clicks' = clicks + 1

\* Mutant: the page is kept although its host changed.
StayMounted(to) ==
    /\ draft' = IF editing \/ to.search = url.search THEN draft ELSE to.search
    /\ editing' = editing
    /\ timer' = (draft' # to.search)
    /\ view' = IF kept.of = to THEN kept ELSE view

\* The page of another host is mounted anew, and its hooks start afresh.
\* On the same page the effects of SearchField run: it adopts a search that
\* changed, unless the user is editing, and sets the debounce.  The table
\* keeps its data as a placeholder, unless the new query has some.
Rerender(to) ==
    IF to.host # url.host
    THEN /\ draft' = to.search /\ editing' = FALSE /\ timer' = FALSE
         /\ view' = IF kept.of = to THEN kept ELSE NoView
    ELSE /\ draft' = IF editing \/ to.search = url.search THEN draft ELSE to.search
         /\ editing' = editing
         /\ timer' = (draft' # to.search)
         /\ view' = IF kept.of = to THEN kept ELSE view

RouterCommits ==
    /\ nav # NoNav
    /\ nav' = NoNav
    /\ url' = nav.to
    /\ IF nav.to = url
       THEN /\ dropped' = (dropped \/ (nav.ofField /\ draft # url.search /\ ~timer))
            /\ UNCHANGED <<field, view, kept, side>>
       ELSE /\ Rerender(nav.to)
            /\ kept' = IF view # NoView /\ ~Placeholder THEN view ELSE kept
            /\ side' = IF cached[nav.to.host] = NoSummary THEN side ELSE cached[nav.to.host]
            /\ dropped' = dropped
    /\ UNCHANGED <<daemons, inflight, cached, clicks, changes, pasted, removed, regrouped, blind>>

-----------------------------------------------------------------------------
(* The search field.                                                       *)

Type(t) ==
    /\ Click
    /\ t # draft
    /\ draft' = t /\ editing' = TRUE /\ timer' = (t # url.search)
    /\ UNCHANGED <<daemons, url, nav, lists, chrome, changes, ghosts>>

TimerFires ==
    /\ timer
    /\ timer' = FALSE /\ editing' = FALSE
    /\ Navigate(WithSearch(draft), TRUE)
    /\ UNCHANGED <<daemons, url, draft, lists, chrome, clicks, changes, ghosts>>

ClearField ==
    /\ Click
    /\ draft # ""
    /\ draft' = "" /\ editing' = FALSE /\ timer' = (url.search # "")
    /\ Navigate(WithSearch(""), TRUE)
    /\ UNCHANGED <<daemons, url, lists, chrome, changes, ghosts>>

-----------------------------------------------------------------------------
(* Links, the host switcher and the table's controls.                      *)

\* A scope of the sidebar: it drops every other filter.
ScopeLink(u) ==
    /\ Click
    /\ Navigate(Link(url.host, u), FALSE)
    /\ UNCHANGED <<daemons, url, field, lists, chrome, changes, ghosts>>

SwitchHost(h) ==
    /\ Click
    /\ h # url.host
    /\ Navigate(Link(h, Unset), FALSE)
    /\ UNCHANGED <<daemons, url, field, lists, chrome, changes, ghosts>>

Turn(offset) ==
    /\ Click
    /\ Navigate(WithOffset(offset), FALSE)
    /\ blind' = (blind \/ Placeholder)
    /\ UNCHANGED <<daemons, url, field, lists, chrome, changes, pasted, removed, regrouped, dropped>>

\* The pager goes by the page it is shown with, also if that is the
\* placeholder of another query.
Pager(offset) ==
    /\ view # NoView
    /\ PageOf(view).items # <<>> /\ PageOf(view).total > Limit
    /\ Turn(offset)

NextPage == Pager(view.of.offset + Limit) /\ PageOf(view).hasMore
PreviousPage == Pager(view.of.offset - Limit) /\ view.of.offset > 0

ClearFilters ==
    /\ Click
    /\ view # NoView /\ PageOf(view).items = <<>>
    /\ url.usage # Unset \/ url.search # ""
    /\ Navigate(Unfiltered, FALSE)
    /\ UNCHANGED <<daemons, url, field, lists, chrome, changes, ghosts>>

\* The direction of the sort, in the toolbar or a column's header.
Reorder ==
    /\ Click
    /\ Navigate(Reversed, FALSE)
    /\ UNCHANGED <<daemons, url, field, lists, chrome, changes, ghosts>>

-----------------------------------------------------------------------------
(* Requests.  The list is polled; a query that has a request under way is  *)
(* not asked for twice.                                                    *)

\* Mutant: a query is fetched once, and not polled.
FetchOnce ==
    /\ view.of # url
    /\ \A a \in inflight : a.of # url
    /\ Cardinality(inflight) < MaxInflight
    /\ inflight' = inflight \cup {Answer(url)}
    /\ UNCHANGED <<daemons, url, nav, field, view, kept, chrome, clicks, changes, ghosts>>

Fetch ==
    /\ \A a \in inflight : a.of # url
    /\ Cardinality(inflight) < MaxInflight
    /\ inflight' = inflight \cup {Answer(url)}
    /\ UNCHANGED <<daemons, url, nav, field, view, kept, chrome, clicks, changes, ghosts>>

Arrive(a) ==
    /\ inflight' = inflight \ {a}
    /\ IF a.of = url THEN view' = a /\ kept' = kept
                     ELSE view' = view /\ kept' = a
    /\ UNCHANGED <<daemons, url, nav, field, chrome, clicks, changes, ghosts>>

\* useSystemSummary, in one step: its answer is filed under its host too.
SummaryAnswers ==
    /\ cached' = [cached EXCEPT ![url.host] = Summary(url.host)]
    /\ side' = Summary(url.host)
    /\ UNCHANGED <<daemons, url, nav, field, lists, clicks, changes, ghosts>>

\* Docker, or someone else.
VolumeAppears(h, n) ==
    /\ changes < MaxChanges /\ changes' = changes + 1
    /\ n \notin inventory[h] /\ inventory' = [inventory EXCEPT ![h] = @ \cup {n}]
    /\ UNCHANGED <<containers, url, nav, field, lists, chrome, clicks, ghosts>>

VolumeGoes(h, n) ==
    /\ changes < MaxChanges /\ changes' = changes + 1
    /\ n \in inventory[h] /\ inventory' = [inventory EXCEPT ![h] = @ \ {n}]
    /\ removed' = TRUE
    /\ UNCHANGED <<containers, url, nav, field, lists, chrome, clicks>>
    /\ UNCHANGED <<pasted, regrouped, blind, dropped>>

\* A container comes, goes, starts or stops.
UsageChanges(h, users) ==
    /\ changes < MaxChanges /\ changes' = changes + 1
    /\ users # containers[h] /\ containers' = [containers EXCEPT ![h] = users]
    /\ regrouped' = TRUE
    /\ UNCHANGED <<inventory, url, nav, field, lists, chrome, clicks>>
    /\ UNCHANGED <<pasted, removed, blind, dropped>>

-----------------------------------------------------------------------------
PageNext ==
    \/ RouterCommits
    \/ \E t \in Texts : Type(t)
    \/ TimerFires
    \/ ClearField
    \/ \E u \in Usages : ScopeLink(u)
    \/ \E h \in Hosts : SwitchHost(h)
    \/ NextPage
    \/ PreviousPage
    \/ ClearFilters
    \/ Reorder
    \/ Fetch
    \/ \E a \in inflight : Arrive(a)
    \/ SummaryAnswers
    \/ \E h \in Hosts, n \in Names : VolumeAppears(h, n)
    \/ \E h \in Hosts, n \in Names : VolumeGoes(h, n)
    \/ \E h \in Hosts, users \in Containers : UsageChanges(h, users)

\* The browser runs its timers and effects, and a host that is polled
\* answers at last.  Nobody has to click.
ArriveAtAll == \E a \in inflight : Arrive(a)

Fairness ==
    /\ WF_pageVars(TimerFires) /\ WF_pageVars(RouterCommits)
    /\ WF_pageVars(Fetch) /\ WF_pageVars(ArriveAtAll) /\ WF_pageVars(SummaryAnswers)

PageSpec == PageInit /\ [][PageNext]_pageVars /\ Fairness

-----------------------------------------------------------------------------
(* Properties.                                                             *)

\* The table never lists volumes of another machine than the one the page
\* is headed with: a click on a row goes to a page with a delete button.
RowsAreOfThisHost == view # NoView => view.of.host = url.host

\* Text in the field that is not in the URL is on its way there: a debounce
\* is set, or a navigation is under way after which it is set again.
UnsentTextIsOnItsWay == draft # url.search => timer \/ nav # NoNav \/ dropped

\* A page past the end of its list, which has no pager to leave it with, is
\* one a volume went away from or, in a list of one usage, changed its use;
\* one that was pasted as it is; or one that was asked for with the pager of
\* another query: a change of the filter goes back to the first page.
EmptyPageHasACause ==
    view # NoView /\ ~Placeholder /\ url.offset > 0 /\ PageOf(view).items = <<>>
        => removed \/ (regrouped /\ url.usage # Unset) \/ url = pasted \/ blind

DashboardInv ==
    PageTypeOK /\ RowsAreOfThisHost /\ UnsentTextIsOnItsWay /\ EmptyPageHasACause

\* When the user rests and the volumes do too, the screen comes to agree
\* with the address bar: the table shows what the API says to the URL now,
\* the sidebar counts the volumes of the URL's host, and the search field
\* holds the URL's search, whatever was typed, clicked and answered in
\* whatever order.
SettlesOnTheUrl ==
    <>[](/\ nav = NoNav
         /\ view = Answer(url)
         /\ side = Summary(url.host)
         /\ draft = url.search \/ dropped)
=============================================================================
