------------------------------ MODULE Timelines ------------------------------
(***************************************************************************)
(* Reading a timeline page by page (src/src/service/timeline.rs,           *)
(* src/src/api/mastodon/timelines.rs, bookmarks.rs, notifications.rs, and  *)
(* account_statuses in accounts.rs) while statuses are posted and deleted, *)
(* conversations muted, marks set and withdrawn and a list changed.        *)
(*                                                                         *)
(* A client asks for the rows below the last one it has (max_id) until a   *)
(* page is short. Behind one page the server may read several: it takes    *)
(* more rows than asked for, drops those of muted conversations, and reads *)
(* on below the last row. The id of a row is its number here; ids grow.    *)
(***************************************************************************)
EXTENDS Naturals, Sequences, FiniteSets, SequencesExt

CONSTANTS
    Views,       \* the timelines that are read
    Tables,      \* the contents of the tables a reading may begin with
    NewRows,     \* the statuses that may be posted meanwhile
    Limits,      \* the page sizes a client asks for
    Overfetch,   \* TIMELINE_MUTE_OVERFETCH_MULTIPLIER, and 5 in account_statuses
    MaxFetch,    \* TIMELINE_MUTE_OVERFETCH_MAX_LIMIT
    MaxId,       \* bound: statuses
    MaxChanges   \* bound: what happens while the client reads

MarkViews == {"favourites"}               \* and the bookmarks, the same again
IdViews == {"tag", "list", "listNone"}
TimeViews == {"home", "public", "account", "pinned", "notifications"}

\* A status comes after what it replies to, and a muted one begins a conversation.
IsTable(t) ==
    /\ t.row \in Seq(ToSet(t.row)) /\ Len(t.row) <= MaxId
    /\ \A p \in 1..Len(t.row) : t.row[p].parent \in 0..(p - 1)
    /\ t.muted \subseteq {p \in 1..Len(t.row) : t.row[p].parent = 0}
    /\ t.marks \in [1..MaxId -> Nat]

ASSUME TimelinesAssumption ==
    /\ Views \subseteq MarkViews \cup IdViews \cup TimeViews
    /\ \A t \in Tables : IsTable(t)
    /\ 0 \notin Limits /\ Limits \subseteq Nat
    /\ {Overfetch, MaxFetch, MaxId, MaxChanges} \subseteq Nat \ {0}
    /\ \A n \in Limits : n <= MaxFetch

VARIABLES
    view,      \* the timeline
    row,       \* row[id]: the status, or the notification, of that id
    standing,  \* the ids that have not been deleted
    marks,     \* marks[id]: the second of its favourite, 0 without one
    lastMark,  \* the second of the last one
    pins,      \* pinned_statuses
    listed,    \* the authors on the list
    muted,     \* muted_conversations: ids of the roots of conversations
    reader,    \* the request that is served, with its client
    stayed,    \* history: what has been in the timeline all the time
    silent,    \* history: what has been muted as long as this request
    moved,     \* history: the mark that a page ended at was withdrawn
    changes

tables == <<row, standing, marks, lastMark, pins, listed, muted>>
timelineVars == <<view, tables, reader, stayed, silent, moved, changes>>

Ids == 1..Len(row)

-----------------------------------------------------------------------------
(* What a query sees.                                                      *)

\* With a bug: the thread of a reply is its parent.
RootOfParent(p) == IF row[p].parent = 0 THEN p ELSE row[p].parent

\* resolve_thread_root_uri: from a status that has been read, up to one that is no
\* reply, or to the first one that is not here.
RootOf(p) ==
    LET up[q \in 0..Len(row)] ==
            IF q \in standing /\ row[q].parent # 0 THEN up[row[q].parent] ELSE q
    IN  IF row[p].parent = 0 THEN p ELSE up[row[p].parent]

Home(p) == row[p].local
Public(p) == Home(p) /\ row[p].public
Tagged(p) == row[p].public /\ row[p].tagged
OnList(p) == row[p].author \in listed
Marked(p) == marks[p] > 0

\* The rows of the timeline.
Rows ==
    {p \in standing :
        CASE view \in {"home", "account", "pinned"} -> Home(p)
          [] view = "public"                        -> Public(p)
          [] view = "tag"                           -> Tagged(p)
          [] view \in {"list", "listNone"}          -> OnList(p)
          [] view = "notifications"                 -> TRUE
          [] view \in MarkViews                     -> Marked(p)}

\* ORDER BY, newest first. Of two rows of one time, which those queries leave open,
\* the later one.
Before(p, q) ==
    IF view \in IdViews THEN p > q
    ELSE IF view \in TimeViews
    THEN row[p].time > row[q].time \/ (row[p].time = row[q].time /\ p > q)
    ELSE marks[p] > marks[q] \/ (marks[p] = marks[q] /\ p > q)

\* With a bug: marks of the same second are not told apart.
MarkedBelowBySecond(p, c) == IF marks[c] > 0 THEN marks[p] < marks[c] ELSE p < c

\* With a bug: the mark of c is among those of its second.
MarkedBelowAgain(p, c) == IF marks[c] > 0 THEN marks[p] <= marks[c] ELSE p < c

\* The favourites below c: by its mark, or by its id if it is not marked.
MarkedBelow(p, c) ==
    IF marks[c] > 0 THEN marks[p] < marks[c] \/ (marks[p] = marks[c] /\ p < c)
    ELSE p < c

\* max_id, exclusive; 0 stands for none. Every other timeline is cut by the id.
Below(p, c) == c = 0 \/ (IF view \in MarkViews THEN MarkedBelow(p, c) ELSE p < c)

\* min_id, of the timelines that have it.
Above(p) ==
    view \in {"home", "account", "pinned"} \cup IdViews => p > reader.min

\* The first n rows of S, or all of them, as they are listed.
FirstRows(S, n) ==
    [i \in 1..(IF Cardinality(S) <= n THEN Cardinality(S) ELSE n) |->
        CHOOSE p \in S : Cardinality({q \in S : Before(q, p)}) = i - 1]

Page(c, size) == FirstRows({p \in Rows : Below(p, c) /\ Above(p)}, size)

-----------------------------------------------------------------------------
(* What the histories follow.                                              *)

\* p with all it replies to, directly or not.
Conversation(p) ==
    LET up[q \in 0..Len(row)] == IF q = 0 THEN {} ELSE {q} \cup up[row[q].parent]
    IN  up[p]

\* The statuses of the muted conversations, where nothing above them is missing.
Silenced == {p \in standing : /\ Conversation(p) \subseteq standing
                              /\ Conversation(p) \cap muted # {}}

-----------------------------------------------------------------------------
(* A page.                                                                 *)

HidesMuted == view \notin {"account", "pinned", "notifications"}

\* The filters of account_statuses: exclude_replies, pinned.
Keeps(p) == /\ view = "account" => row[p].parent = 0
            /\ view = "pinned" => p \in pins

\* The least of limit * Overfetch and MaxFetch, where rows may be dropped.
FetchSize(mutes) ==
    LET limit == reader.limit
        most == IF limit * Overfetch < MaxFetch THEN limit * Overfetch ELSE MaxFetch
    IN  IF mutes # {} \/ view \in {"account", "pinned"} THEN most ELSE limit

\* The client asks for what is below the last row it has.
Ask ==
    /\ reader.at = "rest" /\ ~reader.done
    /\ reader' = [reader EXCEPT !.at = "begin", !.below = reader.cursor,
                                !.found = <<>>, !.kept = <<>>]
    /\ silent' = Silenced
    /\ UNCHANGED <<view, tables, moved, changes>>

\* collect_visible_statuses begins: get_muted_thread_uris.
ReadMutes ==
    /\ reader.at = "begin"
    /\ LET mutes == IF HidesMuted THEN muted ELSE {}
       IN  reader' = [reader EXCEPT !.at = "fetch", !.mutes = mutes,
                                    !.size = FetchSize(mutes)]
    /\ UNCHANGED <<view, tables, moved, changes>>

\* One query. Where nothing is to be dropped, its rows are the page.
Fetch ==
    /\ reader.at = "fetch"
    /\ LET rows == Page(reader.below, reader.size)
           whole == reader.mutes = {} /\ view \notin {"account", "pinned"}
       IN  reader' =
             IF whole THEN [reader EXCEPT !.found = rows, !.at = "found"]
             ELSE [reader EXCEPT !.rows = rows,
                                 !.short = Len(rows) < reader.size,
                                 !.at = IF rows = <<>> THEN "found" ELSE "filter"]
    /\ UNCHANGED <<view, tables, moved, changes>>

\* The next row of the query: dropped or kept. The page is full, or the query
\* was the last one, or there is another one below its last row.
Filter ==
    /\ reader.at = "filter"
    /\ LET p == Head(reader.rows)
           shown == RootOf(p) \notin reader.mutes /\ Keeps(p)
           found == IF shown THEN Append(reader.found, p) ELSE reader.found
           rest == Tail(reader.rows)
       IN  reader' = [reader EXCEPT
               !.found = found,
               !.rows = rest,
               !.below = IF rest = <<>> THEN p ELSE reader.below,
               !.at = IF Len(found) >= reader.limit THEN "found"
                      ELSE IF rest # <<>> THEN "filter"
                      ELSE IF reader.short THEN "found" ELSE "fetch"]
    /\ UNCHANGED <<view, tables, moved, changes>>

\* The client has the rows, and is done when there are fewer than it asked for.
Answered(rows) ==
    [reader EXCEPT
        !.at = "rest",
        !.found = rows,
        !.shown = reader.shown \o rows,
        !.cursor = IF rows = <<>> THEN reader.cursor ELSE Last(rows),
        !.done = Len(rows) < reader.limit]

Answer ==
    /\ reader.at = "found" /\ view # "listNone"
    /\ reader' = Answered(reader.found)
    /\ UNCHANGED <<view, tables, moved, changes>>

IsNoReply(p) == row[p].parent = 0

\* list_timeline of a list without replies drops them from the pages of the
\* service, which are in the order of the ids, and asks it for another one below
\* the last row of the one before.
AnswerWithoutReplies ==
    /\ reader.at = "found" /\ view = "listNone"
    /\ LET page == reader.found
           roots == {p \in ToSet(page) : IsNoReply(p)}
           all == reader.kept \o FirstRows(roots, reader.limit)
           kept == IF Len(all) > reader.limit THEN SubSeq(all, 1, reader.limit) ELSE all
       IN  reader' = IF Len(kept) = reader.limit \/ Len(page) < reader.limit
                     THEN Answered(kept)
                     ELSE [reader EXCEPT !.kept = kept, !.found = <<>>,
                                         !.below = Last(page), !.at = "begin"]
    /\ UNCHANGED <<view, tables, moved, changes>>

Serve == ReadMutes \/ Fetch \/ Filter \/ Answer \/ AnswerWithoutReplies

-----------------------------------------------------------------------------
(* What happens meanwhile.                                                 *)

Change == /\ changes < MaxChanges /\ ~reader.done
          /\ changes' = changes + 1
          /\ UNCHANGED <<view, reader>>

\* A row whose mark is withdrawn while the client, or the request, reads on
\* below it.
Loses(p) == moved' = (moved \/ p \in {reader.cursor, reader.below}
                            \/ p \in ToSet(reader.rows) \cup ToSet(reader.found))

\* A status is posted, or fetched, or a notification made. The id and the time
\* are taken one after the other: in a world that is not in order a row may have
\* an earlier time than the one with the id before.
Post(r) ==
    /\ Change
    /\ Len(row) < MaxId
    /\ LET id == Len(row) + 1
       IN  /\ r.parent \in standing \cup {0}
           /\ \E time \in {2 * id} \cup (IF reader.ordered THEN {} ELSE {2 * id - 3}) :
                  row' = Append(row, [local |-> r.local, public |-> r.public,
                                      tagged |-> r.tagged, author |-> r.author,
                                      parent |-> r.parent, time |-> time])
           /\ standing' = standing \cup {id}
    /\ UNCHANGED <<marks, lastMark, pins, listed, muted, moved>>

\* The rows of other tables go with it.
Erase(p) ==
    /\ Change
    /\ p \in standing
    /\ standing' = standing \ {p}
    /\ marks' = [marks EXCEPT ![p] = 0]
    /\ pins' = pins \ {p}
    /\ Loses(p)
    /\ UNCHANGED <<row, lastMark, listed, muted>>

Mute(p) ==
    /\ Change
    /\ HidesMuted /\ p \in standing
    /\ muted' = muted \cup {RootOf(p)}
    /\ UNCHANGED <<row, standing, marks, lastMark, pins, listed, moved>>

Unmute(p) ==
    /\ Change
    /\ p \in standing /\ RootOf(p) \in muted
    /\ muted' = muted \ {RootOf(p)}
    /\ UNCHANGED <<row, standing, marks, lastMark, pins, listed, moved>>

\* Within the second of the last one, or later.
Mark(p) ==
    /\ Change
    /\ view \in MarkViews /\ p \in standing /\ marks[p] = 0
    /\ lastMark' \in {lastMark, lastMark + 1} \ {0}
    /\ marks' = [marks EXCEPT ![p] = lastMark']
    /\ UNCHANGED <<row, standing, pins, listed, muted, moved>>

Unmark(p) ==
    /\ Change
    /\ view \in MarkViews /\ marks[p] > 0
    /\ marks' = [marks EXCEPT ![p] = 0]
    /\ Loses(p)
    /\ UNCHANGED <<row, standing, lastMark, pins, listed, muted>>

Pin(p) ==
    /\ Change
    /\ view = "pinned" /\ p \in standing /\ row[p].local
    /\ pins' = IF p \in pins THEN pins \ {p} ELSE pins \cup {p}
    /\ UNCHANGED <<row, standing, marks, lastMark, listed, muted, moved>>

\* add_accounts_to_list: all of them or none.
AddToList(authors) ==
    /\ Change
    /\ view \in {"list", "listNone"}
    /\ listed' = listed \cup authors
    /\ UNCHANGED <<row, standing, marks, lastMark, pins, muted, moved>>

RemoveFromList(authors) ==
    /\ Change
    /\ view \in {"list", "listNone"}
    /\ listed' = listed \ authors
    /\ UNCHANGED <<row, standing, marks, lastMark, pins, muted, moved>>

Authors == {r.author : r \in NewRows}

Meanwhile ==
    \/ \E r \in NewRows : Post(r)
    \/ \E p \in Ids : \/ Erase(p) \/ Mute(p) \/ Unmute(p)
                      \/ Mark(p) \/ Unmark(p) \/ Pin(p)
    \/ \E authors \in SUBSET Authors \ {{}} :
           AddToList(authors) \/ RemoveFromList(authors)

-----------------------------------------------------------------------------
\* What the timeline is to show.
Shows(p) == /\ p \in Rows /\ Above(p) /\ Keeps(p)
            /\ HidesMuted => RootOf(p) \notin muted
            /\ view = "listNone" => IsNoReply(p)

Resting(limit, min, ordered) ==
    [limit |-> limit, min |-> min, ordered |-> ordered, at |-> "rest", below |-> 0,
     found |-> <<>>, kept |-> <<>>, rows |-> <<>>, short |-> FALSE, mutes |-> {},
     size |-> 0, shown |-> <<>>, cursor |-> 0, done |-> FALSE]

TimelineInit ==
    /\ view \in Views
    /\ \E t \in Tables :
           /\ row = t.row /\ marks = t.marks /\ muted = t.muted
           /\ listed = t.listed /\ pins = t.pins
           /\ lastMark = Max(ToSet(marks))
    /\ standing = Ids
    /\ \E limit \in Limits, min \in {0, 1}, ordered \in BOOLEAN :
           /\ ordered => \A p \in Ids : row[p].time = 2 * p
           /\ reader = Resting(limit, min, ordered)
    /\ stayed = {p \in Ids : Shows(p)}
    /\ silent = {}
    /\ moved = FALSE
    /\ changes = 0

\* The histories follow every step.
TimelineNext ==
    /\ \/ Ask
       \/ (Serve \/ Meanwhile) /\ silent' = silent \cap Silenced'
    /\ stayed' = {p \in stayed : Shows(p)'}

TimelineSpec == TimelineInit /\ [][TimelineNext]_timelineVars

-----------------------------------------------------------------------------
(* Properties.                                                             *)

\* The order of the rows is the order of the cut: rows that are listed by their
\* time were made in the order of their ids.
IsOneOrder == reader.ordered \/ view \notin TimeViews

\* A client that reads until a page is short has seen all that was in the
\* timeline all the time, whatever came, went, or was hidden between and within
\* its pages.
NothingIsMissed ==
    reader.done /\ IsOneOrder /\ ~moved => stayed \subseteq ToSet(reader.shown)

\* It has seen nothing twice.
NothingTwice == IsOneOrder /\ ~moved => IsInjective(reader.shown)

\* A page has nothing of a conversation that has been muted since before it was
\* asked for.
MutedIsHidden ==
    reader.at = "found" /\ HidesMuted => silent \cap ToSet(reader.found) = {}
=============================================================================
