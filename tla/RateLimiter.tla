----------------------------- MODULE RateLimiter -----------------------------
(***************************************************************************)
(* The limiter in front of the federation inboxes                          *)
(* (src/src/federation/rate_limit.rs, RateLimiter; called by both inbox    *)
(* handlers of src/src/api/activitypub.rs with the domain of the actor).   *)
(*                                                                         *)
(* Each domain has an entry with a count and the start of its window.  A   *)
(* window starts with the first request after the last one expired.  The   *)
(* whole of check_and_increment holds the write lock, so it is one step.   *)
(* Who is let through when is for Inbox.tla to say; prune_old is called by *)
(* nobody.                                                                 *)
(***************************************************************************)
EXTENDS Naturals, Sequences, FiniteSets

CONSTANTS
    Domains,      \* the keys requests are counted under
    MaxRequests,  \* max_requests, 100 by default
    Window,       \* window_duration
    Limits,       \* the values max_tracked_keys may have; 0 is taken for 1
    MaxTime,      \* bound: the last instant of the clock
    MaxAdmitted   \* bound: requests let through

\* A domain has at most 253 characters: there are finitely many, so that the
\* size of a table of them is a number.
ASSUME RateLimiterAssumption ==
    /\ IsFiniteSet(Domains)
    /\ MaxRequests \in Nat \ {0} /\ Window \in Nat \ {0}
    /\ Limits \subseteq Nat \ {0}
    /\ MaxTime \in Nat /\ MaxAdmitted \in Nat

VARIABLES
    maxTracked,  \* max_tracked_keys of this limiter
    entries,     \* the entry of each tracked domain
    now,         \* the monotonic clock
    admitted     \* history: every request let through, in order

Entry == [count : Nat, start : 0..MaxTime]

\* Room is made before an entry is added, so the table stays within its limit.
LimiterTypeOK ==
    /\ maxTracked \in Limits
    /\ DOMAIN entries \subseteq Domains
    /\ Cardinality(DOMAIN entries) <= maxTracked
    /\ \A d \in DOMAIN entries : entries[d] \in Entry
    /\ now \in 0..MaxTime
    /\ admitted \in Seq([domain : Domains, at : 0..MaxTime])

\* with_max_tracked_keys.
LimiterInit ==
    /\ maxTracked \in Limits
    /\ entries = <<>>
    /\ now = 0
    /\ admitted = <<>>

-----------------------------------------------------------------------------
\* With a bug: a window ends one instant early.
IsNewWindowEarly(e) == now + 1 - e.start >= Window

\* is_new_window: a window has ended once its length has gone by.
IsNewWindow(e) == now - e.start >= Window

Only(f, S) == [d \in S |-> f[d]]

\* prune_expired_locked.
Live == Only(entries, {d \in DOMAIN entries : ~IsNewWindow(entries[d])})

\* evict_oldest_locked: one of the entries with the earliest start goes.
Oldest(f) == {d \in DOMAIN f : \A o \in DOMAIN f : f[d].start <= f[o].start}

\* The table after room was made for domain d.
WithRoom(d) ==
    IF d \in DOMAIN entries \/ Cardinality(DOMAIN entries) < maxTracked
    THEN {entries}
    ELSE IF Cardinality(DOMAIN Live) < maxTracked
    THEN {Live}
    ELSE {Only(Live, DOMAIN Live \ {o}) : o \in Oldest(Live)}

\* The entry of d, a new one if it has none.
EntryOf(f, d) == IF d \in DOMAIN f THEN f[d] ELSE [count |-> 0, start |-> now]

\* increment.
Increment(e) == IF IsNewWindow(e) THEN [count |-> 1, start |-> now]
                                  ELSE [e EXCEPT !.count = @ + 1]

Put(f, d, e) == [o \in DOMAIN f \cup {d} |-> IF o = d THEN e ELSE f[o]]

Full(e) == ~IsNewWindow(e) /\ e.count >= MaxRequests

\* check_and_increment lets a request of d through.
Admit(d) ==
    /\ Len(admitted) < MaxAdmitted
    /\ \E f \in WithRoom(d) :
          /\ ~Full(EntryOf(f, d))
          /\ entries' = Put(f, d, Increment(EntryOf(f, d)))
    /\ admitted' = Append(admitted, [domain |-> d, at |-> now])
    /\ UNCHANGED <<now, maxTracked>>

\* check_and_increment returns RateLimited.
Refuse(d) ==
    /\ \E f \in WithRoom(d) :
          /\ Full(EntryOf(f, d))
          /\ entries' = Put(f, d, EntryOf(f, d))
    /\ UNCHANGED <<maxTracked, now, admitted>>

Tick ==
    /\ now < MaxTime
    /\ now' = now + 1
    /\ UNCHANGED <<maxTracked, entries, admitted>>

-----------------------------------------------------------------------------
(* Properties.                                                             *)

\* How many requests of d were let through from one instant to another.
Through(d, from, to) ==
    Cardinality({i \in DOMAIN admitted :
        admitted[i].domain = d /\ from <= admitted[i].at /\ admitted[i].at <= to})

\* While every domain can be tracked, a stretch of one Window, which two windows of
\* the limiter may share, lets through fewer than two windows' worth of a domain's
\* requests: the request that opened the earlier of them lies before it.
TwoWindowBound ==
    Cardinality(Domains) <= maxTracked =>
        \A d \in Domains, t \in 0..MaxTime :
            Through(d, t, t + Window - 1) < 2 * MaxRequests

==============================================================================
