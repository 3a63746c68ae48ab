--------------------------- MODULE MCOwnStatuses ---------------------------
(* Instances of OwnStatuses for TLC. *)
EXTENDS OwnStatuses, TLC

CONSTANTS r1, r2, r3, old, new, m1, m2, a, b, tag, yes, no

Request(k, s, t, w, ms, p, c) ==
    [kind |-> k, status |-> s, text |-> t, warning |-> w, media |-> ms, poll |-> p, choice |-> c]

Edit(s, t, w, ms) == Request("edit", s, t, w, ms, None, {})

FirstText == [s \in Statuses |-> IF s = old THEN [text |-> a, warning |-> None] ELSE None]

\* Only b has a hashtag.
TagOfB == [t \in Texts |-> IF t = b THEN {tag} ELSE {}]

\* Uploads of two attachments, a post that claims one and a post with a poll, a
\* ballot of one choice and of two, edits of each field, and deletions.
AllOps ==
    {Request("upload", old, None, None, {m}, None, {}) : m \in Media}
    \cup {Request("create", new, a, None, {m1}, None, {})}
    \cup {Request("create", new, a, None, {}, p, {}) : p \in PollKinds}
    \cup {Request("vote", new, None, None, {}, None, c) : c \in {{yes}, {no}, Options}}
    \cup {Edit(old, b, None, None), Edit(old, None, b, None), Edit(old, b, None, {m1}),
          Edit(old, None, None, {m2}), Edit(old, None, None, {}), Edit(new, b, a, {m2})}
    \cup {Request("delete", s, None, None, {}, None, {}) : s \in Statuses}

AllModes == {{}, {"serial"}, {"faulty"}, {"serial", "faulty"}}

Symmetry == Permutations(Requests)
=============================================================================
