------------------------------ MODULE MCInbox ------------------------------
(* The two halves of the inbox, which share no state: a behaviour is about *)
(* the followers, as in FollowHandshake, or about everything else.         *)
(* There two actors of a domain each deliver; a1 wrote p1, mentions the    *)
(* owner in a reply, and deletes p1, which a2 tries as well.               *)
EXTENDS MCFollowHandshake, Inbox

CONSTANTS d1, d2, a2, p1, r1, r2, r3, r4

VARIABLE half

TwoDomains == (a1 :> d1) @@ (a2 :> d2)
ByA1       == p1 :> a1

Says(type, actor, post, mentions, replies) ==
    [type |-> type, actor |-> actor, post |-> post, mentions |-> mentions,
     replies |-> replies]

Offers(offered, signed, most, tracked) ==
    [offered |-> offered, signed |-> signed, most |-> most, tracked |-> tracked]

ByWorld == ({"calm", "keeps"} :> Offers({"post", "delete", "other"}, 3, 3, 1)) @@
           ({"foul"}          :> Offers({"answer", "post"}, 2, 2, 2)) @@
           ({"blocks"}        :> Offers({"post", "answer"}, 2, 2, 2)) @@
           ({}                :> Offers({"like", "boost", "update"}, 2, 4, 2))

AllWorlds == DOMAIN ByWorld

Interchangeable == Permutations({r1, r2, r3, r4}) \cup Symmetry

Said == ("post"   :> Says("Create", a1, p1, FALSE, FALSE)) @@
        ("answer" :> Says("Create", a1, Own, TRUE, TRUE)) @@
        ("delete" :> Says("Delete", a1, p1, FALSE, FALSE)) @@
        ("other"  :> Says("Delete", a2, p1, FALSE, FALSE)) @@
        ("like"   :> Says("Like", a2, Own, FALSE, FALSE)) @@
        ("boost"  :> Says("Announce", a2, Own, FALSE, FALSE)) @@
        ("update" :> Says("Update", a2, Own, FALSE, FALSE))

-----------------------------------------------------------------------------
InboundInit ==
    /\ half \in {"followers", "rest"}
    /\ Init /\ InboxInit
    /\ half = "followers" => world = {}
    /\ half = "rest" => software = [ordered |-> TRUE, undo |-> "id"]

InboundNext ==
    /\ UNCHANGED half
    /\ \/ half = "followers" /\ Next /\ UNCHANGED inboxVars
       \/ half = "rest" /\ InboxNext /\ UNCHANGED vars

InboundSpec == InboundInit /\ [][InboundNext]_<<half, vars, inboxVars>>
=============================================================================
